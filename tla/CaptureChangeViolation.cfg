\* One thread samples without end.
SPECIFICATION FairSpec
CONSTANTS
  Callers = {t}
  Frames = 1
  FrameSize = 1
  Needs = {1}
  MaxBurst = 1
PROPERTY CaptureChangeReported
