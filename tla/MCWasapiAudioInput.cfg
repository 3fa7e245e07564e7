\* One thread samples; the endpoint holds as much as a frame asks for, so that
\* a drain may find the buffer almost half full.
SPECIFICATION FairSpec
CONSTANTS
  Callers = {t}
  Frames = 3
  FrameSize = 3
  Needs = {1, 2, 3}
  MaxBurst = 2
INVARIANTS TypeOK BufferInv
PROPERTIES NoDropWithoutBurst ImplementsAudioSource
           SampleReturns ChangeIsReported
