\* Two threads sample the same input.
SPECIFICATION Spec
CONSTANTS
  Callers = {t, u}
  Frames = 2
  FrameSize = 2
  Needs = {1, 2}
  MaxBurst = 1
INVARIANT CopyHasEnough
