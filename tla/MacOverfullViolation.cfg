\* Two callbacks under way on the concurrent queue.
SPECIFICATION Spec
CONSTANTS
  Callbacks = {c, d}
  Channels = 1
  RingSize = 2
  Packets = {2}
  Needs = {1}
  ReleasedAt = {"idle"}
  Saturation = 4
INVARIANT NotOverfull
CHECK_DEADLOCK FALSE
