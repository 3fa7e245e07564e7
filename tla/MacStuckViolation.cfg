\* The owner destroys the input while the sampler sleeps.
SPECIFICATION FairSpec
CONSTANTS
  Callbacks = {c}
  Channels = 1
  RingSize = 2
  Packets = {1}
  Needs = {2}
  ReleasedAt = {"asleep"}
  Saturation = 4
PROPERTY NothingStuck
CHECK_DEADLOCK FALSE
