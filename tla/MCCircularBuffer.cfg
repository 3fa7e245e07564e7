\* Two consumers compete for what one producer pushes; a move empties its source.
SPECIFICATION FairSpec
CONSTANTS
  Producers = {p}
  Consumers = {c, d}
  Values = {a}
  MaxSpan = 2
  Spans <- MCSpans
  Maxes = {1, 2}
  Capacities = {0, 1, 2}
  Default = Default
  MovedFrom = MovedFrom
  MoveEmpties = TRUE
  NoThread = NoThread
  Spurious = TRUE
  RecordEvents = FALSE
INVARIANTS NoLostWakeup IInv
PROPERTIES StopReleases WaiterIsServed
