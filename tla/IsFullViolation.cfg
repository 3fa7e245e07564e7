\* A ring for two elements.
SPECIFICATION Spec
CONSTANTS
  Producers = {p}
  Consumers = {c}
  Values = {a}
  MaxSpan = 1
  Spans <- MCSpans
  Maxes = {1}
  Capacities = {2}
  Default = Default
  MovedFrom = MovedFrom
  MoveEmpties = FALSE
  NoThread = NoThread
  Spurious = TRUE
  RecordEvents = FALSE
INVARIANT IsFullTellsTruth
