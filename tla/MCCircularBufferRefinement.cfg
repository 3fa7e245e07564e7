\* One producer and one consumer, two distinct elements, and rings of one,
\* two and three slots; spans and batches longer than the largest ring.
SPECIFICATION HSpec
CONSTANTS
  Producers = {p}
  Consumers = {c}
  Values = {a, b}
  MaxSpan = 3
  Spans <- MCSpans
  Maxes = {0, 1, 3}
  Capacities = {0, 1, 2}
  Default = Default
  MovedFrom = MovedFrom
  MoveEmpties = FALSE
  NoThread = NoThread
  Spurious = TRUE
  RecordEvents = TRUE
INVARIANTS TypeOK NoPhantomElement BatchFitsOut
PROPERTY ImplementsLossyFifo
