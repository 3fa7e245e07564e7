\* Three endpoints, two names that fit some and one that fits none; a number of
\* channels with a format, one without, one that the cast changes.  The process
\* may crash and stop.
SPECIFICATION Spec
CONSTANTS
  Endpoints <- MCEndpoints
  Sources = {65, 66, 67}
  Requests = {1, 2, 262}
INVARIANTS TypeOK OnlyThrowsLeak EventOutlivesClient FramesAreFloats
           ListIsExact FindIsExact
PROPERTY ListenerGoes
CHECK_DEADLOCK FALSE
