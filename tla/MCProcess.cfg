\* Five places for queues: two alive, two that a connection of an earlier run()
\* refers to, and one for the next run() after one that threw in between.
\* The process ends, one way or another.
SPECIFICATION Spec
CONSTANTS
  Queues = {q1, q2, q3, q4, q5}
  None = None
SYMMETRY Symmetry
INVARIANTS TypeOK QueuesFollowServer ConnectionSeesQueues ComBalanced
           NoSilentFallback ExitCodeTellsWhy
CHECK_DEADLOCK FALSE
