\* The loop with two mutations, two remote changes and two faults; a session with
\* two requests; two callers that ask for tokens in two sessions.
SPECIFICATION MCSpec
CONSTANTS
  Requests = {q1, q2}
  Hello = hello
  Beat = beat
  None = None
  RequestTimeout = 2
  HeartbeatInterval = 3
  HeartbeatTimeout = 1
  c1 = c1
  c2 = c2
  v1 = v1
INVARIANTS
  LoopAwake
  
PROPERTIES
  CatchesUp
CHECK_DEADLOCK FALSE
