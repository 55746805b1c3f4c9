SPECIFICATION LateSpec
CONSTANTS
  n1 = n1
  n2 = n2
  n3 = n3
  n4 = n4
  n5 = n5
  Node = {n1, n2, n3, n4, n5}
  Voters = {n1, n2, n3, n4, n5}
  Candidates = {n1, n3}
  c = c
  Command = {c}
  NOOP = NOOP
  NoNode = NoNode
  RAFT_MAX_LOG = 2
  RAFT_MAX_BATCH = 2
  MaxTerm = 4
  MaxInFlight = 3
  StaleReplies = {"append"}
VIEW LiveState
CHECK_DEADLOCK FALSE
INVARIANT LeaderCompleteness
