SPECIFICATION Spec
CONSTANTS
  n1 = n1
  n2 = n2
  n3 = n3
  Node = {n1, n2, n3}
  Voters = {n1, n2, n3}
  Candidates = {n1, n2}
  Command = {c}
  c = c
  NOOP = NOOP
  NoNode = NoNode
  RAFT_MAX_LOG = 3
  RAFT_MAX_BATCH = 1
  MaxTerm = 3
  MaxInFlight = 1
  StaleReplies = {}
VIEW ReplicaState
CHECK_DEADLOCK FALSE
INVARIANT StateMachineSafety
