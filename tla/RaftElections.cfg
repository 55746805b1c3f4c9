SPECIFICATION Spec
CONSTANTS
  n1 = n1
  n2 = n2
  n3 = n3
  Node = {n1, n2, n3}
  Voters = {n1, n2, n3}
  Candidates = {n1, n2}
  Command = {}
  NOOP = NOOP
  NoNode = NoNode
  RAFT_MAX_LOG = 1
  RAFT_MAX_BATCH = 1
  MaxTerm = 2
  MaxInFlight = 2
  StaleReplies = {"append"}
VIEW LiveState
SYMMETRY CandidateSymmetry
CHECK_DEADLOCK FALSE
INVARIANTS TypeOK ElectionSafety
PROPERTY OneVotePerTerm
