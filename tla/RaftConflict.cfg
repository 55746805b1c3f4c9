SPECIFICATION Spec
CONSTANTS
  n1 = n1
  n2 = n2
  n3 = n3
  Node = {n1, n2, n3}
  Voters = {n1, n2, n3}
  Candidates = {n1, n2}
  c = c
  Command = {c}
  NOOP = NOOP
  NoNode = NoNode
  RAFT_MAX_LOG = 2
  RAFT_MAX_BATCH = 2
  MaxTerm = 3
  MaxInFlight = 1
  StaleReplies = {}
VIEW LiveState
SYMMETRY CandidateSymmetry
CHECK_DEADLOCK FALSE
INVARIANTS LogMatching AppliedNotTruncated LeaderCompleteness MatchIndexIsTrue
PROPERTY ImplementsLog
