SPECIFICATION PeersSpec
CONSTANTS
  a = a
  b = b
  Client = {a, b}
  Port = {1}
  Dialer = {a}
  Listener = {b}
  Agent = {b}
  Faulty = {a}
  Service = {0, 1}
  NORN_SVC_DEFAULT = 0
  NORN_MAX_SERVICES = 1
  STREAMMUX_MAX = 1
  MaxSessions = 3
  MaxKeys = 3
  MaxOpens = 1
  Pubkey = {"s", "p"}
  Self = "s"
  Caps <- SomeCaps
  Endpoint = {1, 2}
  NORN_ENDPOINT_CACHE_SIZE = 2
  TTL = 1
  NORN_MAX_TRANSACTIONS = 1
  NORN_TRANSACTION_TIMEOUT = 1
  HOLEPUNCH_PENDING = 1
  EXT_MAX_VOTES = 2
  EXT_CONFIRM_THRESHOLD = 2
  MaxDial = 2
  MaxClock = 2
  MaxMoves = 3
  n1 = n1
  n2 = n2
  lock = lock
  Node = {n1, n2}
  NoNode = NoNode
  Key = {lock}
  Lock = lock
  Empty = Empty
  Unchecked = Unchecked
  Value = {n1, n2, Empty}
  Capacity = 1
  MaxSubmits = 4
  RAFT_MAX_LOG = 3
CHECK_DEADLOCK FALSE
INVARIANTS ResponderAgrees InitiatorHasPeer OneInboundPerPeer StreamsAgree ToldOnce EndpointCorroborated OwnerExclusive
