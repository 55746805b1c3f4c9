SPECIFICATION NodeSpec
CONSTANTS
  k1 = k1
  k2 = k2
  k3 = k3
  a = a
  Empty = Empty
  Free = Free
  Key = {k1, k2, k3}
  Value = {a, Empty}
  Prefix <- SomePrefixes
  cap = 2
  KV_MAX_WATCH = 1
  Workloads <- MixedWorkloads
  Watched = {"k"}
  Held <- HeldRecords
  None = None
  MAX_CLIENTS = 2
  PUBQUEUE_MAX = 2
  PUBLOG_MAX = 2
  LOCALSTORE_MAX_ENTRIES = 1
  MaxEvents = 1
  MaxCrashes = 1
  Fetch = {1, 2, 3}
  Caller <- Callers
  Peer <- TwoPeers
  Request <- SomeRequests
  Local <- LocalKeys
  Object <- Blobs
  Room = 2
  Chunk = 2
  RX = 5
  MAX_SERVE = 2
  NoStream = NoStream
  Length = {0, 2, 3}
  NORND_FRAME_MAX = 2
  MAX_INBOUND = 1
  REDIAL_TICKS = 2
  Window = 5
  MaxFrames = 4
  MaxDials = 2
  MaxRestarts = 1
  MAX_CONN = 1
  bufsize = 2
  MaxConns = 2
  MaxSent = 3
CHECK_DEADLOCK FALSE
INVARIANTS WatchersKnow OwnFrames DrainedOnce LogSound FetchedIsServed FramesInOrder TunnelFaithful ServedToTheEnd
PROPERTY ImplementsMap
