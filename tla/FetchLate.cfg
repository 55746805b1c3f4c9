SPECIFICATION ServeSpec
CONSTANTS
  Fetch = {1, 2}
  Caller <- Callers
  Peer <- TwoPeers
  Request <- SomeRequests
  Local <- LocalKeys
  Object <- Blobs
  Room = 2
  Chunk = 2
  RX = 5
  MAX_SERVE = 2
  NoStream = NoStream
CHECK_DEADLOCK FALSE
INVARIANT FetchedFromPeer
