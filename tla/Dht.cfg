SPECIFICATION DhtSpec
CONSTANTS
  Id = {0, 1, 2, 3, 4}
  Addr = {1, 2, 3, 4, 5}
  Overlays <- AllOverlays
  LOOK_MAX_CAND = 4
  LOOK_ALPHA = 2
  LOOK_K = 2
  ServeMax = 3
  None = None
  Self = "self"
  Senders <- Crowded
  Ip = {1, 2, 3, 4}
  Subnet <- Nets
  NoIp = 0
  InfoHash = {"h", "g"}
  Records <- Signed
  MAINLINE_MAX_NODES = 2
  MAINLINE_MAX_PER_SUBNET = 1
  MAINLINE_MAX_TRANSACTIONS = 1
  MAINLINE_TRANSACTION_TIMEOUT = 1
  MAINLINE_SERVE_HASHES = 1
  MAINLINE_SERVE_PEERS = 1
  TOKEN_EPOCH = 1
  DHTSTORE_PER_IP = 1
  DHTSTORE_MAX = 2
  DHTSTORE_TTL = 1
  g_budget = 3
  MaxAge = 1
  SaveMax = 2
  MaxTime = 2
  MaxSteps = 5
  Account = {"a", "b", "c"}
  RecSeq = {1, 2, 3}
  RECSTORE_MAX = 2
  MaxStarts = 3
  REPLAY_SLOTS = 2
  Window = 2
  MaxFlights = 3
  MaxSecrets = 2
  MaxSeconds = 4
  MaxOpened = 5
CHECK_DEADLOCK FALSE
INVARIANTS TokensOwn LookupComplete OneAnswerPerQuery PeersHadToken BytesCounted RecordsSound EarlyDataOnce
PROPERTY PreferredStay
