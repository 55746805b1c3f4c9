SPECIFICATION ForwardSpec
CONSTANTS
  MAX_CONN = 1
  bufsize = 2
  MaxConns = 2
  MaxSent = 3
CHECK_DEADLOCK FALSE
INVARIANT HalfCloseHonoured
