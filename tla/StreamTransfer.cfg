SPECIFICATION Spec
CONSTANTS
  a = a
  b = b
  End = {a, b}
  Writers = {a}
  MaxBytes = 3
  STREAM_SEG_PAYLOAD = 1
  STREAM_WIN_MAX = 2
  STREAM_IW = 2
  STREAM_SSTHRESH_MIN = 1
  STREAM_DUPACK_THRESH = 2
  SackBits = 1
  NoSeg = NoSeg
  ClockRuns = TRUE
  MaxInFlight = 2
CHECK_DEADLOCK FALSE
INVARIANTS SlotsSound AckedIsHeld TimerGuardsWindow DoneIsTrue
PROPERTIES ImplementsPipe
