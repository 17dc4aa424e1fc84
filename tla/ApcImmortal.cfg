SPECIFICATION Spec
CONSTANTS
  Keys = {k1}
  Procs = {p1}
  None = None
  SlamDefense = FALSE
  Threads = FALSE
  Prompt = TRUE
  Ttl = 1
  SlamTtl = 1
  MaxClock = 3
  MaxHits = 2
SYMMETRY Symmetry
CHECK_DEADLOCK FALSE
INVARIANTS ExpiredIsGone

