SPECIFICATION Spec
CONSTANTS
  Keys = {k1}
  Procs = {p1, p2, p3}
  None = None
  SlamDefense = FALSE
  Threads = FALSE
  Prompt = FALSE
  Ttl = 1
  SlamTtl = 1
  MaxClock = 2
  MaxHits = 1
SYMMETRY Symmetry
CHECK_DEADLOCK FALSE
INVARIANTS TypeOK ServedWithinTtl
