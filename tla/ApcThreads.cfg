SPECIFICATION Spec
CONSTANTS
  Keys = {k1}
  Procs = {p1, p2, p3}
  None = None
  SlamDefense = TRUE
  Threads = TRUE
  Prompt = TRUE
  Ttl = 1
  SlamTtl = 1
  MaxClock = 4
  MaxHits = 2
SYMMETRY Symmetry
CHECK_DEADLOCK FALSE
INVARIANTS OneRefresher HitsCountFinds
