SPECIFICATION Spec
CONSTANTS
  Keys = {k1, k2}
  Procs = {p1, p2}
  Answers <- MCAnswers1
  None = None
  Rowids = {r1, r2, r3}
  Ttls = {0, 1}
  Faults = TRUE
  MaxClock = 2
  MaxHits = 1
INVARIANTS OneRow
PROPERTIES ImplementsResultCache
SYMMETRY Symmetry
