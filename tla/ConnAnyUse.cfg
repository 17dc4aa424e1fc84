SPECIFICATION Spec
CONSTANTS
  Keys = {sel, two, upd, rej, const}
  Data = {d1, d2, d3}
  None = None
  Results <- MCResults
  SlamDefense = FALSE
  DataCopy = TRUE
  RefMod = 5
  Conns = {c1, c2}
  Cacheable = {two}
  ResultSets = {sel, two, rej, const}
  Multi = {two}
  NoTable = {const}
  Accepted = {sel}
  Uses = {"async", "unbuffered", "close", "reconnect", "conditions", "faults"}
  Ttl = 1
  MaxClock = 1
  MaxSends = 3
SYMMETRY Symmetry
CHECK_DEADLOCK FALSE
INVARIANTS NoUseAfterFree ReadsOwnAnswer CachesWholeResult RecordsPrivately
