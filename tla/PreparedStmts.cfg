SPECIFICATION PsSpec
CONSTANTS
  Keys = {psel, pupd, pconst, sel, upd}
  PsKeys = {psel, pupd, pconst}
  Data = {d1, d2, d3, d4}
  None = None
  Results <- MCResults
  SlamDefense = FALSE
  DataCopy = FALSE
  RefMod = 5
  c1 = c1
  c2 = c2
  s1 = s1
  s2 = s2
  s3 = s3
  Conns = {c1, c2}
  Stmts = {s1, s2, s3}
  Owner <- MCOwner
  Cacheable = {psel, pconst, sel}
  ResultSets = {psel, pconst, sel}
  Multi = {}
  NoTable = {pconst}
  Accepted = {}
  Uses = {}
  Ttl = 1
  MaxClock = 1
  MaxSends = 1
SYMMETRY Symmetry
CHECK_DEADLOCK FALSE
INVARIANTS PsReadsOwnAnswer PsNoUseAfterFree CachesWholeResult LentToStatements RowsOnTheirWay
