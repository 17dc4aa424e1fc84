SPECIFICATION TraceSpec
CONSTANTS
  Keys = {sel, upd, const}
  Data = {d1, d2, d3}
  None = None
  Results <- MCResults
  SlamDefense = TRUE
  DataCopy = FALSE
  RefMod = 5
  Conns = {c1, c2}
  Cacheable = {sel, const}
  ResultSets = {sel, const}
  Multi = {}
  NoTable = {const}
  Accepted = {}
  Uses = {}
  Ttl = 1
  MaxClock = 2
  MaxSends = 4
  MaxMulti = 1
  ReplayTimes = {1}
  ServerTimes = {2}
SYMMETRY Symmetry
INVARIANTS TypeOK AnswerOnItsWay StatementsReachServer LentToReplays NothingLeaks OutcomesAddUp LogsAgree TraceMatchesStatistics
PROPERTIES ImplementsStdCache
