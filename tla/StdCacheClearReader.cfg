SPECIFICATION Spec
CONSTANTS
  Keys = {k1}
  Data = {d1, d2, d3, d4}
  Clients = {c1, c2, c3}
  None = None
  Results <- MCResults1
  Answers <- MCAnswers1
  SlamDefense = FALSE
  DataCopy = FALSE
  RequestTimers = {}
  RefMod = 4
  Ttls = {1}
  MaxClock = 3
INVARIANTS NoUseAfterFree
