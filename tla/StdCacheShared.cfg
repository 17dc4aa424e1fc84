SPECIFICATION FairSpec
CONSTANTS
  Keys = {k1, k2}
  Data = {d1, d2, d3, d4}
  Clients = {c1, c2}
  None = None
  Results <- MCResults1
  Answers <- MCAnswers1
  SlamDefense = FALSE
  DataCopy = FALSE
  RequestTimers = {c1}
  RefMod = 4
  Ttls = {1}
  MaxClock = 2
INVARIANTS TypeOK SafeUnlessOrphaned ReferencesCountReaders NothingLeaksUnlessOrphaned PrivateData
PROPERTIES NoEarlyReplacement ImplementsResultCache ExpiredIsKilled
