CONSTANTS
  Main = Main
  None = None
  Versions <- ContendingVersions
  Tls13 = 772
  Suites <- MCSuites
  ForVersion <- ContendingForVersion
  Rank <- MCRank
  ForwardSecret = {2, 3}
  Groups = {"weak", "strong"}
  SignatureAlgorithms = {"bad", "old", "fine"}
  BadHash = {"bad"}
  PhaseOutHash = {"old"}
  Concurrency = 2
  MaxConnections = 4
  RetryLimit = 1
  Policies = {"any"}
  Answers <- YesOrNo
  Sessions = {"session"}
SPECIFICATION FairSpec
INVARIANTS
  TypeOK
  FlightOrReason
  BudgetRespected
  ConcurrencyRespected
  ReadAfterJoin
PROPERTIES ProbeReturns SurveyKept
