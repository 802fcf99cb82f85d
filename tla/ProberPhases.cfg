CONSTANTS
  Main = Main
  None = None
  Versions <- PhaseVersions
  Tls13 = 772
  Suites <- MCSuites
  ForVersion <- PhaseForVersion
  Rank <- MCRank
  ForwardSecret = {2, 3}
  Groups = {"weak", "strong"}
  SignatureAlgorithms = {"bad", "old", "fine"}
  BadHash = {"bad"}
  PhaseOutHash = {"old"}
  Concurrency = 1
  MaxConnections = 9
  RetryLimit = 0
  Policies = {"any"}
  Answers <- AnyAnswer
  Sessions = {"session"}
SPECIFICATION Spec
INVARIANTS
  ExhaustionReported
  SuitesListedOnce
PROPERTIES GapsMarked ResultsOnlyGrow SurveyKept
