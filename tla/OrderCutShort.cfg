CONSTANTS
  Main = Main
  None = None
  Versions <- MCVersions
  Tls12 = 771
  Tls13 = 772
  Suites <- MCSuites
  ForVersion <- MCForVersion
  Rank <- MCRank
  ForwardSecret <- MCForwardSecret
  FiniteField <- MCFiniteField
  Groups = {21}
  SignatureAlgorithms = {"bad", "old", "fine"}
  BadHash = {"bad"}
  PhaseOutHash = {"old"}
  Concurrency = 1
  MaxConnections = 9
  RetryLimit = 0
  Policies <- MCPolicies
  Answers <- HonestAnswers
  Sessions <- MCSessions
  VersionRules <- MCVersionRules
  SuiteCategory <- MCSuiteCategory
  GroupCategory <- MCGroupCategory
  MinimumPrimeBits = 2048
  MinLevel = "none"
  ExitCode = TRUE
SPECIFICATION ScanSpec
INVARIANT OrderPassEarned
