CONSTANTS
  None = None
  Tls13 = 772
  FiniteFieldSuites = {158}
  Scripts <- WarnedScripts
  SessionStates <- MCSessionStates
  SessionScripts <- MCSessionScripts
  OpenableSuites = {"aes"}
SPECIFICATION ConnectionSpec
PROPERTY WarningLosesNothing
