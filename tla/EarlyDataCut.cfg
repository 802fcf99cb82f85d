CONSTANTS
  None = None
  Tls13 = 772
  FiniteFieldSuites = {158}
  Scripts <- MCScripts
  SessionStates <- MCSessionStates
  SessionScripts <- MCSessionScripts
  OpenableSuites = {"aes"}
SPECIFICATION ConnectionSpec
INVARIANT NoOfferMeansNone
