CONSTANTS
  None = None
  Tls13 = 772
  FiniteFieldSuites = {158}
  Scripts <- MCScripts
  SessionStates <- MCSessionStates
  SessionScripts <- MCSessionScripts
  OpenableSuites = {"aes"}
  Hellos <- MCHellos
SPECIFICATION HandshakeSpec
INVARIANTS
  AnswerAsMeant
  AnswerNeverInvented
  NoTimeoutForWholeFlight
  OfferNeverInvented
  WholeStreamRight
  HelloReadsBack
  PastMiddleboxes
PROPERTY AnswerWhole
