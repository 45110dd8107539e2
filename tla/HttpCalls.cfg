SPECIFICATION Spec

CONSTANTS
  Calls = {"get", "post"}
  Gets = {"get"}
  KeepAlive = {"post"}
  FromUrl = {"get"}
  Handlers = {"post"}
  BindAttempts = 2
  MaxStarts = 2
  MaxFaults = 2
  NoCall = NoCall

INVARIANTS
  TypeOK
  ListensWhileRunning
  StaysResponsive
  ThreadEndsFirst
PROPERTIES
  HandlesOnce
  OwnerReturns
  CallsEnd

\* The owner may have destroyed the server, and all calls ended.
CHECK_DEADLOCK FALSE
