SPECIFICATION FairSpec
CONSTANTS
  Calls = {c1, c2}
  HttpClients = {1, 2}
  MaxAttempts = 2
  Retryable <- RetryableDef
  Kinds = {"atomicmemory", "mem0", "hindsight"}
  None = None
INVARIANTS AnswerTellsCopies GoneMeansGone DeferredInference HandleIsOnClient
PROPERTY CallsReturn
CHECK_DEADLOCK FALSE
