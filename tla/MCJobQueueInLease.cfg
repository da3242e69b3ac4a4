\* Safety when every handler ends within its lease.
SPECIFICATION Spec
CONSTANTS
  w1 = w1
  w2 = w2
  c1 = c1
  c2 = c2
  Worker = {w1, w2}
  Conversation = {c1, c2}
  Job = {1, 2, 3}
  NoJob = NoJob
  NoConversation = NoConversation
  MaxAttempts = 2
  MaxCrashes = 1
  SlowHandlers = FALSE
SYMMETRY MCSymmetry
INVARIANT ClaimIsExclusive
PROPERTIES DoneIsFinal ImplementsLifecycle
