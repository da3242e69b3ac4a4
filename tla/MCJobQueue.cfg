\* Everything that can go wrong: two runners, leases shorter than handlers, two
\* crashes, two conversations.  With liveness, so no symmetry.
SPECIFICATION FairSpec
CONSTANTS
  w1 = w1
  w2 = w2
  c1 = c1
  c2 = c2
  Worker = {w1, w2}
  Conversation = {c1, c2}
  Job = {1, 2}
  NoJob = NoJob
  NoConversation = NoConversation
  MaxAttempts = 2
  MaxCrashes = 2
  SlowHandlers = TRUE
INVARIANTS TypeOK OnePendingPerConversation NoClaimIsLost RetryBudget TransactionsIsolated
PROPERTIES FailedIsFinal ImplementsLifecycle PendingIsServed RetriableIsReclaimed
