\* Finding: an exhausted stale job with nothing else pending.
SPECIFICATION FairSpec
CONSTANTS
  w1 = w1
  w2 = w2
  c1 = c1
  c2 = c2
  Worker = {w1, w2}
  Conversation = {c1}
  Job = {1}
  NoJob = NoJob
  NoConversation = NoConversation
  MaxAttempts = 1
  MaxCrashes = 1
  SlowHandlers = FALSE
PROPERTY ExhaustedBecomesFailed
