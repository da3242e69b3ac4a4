\* Finding: a stale job next to a pending one of the same conversation.
SPECIFICATION FairSpec
CONSTANTS
  w1 = w1
  w2 = w2
  c1 = c1
  c2 = c2
  Worker = {w1, w2}
  Conversation = {c1}
  Job = {1, 2}
  NoJob = NoJob
  NoConversation = NoConversation
  MaxAttempts = 2
  MaxCrashes = 1
  SlowHandlers = FALSE
PROPERTY StaleIsReclaimed
