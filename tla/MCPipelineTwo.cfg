SPECIFICATION FairSpec
CONSTANTS
  Worker = {w1, w2}
  Chat = {r1}
  Job = {1, 2, 3}
  ThisConversation = conv
  NoJob = NoJob
  NoConversation = NoConversation
  MaxAttempts = 2
  MaxCrashes = 0
  SlowHandlers = FALSE
  Window = 3
  Trigger = 4
  TurnSize = {2}
  Reply = {"text"}
  MaxTurns = 4
PROPERTY AgedOutGetsFolded
