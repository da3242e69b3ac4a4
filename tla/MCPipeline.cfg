\* One runner, two requests that overlap; leads-to, so no symmetry.
SPECIFICATION FairSpec
CONSTANTS
  Worker = {w1}
  Chat = {r1, r2}
  Job = {1, 2, 3}
  ThisConversation = conv
  NoJob = NoJob
  NoConversation = NoConversation
  MaxAttempts = 2
  MaxCrashes = 1
  SlowHandlers = TRUE
  Window = 2
  Trigger = 3
  TurnSize = {2}
  Reply = {"text"}
  MaxTurns = 3
INVARIANT GapIsAttendedTo
PROPERTY GapCloses
