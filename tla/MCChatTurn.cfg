\* A plain and a streaming request that overlap, up to two iterations.
SPECIFICATION FairSpec
CONSTANTS
  Request = {r1, r2}
  Streaming = {r2}
  Window = 4
  MaxToolIterations = 2
  MaxCalls = 1
  Title = {t1}
  None = None
  Earlier = Earlier
INVARIANTS TypeOK TurnsAreWhole ContextsHoldWholeTurns DoneIsComplete
PROPERTIES ImplementsTurnStore RenamesSurvive AbandonedStoresNothing StreamEnds
CHECK_DEADLOCK FALSE
