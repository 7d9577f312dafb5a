CONSTANTS
  Requests = {r1, r2}
  Executor = executor
  Nobody = Nobody
  MaxConnections = 2
  AmountsToSend = {4}
  Costs = {1, 4}
  Margin = 1
  MaxPanics = 1
  MaxInterrupts = 1
SPECIFICATION AnsweredSpec
INVARIANTS AllOrNothing OnlyCancelsStarve SignedIsPayable ExitTellsTruth KeyringOutlivesUsers
PROPERTIES EveryJobEnds ShutdownCompletes
CHECK_DEADLOCK FALSE
