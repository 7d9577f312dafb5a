CONSTANTS
  p1 = p1
  p2 = p2
  Orders <- TwoOrders
  Refused <- Second
  Keys <- OneKey
  Key = "secret"
  MaxAge = 1
  MaxRequests = 3
  Patience = 1
  MaxEvents = 3
  Faults = 2
SPECIFICATION MerchantSpec
INVARIANTS FirstDeliveriesInOrder SentIsAccepted
PROPERTY EveryEventArrives
CHECK_DEADLOCK FALSE
