CONSTANTS
  o1 = o1
  o2 = o2
  o3 = o3
  a1 = a1
  a2 = a2
  x1 = x1
  x2 = x2
  x3 = x3
  s1 = s1
  s2 = s2
  NoOrder = NoOrder
  Orders <- TwoOrders
  Kind <- Kinds
  Route <- Transfer
  Age <- Ages
  Small <- SmallRefund
  Account <- SameAccount
  Accounts <- OneAccount
  TxIds <- ThreeTxs
  SwapIds <- None
  Incoming <- None
  BundleSize = 1
  Limit = 2
  Mishaps <- NoDatabaseError
SPECIFICATION OutFairSpec
INVARIANTS OneLiveAttempt OutcomeIsTrue NobodyWaitsInVain
 
CHECK_DEADLOCK FALSE
