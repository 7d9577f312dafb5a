CONSTANTS
  o1 = o1
  o2 = o2
  o3 = o3
  a1 = a1
  a2 = a2
  x1 = x1
  x2 = x2
  x3 = x3
  s1 = s1
  s2 = s2
  NoOrder = NoOrder
  Orders <- ThreeOrders
  Kind <- Kinds
  Route <- Mixed
  Age <- Ages
  Small <- SmallPayout
  Account <- OwnAccount
  Accounts <- TwoAccounts
  TxIds <- OneTx
  SwapIds <- TwoSwaps
  Incoming <- Second
  BundleSize = 1
  Limit = 1
  Mishaps <- NoNetworkFault
SPECIFICATION OutFairSpec
INVARIANTS OutcomeIsTrue PendingIsWatched WithinLimit
PROPERTY EverySwapEnds
CHECK_DEADLOCK FALSE
