SPECIFICATION SwapsSpec
CONSTANTS
  incoming = incoming
  outgoing = outgoing
  Swaps = {incoming, outgoing}
  Direction <- SwapsDirection
  MaxSigned <- SwapsSigned
  MaxFaults = 1
INVARIANTS CopiesAreTrue EndIsTrue
PROPERTY
  SubmittedEnds
CHECK_DEADLOCK FALSE
