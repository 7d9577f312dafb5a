CONSTANTS
  r1 = r1
  r2 = r2
  NoToken = NoToken
  Requests <- TwoRequests
  Lifetime = 1
  Grace = 2
  ClockTolerance = 1
  TrustedKeys <- OldKey
  MaxTime = 4
  MaxRotations = 2
SPECIFICATION SessionsSpec
INVARIANTS LoginSurvivesRotation
PROPERTIES AccessEndsInTime OnlyDenialSignsOut
SYMMETRY Connections
CHECK_DEADLOCK FALSE
