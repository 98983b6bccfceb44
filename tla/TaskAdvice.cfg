SPECIFICATION AdviceSpec
CONSTANTS
  Checks = {suite}
  MaxTroubles = 4
INVARIANTS
  RepeatsOnce
PROPERTIES
  AdviceLeadsToTheEnd
CHECK_DEADLOCK FALSE
