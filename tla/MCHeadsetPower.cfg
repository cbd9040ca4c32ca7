SPECIFICATION Spec
CONSTANTS
  WaitTicks = 6
  RetryTicks = 2
  ChargerInTicks = 8
  HandOverTicks = 5
  TakeOverTicks = 2
  FullChecks = 4
  MaxRises = 1
INVARIANT ChargerLockAccounted
PROPERTY HandsOverBeforeOff
PROPERTY PowerOffFinishes
PROPERTY ChargingEnds
