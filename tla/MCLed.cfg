SPECIFICATION Spec
CONSTANTS
  QueueCap = 2
  BatteryPeriod = 80
INVARIANT LitHoldsLock
INVARIANT NeverFrozen
INVARIANT QueueNeverFull
PROPERTY ImplementsIndicator
PROPERTY PowerOffNotHeldByLed
