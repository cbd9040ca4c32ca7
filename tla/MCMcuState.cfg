SPECIFICATION Spec
CONSTANTS
  Lock <- MCLock
  Command <- MCCommand
  Event <- MCEvent
  CmdFifoLen = 4
  MaxRing = 3
  MaxOps = 2
  MaxEvents = 2
INVARIANT WakeTurnProtected
INVARIANT MaskedOnlyUntilWakeup
PROPERTY PowerCutWhenParked
PROPERTY ImplementsSleepService
PROPERTY PowerOffCompletes
PROPERTY EventsServed
