SPECIFICATION Spec
CONSTANTS
  KeyNum = 2
  Pin <- MCPin
  Gpio <- MCGpio
  ActiveHigh <- MCActiveHigh
  Multi <- MCMulti
  Press <- MCPress
  LongPress <- MCLong
  LonglongPress <- MCLonglong
  PollTicks = 4
  LpmTicks = 10
  QueueLen = 10
  TicksPerTurn = 1
  Off = Off
INVARIANT GestureKeepsAwake
INVARIANT NoEventLost
PROPERTY ClicksCredited
PROPERTY ImplementsKeyGestures
PROPERTY LockGivenBack
