CONSTANTS
  key = key
  led = led
  bat = bat
  Header = Header
  Null = Null
  Timer <- MCTimer
  Kind <- MCKind
  Base <- MCBase
  Ticks <- MCTicks
  BtCounts = {1}
  TicksPerWalk = 1
SPECIFICATION Spec
INVARIANT TimerTypeOK
INVARIANT ListEnds
INVARIANT WalkServesAll
PROPERTY ImplementsTimerService
PROPERTY DueTimerServed
