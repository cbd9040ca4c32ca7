SPECIFICATION Spec
CONSTANTS
  Blank = 15
  And <- MCAnd
  PageLen = 4
  SectorLen = 8
  FlashLen = 48
  Slot1 = 9
  Slot2 = 25
  SlotSectors = 2
  RecordBase = 40
  Images <- MCImages
  Packets <- MCPackets
  FirstIds = {0, 1}
  MaxRepeats = 2
  RecordData <- MCRecordData
  MasterMark = 5
  MaxEvents = 0
  None = None
PROPERTY ImplementsABUpdate
PROPERTY EventuallyInstalled
CHECK_DEADLOCK FALSE
PROPERTY UndisturbedUpdateBoots
