SPECIFICATION Spec
CONSTANTS
  Blank = 15
  And <- MCAnd
  PageLen = 4
  SectorLen = 8
  FlashLen = 48
  Slot1 = 9
  Slot2 = 25
  SlotSectors = 2
  RecordBase = 40
  Images <- MCShortImages
  Packets <- MCShortPackets
  FirstIds = {0}
  MaxRepeats = 1
  RecordData <- MCRecordData
  MasterMark = 5
  MaxEvents = 1
  None = None
INVARIANT TornRecordRejected
INVARIANT RecordSaved
CHECK_DEADLOCK FALSE
