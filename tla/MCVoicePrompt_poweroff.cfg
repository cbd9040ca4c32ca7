SPECIFICATION Spec
CONSTANTS
  Tone <- MCTone
  Digit <- MCDigit
  Blocks <- MCBlocks
  Number <- MCNumber
  QueueCap = 3
  DataCap = 1
PROPERTY PowerOffDelayEnds
