SPECIFICATION Spec
CONSTANTS
  Tone <- MCTone
  Digit <- MCDigit
  Blocks <- MCBlocks
  Number <- MCNumber
  QueueCap = 3
  DataCap = 1
INVARIANT TypeOK
INVARIANT LockedWhilePlaying
INVARIANT BlockedOnlyWhileEnabled
INVARIANT OffAfterPrompt
PROPERTY QueueServed
