CONSTANTS
  ArrayLen = 4
  LenModulus = 8
  Element = {e1, e2}
SPECIFICATION QueueSpec
INVARIANT DeletedElementReadable
PROPERTY ImplementsFifo
