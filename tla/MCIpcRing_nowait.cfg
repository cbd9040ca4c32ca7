CONSTANTS
  cmd = cmd
  ble = ble
  nil = nil
  NoPkt = NoPkt
  Size = 7
  Packet <- MCPacket
  PktLen <- MCPktLen
  CallerWaits = FALSE
SPECIFICATION Spec
PROPERTY TxBlocksWhileNotEmpty
