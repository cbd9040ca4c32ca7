CONSTANTS
  cmd = cmd
  ble = ble
  nil = nil
  NoPkt = NoPkt
  Size = 7
  Packet <- MCPacket
  PktLen <- MCPktLen
  CallerWaits = TRUE
SPECIFICATION Spec
PROPERTY UnreadNeverOverwritten
PROPERTY ImplementsChannel
PROPERTY EventuallyDelivered
