SPECIFICATION StreamSpec
CONSTANTS
  Writers <- mcWriters
  MaxFrames = 3
  Capacity = 5
  MaxRead = 4
INVARIANTS
  StreamInv
PROPERTIES
  ImplementsChannel
CHECK_DEADLOCK FALSE
