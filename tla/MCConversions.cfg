CONSTANTS
  Base = 2
  NotNumber = NotNumber
  Value <- MCValue
  Tables <- MCTables
  MaxArgs = 3
  MaxData = 9
  Setups <- MCSetups
  Packets <- MCPackets
  Endpoints <- MCEndpoints
  NoMemoryAt <- MCNoMemoryAt
  MaxParts = 2
  ClassCodes = {3, 4}
  Attributes = {2, 5, 49}
SPECIFICATION ConvSpec
INVARIANTS FlattenInOrder PackInverse CodingExact EnumsWhole CallsEnd
PROPERTIES FreedAtExit FreedByCalls
CHECK_DEADLOCK FALSE
