CONSTANTS
  Sockets = {s1, s2}
  NONE = NONE
  Addresses <- SomeAddresses
  Types <- SomeTypes
  FlagSets <- SomeFlags
  Rooms <- SomeRooms
  SunPathMax = 2
  MaxQueue = 1
SPECIFICATION Spec
INVARIANTS TypeOK ReplyReachesSender NamesApart RightsArrive NonblockingCallsReturn
CHECK_DEADLOCK FALSE
SYMMETRY Symmetry
