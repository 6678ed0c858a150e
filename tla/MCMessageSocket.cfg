CONSTANTS
  Kinds <- MCKinds
  Callers = {d1, d2}
  NoCaller = NoCaller
  MaxConnects = 2
  MaxActivity = 3
SPECIFICATION FairSpec
INVARIANTS DisconnectedWhenTold SignalsInOrder
PROPERTIES DisconnectSettles ConnectSettles
CHECK_DEADLOCK FALSE
