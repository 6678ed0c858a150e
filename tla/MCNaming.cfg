SPECIFICATION NSpec
CONSTANTS
  Sockets = {c1, c2}
  NullSocket = null
  NoSocket = none
  Names = {dir, a}
  DirectoryName = dir
  DirectorySession = zero
  Endpoints = {e1}
  MaxServices = 3
  WaitedName = a
  Unreliable = {c1}
PROPERTIES CallsEnd LostLeave WaitReturns
CHECK_DEADLOCK FALSE
