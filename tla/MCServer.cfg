CONSTANTS
  Objects = {o1, o2}
  Clients = {k1}
  Outgoing = {d1}
  MaxQueue = 3
  MaxOpens = 1
  MaxMessages = 2
SPECIFICATION ServerFairSpec
INVARIANTS DoneIsServed NoneLeftOpen
PROPERTIES AuthAnswered
CHECK_DEADLOCK FALSE
