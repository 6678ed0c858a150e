CONSTANTS
  sa = sa
  sb = sb
  link = link
  c1 = c1
  c2 = c2
  Services = {sa, sb}
  Sockets = {link}
  SocketOf <- MCSocketOf
  Calls = {c1, c2}
  Cases <- MCCases
  Requests = {1, 2}
  Leaving = {sa}
  Impatient = {c1}
SPECIFICATION FairSpec
INVARIANTS LiveIsRunning OneObject FailsForACause
PROPERTIES ServiceSettles
CHECK_DEADLOCK FALSE
