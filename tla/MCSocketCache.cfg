CONSTANTS
  sa = sa
  sb = sb
  sc = sc
  Infos = {sa, sb, sc}
  Endpoints <- MCEndpoints
  RelUri <- MCRelUri
  Uris = {1, 2, 3, 4, 5, 6, 7, 8}
  Loopback = {1}
  Supported = {1, 2, 3, 4}
  SdUris <- MCSdUris
  Cases <- MCCases
  Requests = {1, 2}
  Attempts = {1, 2, 3, 4}
  Sockets = {1, 2, 3}
SPECIFICATION FairSpec
PROPERTIES RequestSettles CloseDisconnects
CHECK_DEADLOCK FALSE
