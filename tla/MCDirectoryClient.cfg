\* A client connects, and connects again; the cases are in MCDirectoryClient.tla.
CONSTANTS
  Attempts <- MCAttempts
  Cases <- MCCases
SPECIFICATION FairSpec
CHECK_DEADLOCK FALSE
INVARIANTS ReadyWithOwnLinks
 
