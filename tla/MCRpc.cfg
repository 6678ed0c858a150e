SPECIFICATION FairSpec
CONSTANTS
  Calls = {now, later}
  Deferred = {later}
  Canceled = {later}
  Closers = {k}
INVARIANTS ResultsAgree CancelReaches
PROPERTIES CallsFinish CancelablesDrain
CHECK_DEADLOCK FALSE
