SPECIFICATION FairSpec
CONSTANTS
    t1 = t1
    t2 = t2
    p1 = p1
    p2 = p2
    c1 = c1
    c2 = c2
    k1 = k1
    k2 = k2
    Threads <- MCThreads
    Creator = t1
    Callbacks = {c1, c2}
    CallType <- MCCallType
    PromiseAsync = "Auto"
    CancelCbs = {k1, k2}
    NoCancelCb = NoCancelCb
    Promises <- MCPromises
    NoThread = NoThread
INVARIANTS CancelDelivered
PROPERTIES OneShotSpec CallbacksCalled BrokenPromiseFinishes
CHECK_DEADLOCK FALSE
