SPECIFICATION FairSpec
CONSTANTS
    now = now
    late = late
    must = must
    msg = msg
    w1 = w1
    w2 = w2
    Tasks = {now, late, must, msg}
    Delayed = {late, must}
    Posted = {msg}
    NeverSkip = {must}
    Cancelable = {late, must}
    Workers = {w1, w2}
    NoWorker = NoWorker
    NoTask = NoTask
INVARIANTS Serial CanceledNotRun
PROPERTIES JoinSilences TasksServed JoinSettles
CHECK_DEADLOCK FALSE
