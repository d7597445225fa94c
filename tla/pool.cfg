SPECIFICATION Spec
CONSTANTS
    t1 = t1  t2 = t2  t3 = t3  w1 = w1  w2 = w2
    Task = {t1, t2, t3}
    Worker = {w1, w2}
    Delay = {0, 2}
    MaxTime = 2
    NoTask = NoTask
CHECK_DEADLOCK FALSE
INVARIANTS TypeOK NoLostWakeUp
PROPERTIES InOrder EveryTaskRuns
