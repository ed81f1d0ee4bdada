CONSTANTS
    Fibers = {f1, f2, f3}
    Joiners = {f1, f2}
    BatchSize = 3
    Sizes = {1, 2, 4}
    Timed = {TRUE, FALSE}
    MaxCalls = 3
    MaxThrows = 1
SPECIFICATION Spec
INVARIANTS PermitsExact WaitAllIsBarrier
PROPERTIES CallsReturn WaitAllReturns
CHECK_DEADLOCK FALSE
