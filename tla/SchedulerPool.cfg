CONSTANTS
    p1 = p1  p2 = p2  c = c
    j1 = j1  j2 = j2
    NoPin = NoPin  None = None
    Pool = {p1, p2}  Caller = c  UseCaller = FALSE
    Jobs = {j1, j2}  Yielders = {j1, j2}  Holders = {}  Switchers = {}
    Pins = {NoPin}
SPECIFICATION Spec
INVARIANTS JobPlaced YieldFromExec
PROPERTIES QueuedRuns StopReturns
