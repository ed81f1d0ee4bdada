CONSTANTS
    p1 = p1  p2 = p2  c = c
    j1 = j1  j2 = j2
    NoPin = NoPin  None = None
    Pool = {p1}  Caller = c  UseCaller = TRUE
    Jobs = {j1, j2}  Yielders = {j1}  Holders = {j2}  Switchers = {j2}
    Pins = {NoPin, c, p1}
SPECIFICATION Spec
INVARIANTS StopLeavesNothing
CHECK_DEADLOCK FALSE
