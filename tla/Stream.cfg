CONSTANTS
    Reqs = {r1, r2}
    None = None
    Closed = TRUE
    MaxConnects = 2
SPECIFICATION MCSpec
INVARIANTS WokenOnce NoLostSend
PROPERTIES RequestReturns LostIsRetried
CHECK_DEADLOCK FALSE
