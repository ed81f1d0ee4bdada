CONSTANTS
    Fds = {f1}
    Events = {"READ", "WRITE"}
    Waiters = {x1, x2, x3}
    Workers = {w1, w2}
    None = None
    MaxCloses = 1
    SizeT = 8
SPECIFICATION Spec
INVARIANTS WaiterOnce KernelAgrees
PROPERTIES ReadyIsDelivered ImplementsEventWait
CHECK_DEADLOCK FALSE
