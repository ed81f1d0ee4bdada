CONSTANTS
    Fds = {5}
    Fibers = {f1, f2}
    None = None
    MaxCalls = 2
    MaxCloses = 1
    MaxOps = 1
SPECIFICATION Spec
INVARIANTS AbortsOnlyOnReuse NeverSleepsInKernel WaitOwnsItsTimer ConnectedIsUp
PROPERTIES TimedCallReturns
CHECK_DEADLOCK FALSE
