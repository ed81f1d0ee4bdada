CONSTANTS
    Fibers = {f1, f2}
    Static <- MCStatic
    Headers <- MCHeaders
    MaxDataSize = 120
    EncodeLen <- MCEncodeLen
    Misread <- MCMisread
    None = None
    MAX_WINDOW = 8
    CLIENT_WINDOW = 2
    DEFAULT_WINDOW = 1
    MaxConnects = 2
SPECIFICATION Spec
INVARIANTS EchoesHeader WindowsAgree NoneStranded GoAwayHasCause
PROPERTY RstIsMisdirected
CHECK_DEADLOCK FALSE
