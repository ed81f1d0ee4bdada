SPECIFICATION Spec
CONSTANTS
 Messages <- mcMessages
 Raw <- mcRaw
 After <- mcAfter
 BuffSize = 100
 MaxLength = 30
 MaxCuts = 2
 Unpack <- mcUnpack
INVARIANT ChunkHasItsLength
CHECK_DEADLOCK FALSE
