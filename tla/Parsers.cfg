SPECIFICATION MCSpec
CONSTANTS
 MaxText = 5
 IntBits = 6
 Alphabet <- mcAlphabet
 Starts <- mcStarts
 WellKnown <- mcWellKnown
INVARIANTS SameLanguage FaultOnlyOnEmptyPort PartsAsCut DumpParsesBack
CHECK_DEADLOCK FALSE
