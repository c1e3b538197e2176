CONSTANTS Cap = 4 MaxWrite = 6 MaxTotal = 14
SPECIFICATION Spec
INVARIANTS LenIsRight LastBytesKept
