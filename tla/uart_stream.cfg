SPECIFICATION Spec
CONSTANTS
    x = x
    nl = nl
    Garbage = Garbage
    Bytes = {x, nl}
    NewLine = nl
    Size = 4
    MaxLen = 3
    MayOverrun = FALSE
INVARIANTS
    GetsIsLine
PROPERTIES
    RingIsStream
