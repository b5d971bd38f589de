SPECIFICATION Spec
CONSTANTS
    Scale = 8
    Numbers = {0, 255, 256}
    Huge = Huge
    Empty = Empty
    Lettered = Lettered
    Spaced = Spaced
    Characters = {65, 66}
    Unwritten = Unwritten
    Pending = Pending
CHECK_DEADLOCK FALSE
INVARIANTS
    AcceptedIffWellFormed
    KeyIsText
