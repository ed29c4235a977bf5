\* Buffers of a few words, so that lines exceed them.
CONSTANTS
    MaxItem = 2
    SizeModulus = 100
    CommandSize = 9
    LineSize = 5
    NameSize = 4
    AuthLineSize = 5
    MaxPieces = 6
SPECIFICATION Spec
INVARIANTS RenumberCorrect CommandsRead TypedLinesAligned StreamFramed RolesRead
CHECK_DEADLOCK FALSE
