\* Sizes of four bits: a length of 15 is the "DEL 1 -1" that strtoul lets pass.
CONSTANTS
    MaxItem = 2
    SizeModulus = 16
    MaxCommands = 3
    MaxLength = 12
    MaxFailures = 0
    MaxPosition = 4
    Lengths = {1, 15}
    Commands <- AllCommands
SPECIFICATION Spec
PROPERTY DeletionsTruncate
CHECK_DEADLOCK FALSE
