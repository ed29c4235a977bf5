\* Texts of a word or two, three commands and a commit after any of them.
CONSTANTS
    MaxItem = 2
    SizeModulus = 1000
    MaxCommands = 3
    MaxLength = 12
    MaxFailures = 1
    MaxPosition = 4
    Lengths = {0, 1, 2, 9}
    Commands <- AllCommands
SPECIFICATION Spec
INVARIANTS IndInv ReplayConverges NeverOutdated EachAnnouncedOnce PositionsTracked
PROPERTIES SpansEnclosed BlocksStartLines
CHECK_DEADLOCK FALSE
