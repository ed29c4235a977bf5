\* A reader and a writer that connect at the same time.
CONSTANTS
    AuthLineSize = 16
    UserOf <- TwoUsers
    RolesFile <- Config
SPECIFICATION Spec
INVARIANT RoleAsListed
CHECK_DEADLOCK FALSE
