SPECIFICATION Spec
CONSTANTS
    MaxReqs = 4
    MaxOom = 1
    MaxUpdates = 0
    StaKinds = {"sta", "scan", "delsta"}
    ApKinds = {"ap", "delap"}
INVARIANTS EntityOwnership FollowingArmed MailboxArmed
PROPERTIES StartsInOrder
CHECK_DEADLOCK FALSE
