SPECIFICATION FairSpec
CONSTANTS
    MaxReqs = 3
    MaxOom = 1
    MaxUpdates = 1
    StaKinds = {"sta", "scan", "delsta"}
    ApKinds = {"ap", "delap"}
INVARIANTS EntityOwnership FollowingArmed MailboxArmed
PROPERTIES StartsInOrder StaFollowingStarts
CHECK_DEADLOCK FALSE
