SPECIFICATION Spec
CONSTANTS
    Threads <- MCThreads
    Listeners <- MCListeners
    May <- MCMay
    Null = "null"
INVARIANTS TypeOK RunsRegistered NoDeadlock
PROPERTIES ExclusionLostOnly
