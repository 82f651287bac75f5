SPECIFICATION Spec
CONSTANTS
    Threads <- MCThreads
    Listeners <- MCListeners
    May <- MCMay
    Null = "null"
INVARIANT MutexUsable
