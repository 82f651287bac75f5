SPECIFICATION FairSpec
CONSTANTS
    Nodes <- MCNodes
    Links <- ChainLinks
    Dist <- ChainDist
    Uuids <- OneUuid
    Sender <- FromA
    Receiver <- ToC
    Hash <- AtZero
    Oversize = {}
    Cap = 1
    DefaultTtl = 2
    Fanout = 1
    MaxAge = 0
    Retention = 2
    SfInterval = 1
    Lossy = FALSE
    StoreFails = FALSE
    Prompt = TRUE
    SockCap = 1
    AgeCap = 10
    MaxCrashes = 1
INVARIANT DiesOut
PROPERTY Delivers
