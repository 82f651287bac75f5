SPECIFICATION FairSpec
CONSTANTS
    Nodes <- PairNodes
    Links <- PairLinks
    Dist <- PairDist
    Uuids <- OneUuid
    Sender <- FromA
    Receiver <- ToNobody
    Hash <- AtZero
    Oversize = {}
    Cap = 1
    DefaultTtl = 3
    Fanout = 1
    MaxAge = 1
    Retention = 2
    SfInterval = 1
    Lossy = TRUE
    StoreFails = FALSE
    Prompt = FALSE
    SockCap = 1
    AgeCap = 3
    MaxCrashes = 1
INVARIANTS TypeOK HopBound OriginCustody
PROPERTY Drains
