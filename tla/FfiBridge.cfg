SPECIFICATION Spec
CONSTANTS
    Keys <- MCKeys
    Messages <- MCMessages
    Addressee <- MCAddressee
    Genuine <- MCGenuine
    N = 4
    None = "none"
    Dangling = "dangling"
INVARIANTS TypeOK NothingLeaks
PROPERTIES ImplementsQueue PushedOnArrival
