SPECIFICATION Spec
CONSTANTS
    own = own
    relay = relay
    alice = alice
    bob = bob
    Null = Null
    Threads <- MCThreads
    Copies <- MCCopies
    UuidOf <- MCUuidOf
    ReceiverOf <- MCReceiverOf
    Given <- MCGiven
    Own = {own}
    Retention = 1
    MaxAge = 0
    MaxTime = 2
    Locked = TRUE
    ReadErrors = FALSE
INVARIANTS TypeOK RowIntegrity StoredIsThere
PROPERTY ImplementsPort
