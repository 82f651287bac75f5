CONSTANTS
    PortLists <- MCPortLists
    BC_MAX_PEERS = 3
    Fanout = 2
    MaxTime = 1
SPECIFICATION Spec
INVARIANTS TypeOK TablesAgree ScanComplete FanoutBound
PROPERTIES KnownStay
