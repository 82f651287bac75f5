CONSTANTS
    a = a
    b = b
    phone = phone
    Nodes <- MCNodes
    Bridges = {phone}
    Headless = {b}
    key <- MCKey
    Uuids <- MCUuids
    Nonces <- MCNonces
    Texts <- MCTexts
    OtherLines <- MCOtherLines
    BC_UUID_SIZE = 1
    BC_PUBKEY_SIZE = 1
    BC_NONCE_SIZE = 1
    BC_TAG_SIZE = 1
    WeakKeys <- MCWeakKeys
    LineSize = 13
    RecvSize = 21
    DefaultTtl = 2
    Retention = 1
    Times = {0, 2}
    MaxLines = 1
SPECIFICATION Spec
INVARIANTS TypeOK Unaltered OnlyWholeTravel ShownAsTyped
