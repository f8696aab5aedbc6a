SPECIFICATION AccessSpec
CONSTANTS
    k1 = k1
    k2 = k2
    k3 = k3
    Keys <- MCKeys
    NoKey = NoKey
    KeyPrefix <- MCKeyPrefix
    Clients = {c1, c2}
SYMMETRY MCSymmetry
INVARIANTS
    AccessTypeOK
    OnlyAuthorised
    RevokedStaysOut
    LiveKeyAccepted
PROPERTIES
    KeysChangedByAdmins
