SPECIFICATION Spec
CONSTANTS
    x = x  y = y  a = a
    Clients <- TwoClients
    Names <- OneName
    Roles <- TwoRoles
    FirstAdmin = a
    NoUser = NoUser
    NoToken = NoToken
    AccessTTL = 0
    RefreshTTL = 1
    MaxNow = 1
    MaxSerial = 4
SYMMETRY Interchangeable
INVARIANTS
    RevokedStaysOut
    OneLineage
PROPERTY ManagedByAdmins
