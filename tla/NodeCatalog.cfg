CONSTANTS
    MaxNodes = 2
    Senders = {1, 2}
    NoUser = NoUser
    u1 = u1
    Users = {NoUser, u1}
    Width = 8
    NumOnlineSecs = 120
    Times = {0, 100, 125}
    PosTimes = {0, 110}
SPECIFICATION Spec
INVARIANTS
    TypeOK
    OnlineCountMatchesSpec
PROPERTIES
    UserEventIffChanged
    FlagsMonotone
