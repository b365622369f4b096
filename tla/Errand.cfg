CONSTANTS
    u1 = u1
    u2 = u2
    u3 = u3
    o1 = o1
    o2 = o2
    NoUser = NoUser
    Users = {u1, u2, u3}
    Orders = {o1, o2}
    Rewards = {1}
    InitialAllocation = 1
    MaxReservationAmount = 1
    AcceptanceWindow = 1
    PickupTimeout = 1
    DeliveryPeriod = 1
    AutoConfirmPeriod = 1
    InitialAdmins = {u2, u3}
    Horizon = 1
    MaxClock = 2
    MaxVersion = 9
    MaxOutside = 0
    MaxRoles = 1
    SweepLag = 1
    MaxLost = 1
SPECIFICATION CaseSpec
INVARIANTS
    TypeOK MoneyFollowsErrand NoFalseConflict PaidForReason
SYMMETRY Symmetry
CHECK_DEADLOCK FALSE
