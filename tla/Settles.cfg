CONSTANTS
    u1 = u1
    u2 = u2
    u3 = u3
    o1 = o1
    o2 = o2
    NoUser = NoUser
    Users = {u1, u2}
    Orders = {o1}
    Rewards = {1}
    InitialAllocation = 1
    MaxReservationAmount = 1
    AcceptanceWindow = 1
    PickupTimeout = 1
    DeliveryPeriod = 1
    AutoConfirmPeriod = 1
    InitialAdmins = {}
    Horizon = 1
    MaxClock = 2
    MaxVersion = 5
    MaxOutside = 0
    MaxRoles = 0
    SweepLag = 1
    MaxLost = 2
SPECIFICATION FairSagaSpec
PROPERTIES
    NothingWaits
CHECK_DEADLOCK FALSE
