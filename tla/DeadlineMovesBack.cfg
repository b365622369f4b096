CONSTANTS
    NoUser = NoUser
    Users = {u1, u2}
    Orders = {o1}
    Rewards = {1}
    InitialAllocation = 1
    MaxReservationAmount = 1
    AcceptanceWindow = 1
    PickupTimeout = 1
    DeliveryPeriod = 1
    AutoConfirmPeriod = 1
    InitialAdmins = {}
    Horizon = 1
    MaxClock = 2
    MaxVersion = 5
    MaxOutside = 3
    MaxRoles = 0
    SweepLag = 1
SPECIFICATION FairFlowSpec
PROPERTIES DeadlineNeverBack
CHECK_DEADLOCK FALSE
