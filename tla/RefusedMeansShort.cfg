CONSTANTS
    u1 = u1
    u2 = u2
    u3 = u3
    o1 = o1
    o2 = o2
    o3 = o3
    NoUser = NoUser
    Users = {u1, u2, u3}
    Orders = {o1, o2, o3}
    Rewards = {2, 3}
    InitialAllocation = 3
    MaxReservationAmount = 2
    Inbound <- MCInbound
SPECIFICATION Spec
INVARIANT RefusedMeansShort
