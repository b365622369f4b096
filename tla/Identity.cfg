SPECIFICATION UserSpec
CONSTANTS
    ada = ada
    bea = bea
    sam = sam
    c1 = c1
    c2 = c2
    t1 = t1
    t2 = t2
    NoUser = NoUser
    NoTab = NoTab
    Users <- MCUsers
    Clients <- MCClients
    Tabs <- MCTabs
    Scenarios <- MCScenarios
    SuspensionsLimit = 1
    SuspensionsAlert = 1
    ReadsAlert = 1
INVARIANTS
    AccountsTypeOK OldCredentialsEnd FamiliesSound SuspensionsLimited BrowserSound
PROPERTIES
    TwoPersonRule
SYMMETRY CallerSymmetry
CHECK_DEADLOCK FALSE
