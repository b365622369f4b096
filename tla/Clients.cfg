SPECIFICATION FairSpec
CONSTANTS
    Cases <- MCCases
    me = me
    other = other
    nobody = nobody
    ann = ann
    ben = ben
    noPerson = noPerson
    v1 = v1
    v2 = v2
    v3 = v3
    blank = blank
    People = {ann, ben}
    NoPerson = noPerson
    MaxSockets = 3
    CacheTtl = 1
    LookupTimeout = 1
    MaxCacheEntries = 1
    MaxLookups = 4
    AuthTimeout = 1
    RecheckEvery = 2
    TokenLife = 6
    PerUser = 1
    PerInstance = 2
    PendingPerInstance = 1
    MaxSuppliers = 4
    Values = {v1, v2, v3}
    Blank = blank
    Me = me
    Other = other
    Nobody = nobody
    MaxChannel = 2
    SendLimit = 1
    Window = 1
    PageSize = 1
    RetentionDays = 1
    BatchSize = 1
    ListPage = 2
    Entries = 4
    Addresses = {ann, ben}
    Emails = {v1, v2}
    PerIp = 4
    PerEmail = 1
    LimitWindow = 2
    MaxKeys = 1
    ConsoleActions = {v1, v2, v3}
    Letters = {1, 2, 3, 4}
    CreditLetters = {2}
    LettersPage = 1
    Errands = {1, 2, 3, 4, 5}
    ErrandsPage = 2
    Shops = {1, 2, 3, 4, 5}
    Narrowed = {3, 4, 5}
    NewShop = 2
    ShopsPage = 2
    WeekDays = 2
    DayLength = 3
    MaxPeriodsPerDay = 2
INVARIANTS
    SocketsFollowAccounts LimitsHold RetriesHarmless ChannelsSound ConversationSound ListsComplete ConsoleTruthful HoursKept
PROPERTIES
    FormsKept ShownForward CatchesUp
CHECK_DEADLOCK FALSE
