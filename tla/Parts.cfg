CONSTANTS
    Routes = {1, 2}
    MaxRunning = 1
    Batch = 1
    MaxIngestEntries = 0
    MaxCount = 1
    MaxInFlight = 1
    MaxFailures = 1
    notices = notices
    turn = turn
    Callers = {notices, turn}
    Spacing = 2
    MaxTime = 10
    MaxCalls = 4
    MaxGiveUps = 2
    Conversations = {1, 2}
    MaxPrompts = 1
    Workers = 1
    Abandoned = {1}
    MaxFaults = 1
    p1 = p1
    p2 = p2
    o1 = o1
    Procs = {p1, p2, o1}
    Operators = {o1}
    hostSchemaVer = 1
    Unlocked = Unlocked
    Budget = 24
    Lines <- MCLines
    root = root
    chatter = chatter
    direct = direct
    alice = alice
    public = public
    dm = dm
    NoSlackMsg = NoSlackMsg
    SlackMsgs = {root, chatter, direct}
    Users = {alice}
    Channels = {public, dm}
    AllowedUsers = {alice}
    AllowedChannels = {public}
    SlackAbout <- MCSlackAbout
    MaxCopies = 1
    MaxSlackFaults = 2
    inside = inside
    home = home
    t1 = t1
    t2 = t2
    h1 = h1
    h2 = h2
    NoThread = NoThread
    NoDiscordMsg = NoDiscordMsg
    DiscordMsgs = {root, inside, chatter}
    DiscordAbout <- MCDiscordAbout
    Threads = {home, dm, t1, t2}
    HomeOf <- MCHomeOf
    Handlers = {h1, h2}
    MaxEvents = 2
    MaxDiscordFaults = 2
    MaxDeleted = 1
SPECIFICATION Spec
INVARIANTS
    NoMissedIngest
    CrowdingBounded
    CleanMeansSettled
    NoStrayRun
    OneProcess
    OpenedIsMigrated
    WithinBudget
    BalancedWhenTracked
PROPERTIES
    ServedInTurn
    ShutdownEnds
    SlackKeepsPromise
    MessagesRecorded
    DiscordKeepsPromise
CHECK_DEADLOCK FALSE
