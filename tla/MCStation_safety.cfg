\* No sleep command: the hardware watchdog never bites.
CONSTANTS
    FeedInterval = 2
    MainFreshness = 3
    WdtWindow = 6
    WorkqHold = 2
    MaxBlock = 3
    SilenceTimeout = 20
    ForcePing = 2
    UnackedMax = 2
    DnsRetries = 10
    TlsContexts = 4
    AbortsHandshake = TRUE
    WaitPoll = 1
    Settle = 1
    DnsWait = 1
    DnsPause = 1
    SntpWait = 2
    TlsWait = 1
    ConnackWait = 1
    IterWork = 1
    ErrorPause = 1
    RebootPause = 1
    SleepMax = 0
SPECIFICATION Spec
INVARIANTS
    MainWithinFreshness
    SilenceBounded
    SilentBrokerIsLeft
    DeadSessionIsLeft
    NoSocketLeak
PROPERTIES
    WdSpec
