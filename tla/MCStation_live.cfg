\* Sleep commands that outlive the watchdog, and a library that keeps the
\* socket of a handshake it refuses to disconnect.
CONSTANTS
    FeedInterval = 2
    MainFreshness = 3
    WdtWindow = 6
    WorkqHold = 2
    MaxBlock = 12
    SilenceTimeout = 6
    ForcePing = 2
    UnackedMax = 2
    DnsRetries = 1
    TlsContexts = 1
    AbortsHandshake = FALSE
    WaitPoll = 1
    Settle = 1
    DnsWait = 1
    DnsPause = 1
    SntpWait = 2
    TlsWait = 1
    ConnackWait = 1
    IterWork = 1
    ErrorPause = 1
    RebootPause = 1
    SleepMax = 12
SPECIFICATION FairSpec
INVARIANTS
    WatchdogSparesMain
    WedgeBounded
PROPERTIES
    Reconnects
