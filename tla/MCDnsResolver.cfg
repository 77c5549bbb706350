CONSTANTS
    Callers = {main, workq}
    Hosts = {broker, timeserver}
    NoHost = NoHost
    Nobody = Nobody
    MaxId = 6
SPECIFICATION DnsFairSpec
INVARIANTS
    WokenByOwnAnswer
PROPERTIES
    KeepsPromise
    NoDanglingWrite
    CallsEnd
CHECK_DEADLOCK FALSE
