\* Unit 30 s: a save a minute, boots and resyncs of up to 30 s, an RTC that is off by
\* one unit in five (far more than 250 ppm, so that it happens, twice).  The low word
\* turns over twice inside the explored stretch.
CONSTANTS
    SaveInterval = 2
    BootTime = 1
    Hold = 1
    Latency = 1
    DriftPeriod = 5
    Word = 5
    Start = 4
    MaxTime = 11
    MaxReboots = 2
    MaxQueries = 1
SPECIFICATION ClockSpec
INVARIANTS NeverAhead LagBounded
CHECK_DEADLOCK FALSE
