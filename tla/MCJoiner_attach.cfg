\* Unit 150 ms, the longer periods scaled down in their order: poll, scan,
\* slow poll, retry, busy retry.
CONSTANTS
    PollFast = 1
    PollSlow = 3
    RetryPeriod = 4
    BusyPeriod = 5
    ScanTime = 2
    Hold = 1
    MaxReboots = 2
SPECIFICATION Spec
INVARIANTS RetryNeverLost ListensInTime
PROPERTIES ScanUndisturbed GetsAttached
