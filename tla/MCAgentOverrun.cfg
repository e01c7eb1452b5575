SPECIFICATION Spec
CONSTANTS
    DefaultTimeout = 4
    Requests = {0}
    Heartbeat = 2
    OfflineLimit = 6
    ReapPeriod = 2
    Delay = 1
    Base = 1
    Factor = 2
    Cap = 2
    Jitter = 20
    Endpoints = 1
    Serving = {1}
    DialTimeout = 1
    MaxInFlight = 1
INVARIANT OverrunIsKilled
