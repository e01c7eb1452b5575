SPECIFICATION Spec
CONSTANTS
    DefaultTimeout = 10
    Requests = {0}
    Heartbeat = 5
    OfflineLimit = 15
    ReapPeriod = 5
    Delay = 1
    Base = 1
    Factor = 2
    Cap = 1
    Jitter = 20
    Endpoints = 1
    Serving = {1}
    DialTimeout = 1
    MaxInFlight = 1
PROPERTY LiveNotReaped
