SPECIFICATION FairSpec
CONSTANTS
    Task = {1, 2}
    Conn = {c1}
    NoConn = NoConn
    NoTask = NoTask
    SendBuffer = 1
    ManagerWindow = 1
    NodeWindow = 2
    MCPTask = {1}
    Endings = {"exit0"}
    Failures = {"link", "manager"}
    MaxFaults = 1
INVARIANTS NoStrandedTask WaiterIsTold SendersAreSeen
PROPERTIES AtMostOncePerProcess SendReturns QueueDrains
CHECK_DEADLOCK FALSE
