SPECIFICATION Spec
CONSTANTS
    Task = {1}
    Conn = {c1, c2}
    NoConn = NoConn
    NoTask = NoTask
    SendBuffer = 2
    ManagerWindow = 1
    NodeWindow = 1
    MCPTask = {}
    Endings = {"exit0"}
    Failures = {"link"}
    MaxFaults = 1
INVARIANT ServedSessionRegistered
