SPECIFICATION Spec
CONSTANTS
    Task = {1}
    Conn = {c1}
    NoConn = NoConn
    NoTask = NoTask
    SendBuffer = 2
    ManagerWindow = 1
    NodeWindow = 1
    MCPTask = {}
    Endings = {"exit0"}
    Failures = {}
    MaxFaults = 0
PROPERTY OutcomeKept
