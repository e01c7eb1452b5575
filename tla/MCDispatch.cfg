SPECIFICATION Spec
CONSTANTS
    Task = {1}
    Conn = {c1, c2}
    NoConn = NoConn
    NoTask = NoTask
    SendBuffer = 2
    ManagerWindow = 1
    NodeWindow = 1
    MCPTask = {1}
    Endings = {"exit0", "exitN", "killed", "discarded"}
    Failures = {"link", "node", "manager", "silence", "store", "request", "giveup"}
    MaxFaults = 2
SYMMETRY ConnSymmetry
INVARIANTS TypeOK ResultsReal
PROPERTIES TaskServiceSpec OpenSessionKept
