SPECIFICATION Spec
CONSTANTS
    Conn = {c1, c2}
    NoConn = NoConn
    Name = {NoName, n1}
    NoName = NoName
    SendBuffer = 1
    MaxFaults = 2
PROPERTY OfflineIsRecorded
