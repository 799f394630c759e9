SPECIFICATION ParserSpec
CONSTANTS
    Connections <- AllConnections
    Id = 9
    IdLen = 2
    HeaderLen = 4
    BufSize = 8
    MaxSent = 3
INVARIANTS ParsedIsSent StaysUp
CHECK_DEADLOCK FALSE
