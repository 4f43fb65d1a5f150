\* Three losses or restarts, one phone.
SPECIFICATION FairSpec
CONSTANTS
    Links = {1, 2, 3, 4}
    Transports = {1, 2}
    MaxGen = 3
    Secrets = {1, 2, 3, 4, 5, 6}
    MaxConns = 1
    MaxFaults = 3
INVARIANTS
    TypeOK
    OneWayBack
    BothEndsAgree
    StopIsFinal
    AttachMatches
PROPERTIES
    Reregisters
CHECK_DEADLOCK FALSE
