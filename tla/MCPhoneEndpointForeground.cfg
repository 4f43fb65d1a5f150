\* No session is lost and nothing fails: the app only leaves and returns.
SPECIFICATION FairSpec
CONSTANTS
    Sessions = {1, 2, 3}
    Subs = {}
    Calls = {}
    None = None
    Credentials = 1
    MaxFaults = 0
    MaxSwitches = 2
INVARIANTS
    ReconnectsOnForeground
CHECK_DEADLOCK FALSE
