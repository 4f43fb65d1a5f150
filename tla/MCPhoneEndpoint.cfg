\* Two credentials, three sessions (in use, replacing, next), three faults and five switches
\* of the app state: each operation can fail, be retried and meet a switch on either side.
SPECIFICATION FairSpec
CONSTANTS
    Sessions = {1, 2, 3}
    Subs = {s1, s2}
    Calls = {c1}
    None = None
    Credentials = 2
    MaxFaults = 3
    MaxSwitches = 5
INVARIANTS
    TypeOK
    NoLeak
    BackgroundHoldsNoRelay
    AttachedToActive
    LeaseWatched
PROPERTIES
    RotationHappens
    CloseReleases
CHECK_DEADLOCK FALSE
