CONSTANTS
    Provider = {p1, p2, p3}
    None = None
    Need = 2
    Rings = {TRUE, FALSE}
    PeerIds = FALSE
    Session = {s1}
    MaxSessions = 1
    MaxFaults = 1
SPECIFICATION Spec
INVARIANTS ServesWhole SessionsAgree
PROPERTY Reforms
CHECK_DEADLOCK FALSE
