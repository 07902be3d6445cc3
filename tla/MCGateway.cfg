CONSTANTS
    r1 = r1
    r2 = r2
    r3 = r3
    Request = {r1, r2, r3}
    ScopeOf <- MCScope
    Model = {"m1", "m2"}
    NoModel = NoModel
    QueueSize = 2
    MaxPins = 1
    c1 = c1
    c2 = c2
    c3 = c3
    Chat = {c1, c2, c3}
    Message = {"a", "b"}
    AskOf <- MCAsk
    Endpoints <- MCEndpoints
    MaxFaults = 2
SPECIFICATION Spec
INVARIANTS OneClient OwnText OwnHistory NoForgottenSession
CHECK_DEADLOCK FALSE
