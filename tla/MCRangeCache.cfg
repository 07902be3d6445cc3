CONSTANTS
    Revision = {r1, r2}
    NoRev = NoRev
    Path = {"stage", "draft"}
    Tensors <- MCTensors
    Header = 1
    Span <- MCSpan
    ChunkUnits = 2
    MaxFaults = 2
    MaxRestarts = 2
SPECIFICATION Spec
INVARIANTS WeightsAreRight AnnouncedIsWhole
PROPERTIES Recovers
