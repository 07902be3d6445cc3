CONSTANTS
    l1 = l1
    l2 = l2
    Link = {l1, l2}
    Wrap = 8
    Setups <- Ring
    LateReaders = FALSE
SPECIFICATION Spec
SYMMETRY ClientSymmetry
INVARIANTS Accounted NoOrphans RequestSafe DissolvesOnFailure
