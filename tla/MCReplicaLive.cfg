CONSTANTS
    l1 = l1
    l2 = l2
    Link = {l1, l2}
    Wrap = 8
    Setups <- Small
    LateReaders = FALSE
SPECIFICATION FairSpec
PROPERTIES Answered GoneFreed
