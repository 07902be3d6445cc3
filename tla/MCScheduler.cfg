CONSTANTS
    Item = {"a", "b", "c"}
    Generate = {"a", "b"}
    Key = {"k"}
    Turn = {"s1", "s2"}
    KeyOf <- Keys
    TurnOf <- Turns
    Capacity = {2, 3}
SPECIFICATION Spec
INVARIANTS PendingExact NoLostJob
PROPERTIES TurnsTaken
CHECK_DEADLOCK FALSE
