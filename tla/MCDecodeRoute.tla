--------------------------- MODULE MCDecodeRoute ----------------------------
EXTENDS DecodeRoute

Route(count, mode, asks, budgets, draft, chunk, end, faulty) ==
    [n |-> count, mode |-> mode, asks |-> asks, budgets |-> budgets, draft |-> draft,
     chunk |-> chunk, endAt |-> end, faulty |-> faulty]

MCRoutes == {
    Route(2, "owner", 2, {2}, FALSE, 0, 9, TRUE),
    Route(2, "owner", 2, {2}, FALSE, 1, 4, FALSE),
    Route(1, "owner", 2, {2}, FALSE, 0, 9, TRUE),
    Route(3, "loop", 2, {1, 4}, TRUE, 1, 4, FALSE),
    Route(1, "loop", 2, {1, 4}, TRUE, 0, 9, TRUE),
    Route(2, "loop", 2, {1, 4}, TRUE, 0, 9, TRUE),
    Route(2, "ring", 2, {1, 3}, FALSE, 0, 9, TRUE),
    Route(2, "hub", 2, {1, 3}, TRUE, 0, 4, TRUE),
    Route(2, "hub", 3, {1, 3}, FALSE, 0, 4, TRUE) }
MCPrompts == {<<0>>, <<1, 0>>}
MCChats == {<<0, 1, 1>>}
=============================================================================
