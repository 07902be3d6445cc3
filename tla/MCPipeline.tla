----------------------------- MODULE MCPipeline -----------------------------
EXTENDS Pipeline

Shape(count, ring, depth, width, draftTokens, budget, end, faulty) ==
    [n |-> count, ring |-> ring, depth |-> depth, width |-> width, draft |-> draftTokens,
     budget |-> budget, endAt |-> end, faulty |-> faulty]

MCShapes == {
    Shape(2, FALSE, 2, 2, Tokens, 3, 99, FALSE),
    Shape(1, FALSE, 2, 2, Tokens, 4, 99, FALSE),
    Shape(2, TRUE, 1, 2, Tokens \cup {Eog}, 4, 3, FALSE),
    Shape(2, TRUE, 2, 2, Tokens, 3, 99, FALSE),
    Shape(2, TRUE, 1, 2, Tokens, 3, 99, TRUE),
    Shape(2, FALSE, 1, 2, Tokens, 3, 99, TRUE),
    Shape(2, FALSE, 2, 1, Tokens, 3, 99, FALSE),
    Shape(2, FALSE, 3, 4, {0}, 9, 99, FALSE) }
MCPrompt == <<1>>
=============================================================================
