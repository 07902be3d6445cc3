--------------------------- MODULE MCRangeCache ----------------------------
EXTENDS RangeCache

T(kind, layer, size) == [kind |-> kind, layer |-> layer, size |-> size]

\* The last of three layers of a model with tied embeddings: its units lie apart
\* and one range is longer than a chunk.  The draft model is kept whole.
MCTensors == [p \in Path |-> IF p = "stage"
    THEN <<T("token_embd", 0, 1), T("blk", 0, 1), T("blk", 1, 1), T("blk", 2, 2), T("output_norm", 0, 1)>>
    ELSE <<T("token_embd", 0, 1), T("blk", 0, 1)>>]
MCSpan == [p \in Path |-> IF p = "stage" THEN <<2, 3>> ELSE <<0, 1>>]

\* What the proofs take from the layout, for these models.
ASSUME MCLayout == ChunksCover
=============================================================================
