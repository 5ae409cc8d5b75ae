------------------------------ MODULE FreeList ------------------------------
(***************************************************************************)
(* The free list of one table (data/defragmentationManager): the map       *)
(* "blocks" from a key to the file span that may be overwritten.           *)
(* Each operation of the package is an operator on that map; fl.mu makes   *)
(* each of them one atomic step of whoever calls it.                       *)
(* A block is [start, end); FreeBlock.Size is end - start on every path of *)
(* the code and FileName is always the name of the table itself, so        *)
(* neither is kept.                                                        *)
(***************************************************************************)
EXTENDS Integers

Length(b) == b.end - b.start

\* b lies within block a (the bounds test of SaveBlockCheck).
Within(b, a) == a.start <= b.start /\ b.end <= a.end

\* No byte belongs to both spans.
Apart(a, b) == a.end <= b.start \/ b.end <= a.start

\* fl.blocks[key] = block: an earlier block filed under the same key is lost.
MarkAsFree(free, key, block) ==
    [k \in DOMAIN free \cup {key} |-> IF k = key THEN block ELSE free[k]]

\* Variant: the block that was handed out stays listed.
UnlistNothing(free, key) == free
Unlist(free, key) == [k \in DOMAIN free \ {key} |-> free[k]]

Fitting(free, size) == {k \in DOMAIN free : Length(free[k]) >= size}

\* The keys GetBlock may pick: the smallest block that fits. Ties are broken
\* by Go's map order, which is arbitrary.
BestFit(free, size) ==
    {k \in Fitting(free, size) :
        \A j \in Fitting(free, size) : Length(free[k]) <= Length(free[j])}

\* fmt.Sprintf("%s_%d", key, endPtr)
SplitKey(key, offset) == <<key, offset>>

Cut(free, key, start, end) ==
    MarkAsFree(free, key, [start |-> start, end |-> end])

\* What SaveBlockCheck leaves of the block filed under key once span has been
\* written inside it: nothing, its tail, its head, or both.
Carve(free, key, span) ==
    LET block == free[key]
    IN  CASE span.start = block.start /\ span.end = block.end ->
               Unlist(free, key)
          [] span.start = block.start /\ span.end # block.end ->
               Cut(free, key, span.end, block.end)
          [] span.start # block.start /\ span.end = block.end ->
               Cut(free, key, block.start, span.start)
          [] OTHER ->
               Cut(Cut(free, key, block.start, span.start),
                   SplitKey(key, span.end), span.end, block.end)

Covering(free, span) == {k \in DOMAIN free : Within(span, free[k])}

\* The maps SaveBlockCheck may leave: it carves the first covering block that
\* the iteration over the Go map meets.
SaveBlockCheck(free, span) ==
    IF Covering(free, span) = {} THEN {free}
    ELSE {Carve(free, k, span) : k \in Covering(free, span)}
=============================================================================
