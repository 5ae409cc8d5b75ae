----------------------------- MODULE MCKvStore -----------------------------
(* Small instances of KvStore. *)
EXTENDS KvStore, TLC

CONSTANTS k1, k2, a, b, c1, c2

TwoKeys == {k1, k2}
TwoValues == {a, b}
\* a takes one cell, b takes two.
MCSize == a :> 1 @@ b :> 2
\* Each key has its own value, as in the tests that save "data-i" under "key-i".
OwnWorkload == {<<k1, a>>, <<k2, b>>}

First == {c1}
Second == {c2}
Both == {c1, c2}
=============================================================================
