---------------------------- MODULE MCKvRecovery ----------------------------
(* Small instances of KvRecovery. *)
EXTENDS KvRecovery, TLC

CONSTANTS k1, k2, a, b, c1, c2

TwoKeys == {k1, k2}
OneKey == {k1}
TwoValues == {a, b}
MCSize == a :> 1 @@ b :> 2
OwnWorkload == {<<k1, a>>, <<k2, b>>}
\* Both values are saved under one key, the larger over the smaller and back.
SharedKey == {<<k1, a>>, <<k1, b>>}
First == {c1}
Second == {c2}
=============================================================================
