----------------------------- MODULE MCIndexWal -----------------------------
(* Small instances of IndexWal. *)
EXTENDS IndexWal, TLC

CONSTANTS k1, k2, s0, s1, s2, c1, c2

TwoKeys == {k1, k2}
OneSpan == {s1}
TwoSpans == {s1, s2}
Both == {c1, c2}
OneByOne == <<{k1}, {k2}>>
\* Each key is changed by one client, or by both.
OwnKeys == k1 :> {c1} @@ k2 :> {c2}
Shared == k1 :> Both @@ k2 :> Both
Nobodys == k1 :> {} @@ k2 :> {c2}
\* Both keys plain, or k2 the key of k1 with a "|" and something behind it.
PlainKeys == k1 :> k1 @@ k2 :> k2
BarredKey == k1 :> k1 @@ k2 :> k1
NoImport == k1 :> Absent @@ k2 :> Absent
Import == k1 :> s0 @@ k2 :> Absent
=============================================================================
