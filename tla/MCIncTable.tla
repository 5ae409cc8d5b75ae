----------------------------- MODULE MCIncTable -----------------------------
(* Small instances of IncTable. *)
EXTENDS IncTable, TLC

CONSTANTS c1, c2, k1, k2, k3

TwoKeys == {k1, k2}
ThreeKeys == {k1, k2, k3}
One == {c1}
Two == {c1, c2}
Other == {c2}

\* Bodies with the byte of the marker, zeros in front, or nothing at all.
MCBody == [k \in EntryKeys \cup {NoKey} |->
              CASE k = k1 -> <<1, 1>> [] k = k2 -> <<>> [] k = k3 -> <<0, 1>> [] OTHER -> <<2>>]
\* Entry sizes of one byte more than the longest body, and too small for it.
Roomy == {3}
Tight == {1, 3}

Entry(op, id, from, key) == [op |-> op, id |-> id, from |-> from, key |-> key]

Appends == {Entry("append", 0, "top", k) : k \in {k1, k2}}
Appending == Appends \cup {Entry("append", 0, "top", NoKey)}
Inserts == {Entry("insert", i, from, k) :
               i \in 0 .. 1, from \in {"top", "bottom"}, k \in {k2, k3}}

\* A client that names every row it inserts.
AllKeyed == Appending \cup Inserts
\* Every row has a key, one goes in front of the others.
KeyedInsert == Appends \cup {Entry("insert", 0, "bottom", k3)}
\* A row is inserted without a key.
KeylessInsert == Appends \cup {Entry("insert", 0, "bottom", NoKey)}
\* Rows are overwritten under a key that another row may have.
Renaming == Appends \cup {Entry("overwrite", 0, "bottom", k2)}
\* Every kind of request: with a key and without, counted from either end.
OneOfEach == {Entry("append", 0, "top", NoKey), Entry("insert", 1, "top", k1),
              Entry("insert", 0, "bottom", NoKey), Entry("overwrite", 1, "top", k2)}

Ask(op, n, k) == [NoRequest EXCEPT !.op = op, !.id = n, !.key = k]
AllReads == {Ask("by_key", 0, k1), Ask("by_key", 0, k2), Ask("first", 2, NoKey),
             Ask("last", 2, NoKey), Ask("by_id", 0, NoKey)}
=============================================================================
