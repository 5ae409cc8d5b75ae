----------------------------- MODULE DurableMap -----------------------------
(***************************************************************************)
(* What the log of a table index promises as long as it is not rotated:    *)
(* a restart brings back for each key a value that the index had, no older *)
(* than the one that a restart would have brought back before, and no      *)
(* value of a key gets to the log out of turn. Each key is on its own: a   *)
(* restart may bring back an early value of one and a late one of another. *)
(***************************************************************************)
EXTENDS Integers, Sequences

CONSTANTS Keys, Spans, Absent

VARIABLES
    map,     \* the index
    history  \* per key: what a restart would bring back, and every later value

vars == <<map, history>>

Init ==
    /\ map = [k \in Keys |-> Absent]
    /\ history = [k \in Keys |-> <<Absent>>]

Update(k, s) ==
    /\ map' = [map EXCEPT ![k] = s]
    /\ history' = [history EXCEPT ![k] = Append(@, s)]

\* The oldest values of each key are superseded by a later one on disk.
Persist ==
    /\ history' = [k \in Keys |-> history'[k]]
    /\ \A k \in Keys :
          \E n \in 1 .. Len(history[k]) :
              history'[k] = SubSeq(history[k], n, Len(history[k]))
    /\ UNCHANGED map

Restart ==
    /\ map' = [k \in Keys |-> history[k][1]]
    /\ history' = [k \in Keys |-> <<history[k][1]>>]

Next ==
    \/ \E k \in Keys, s \in Spans \cup {Absent} : Update(k, s)
    \/ Persist
    \/ Restart

Spec == Init /\ [][Next]_vars
=============================================================================
