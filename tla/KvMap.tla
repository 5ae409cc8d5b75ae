-------------------------------- MODULE KvMap --------------------------------
(***************************************************************************)
(* What a table promises to a client that is its only writer: it is a map  *)
(* from keys to values. A save binds one key, a free unbinds one key, and   *)
(* neither changes what any other key maps to. ReadSpec adds what reads    *)
(* would be if each took effect when it begins: it notes what its key maps *)
(* to, and answers that.                                                   *)
(***************************************************************************)
CONSTANTS Keys, Values, Absent, Readers

VARIABLES
    map,
    answer    \* per reader: what the read under way is going to answer

Init == map = [k \in Keys |-> Absent]

Save(k, v) == map' = [map EXCEPT ![k] = v]

Free(k) == map' = [map EXCEPT ![k] = Absent]

Next == \E k \in Keys : Free(k) \/ \E v \in Values : Save(k, v)

Spec == Init /\ [][Next]_map

Ask(c, k) ==
    /\ answer[c] = Absent /\ map[k] # Absent
    /\ answer' = [answer EXCEPT ![c] = map[k]]
    /\ UNCHANGED map

Answer(c) ==
    /\ answer[c] # Absent
    /\ answer' = [answer EXCEPT ![c] = Absent]
    /\ UNCHANGED map

ReadNext == \/ Next /\ UNCHANGED answer
            \/ \E c \in Readers : Answer(c) \/ \E k \in Keys : Ask(c, k)

ReadSpec == /\ Init /\ answer = [c \in Readers |-> Absent]
            /\ [][ReadNext]_<<map, answer>>
=============================================================================
