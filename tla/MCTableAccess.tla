---------------------------- MODULE MCTableAccess ----------------------------
(* Small instances of TableAccess. *)
EXTENDS TableAccess, TLC

CONSTANTS c1, c2, t1, t2, k1, d1, d2

TwoClients == {c1, c2}
TwoTables == {t1, t2}
OneKey == {k1}
TwoDirs == {d1, d2}
\* Tables with directories of their own, and two names that sanitise to one.
OwnDirs == t1 :> d1 @@ t2 :> d2
SharedDir == t1 :> d1 @@ t2 :> d1
=============================================================================
