----------------------------- MODULE MCWalSync -----------------------------
(* Small instances of WalSync. *)
EXTENDS WalSync

CONSTANTS f1, f2, f3

Three == {f1, f2, f3}
Two == {f1, f2}
=============================================================================
