-------------------------- MODULE MCSubscriptions --------------------------
(* Small instances of Subscriptions. *)
EXTENDS Subscriptions

CONSTANTS c1, c2, n1, n2, k1, a1, a2

OneConn == {c1}
TwoConns == {c1, c2}
OneKey == {k1}
OneToken == {a1}
TwoTokens == {a1, a2}
OneNotifier == {n1}
TwoNotifiers == {n1, n2}
=============================================================================
