----------------------------- MODULE MCPeerNet -----------------------------
(* Small instances of PeerNet. *)
EXTENDS PeerNet, TLC

CONSTANTS c1, c2, p1, p2, k1, k2

\* One call to two peers, of which the first has the key and sends requests itself.
OneCall == {c1}
OneQuestion == c1 :> k1
TwoPeers == {p1, p2}
OneOfTwoHas == p1 :> {k1} @@ p2 :> {}

\* Two calls for two keys, to one peer that has both.
TwoCalls == {c1, c2}
TwoQuestions == c1 :> k1 @@ c2 :> k2
OnePeer == {p1}
OneStore == p1 :> {k1, k2}
=============================================================================
