--------------------------- MODULE MCPeerManager ---------------------------
(* A small network for TLC: two modules and two connections.                *)
EXTENDS PeerManager, TLC

CONSTANTS A, B, a, b, l1, l2

mcModules == {A, B}
mcUris    == {a, b}
mcHostOf  == (a :> A) @@ (b :> B)

\* B registers with a text that A cannot parse.
mcOwnUri  == (A :> a) @@ (B :> NULL)
mcLinks   == {l1, l2}

\* A dials B, and again before or after, or B dials A as well.
mcDials   == {<<l1, A, b>>, <<l2, A, b>>, <<l2, B, a>>}

\* A asks B to quit, B sends messages.
mcKinds   == (A :> {"quit"}) @@ (B :> {"other"})

mcFaults  == {A, l1}
=============================================================================
