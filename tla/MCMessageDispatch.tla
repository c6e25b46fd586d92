------------------------- MODULE MCMessageDispatch -------------------------
(* A small instance of MessageDispatch for TLC.                             *)
EXTENDS MessageDispatch

CONSTANTS p1, p2, a, b, t1, hdl

mcPeers      == {p1, p2}
mcOnePeer    == {p1}
mcKinds      == {a, b}
mcOneThread  == {t1}
=============================================================================
