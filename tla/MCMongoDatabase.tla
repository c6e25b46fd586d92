-------------------------- MODULE MCMongoDatabase --------------------------
(* Two modules, one of which may fail, and two keys, one of which may be     *)
(* removed.                                                                  *)
EXTENDS MongoDatabase

CONSTANTS c1, c2, k1, k2, v1

mcClients   == {c1, c2}
mcFailing   == {c2}
mcKeys      == {k1, k2}
mcRemovable == {k1}
mcValues    == {v1}
=============================================================================
