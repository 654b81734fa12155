------------------------- MODULE MCStableIdentities -------------------------
(* The order of identities whose ordinals have one digit: an earlier format *)
(* sorts before the connector's.                                            *)
EXTENDS StableIdentities

MCLess(a, b) == \/ a[1] = "document" /\ b[1] = "complaint"
                \/ a[1] = b[1] /\ a[2] < b[2]
=============================================================================
