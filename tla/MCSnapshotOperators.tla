------------------------- MODULE MCSnapshotOperators -------------------------
(* Instances of SnapshotOperators for TLC.                                 *)
EXTENDS SnapshotOperators

CONSTANTS o1, o2, t1, t2, r1, m1

Pkg(id, digest, once, defect) ==
    [snapshot_id |-> id, scope |-> "transparencyapi", digest |-> digest,
     rowCount |-> [r \in RowIds |-> IF r \in once THEN 1 ELSE 0],
     populated |-> {}, schema |-> m1, defect |-> defect]

MCDigests == 1..4

\* Two good packages and, under the identity of the second, a defective one.
MCPackages ==
    {Pkg(t1, 1, {r1}, FALSE), Pkg(t2, 2, {}, FALSE), Pkg(t2, 3, {r1}, TRUE)}
=============================================================================
