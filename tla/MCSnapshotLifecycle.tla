------------------------- MODULE MCSnapshotLifecycle -------------------------
(* Instances of SnapshotLifecycle and of the projection for TLC.           *)
EXTENDS FacilityProjection

CONSTANTS f1, f2, l1, t1, t2, t3, r1, r2, m1, m2, v1, v2

Pkg(id, scope, digest, once, twice, populated, schema, defect) ==
    [snapshot_id |-> id, scope |-> scope, digest |-> digest,
     rowCount |-> [r \in RowIds |->
                     IF r \in twice THEN 2 ELSE IF r \in once THEN 1 ELSE 0],
     populated |-> populated, schema |-> schema, defect |-> defect]

MCDigests == 1..9

\* Two fixtures with different schemas, a live query with another package
\* under its identity, duplicates, a defective package, and an address of r1 that
\* two later snapshots lack or that one of them changes.
MCPackages ==
    {Pkg(f1, "fixture", 1, {r1, r2}, {}, {}, m1, FALSE),
     Pkg(f2, "fixture", 2, {r1}, {}, {}, m2, FALSE),
     Pkg(l1, "live_query", 3, {r2}, {}, {}, m1, FALSE),
     Pkg(l1, "live_query", 4, {r1}, {r2}, {}, m1, FALSE),
     Pkg(t1, "transparencyapi", 5, {r1, r2}, {}, {r1}, m1, FALSE),
     Pkg(t2, "transparencyapi", 6, {r1}, {r2}, {}, m1, FALSE),
     Pkg(t2, "transparencyapi", 7, {r1}, {}, {}, m1, TRUE),
     Pkg(t2, "transparencyapi", 9, {r1, r2}, {}, {r1, r2}, m1, FALSE),
     Pkg(t3, "transparencyapi", 8, {r1}, {}, {}, m1, FALSE)}

\* The changed address is the one of payload 9.
MCValueOf == [d \in MCDigests |-> [r \in RowIds |-> IF d = 9 THEN v2 ELSE v1]]

\* No other source, a reference row, complaint-linked rows that differ.
MCOtherSources ==
    {{}, {Alternative("program_reference", 1, v2)},
     {Alternative("complaint_linked_facility", 1, v1),
      Alternative("complaint_linked_facility", 1, v2)}}
=============================================================================
