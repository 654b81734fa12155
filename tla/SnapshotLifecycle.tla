-------------------------- MODULE SnapshotLifecycle --------------------------
(***************************************************************************)
(* The lifecycle functions of hosted_app/source_snapshot_lifecycle.py with *)
(* each call in a transaction of its own that no other call overlaps: the  *)
(* way tests, scripts and a single operator use them. Overlapping command  *)
(* line transactions are the subject of module SnapshotOperators.          *)
(*                                                                         *)
(* A call that raises, or that finds its work done (a repeated stage,      *)
(* accept, promote or rollback), leaves the database as it is.             *)
(***************************************************************************)
EXTENDS SnapshotTables

VARIABLES
    state,      \* source_snapshots.lifecycle_state, "absent" before the insert
    evidence,   \* the immutable columns, rows and disappearances
    active,     \* source_snapshot_pointers.active_snapshot_id, by family
    prior       \* source_snapshot_pointers.prior_accepted_snapshot_id

vars == <<state, evidence, active, prior>>

TypeOK ==
    /\ state \in [SnapshotIds -> States]
    /\ evidence \in [SnapshotIds -> Evidence \cup {None}]
    /\ active \in [Families -> SnapshotIds \cup {None}]
    /\ prior \in [Families -> SnapshotIds \cup {None}]

Init ==
    /\ state = [s \in SnapshotIds |-> "absent"]
    /\ evidence = [s \in SnapshotIds |-> None]
    /\ active = [f \in Families |-> None]
    /\ prior = [f \in Families |-> None]

-----------------------------------------------------------------------------

\* Fault: a repeated stage replaces what is stored.
StageReplaces(p) ==
    LET s == p.snapshot_id
        base == active[FamilyOf(p.scope)]
    IN /\ state' = [state EXCEPT ![s] = "candidate"]
       /\ evidence' = [evidence EXCEPT ![s] = Inspect(p, base, evidence[base])]
       /\ UNCHANGED <<active, prior>>

\* _stage_arcgis_snapshot and stage_transparencyapi_snapshot. An identity that
\* exists is returned as stored or, with other evidence, refused.
Stage(p) ==
    LET s == p.snapshot_id
        base == active[FamilyOf(p.scope)]
    IN /\ state[s] = "absent"
       /\ state' = [state EXCEPT ![s] = "candidate"]
       /\ evidence' = [evidence EXCEPT ![s] = Inspect(p, base, evidence[base])]
       /\ UNCHANGED <<active, prior>>

Validate(s, scope) ==
    /\ state[s] = "candidate"
    /\ IsOfScope(evidence, s, scope)
    /\ state' = [state EXCEPT ![s] =
                    IF evidence[s].rejected THEN "rejected" ELSE "validated"]
    /\ UNCHANGED <<evidence, active, prior>>

Accept(s, scope) ==
    /\ state[s] = "validated"
    /\ IsOfScope(evidence, s, scope)
    /\ state' = [state EXCEPT ![s] = "accepted"]
    /\ UNCHANGED <<evidence, active, prior>>

\* Fault: the scope is written to the column of the prior snapshot.
PromoteWrongColumn(s, scope) ==
    LET f == FamilyOf(scope)
    IN /\ state[s] # "absent"
       /\ IsAccepted(state, evidence, s, f, scope)
       /\ active[f] # s
       /\ active' = [active EXCEPT ![f] = s]
       /\ prior' = [prior EXCEPT ![f] = scope]
       /\ UNCHANGED <<state, evidence>>

\* Insert of the first pointer row, or move of an existing one.
Promote(s, scope) ==
    LET f == FamilyOf(scope)
    IN /\ state[s] # "absent"
       /\ IsAccepted(state, evidence, s, f, scope)
       /\ active[f] # s
       /\ active' = [active EXCEPT ![f] = s]
       /\ prior' = [prior EXCEPT ![f] = active[f]]
       /\ UNCHANGED <<state, evidence>>

\* A call whose expected snapshot is already the prior one changes nothing.
Rollback(expected, scope) ==
    LET f == FamilyOf(scope)
    IN /\ active[f] = expected
       /\ prior[f] # None
       /\ IsAccepted(state, evidence, active[f], f, scope)
       /\ IsAccepted(state, evidence, prior[f], f, PriorScope(scope))
       /\ active' = [active EXCEPT ![f] = prior[f]]
       /\ prior' = [prior EXCEPT ![f] = active[f]]
       /\ UNCHANGED <<state, evidence>>

Next ==
    \/ \E p \in Packages : Stage(p)
    \/ \E s \in SnapshotIds, scope \in Scopes :
          Validate(s, scope) \/ Accept(s, scope) \/ Promote(s, scope)
             \/ Rollback(s, scope)

Spec == Init /\ [][Next]_vars

-----------------------------------------------------------------------------
(* Properties.                                                             *)

\* The active pointer of a family, and the prior one a rollback returns to,
\* name two different accepted snapshots of that family, whatever sequence of
\* stage, validate, accept, promote and rollback calls came before.
PointerSafe ==
    \A f \in Families :
        /\ \A s \in {active[f], prior[f]} \ {None} :
              /\ state[s] = "accepted"
              /\ FamilyOf(evidence[s].scope) = f
              /\ ~evidence[s].rejected
        /\ prior[f] # None => active[f] # None
        /\ active[f] # None => active[f] # prior[f]

\* A staged snapshot was compared with a snapshot of its own family that is
\* accepted still: its disappearances are exactly the rows it lacks, an ArcGIS
\* snapshot that passed has the schema of the one it was compared with, and a
\* TransparencyAPI snapshot has lost no value of a row that both have, over
\* however many snapshots that value was handed down.
LineageSound ==
    \A s \in SnapshotIds :
        (state[s] # "absent" /\ evidence[s].base # None) =>
            LET e == evidence[s]
                b == evidence[e.base]
            IN /\ state[e.base] = "accepted"
               /\ e.base # s
               /\ FamilyOf(b.scope) = FamilyOf(e.scope)
               /\ e.gone = b.rows \ e.rows
               /\ (FamilyOf(e.scope) = "arcgis" /\ ~e.rejected)
                     => e.schema = b.schema
               /\ FamilyOf(e.scope) = "transparencyapi"
                     => e.resolved = e.populated \cup (b.resolved \cap e.rows)

\* A family with a prior snapshot can be rolled back by one of the wrappers,
\* except when a fixture was promoted over a live ArcGIS snapshot, which
\* neither ArcGIS wrapper accepts.
RollbackAvailable ==
    \A f \in Families :
        prior[f] # None =>
            \/ \E scope \in Scopes :
                  /\ FamilyOf(scope) = f
                  /\ IsAccepted(state, evidence, active[f], f, scope)
                  /\ IsAccepted(state, evidence, prior[f], f, PriorScope(scope))
            \/ /\ evidence[active[f]].scope = "fixture"
               /\ evidence[prior[f]].scope = "live_query"

\* No call rewrites staged evidence, takes a snapshot out of a final state, or
\* leaves a family that had an active snapshot without one.
HistoryKept ==
    [][/\ \A s \in SnapshotIds :
             state[s] # "absent" =>
                /\ evidence'[s] = evidence[s]
                /\ state[s] \in {"rejected", "accepted"} => state'[s] = state[s]
       /\ \A f \in Families : active[f] # None => active'[f] # None]_vars
=============================================================================
