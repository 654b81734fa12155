---------------------------- MODULE SnapshotTables ----------------------------
(***************************************************************************)
(* Tables and pure decisions of the shared source snapshot lifecycle       *)
(* (hosted_app/source_snapshot_lifecycle.py and the TransparencyAPI        *)
(* staging code in connectors/ccld_transparency_api/lifecycle.py).         *)
(* Modules that put the decisions in time extend this one.                 *)
(***************************************************************************)
EXTENDS Naturals

CONSTANTS
    SnapshotIds,    \* values of source_snapshots.snapshot_id
    RowIds,         \* source_object_id (ArcGIS) or facility_number
    Fingerprints,   \* canonical schema and domain fingerprints
    Digests,        \* the pair manifest_sha256, raw_payload_sha256
    Packages,       \* manifest packages an operator may present
    None            \* SQL NULL, or no row

Families == {"arcgis", "transparencyapi"}
Scopes == {"fixture", "live_query", "transparencyapi"}
States == {"absent", "candidate", "validated", "rejected", "accepted"}

\* Every storage scope belongs to exactly one source family.
FamilyOf(scope) == IF scope = "transparencyapi" THEN scope ELSE "arcgis"

\* rowCount says how often each row identity occurs in the raw payload, where 2
\* also stands for a TransparencyAPI row that is quarantined for its content,
\* and populated which of them carry a value in the fields that a blank may not
\* overwrite; defect stands for every rejection that the package alone decides
\* (manifest, digests, row shape, taxonomy).
Package == [snapshot_id : SnapshotIds, scope : Scopes, digest : Digests,
            rowCount : [RowIds -> 0..2], populated : SUBSET RowIds,
            schema : Fingerprints, defect : BOOLEAN]

\* What staging stores about a snapshot, in four tables, and never changes. The
\* base is stored with each disappearance; here it is known without one too.
Evidence == [scope : Scopes, digest : Digests, rows : SUBSET RowIds,
             populated : SUBSET RowIds, resolved : SUBSET RowIds,
             schema : Fingerprints, rejected : BOOLEAN,
             base : SnapshotIds \cup {None}, gone : SUBSET RowIds]

ASSUME PackagesAssumption ==
    /\ Packages \subseteq Package
    \* A digest covers the manifest, which fixes the identity and the payload.
    /\ \A p, q \in Packages : p.digest = q.digest => p = q

ASSUME NoneAssumption == None \notin SnapshotIds

-----------------------------------------------------------------------------
(* inspect_* : what a package is found to be against the active snapshot.  *)

HasDuplicates(p) == \E r \in RowIds : p.rowCount[r] > 1

\* ArcGIS drops all rows of a payload with a duplicate ObjectId; TransparencyAPI
\* quarantines only the duplicated facility numbers.
EligibleRows(p) ==
    IF FamilyOf(p.scope) = "arcgis" /\ HasDuplicates(p)
    THEN {}
    ELSE {r \in RowIds : p.rowCount[r] = 1}

\* ArcGIS also rejects duplicates and drift from the active schema.
Rejected(p, base, baseEvidence) ==
    \/ p.defect
    \/ /\ FamilyOf(p.scope) = "arcgis"
       /\ HasDuplicates(p) \/ (base # None /\ baseEvidence.schema # p.schema)

\* preserve_prior_populated_values: a TransparencyAPI row without a value takes
\* over the one resolved in the active snapshot.
Resolved(p, base, baseEvidence) ==
    {r \in EligibleRows(p) :
        \/ r \in p.populated
        \/ /\ FamilyOf(p.scope) = "transparencyapi"
           /\ base # None
           /\ r \in baseEvidence.resolved}

\* Fault: a quarantined row still counts as present.
InspectQuarantinedPresent(p, base, baseEvidence) ==
    [scope |-> p.scope, digest |-> p.digest, rows |-> EligibleRows(p),
     populated |-> EligibleRows(p) \cap p.populated,
     resolved |-> Resolved(p, base, baseEvidence), schema |-> p.schema,
     rejected |-> Rejected(p, base, baseEvidence), base |-> base,
     gone |-> IF base = None THEN {}
              ELSE baseEvidence.rows \ {r \in RowIds : p.rowCount[r] > 0}]

\* What staging stores, the disappearances against the active snapshot included.
Inspect(p, base, baseEvidence) ==
    [scope |-> p.scope, digest |-> p.digest, rows |-> EligibleRows(p),
     populated |-> EligibleRows(p) \cap p.populated,
     resolved |-> Resolved(p, base, baseEvidence), schema |-> p.schema,
     rejected |-> Rejected(p, base, baseEvidence), base |-> base,
     gone |-> IF base = None THEN {} ELSE baseEvidence.rows \ EligibleRows(p)]

-----------------------------------------------------------------------------
(* Checks shared by validate, accept, promote and rollback.                *)

\* _assert_snapshot_identity: the caller's scope fixes family and scope. (The
\* live_query wrappers also demand an isolated non-production database.)
IsOfScope(evidence, s, scope) == evidence[s].scope = scope

\* Fault: any snapshot that passed validation will do.
IsValidatedOrAccepted(state, evidence, s, family, scope) ==
    /\ state[s] \in {"validated", "accepted"}
    /\ FamilyOf(evidence[s].scope) = family
    /\ scope # None => evidence[s].scope = scope

\* _assert_accepted_source_snapshot; expected scope None stands for either
\* ArcGIS scope.
IsAccepted(state, evidence, s, family, scope) ==
    /\ state[s] = "accepted"
    /\ FamilyOf(evidence[s].scope) = family
    /\ scope # None => evidence[s].scope = scope

\* Fault: a live snapshot may only be rolled back to a live one.
SamePriorScope(scope) == scope

\* The prior scope each rollback wrapper expects.
PriorScope(scope) == IF scope = "live_query" THEN None ELSE scope
=============================================================================
