-------------------------- MODULE FacilityProjection --------------------------
(***************************************************************************)
(* What facility_identity_projection.py shows of one governed field of a   *)
(* facility (its address or telephone) while the snapshots that feed it    *)
(* are staged, promoted and rolled back by module SnapshotLifecycle.       *)
(***************************************************************************)
EXTENDS SnapshotLifecycle, FiniteSets

CONSTANTS
    Values,         \* normalized values of the field
    ValueOf,        \* the value of each row in the payload with each digest
    OtherSources    \* contents of the reference and complaint-linked tables

ASSUME ValuesAssumption ==
    /\ None \notin Values
    /\ ValueOf \in [Digests -> [RowIds -> Values]]
    /\ OtherSources \subseteq
          SUBSET [kind : {"program_reference", "complaint_linked_facility"},
                  at : Nat, value : Values \cup {None}]

\* _DEFAULT_FIELD_PRECEDENCE, first to last.
Precedence == <<"transparencyapi_current", "transparencyapi_prior_accepted",
                "arcgis_supplement", "program_reference", "complaint_linked_facility">>

\* An alternative without a value is blank, a placeholder, absent or invalid.
Alternative(kind, at, value) == [kind |-> kind, at |-> at, value |-> value]

FromSnapshot(kind, s, r) ==
    IF s # None /\ r \in evidence[s].rows
    THEN {Alternative(kind, 0, IF r \in evidence[s].populated
                               THEN ValueOf[evidence[s].digest][r] ELSE None)}
    ELSE {}

\* _active_snapshot, which reads accepted snapshots of the family alone, and whether
\* its scope makes it eligible.
Available(family, scope) ==
    /\ active[family] # None
    /\ IsAccepted(state, evidence, active[family], family, scope)

\* Fault: the prior snapshot is not read.
WithoutPrior(r) ==
    IF Available("transparencyapi", "transparencyapi")
    THEN FromSnapshot("transparencyapi_current", active["transparencyapi"], r)
    ELSE {}

\* Rows of the active snapshot and of the prior one. Both are read as observed,
\* not as resolved by staging.
FromTransparencyApi(r) ==
    IF Available("transparencyapi", "transparencyapi")
    THEN FromSnapshot("transparencyapi_current", active["transparencyapi"], r)
         \cup FromSnapshot("transparencyapi_prior_accepted",
                           prior["transparencyapi"], r)
    ELSE {}

FromArcGis(r) ==
    IF Available("arcgis", "live_query")
    THEN FromSnapshot("arcgis_supplement", active["arcgis"], r)
    ELSE {}

Alternatives(r, others) == FromTransparencyApi(r) \cup FromArcGis(r) \cup others

\* _select_alternative: the newest observation of the first source that has a
\* value, and no winner when its newest observations differ.
Selected(populated) ==
    LET ofKind(k) == {a \in populated : a.kind = Precedence[k]}
        first == CHOOSE k \in DOMAIN Precedence :
                    ofKind(k) # {} /\ \A j \in 1..(k - 1) : ofKind(j) = {}
        newest == {a \in ofKind(first) : \A b \in ofKind(first) : b.at <= a.at}
        values == {a.value : a \in newest}
    IN IF populated # {} /\ Cardinality(values) = 1
       THEN CHOOSE v \in values : TRUE ELSE None

\* _project_field.
Shown(r, others) ==
    Selected({a \in Alternatives(r, others) : a.value # None})

-----------------------------------------------------------------------------
(* Properties.                                                             *)

\* "Blank never erases an eligible nonblank value": when a promotion or a
\* rollback moves the active pointer away from a snapshot that carried the field
\* of a facility, what is shown for it then is that value still or the one the
\* new snapshot carries, whatever the supplementary and historical sources hold.
ValuesKept ==
    [][\A r \in RowIds, others \in OtherSources :
          LET old == active["transparencyapi"]
              new == active'["transparencyapi"]
              own == ValueOf[evidence[new].digest][r]
          IN (old # new /\ old # None /\ r \in evidence[old].populated)
             => Shown(r, others)' = IF r \in evidence[new].populated
                                    THEN own ELSE Shown(r, others)]_vars
=============================================================================
