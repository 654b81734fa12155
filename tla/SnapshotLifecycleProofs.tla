----------------------- MODULE SnapshotLifecycleProofs -----------------------
(***************************************************************************)
(* Proofs about SnapshotLifecycle for all sets of snapshots, rows,         *)
(* fingerprints and packages, and about what FacilityProjection shows of   *)
(* them.                                                                   *)
(***************************************************************************)
EXTENDS FacilityProjection, FiniteSetTheorems, TLAPS

\* Staged snapshots have evidence, and none that was rejected gets past
\* validation.
StagedSound ==
    \A s \in SnapshotIds :
        /\ state[s] # "absent" => evidence[s] \in Evidence
        /\ state[s] \in {"validated", "accepted"} => ~evidence[s].rejected

\* The inductive invariant.
IInv == TypeOK /\ StagedSound /\ PointerSafe

-----------------------------------------------------------------------------
(* What the decisions of SnapshotTables return.                            *)

\* Every scope is of a family.
LEMMA FamilyOfType ==
    ASSUME NEW scope \in Scopes
    PROVE  FamilyOf(scope) \in Families
  BY DEF FamilyOf, Families, Scopes

\* The rows that inspection keeps are rows of the package.
LEMMA EligibleRowsType ==
    ASSUME NEW p \in Packages
    PROVE  EligibleRows(p) \subseteq RowIds
  BY DEF EligibleRows

\* What inspection finds is evidence: without a base, or against the evidence of
\* a staged base.
LEMMA InspectType ==
    ASSUME NEW p \in Packages, NEW base \in SnapshotIds \cup {None}, NEW e,
           base # None => e \in Evidence
    PROVE  Inspect(p, base, e) \in Evidence
  <1>1. p \in Package
    BY PackagesAssumption
  <1>2. /\ EligibleRows(p) \subseteq RowIds
        /\ Resolved(p, base, e) \subseteq RowIds
        /\ EligibleRows(p) \cap p.populated \subseteq RowIds
    BY EligibleRowsType DEF Resolved
  <1>3. Rejected(p, base, e) \in BOOLEAN
    BY <1>1 DEF Rejected, Package
  <1>4. (IF base = None THEN {} ELSE e.rows \ EligibleRows(p)) \subseteq RowIds
    BY DEF Evidence
  <1>5. QED
    BY <1>1, <1>2, <1>3, <1>4 DEF Inspect, Evidence, Package

-----------------------------------------------------------------------------

\* The active snapshot of a family, if there is one, has evidence.
LEMMA ActiveHasEvidence ==
    ASSUME IInv, NEW f \in Families
    PROVE  /\ active[f] \in SnapshotIds \cup {None}
           /\ active[f] # None => /\ evidence[active[f]] \in Evidence
                                  /\ state[active[f]] = "accepted"
                                  /\ FamilyOf(evidence[active[f]].scope) = f
  BY DEF IInv, TypeOK, StagedSound, PointerSafe

\* Empty tables satisfy the inductive invariant.
LEMMA InitIInv == Init => IInv
  BY NoneAssumption DEF Init, IInv, TypeOK, StagedSound, PointerSafe, States

-----------------------------------------------------------------------------
(* One lemma for each call of the lifecycle.                               *)

\* Staging inserts evidence under a new identity, which no pointer names.
LEMMA StageIInv ==
    ASSUME IInv, NEW p \in Packages, Stage(p)
    PROVE  IInv'
  <1> DEFINE s == p.snapshot_id
             base == active[FamilyOf(p.scope)]
             e == Inspect(p, base, evidence[base])
  <1>1. p \in Package /\ s \in SnapshotIds /\ p.scope \in Scopes
    BY PackagesAssumption DEF Package
  <1>2. base \in SnapshotIds \cup {None} /\ e \in Evidence
    BY <1>1, FamilyOfType, ActiveHasEvidence, InspectType
  <1>3. /\ state[s] = "absent"
        /\ state' = [state EXCEPT ![s] = "candidate"]
        /\ evidence' = [evidence EXCEPT ![s] = e]
        /\ active' = active /\ prior' = prior
    BY DEF Stage
  <1> HIDE DEF s, base, e
  <1>4. TypeOK'
    BY <1>1, <1>2, <1>3 DEF IInv, TypeOK, States
  <1>5. StagedSound'
    BY <1>1, <1>2, <1>3 DEF IInv, TypeOK, StagedSound
  <1>6. PointerSafe'
    BY <1>1, <1>3 DEF IInv, TypeOK, PointerSafe
  <1>7. QED
    BY <1>4, <1>5, <1>6 DEF IInv

\* Validation lets only evidence without rejection reasons through, and does not
\* touch a snapshot that a pointer names.
LEMMA ValidateIInv ==
    ASSUME IInv, NEW s \in SnapshotIds, NEW scope \in Scopes, Validate(s, scope)
    PROVE  IInv'
  <1>1. TypeOK'
    BY DEF IInv, TypeOK, Validate, States
  <1>2. StagedSound'
    BY DEF IInv, TypeOK, StagedSound, Validate
  <1>3. PointerSafe'
    BY DEF IInv, TypeOK, PointerSafe, Validate
  <1>4. QED
    BY <1>1, <1>2, <1>3 DEF IInv

\* Acceptance takes only validated snapshots, whose evidence was not rejected.
LEMMA AcceptIInv ==
    ASSUME IInv, NEW s \in SnapshotIds, NEW scope \in Scopes, Accept(s, scope)
    PROVE  IInv'
  <1>1. TypeOK'
    BY DEF IInv, TypeOK, Accept, States
  <1>2. StagedSound'
    BY DEF IInv, TypeOK, StagedSound, Accept
  <1>3. PointerSafe'
    BY DEF IInv, TypeOK, PointerSafe, Accept
  <1>4. QED
    BY <1>1, <1>2, <1>3 DEF IInv

\* Promotion takes an accepted snapshot of the family that is not active yet, and
\* keeps the active one as the prior one.
LEMMA PromoteIInv ==
    ASSUME IInv, NEW s \in SnapshotIds, NEW scope \in Scopes, Promote(s, scope)
    PROVE  IInv'
  <1> DEFINE f == FamilyOf(scope)
  <1>1. f \in Families
    BY FamilyOfType
  <1>2. /\ state[s] = "accepted"
        /\ FamilyOf(evidence[s].scope) = f
        /\ active[f] # s
        /\ active' = [active EXCEPT ![f] = s]
        /\ prior' = [prior EXCEPT ![f] = active[f]]
        /\ state' = state /\ evidence' = evidence
    BY DEF Promote, IsAccepted
  <1> HIDE DEF f
  <1>3. TypeOK'
    BY <1>1, <1>2 DEF IInv, TypeOK
  <1>4. StagedSound'
    BY <1>2 DEF IInv, StagedSound
  <1>5. PointerSafe'
    BY <1>1, <1>2, NoneAssumption DEF IInv, TypeOK, StagedSound, PointerSafe
  <1>6. QED
    BY <1>3, <1>4, <1>5 DEF IInv

\* Rollback exchanges two accepted snapshots.
LEMMA RollbackIInv ==
    ASSUME IInv, NEW s \in SnapshotIds, NEW scope \in Scopes, Rollback(s, scope)
    PROVE  IInv'
  <1> DEFINE f == FamilyOf(scope)
  <1>1. f \in Families
    BY FamilyOfType
  <1>2. /\ active[f] = s
        /\ prior[f] # None
        /\ active' = [active EXCEPT ![f] = prior[f]]
        /\ prior' = [prior EXCEPT ![f] = active[f]]
        /\ state' = state /\ evidence' = evidence
    BY DEF Rollback
  <1> HIDE DEF f
  <1>3. TypeOK'
    BY <1>1, <1>2 DEF IInv, TypeOK
  <1>4. StagedSound'
    BY <1>2 DEF IInv, StagedSound
  <1>5. PointerSafe'
    BY <1>1, <1>2 DEF IInv, TypeOK, PointerSafe
  <1>6. QED
    BY <1>3, <1>4, <1>5 DEF IInv

\* Every step of the lifecycle keeps the inductive invariant.
LEMMA NextIInv == IInv /\ [Next]_vars => IInv'
  <1> SUFFICES ASSUME IInv, [Next]_vars PROVE IInv'
    OBVIOUS
  <1>1. CASE Next
    BY <1>1, StageIInv, ValidateIInv, AcceptIInv, PromoteIInv, RollbackIInv
       DEF Next
  <1>2. CASE UNCHANGED vars
    BY <1>2 DEF vars, IInv, TypeOK, StagedSound, PointerSafe
  <1>3. QED
    BY <1>1, <1>2

\* IInv holds in every reachable state.
THEOREM Invariance == Spec => []IInv
  BY InitIInv, NextIInv, PTL DEF Spec

\* The tables keep their types, whatever calls are made in whatever order.
THEOREM TypeCorrect == Spec => []TypeOK
  <1>1. IInv => TypeOK
    BY DEF IInv
  <1>2. QED
    BY Invariance, <1>1, PTL

\* The pointers of promote and rollback name different accepted snapshots of
\* their family, whatever calls are made in whatever order.
THEOREM PointersAreSafe == Spec => []PointerSafe
  <1>1. IInv => PointerSafe
    BY DEF IInv
  <1>2. QED
    BY Invariance, <1>1, PTL

-----------------------------------------------------------------------------

\* A family with a prior snapshot can be rolled back, except from a fixture to
\* a live snapshot.
THEOREM RollbackIsAvailable == Spec => []RollbackAvailable
  <1>1. ASSUME IInv PROVE RollbackAvailable
    <2>1. SUFFICES ASSUME NEW f \in Families, prior[f] # None
                   PROVE  \/ \E scope \in Scopes :
                                /\ FamilyOf(scope) = f
                                /\ IsAccepted(state, evidence, active[f], f, scope)
                                /\ IsAccepted(state, evidence, prior[f], f,
                                              PriorScope(scope))
                          \/ /\ evidence[active[f]].scope = "fixture"
                             /\ evidence[prior[f]].scope = "live_query"
      BY DEF RollbackAvailable
    <2>2. active[f] # None
      BY <1>1, <2>1 DEF IInv, PointerSafe
    <2>3. /\ active[f] \in SnapshotIds /\ prior[f] \in SnapshotIds
          /\ state[active[f]] = "accepted" /\ state[prior[f]] = "accepted"
          /\ FamilyOf(evidence[active[f]].scope) = f
          /\ FamilyOf(evidence[prior[f]].scope) = f
      BY <1>1, <2>1, <2>2 DEF IInv, TypeOK, PointerSafe
    <2>4. evidence[active[f]].scope \in Scopes /\ evidence[prior[f]].scope \in Scopes
      BY <1>1, <2>3 DEF IInv, StagedSound, Evidence
    <2>5. QED
      BY <2>3, <2>4 DEF IsAccepted, PriorScope, FamilyOf, Scopes
  <1>2. QED
    BY Invariance, <1>1, PTL

\* No call rewrites evidence, leaves a final state, or takes a family's active
\* snapshot away.
THEOREM HistoryIsKept == Spec => HistoryKept
  <1> DEFINE Kept ==
        /\ \A s \in SnapshotIds :
              state[s] # "absent" =>
                 /\ evidence'[s] = evidence[s]
                 /\ state[s] \in {"rejected", "accepted"} => state'[s] = state[s]
        /\ \A f \in Families : active[f] # None => active'[f] # None
  <1>1. ASSUME IInv, Next PROVE Kept
    <2>1. CASE \E p \in Packages : Stage(p)
      BY <1>1, <2>1, PackagesAssumption DEF Stage, IInv, TypeOK, Package
    <2>2. CASE \E s \in SnapshotIds, scope \in Scopes :
                  Validate(s, scope) \/ Accept(s, scope)
      BY <1>1, <2>2 DEF Validate, Accept, IInv, TypeOK
    <2>3. CASE \E s \in SnapshotIds, scope \in Scopes : Promote(s, scope)
      BY <1>1, <2>3, NoneAssumption, FamilyOfType DEF Promote, IInv, TypeOK
    <2>4. CASE \E s \in SnapshotIds, scope \in Scopes : Rollback(s, scope)
      BY <1>1, <2>4, FamilyOfType DEF Rollback, IInv, TypeOK
    <2>5. QED
      BY <1>1, <2>1, <2>2, <2>3, <2>4 DEF Next
  <1>2. ASSUME IInv, [Next]_vars PROVE [Kept]_vars
    BY <1>1, <1>2
  <1>3. QED
    BY Invariance, <1>2, PTL DEF Spec, HistoryKept

\* A snapshot keeps an accepted base of its own family, exact disappearances,
\* the schema of its base if it is an ArcGIS snapshot that was not rejected, and
\* the values of its base if it is a TransparencyAPI snapshot.
THEOREM LineageIsSound == Spec => []LineageSound
  <1>1. Init => LineageSound
    BY DEF Init, LineageSound
  <1>2. ASSUME IInv, LineageSound, NEW p \in Packages, Stage(p)
        PROVE  LineageSound'
    <2> DEFINE s == p.snapshot_id
               base == active[FamilyOf(p.scope)]
               e == Inspect(p, base, evidence[base])
    <2>1. p \in Package /\ s \in SnapshotIds /\ p.scope \in Scopes
      BY PackagesAssumption DEF Package
    <2>2. /\ e.base = base /\ e.scope = p.scope
          /\ base # None =>
                /\ base \in SnapshotIds
                /\ state[base] = "accepted"
                /\ FamilyOf(evidence[base].scope) = FamilyOf(p.scope)
                /\ e.gone = evidence[base].rows \ e.rows
                /\ (FamilyOf(e.scope) = "arcgis" /\ ~e.rejected)
                      => e.schema = evidence[base].schema
      BY <1>2, <2>1, FamilyOfType, ActiveHasEvidence DEF Inspect, Rejected
    <2>3. (base # None /\ FamilyOf(e.scope) = "transparencyapi")
             => e.resolved = e.populated \cup (evidence[base].resolved \cap e.rows)
      BY <1>2, <2>1 DEF Inspect, Resolved
    <2>4. /\ state[s] = "absent"
          /\ state' = [state EXCEPT ![s] = "candidate"]
          /\ evidence' = [evidence EXCEPT ![s] = e]
      BY <1>2 DEF Stage
    <2> HIDE DEF s, base, e
    <2>5. ASSUME NEW t \in SnapshotIds, state[t] # "absent",
                 evidence[t].base # None
          PROVE  evidence[t].base \in SnapshotIds
      BY <1>2, <2>5 DEF IInv, StagedSound, Evidence
    <2>6. QED
      BY <1>2, <2>1, <2>2, <2>3, <2>4, <2>5 DEF LineageSound, IInv, TypeOK
  <1>3. ASSUME IInv, LineageSound, NEW s \in SnapshotIds, NEW scope \in Scopes,
               Validate(s, scope) \/ Accept(s, scope)
        PROVE  LineageSound'
    <2>1. ASSUME NEW t \in SnapshotIds, state[t] # "absent",
                 evidence[t].base # None
          PROVE  evidence[t].base \in SnapshotIds
      BY <1>3, <2>1 DEF IInv, StagedSound, Evidence
    <2>2. QED
      BY <1>3, <2>1 DEF LineageSound, IInv, TypeOK, Validate, Accept
  <1>4. ASSUME LineageSound, NEW s \in SnapshotIds, NEW scope \in Scopes,
               Promote(s, scope) \/ Rollback(s, scope)
        PROVE  LineageSound'
    BY <1>4 DEF LineageSound, Promote, Rollback
  <1>5. ASSUME IInv, LineageSound, [Next]_vars PROVE LineageSound'
    <2>1. CASE Next
      BY <1>2, <1>3, <1>4, <1>5, <2>1 DEF Next
    <2>2. CASE UNCHANGED vars
      BY <1>5, <2>2 DEF vars, LineageSound
    <2>3. QED
      BY <1>5, <2>1, <2>2
  <1>6. QED
    BY Invariance, <1>1, <1>5, PTL DEF Spec
-----------------------------------------------------------------------------
(* What the projection shows.                                              *)

\* Only rows that a snapshot keeps carry a value in it.
CarriedByRows ==
    \A s \in SnapshotIds :
        state[s] # "absent" => evidence[s].populated \subseteq evidence[s].rows

\* Staging stores it so, and evidence does not change.
LEMMA ValuesAreCarried == Spec => []CarriedByRows
  <1>1. Init => CarriedByRows
    BY DEF Init, CarriedByRows
  <1>2. ASSUME IInv, CarriedByRows, NEW p \in Packages, Stage(p)
        PROVE  CarriedByRows'
    <2>1. p.snapshot_id \in SnapshotIds
      BY PackagesAssumption DEF Package
    <2> DEFINE base == active[FamilyOf(p.scope)]
               e == Inspect(p, base, evidence[base])
    <2>2. /\ e.populated \subseteq e.rows
          /\ evidence' = [evidence EXCEPT ![p.snapshot_id] = e]
          /\ state' = [state EXCEPT ![p.snapshot_id] = "candidate"]
      BY <1>2 DEF Stage, Inspect
    <2> HIDE DEF base, e
    <2>3. QED
      BY <1>2, <2>1, <2>2 DEF CarriedByRows, IInv, TypeOK
  <1>3. ASSUME IInv, CarriedByRows, NEW s \in SnapshotIds, NEW scope \in Scopes,
               Validate(s, scope) \/ Accept(s, scope) \/ Promote(s, scope)
                  \/ Rollback(s, scope)
        PROVE  CarriedByRows'
    BY <1>3 DEF CarriedByRows, IInv, TypeOK, Validate, Accept, Promote, Rollback
  <1>4. ASSUME IInv, CarriedByRows, [Next]_vars PROVE CarriedByRows'
    <2>1. CASE Next
      BY <1>2, <1>3, <1>4, <2>1 DEF Next
    <2>2. CASE UNCHANGED vars
      BY <1>4, <2>2 DEF vars, CarriedByRows
    <2>3. QED
      BY <1>4, <2>1, <2>2
  <1>5. QED
    BY Invariance, <1>1, <1>4, PTL DEF Spec

\* A source that has one alternative, while those before it have none, is shown.
LEMMA FirstIsSelected ==
    ASSUME NEW P, NEW n \in 1..5, NEW a, a.at \in Nat,
           {b \in P : b.kind = Precedence[n]} = {a},
           \A j \in 1..(n - 1) : {b \in P : b.kind = Precedence[j]} = {}
    PROVE  Selected(P) = a.value
  <1> DEFINE ofKind(k) == {b \in P : b.kind = Precedence[k]}
             first == CHOOSE k \in DOMAIN Precedence :
                         ofKind(k) # {} /\ \A j \in 1..(k - 1) : ofKind(j) = {}
             newest == {x \in ofKind(first) : \A b \in ofKind(first) : b.at <= x.at}
             values == {x.value : x \in newest}
  <1>1. DOMAIN Precedence = 1..5
    BY DEF Precedence
  <1>2. ofKind(n) = {a} /\ \A j \in 1..(n - 1) : ofKind(j) = {}
    OBVIOUS
  <1>3. Selected(P) = IF P # {} /\ Cardinality(values) = 1
                      THEN CHOOSE v \in values : TRUE ELSE None
    BY DEF Selected
  <1> HIDE DEF ofKind
  <1>4. first = n
    <2>1. n \in DOMAIN Precedence /\ ofKind(n) # {} /\ \A j \in 1..(n - 1) : ofKind(j) = {}
      BY <1>1, <1>2
    <2>2. /\ first \in 1..5 /\ ofKind(first) # {}
          /\ \A j \in 1..(first - 1) : ofKind(j) = {}
      BY <1>1, <2>1
    <2> HIDE DEF first
    <2>3. ~(first < n)
      BY <1>2, <2>2
    <2>4. ~(n < first)
      BY <2>1, <2>2
    <2>5. QED
      BY <2>2, <2>3, <2>4
  <1> HIDE DEF first
  <1>5. newest = {a}
    BY <1>2, <1>4
  <1> HIDE DEF newest
  <1>6. values = {a.value}
    BY <1>5
  <1>7. P # {}
    BY <1>2 DEF ofKind
  <1> HIDE DEF values
  <1>8. Cardinality(values) = 1
    BY <1>6, FS_Singleton
  <1>9. QED
    BY <1>3, <1>6, <1>7, <1>8

\* The value the active TransparencyAPI snapshot carries is shown, and without one
\* the value of the prior snapshot.
ShownSound ==
    LET now == active["transparencyapi"]
        before == prior["transparencyapi"]
    IN \A r \in RowIds, others \in OtherSources :
          now # None =>
             /\ r \in evidence[now].populated =>
                   Shown(r, others) = ValueOf[evidence[now].digest][r]
             /\ (/\ r \notin evidence[now].populated
                 /\ before # None
                 /\ r \in evidence[before].populated) =>
                   Shown(r, others) = ValueOf[evidence[before].digest][r]

\* Both snapshots that the pointer names are of the scope that makes their rows
\* eligible, and no other source comes before them.
LEMMA ShownIsSound == IInv /\ CarriedByRows => ShownSound
  <1> DEFINE T == "transparencyapi"
             now == active[T]
             before == prior[T]
  <1>1. SUFFICES ASSUME IInv, CarriedByRows, NEW r \in RowIds,
                        NEW others \in OtherSources, now # None
                 PROVE  /\ r \in evidence[now].populated =>
                              Shown(r, others) = ValueOf[evidence[now].digest][r]
                        /\ (/\ r \notin evidence[now].populated
                            /\ before # None
                            /\ r \in evidence[before].populated) =>
                              Shown(r, others) = ValueOf[evidence[before].digest][r]
    BY DEF ShownSound
  <1>2. T \in Families
    BY DEF Families
  <1>3. ASSUME NEW s \in {now, before} \ {None}
        PROVE  /\ s \in SnapshotIds
               /\ evidence[s] \in Evidence
               /\ IsAccepted(state, evidence, s, T, T)
               /\ evidence[s].populated \subseteq evidence[s].rows
               /\ ValueOf[evidence[s].digest][r] \in Values
               /\ ValueOf[evidence[s].digest][r] # None
    <2>1. s \in SnapshotIds /\ state[s] = "accepted" /\ FamilyOf(evidence[s].scope) = T
      BY <1>1, <1>2, <1>3 DEF IInv, TypeOK, PointerSafe
    <2>2. evidence[s] \in Evidence /\ evidence[s].populated \subseteq evidence[s].rows
      BY <1>1, <2>1 DEF IInv, StagedSound, CarriedByRows
    <2>3. evidence[s].scope = T /\ evidence[s].digest \in Digests
      BY <2>1, <2>2 DEF FamilyOf, Evidence, Scopes
    <2>4. IsAccepted(state, evidence, s, T, T)
      BY <2>1, <2>3 DEF IsAccepted
    <2>5. QED
      BY <1>1, <2>1, <2>2, <2>3, <2>4, ValuesAssumption
  <1> DEFINE P == {a \in Alternatives(r, others) : a.value # None}
             cur == FromSnapshot("transparencyapi_current", now, r)
             old == FromSnapshot("transparencyapi_prior_accepted", before, r)
             rest == FromArcGis(r) \cup others
  <1>4. Alternatives(r, others) = cur \cup old \cup rest
    BY <1>1, <1>3 DEF Alternatives, FromTransparencyApi, Available
  <1>5. /\ \A a \in cur : a.kind = "transparencyapi_current"
        /\ \A a \in old : a.kind = "transparencyapi_prior_accepted"
    BY DEF FromSnapshot, Alternative
  <1>6. \A a \in rest : a.kind \in {"arcgis_supplement", "program_reference",
                                    "complaint_linked_facility"}
    <2>1. \A a \in FromArcGis(r) : a.kind = "arcgis_supplement"
      BY DEF FromArcGis, FromSnapshot, Alternative
    <2>2. \A a \in others : a.kind \in {"program_reference", "complaint_linked_facility"}
      BY <1>1, ValuesAssumption
    <2>3. QED
      BY <2>1, <2>2
  <1>7. /\ Precedence[1] = "transparencyapi_current"
        /\ Precedence[2] = "transparencyapi_prior_accepted"
    BY DEF Precedence
  <1>8. Shown(r, others) = Selected(P)
    BY DEF Shown
  <1>9. ASSUME r \in evidence[now].populated
        PROVE  Shown(r, others) = ValueOf[evidence[now].digest][r]
    <2> DEFINE a == Alternative("transparencyapi_current", 0, ValueOf[evidence[now].digest][r])
    <2>1. cur = {a} /\ a.value # None /\ a.at = 0
          /\ a.value = ValueOf[evidence[now].digest][r]
      BY <1>1, <1>3, <1>9 DEF FromSnapshot, Alternative
    <2> HIDE DEF a, cur, old, rest
    <2>2. {b \in P : b.kind = Precedence[1]} = {a}
      BY <1>4, <1>5, <1>6, <1>7, <2>1
    <2> HIDE DEF P
    <2>3. 1 \in 1..5 /\ a.at \in Nat /\ \A j \in 1..(1 - 1) : {b \in P : b.kind = Precedence[j]} = {}
      BY <2>1
    <2>4. Selected(P) = a.value
      BY <2>2, <2>3, FirstIsSelected
    <2>5. QED
      BY <1>8, <2>1, <2>4
  <1>10. ASSUME r \notin evidence[now].populated, before # None,
                r \in evidence[before].populated
         PROVE  Shown(r, others) = ValueOf[evidence[before].digest][r]
    <2> DEFINE a == Alternative("transparencyapi_prior_accepted", 0,
                                ValueOf[evidence[before].digest][r])
    <2>1. old = {a} /\ a.value # None /\ a.at = 0
          /\ a.value = ValueOf[evidence[before].digest][r]
      BY <1>3, <1>10 DEF FromSnapshot, Alternative
    <2>2. \A b \in cur : b.value = None
      BY <1>10 DEF FromSnapshot, Alternative
    <2> HIDE DEF a, cur, old, rest
    <2>3. /\ {b \in P : b.kind = Precedence[2]} = {a}
          /\ {b \in P : b.kind = Precedence[1]} = {}
      BY <1>4, <1>5, <1>6, <1>7, <2>1, <2>2
    <2> HIDE DEF P
    <2>4. 2 \in 1..5 /\ a.at \in Nat /\ \A j \in 1..(2 - 1) : {b \in P : b.kind = Precedence[j]} = {}
      BY <2>1, <2>3
    <2>5. Selected(P) = a.value
      BY <2>3, <2>4, FirstIsSelected
    <2>6. QED
      BY <1>8, <2>1, <2>5
  <1>11. QED
    BY <1>9, <1>10

\* A move of the pointer, by a promotion or a rollback, never blanks or swaps a
\* value the old snapshot carried unless the new one carries another: the old one
\* becomes the prior snapshot, which the projection reads next.
THEOREM ValuesAreKept == Spec => ValuesKept
  <1>1. Spec => []ShownSound
    BY Invariance, ValuesAreCarried, ShownIsSound, PTL
  <1>2. ASSUME IInv, ShownSound, ShownSound', [Next]_vars,
               NEW r \in RowIds, NEW others \in OtherSources,
               active["transparencyapi"] # active'["transparencyapi"],
               active["transparencyapi"] # None,
               r \in evidence[active["transparencyapi"]].populated
        PROVE  Shown(r, others)' =
                  IF r \in evidence[active'["transparencyapi"]].populated
                  THEN ValueOf[evidence[active'["transparencyapi"]].digest][r]
                  ELSE Shown(r, others)
    <2>1. /\ evidence' = evidence
          /\ active'["transparencyapi"] # None
          /\ prior'["transparencyapi"] = active["transparencyapi"]
      <3>1. PICK s \in SnapshotIds, scope \in Scopes : Promote(s, scope) \/ Rollback(s, scope)
        BY <1>2 DEF Next, vars, Stage, Validate, Accept
      <3>2. FamilyOf(scope) = "transparencyapi"
        BY <1>2, <3>1 DEF Promote, Rollback, IInv, TypeOK, Families
      <3>3. "transparencyapi" \in Families
        BY DEF Families
      <3>4. QED
        BY <1>2, <3>1, <3>2, <3>3, NoneAssumption DEF Promote, Rollback, IInv, TypeOK
    <2>2. Shown(r, others) = ValueOf[evidence[active["transparencyapi"]].digest][r]
      BY <1>2 DEF ShownSound
    <2>3. /\ r \in evidence[active'["transparencyapi"]].populated =>
                Shown(r, others)' = ValueOf[evidence[active'["transparencyapi"]].digest][r]
          /\ r \notin evidence[active'["transparencyapi"]].populated =>
                Shown(r, others)' = ValueOf[evidence[active["transparencyapi"]].digest][r]
      BY <1>2, <2>1 DEF ShownSound
    <2>4. QED
      BY <2>2, <2>3
  <1> DEFINE Kept ==
        \A r \in RowIds, others \in OtherSources :
          LET old == active["transparencyapi"]
              new == active'["transparencyapi"]
              own == ValueOf[evidence[new].digest][r]
          IN (old # new /\ old # None /\ r \in evidence[old].populated)
             => Shown(r, others)' = IF r \in evidence[new].populated
                                    THEN own ELSE Shown(r, others)
  <1>3. IInv /\ ShownSound /\ ShownSound' /\ [Next]_vars => [Kept]_vars
    BY <1>2
  <1>4. QED
    BY Invariance, <1>1, <1>3, PTL DEF Spec, ValuesKept
=============================================================================
