----------------------- MODULE SnapshotOperatorsProofs -----------------------
(***************************************************************************)
(* Proofs about SnapshotOperators for any number of operators, snapshots   *)
(* and packages.                                                           *)
(***************************************************************************)
EXTENDS SnapshotOperators, TLAPS

Served == {"validated", "accepted"}

\* A command is about a package when it stages, and about a snapshot otherwise.
ArgSound ==
    \A o \in Operators :
        /\ pc[o] = "stage" => arg[o] \in Packages
        /\ pc[o] \in {"validate", "accept", "promote", "move"} =>
              arg[o] \in SnapshotIds

\* Staged snapshots have evidence, which decides how they leave validation.
EvidenceSound ==
    \A s \in SnapshotIds :
        /\ state[s] # "absent" => evidence[s] \in Evidence
        /\ state[s] = "rejected" => evidence[s].rejected
        /\ state[s] \in Served => ~evidence[s].rejected

\* What a command read about its snapshot still holds as far as its write
\* relies on it, whatever others commit in between.
ReadSound ==
    \A o \in Operators :
        /\ pc[o] = "validate" => state[arg[o]] # "absent"
        /\ pc[o] \in {"accept", "move"} => state[arg[o]] \in Served
        /\ read[o][1] # None => state[read[o][1]] \in Served
        /\ pc[o] = "move" => read[o][1] # arg[o]

\* The pointer row names two different snapshots, both of them fit to serve.
PointerSound ==
    /\ \A s \in {pointer[1], pointer[2]} \ {None} : state[s] \in Served
    /\ pointer # NoRow => pointer[1] # None /\ pointer[1] # pointer[2]

\* A command whose guard matched a row holds the lock of that row, and the row
\* is the one its guard matched. A rollback always is such a command.
GuardSound ==
    \A o \in Operators :
        /\ pc[o] = "rollback" => seen[o] # NoRow
        /\ (pc[o] \in {"promote", "move", "rollback"} /\ seen[o] # NoRow) =>
              lock = o /\ pointer = seen[o]

\* The inductive invariant.
IInv ==
    /\ TypeOK
    /\ ArgSound
    /\ EvidenceSound
    /\ ReadSound
    /\ PointerSound
    /\ GuardSound

-----------------------------------------------------------------------------
(* What the decisions of SnapshotTables return.                            *)

\* The rows that inspection keeps are rows of the package.
LEMMA EligibleRowsType ==
    ASSUME NEW p \in Packages
    PROVE  EligibleRows(p) \subseteq RowIds
  BY DEF EligibleRows

\* What inspection finds is evidence: without a base, or against the evidence of
\* a staged base.
LEMMA InspectType ==
    ASSUME NEW p \in Packages, NEW base \in SnapshotIds \cup {None}, NEW e,
           base # None => e \in Evidence
    PROVE  Inspect(p, base, e) \in Evidence
  <1>1. p \in Package
    BY PackagesAssumption
  <1>2. /\ EligibleRows(p) \subseteq RowIds
        /\ Resolved(p, base, e) \subseteq RowIds
        /\ EligibleRows(p) \cap p.populated \subseteq RowIds
    BY EligibleRowsType DEF Resolved
  <1>3. Rejected(p, base, e) \in BOOLEAN
    BY <1>1 DEF Rejected, Package
  <1>4. (IF base = None THEN {} ELSE e.rows \ EligibleRows(p)) \subseteq RowIds
    BY DEF Evidence
  <1>5. QED
    BY <1>1, <1>2, <1>3, <1>4 DEF Inspect, Evidence, Package

-----------------------------------------------------------------------------

\* Empty tables and idle operators satisfy the invariant.
LEMMA InitIInv == Init => IInv
  BY NoneAssumption
     DEF Init, IInv, TypeOK, ArgSound, EvidenceSound, ReadSound, PointerSound,
         GuardSound, NoRow, Pointers, States, Served

-----------------------------------------------------------------------------
(* One lemma for each kind of step.                                        *)

\* A status call renews what its operator saw, while no command of the operator
\* runs.
LEMMA StatusIInv ==
    ASSUME IInv, NEW o \in Operators, Status(o)
    PROVE  IInv'
  BY DEF IInv, Status, TypeOK, ArgSound, EvidenceSound, ReadSound,
         PointerSound, GuardSound

\* A stage, validation or acceptance that starts reads a pointer that is sound.
LEMMA ReadIInv ==
    ASSUME IInv, NEW o \in Operators,
           \/ \E p \in Packages : StageRead(o, p)
           \/ \E s \in SnapshotIds : ValidateRead(o, s) \/ AcceptRead(o, s)
    PROVE  IInv'
  <1>1. TypeOK'
    BY DEF IInv, TypeOK, StageRead, ValidateRead, AcceptRead, Begin
  <1>2. ArgSound'
    BY DEF IInv, TypeOK, ArgSound, StageRead, ValidateRead, AcceptRead, Begin
  <1>3. EvidenceSound' /\ PointerSound'
    BY DEF IInv, EvidenceSound, PointerSound, StageRead, ValidateRead,
           AcceptRead
  <1>4. ReadSound'
    BY DEF IInv, TypeOK, Pointers, ReadSound, PointerSound, StageRead,
           ValidateRead, AcceptRead, Begin, Served
  <1>5. GuardSound'
    BY DEF IInv, TypeOK, GuardSound, StageRead, ValidateRead, AcceptRead, Begin
  <1>6. QED
    BY <1>1, <1>2, <1>3, <1>4, <1>5 DEF IInv

\* A guard that matches a row takes its lock, which nobody else had.
LEMMA GuardIInv ==
    ASSUME IInv, NEW o \in Operators,
           (\E s \in SnapshotIds : PromoteGuard(o, s)) \/ RollbackGuard(o)
    PROVE  IInv'
  <1>1. TypeOK'
    BY DEF IInv, TypeOK, PromoteGuard, RollbackGuard, GuardPointer, Begin,
           NoRow, Pointers
  <1>2. ArgSound'
    BY DEF IInv, TypeOK, ArgSound, PromoteGuard, RollbackGuard, Begin
  <1>3. EvidenceSound' /\ PointerSound'
    BY DEF IInv, EvidenceSound, PointerSound, PromoteGuard, RollbackGuard
  <1>4. ReadSound'
    BY DEF IInv, TypeOK, Pointers, ReadSound, PointerSound, PromoteGuard,
           RollbackGuard, Begin, NoRow
  <1>5. GuardSound'
    BY OperatorsAssumption
       DEF IInv, TypeOK, GuardSound, PromoteGuard, RollbackGuard, GuardPointer,
           Begin
  <1>6. QED
    BY <1>1, <1>2, <1>3, <1>4, <1>5 DEF IInv

\* A stage that commits inserts evidence under a new identity, which nothing
\* refers to yet, or nothing at all.
LEMMA StageCommitIInv ==
    ASSUME IInv, NEW o \in Operators, StageCommit(o)
    PROVE  IInv'
  <1> DEFINE s == arg[o].snapshot_id
             base == read[o][1]
             e == Inspect(arg[o], base, evidence[base])
  <1>1. arg[o] \in Packages /\ s \in SnapshotIds
    BY PackagesAssumption DEF IInv, ArgSound, StageCommit, Package
  <1>2. base \in SnapshotIds \cup {None}
    BY DEF IInv, TypeOK, Pointers
  <1>3. base # None => evidence[base] \in Evidence
    BY <1>2 DEF IInv, ReadSound, EvidenceSound, Served
  <1>4. e \in Evidence
    BY <1>1, <1>2, <1>3, InspectType
  <1>5. /\ \/ /\ state[s] = "absent"
              /\ state' = [state EXCEPT ![s] = "candidate"]
              /\ evidence' = [evidence EXCEPT ![s] = e]
           \/ UNCHANGED <<state, evidence>>
        /\ End(o)
        /\ UNCHANGED <<pointer, seen>>
    BY DEF StageCommit
  <1> HIDE DEF s, base, e
  <1>6. TypeOK'
    BY <1>1, <1>4, <1>5 DEF IInv, TypeOK, End, States, NoRow, Pointers
  <1>7. ArgSound'
    BY <1>5 DEF IInv, TypeOK, ArgSound, End
  <1>8. EvidenceSound'
    BY <1>1, <1>4, <1>5 DEF IInv, TypeOK, EvidenceSound, Served
  <1>9. ReadSound'
    BY <1>1, <1>5 DEF IInv, TypeOK, ArgSound, ReadSound, End, NoRow, Pointers, Served
  <1>10. PointerSound'
    BY <1>1, <1>5 DEF IInv, TypeOK, PointerSound, Pointers, Served
  <1>11. GuardSound'
    BY <1>5, OperatorsAssumption DEF IInv, TypeOK, GuardSound, End
  <1>12. QED
    BY <1>6, <1>7, <1>8, <1>9, <1>10, <1>11 DEF IInv

\* A validation, though it may repeat one that has committed meanwhile, writes
\* what the evidence says: a snapshot that is served stays fit to serve.
LEMMA ValidateCommitIInv ==
    ASSUME IInv, NEW o \in Operators, ValidateCommit(o)
    PROVE  IInv'
  <1>1. arg[o] \in SnapshotIds /\ state[arg[o]] # "absent"
    BY DEF IInv, ArgSound, ReadSound, ValidateCommit
  <1>2. TypeOK'
    BY <1>1 DEF IInv, TypeOK, ValidateCommit, End, States, NoRow, Pointers
  <1>3. ArgSound'
    BY DEF IInv, TypeOK, ArgSound, ValidateCommit, End
  <1>4. EvidenceSound'
    BY <1>1 DEF IInv, TypeOK, EvidenceSound, ValidateCommit, Served
  <1>5. \A s \in SnapshotIds :
           /\ state[s] # "absent" => state'[s] # "absent"
           /\ state[s] \in Served => state'[s] \in Served
    BY <1>1 DEF IInv, TypeOK, EvidenceSound, ValidateCommit, Served
  <1>6. ReadSound'
    BY <1>5 DEF IInv, TypeOK, ArgSound, ReadSound, ValidateCommit, End, NoRow,
                Pointers
  <1>7. PointerSound'
    BY <1>5 DEF IInv, TypeOK, PointerSound, ValidateCommit, Pointers
  <1>8. GuardSound'
    BY OperatorsAssumption DEF IInv, TypeOK, GuardSound, ValidateCommit, End
  <1>9. QED
    BY <1>2, <1>3, <1>4, <1>6, <1>7, <1>8 DEF IInv

\* An acceptance writes to a snapshot that is fit to serve still.
LEMMA AcceptCommitIInv ==
    ASSUME IInv, NEW o \in Operators, AcceptCommit(o)
    PROVE  IInv'
  <1>1. arg[o] \in SnapshotIds /\ state[arg[o]] \in Served
    BY DEF IInv, ArgSound, ReadSound, AcceptCommit
  <1>2. TypeOK'
    BY <1>1 DEF IInv, TypeOK, AcceptCommit, End, States, NoRow, Pointers
  <1>3. ArgSound'
    BY DEF IInv, TypeOK, ArgSound, AcceptCommit, End
  <1>4. EvidenceSound'
    BY <1>1 DEF IInv, TypeOK, EvidenceSound, AcceptCommit, Served
  <1>5. \A s \in SnapshotIds :
           /\ state[s] # "absent" => state'[s] # "absent"
           /\ state[s] \in Served => state'[s] \in Served
    BY <1>1 DEF IInv, TypeOK, AcceptCommit, Served
  <1>6. ReadSound'
    BY <1>5 DEF IInv, TypeOK, ArgSound, ReadSound, AcceptCommit, End, NoRow,
                Pointers
  <1>7. PointerSound'
    BY <1>5 DEF IInv, TypeOK, PointerSound, AcceptCommit, Pointers
  <1>8. GuardSound'
    BY OperatorsAssumption DEF IInv, TypeOK, GuardSound, AcceptCommit, End
  <1>9. QED
    BY <1>2, <1>3, <1>4, <1>6, <1>7, <1>8 DEF IInv

\* A promotion that goes on has read an accepted snapshot and a pointer that
\* names another one as active; one that ends gives up its lock.
LEMMA PromoteReadIInv ==
    ASSUME IInv, NEW o \in Operators, PromoteRead(o)
    PROVE  IInv'
  <1>1. arg[o] \in SnapshotIds
    BY DEF IInv, ArgSound, PromoteRead
  <1>2. TypeOK'
    <2>1. CASE End(o)
      BY <2>1 DEF IInv, TypeOK, PromoteRead, End, NoRow, Pointers
    <2>2. CASE ~End(o)
      BY <2>2 DEF IInv, TypeOK, PromoteRead
    <2>3. QED
      BY <2>1, <2>2
  <1>3. ArgSound'
    BY <1>1 DEF IInv, TypeOK, ArgSound, PromoteRead, End
  <1>4. EvidenceSound' /\ PointerSound'
    BY DEF IInv, EvidenceSound, PointerSound, PromoteRead
  <1>5. ReadSound'
    BY DEF IInv, TypeOK, ReadSound, PointerSound, PromoteRead, End, NoRow,
           Pointers, Served
  <1>6. GuardSound'
    BY OperatorsAssumption DEF IInv, TypeOK, GuardSound, PromoteRead, End
  <1>7. QED
    BY <1>2, <1>3, <1>4, <1>5, <1>6 DEF IInv

\* A promotion writes only while nobody else holds the row, so it cannot undo
\* what another command's guard relies on.
LEMMA PromoteCommitIInv ==
    ASSUME IInv, NEW o \in Operators, PromoteCommit(o)
    PROVE  IInv'
  <1>1. /\ arg[o] \in SnapshotIds /\ state[arg[o]] \in Served
        /\ read[o][1] \in SnapshotIds \cup {None}
        /\ read[o][1] # None => state[read[o][1]] \in Served
        /\ read[o][1] # arg[o]
    BY DEF IInv, TypeOK, Pointers, ArgSound, ReadSound, PromoteCommit
  <1>2. pointer' = pointer \/ pointer' = <<arg[o], read[o][1]>>
    BY DEF PromoteCommit
  <1>3. TypeOK'
    BY <1>1, <1>2 DEF IInv, TypeOK, PromoteCommit, End, NoRow, Pointers
  <1>4. ArgSound'
    BY DEF IInv, TypeOK, ArgSound, PromoteCommit, End
  <1>5. EvidenceSound'
    BY DEF IInv, EvidenceSound, PromoteCommit
  <1>6. ReadSound'
    BY DEF IInv, TypeOK, ReadSound, PromoteCommit, End, NoRow
  <1>7. PointerSound'
    BY <1>1, <1>2, NoneAssumption DEF IInv, PointerSound, PromoteCommit, NoRow
  <1>8. GuardSound'
    BY OperatorsAssumption DEF IInv, TypeOK, GuardSound, PromoteCommit, End
  <1>9. QED
    BY <1>3, <1>4, <1>5, <1>6, <1>7, <1>8 DEF IInv

\* A rollback holds the row's lock, so no other command relies on the row.
LEMMA RollbackCommitIInv ==
    ASSUME IInv, NEW o \in Operators, RollbackCommit(o)
    PROVE  IInv'
  <1>1. \/ pointer' = pointer
        \/ pointer[2] # None /\ pointer' = <<pointer[2], pointer[1]>>
    BY DEF RollbackCommit
  <1>2. TypeOK'
    BY <1>1 DEF IInv, TypeOK, RollbackCommit, End, NoRow, Pointers
  <1>3. ArgSound'
    BY DEF IInv, TypeOK, ArgSound, RollbackCommit, End
  <1>4. EvidenceSound'
    BY DEF IInv, EvidenceSound, RollbackCommit
  <1>5. ReadSound'
    BY DEF IInv, TypeOK, ReadSound, RollbackCommit, End, NoRow
  <1>6. PointerSound'
    BY <1>1 DEF IInv, TypeOK, Pointers, PointerSound, RollbackCommit, NoRow
  <1>7. GuardSound'
    BY OperatorsAssumption DEF IInv, TypeOK, GuardSound, RollbackCommit, End
  <1>8. QED
    BY <1>2, <1>3, <1>4, <1>5, <1>6, <1>7 DEF IInv

\* A command that dies gives up its lock and has written nothing.
LEMMA CrashIInv ==
    ASSUME IInv, NEW o \in Operators, Crash(o)
    PROVE  IInv'
  <1>1. TypeOK' /\ ArgSound'
    BY DEF IInv, TypeOK, ArgSound, Crash, End, NoRow, Pointers
  <1>2. EvidenceSound' /\ PointerSound'
    BY DEF IInv, EvidenceSound, PointerSound, Crash
  <1>3. ReadSound'
    BY DEF IInv, TypeOK, ReadSound, Crash, End, NoRow
  <1>4. GuardSound'
    BY OperatorsAssumption DEF IInv, TypeOK, GuardSound, Crash, End
  <1>5. QED
    BY <1>1, <1>2, <1>3, <1>4 DEF IInv

\* Every step of any operator keeps the invariant.
LEMMA NextIInv == IInv /\ [Next]_vars => IInv'
  <1> SUFFICES ASSUME IInv, [Next]_vars
               PROVE  IInv'
    OBVIOUS
  <1>1. CASE Next
    <2>1. PICK o \in Operators :
             \/ Status(o)
             \/ \E p \in Packages : StageRead(o, p)
             \/ \E s \in SnapshotIds : ValidateRead(o, s) \/ AcceptRead(o, s)
             \/ \E s \in SnapshotIds : PromoteGuard(o, s)
             \/ RollbackGuard(o)
             \/ Finish(o)
             \/ Crash(o)
      BY <1>1 DEF Next
    <2>2. CASE Finish(o)
      BY <2>2, StageCommitIInv, ValidateCommitIInv, AcceptCommitIInv,
         PromoteReadIInv, PromoteCommitIInv, RollbackCommitIInv DEF Finish
    <2>3. QED
      BY <2>1, <2>2, StatusIInv, ReadIInv, GuardIInv, CrashIInv
  <1>2. CASE UNCHANGED vars
    BY <1>2 DEF vars, IInv, TypeOK, ArgSound, EvidenceSound, ReadSound,
                PointerSound, GuardSound
  <1>3. QED
    BY <1>1, <1>2

\* IInv holds in every reachable state.
THEOREM Invariance == Spec => []IInv
  BY InitIInv, NextIInv, PTL DEF Spec

\* The tables and the commands keep their types, however commands overlap.
THEOREM TypeCorrect == Spec => []TypeOK
  <1>1. IInv => TypeOK
    BY DEF IInv
  <1>2. QED
    BY Invariance, <1>1, PTL

\* However many operators overlap their commands, no rejected snapshot is
\* accepted or served, and the pointer names two different snapshots.
THEOREM ServedAreValidated == Spec => []OnlyValidatedServed
  <1>1. IInv => OnlyValidatedServed
    BY DEF IInv, EvidenceSound, PointerSound, OnlyValidatedServed, Served
  <1>2. QED
    BY Invariance, <1>1, PTL

\* A promotion or rollback whose guard matched a row changes that row only, for
\* any number of operators: no committed move of the pointer is lost.
THEOREM GuardsHold == Spec => LockedGuardHolds
  <1> DEFINE KeepsRow ==
               \A o \in Operators :
                  (/\ pc[o] \in {"move", "rollback"}
                   /\ pc'[o] = "idle"
                   /\ pointer' # pointer
                   /\ seen[o] # NoRow) => pointer = seen[o]
  <1>1. IInv => KeepsRow
    BY DEF IInv, GuardSound
  <1>2. QED
    BY Invariance, <1>1, PTL DEF LockedGuardHolds

\* The evidence of a snapshot is that of the first stage to commit.
THEOREM EvidenceIsImmutable == Spec => EvidenceImmutable
  <1> DEFINE Kept ==
        \A s \in SnapshotIds : state[s] # "absent" => evidence'[s] = evidence[s]
  <1>1. ASSUME TypeOK, NEW o \in Operators, StageCommit(o) PROVE Kept
    BY <1>1 DEF StageCommit, TypeOK
  <1>2. ASSUME TypeOK, [Next]_vars PROVE Kept
    BY <1>1, <1>2
       DEF Next, vars, Status, StageRead, ValidateRead, AcceptRead,
           PromoteGuard, RollbackGuard, Finish, ValidateCommit, AcceptCommit,
           PromoteRead, PromoteCommit, RollbackCommit, Crash
  <1>3. QED
    BY TypeCorrect, <1>2, PTL DEF Spec, EvidenceImmutable

-----------------------------------------------------------------------------
(* What LockReleased rests on besides fairness: no command waits for one   *)
(* that waits, and a holder has at most two steps to take.                 *)

\* The lock of the pointer row is that of a running promotion or rollback.
LockOwned ==
    \A o \in Operators : lock = o => pc[o] \in {"promote", "move", "rollback"}

\* The guard of the action of Finish(o) that is next; only the update of the row
\* waits.
CanGoOn(o) == pc[o] # "idle" /\ (pc[o] = "move" => lock \in {None, o})

\* Every running command can go on, or waits for one that can: two commands never
\* wait for each other, and none waits for a command that has ended.
NoMutualWait ==
    \A o \in Operators :
        pc[o] # "idle" =>
            CanGoOn(o) \/ (lock \in Operators /\ pc[o] = "move" /\ CanGoOn(lock))

\* In a step, its own or another's, the holder ends and gives up the lock, or keeps it
\* and stays where it is or goes from its guard to its write.
LockStep ==
    \A o \in Operators :
        lock = o =>
            \/ lock' = None /\ pc'[o] = "idle"
            \/ /\ lock' = o
               /\ pc'[o] = pc[o] \/ (pc[o] = "promote" /\ pc'[o] = "move")

\* The guard takes the lock and the end of the transaction gives it up.
LEMMA NextLockOwned == TypeOK /\ LockOwned /\ [Next]_vars => LockOwned' /\ LockStep
  <1> SUFFICES ASSUME TypeOK, LockOwned, [Next]_vars
               PROVE  LockOwned' /\ LockStep
    OBVIOUS
  <1>1. DOMAIN pc = Operators /\ None \notin Operators
    BY OperatorsAssumption DEF TypeOK
  <1>2. ASSUME NEW o \in Operators, End(o)
        PROVE  LockOwned' /\ LockStep
    BY <1>1, <1>2 DEF LockOwned, LockStep, End
  <1>3. ASSUME NEW o \in Operators, NEW step, NEW a, NEW row, Begin(o, step, a, row),
               \/ lock' = lock
               \/ GuardPointer(o) /\ step \in {"promote", "rollback"}
        PROVE  LockOwned' /\ LockStep
    <2>1. pc[o] = "idle" /\ pc' = [pc EXCEPT ![o] = step] /\ lock # o
      BY <1>3 DEF Begin, LockOwned
    <2>2. lock' = lock \/ (lock = None /\ lock' = o /\ step \in {"promote", "rollback"})
      BY <1>3 DEF GuardPointer
    <2>3. QED
      BY <1>1, <2>1, <2>2 DEF LockOwned, LockStep
  <1>4. ASSUME NEW o \in Operators, pc[o] = "promote",
               pc' = [pc EXCEPT ![o] = "move"], lock' = lock
        PROVE  LockOwned' /\ LockStep
    BY <1>1, <1>4 DEF LockOwned, LockStep
  <1>5. CASE UNCHANGED <<lock, pc>>
    BY <1>5 DEF LockOwned, LockStep
  <1>6. ASSUME NEW o \in Operators, Finish(o) \/ Crash(o)
        PROVE  LockOwned' /\ LockStep
    BY <1>2, <1>4, <1>6
       DEF Finish, StageCommit, ValidateCommit, AcceptCommit, PromoteRead,
           PromoteCommit, RollbackCommit, Crash
  <1>7. ASSUME NEW o \in Operators,
               \/ \E p \in Packages : StageRead(o, p)
               \/ \E s \in SnapshotIds :
                     ValidateRead(o, s) \/ AcceptRead(o, s) \/ PromoteGuard(o, s)
               \/ RollbackGuard(o)
        PROVE  LockOwned' /\ LockStep
    <2>1. CASE \E p \in Packages : StageRead(o, p)
      BY <1>3, <2>1 DEF StageRead
    <2>2. CASE \E s \in SnapshotIds : ValidateRead(o, s) \/ AcceptRead(o, s)
      BY <1>3, <2>2 DEF ValidateRead, AcceptRead
    <2>3. CASE \E s \in SnapshotIds : PromoteGuard(o, s)
      BY <1>3, <2>3 DEF PromoteGuard
    <2>4. CASE RollbackGuard(o)
      BY <1>3, <2>4 DEF RollbackGuard
    <2>5. QED
      BY <1>7, <2>1, <2>2, <2>3, <2>4
  <1>8. QED
    BY <1>5, <1>6, <1>7 DEF Next, Status, vars

\* The lock has an owner that is running, in every reachable state.
THEOREM LockIsOwned == Spec => []LockOwned
  <1>1. Init => LockOwned
    BY OperatorsAssumption DEF Init, LockOwned
  <1>2. QED
    BY TypeCorrect, <1>1, NextLockOwned, PTL DEF Spec

\* However commands overlap, a command that waits for the pointer row waits for one
\* that can go on.
THEOREM CommandsGoOn == Spec => []NoMutualWait
  <1>1. TypeOK /\ LockOwned => NoMutualWait
    BY DEF TypeOK, LockOwned, NoMutualWait, CanGoOn
  <1>2. QED
    BY TypeCorrect, LockIsOwned, <1>1, PTL

\* A lock outlives at most one step of its holder, and no step of another operator
\* takes or moves it.
THEOREM LockIsBrief == Spec => [][LockStep]_vars
  BY TypeCorrect, LockIsOwned, NextLockOwned, PTL DEF Spec
=============================================================================
