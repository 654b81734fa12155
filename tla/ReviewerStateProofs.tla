------------------------- MODULE ReviewerStateProofs -------------------------
(***************************************************************************)
(* Proofs about ReviewerState for any number of requests, statuses, rows   *)
(* and rows of a page: a savepoint always marks a place before which items *)
(* and audit events are paired and nothing is of the request that set it.  *)
(***************************************************************************)
EXTENDS ReviewerState, SequenceTheorems, FiniteSetTheorems,
        WellFoundedInduction, TLAPS

Active == {"create", "audit", "finish", "failed", "answered"}

\* Up to place n every item has its audit event and every event its item.
PairedUpTo(rows, n) ==
    \A i \in 1..n : \E j \in 1..n :
        rows[j].id = rows[i].id /\ rows[j].table # rows[i].table

\* Up to place n nothing is of request r.
NoneOf(r, rows, n) == \A i \in 1..n : rows[i].request # r

\* The savepoints of request r at place p of form f, in rows of its connection:
\* the combined form has one around the whole and every item one of its own.
MarksSound(r, p, f, rows, marks) ==
    /\ p \in {"create", "finish", "failed"} =>
          Len(marks) = IF f.path = "update" THEN 1 ELSE 0
    /\ p = "audit" =>
          /\ Len(marks) = IF f.path = "update" THEN 2 ELSE 1
          /\ marks[Len(marks)] = Len(rows) - 1
          /\ f.path = "update" => marks[1] <= Len(rows) - 1
    /\ p \in Active \ {"answered"} /\ f.path = "update" =>
          /\ marks[1] <= Len(rows)
          /\ PairedUpTo(rows, marks[1])
          /\ NoneOf(r, rows, marks[1])
    /\ p = "answered" => marks = <<>>

\* The rows that request r has and has not yet put in.
RowsSound(r, p, f, a, rows) ==
    /\ p = "idle" => NoneOf(r, rows, Len(rows))
    /\ p \in Active \ {"audit"} => PairedUpTo(rows, Len(rows))
    /\ p \in {"create", "failed"} /\ f.path # "update" => NoneOf(r, rows, Len(rows))
    /\ p = "audit" =>
          /\ rows # <<>>
          /\ PairedUpTo(rows, Len(rows) - 1)
          /\ rows[Len(rows)].table = "state"
          /\ rows[Len(rows)].request = r
          /\ f.path # "update" => NoneOf(r, rows, Len(rows) - 1)
    /\ p = "finish" \/ (p = "answered" /\ a = "saved") =>
          /\ rows # <<>>
          /\ rows[Len(rows)].request = r
          /\ f.note # "none" => rows[Len(rows)].kind = "note"
    /\ p = "answered" /\ a # "saved" => NoneOf(r, rows, Len(rows))

\* What is still to create of a form: its note last, and one item only of a form
\* that is not the combined one.
TodoSound(p, f, items) ==
    p \in {"create", "audit"} =>
        /\ items \in {<<"status">>, <<"note">>, <<"status", "note">>}
        /\ f.path # "update" => Len(items) = 1
        /\ f.note # "none" => items[Len(items)] = "note"
        /\ items[1] = "status" => f.status # None

\* The status of a form is what the page shows, unless it is still to create.
StatusSound(p, f, items, a, rows) ==
    (/\ p \in {"create", "audit", "finish"} \/ (p = "answered" /\ a = "saved")
     /\ f.status # None
     /\ ~(p = "create" /\ items[1] = "status")
     /\ Cardinality(StateRows(rows)) <= PageSize)
    => LatestStatus(rows) = f.status

Sound(r, p, f, items, a, rows, marks) ==
    /\ MarksSound(r, p, f, rows, marks)
    /\ RowsSound(r, p, f, a, rows)
    /\ TodoSound(p, f, items)
    /\ StatusSound(p, f, items, a, rows)

RequestsSound ==
    \A r \in Requests :
        Sound(r, pc[r], form[r], todo[r], answer[r],
              work[Connection(r)], savepoints[Connection(r)])

\* The one connection of the demo serves one request at a time.
Alone ==
    mode = "fixture_demo" =>
        \A r, q \in Requests : pc[r] \in Active /\ pc[q] \in Active => r = q

\* A connection that no request uses has no savepoint and is paired.
Quiet ==
    \A c \in Connections :
        (\A r \in Requests : Connection(r) = c => pc[r] \notin Active)
        => savepoints[c] = <<>> /\ PairedUpTo(work[c], Len(work[c]))

\* The inductive invariant.
IInv ==
    /\ TypeOK
    /\ db = <<>>
    /\ Alone
    /\ Quiet
    /\ RequestsSound

-----------------------------------------------------------------------------
(* Places and the status of a page.                                        *)

\* A place that no other exceeds is the newest one.
LEMMA NewestIs ==
    ASSUME NEW S \in SUBSET Nat, NEW n \in S, \A j \in S : j <= n
    PROVE  Newest(S) = n
  <1>1. \E i \in S : \A j \in S : j <= i
    OBVIOUS
  <1>2. Newest(S) \in S /\ \A j \in S : j <= Newest(S)
    BY <1>1 DEF Newest
  <1>3. PICK k : k = Newest(S)
    OBVIOUS
  <1>4. k \in Nat /\ n \in Nat /\ k <= n /\ n <= k
    BY <1>2, <1>3
  <1>5. k = n
    BY <1>4
  <1>6. QED
    BY <1>3, <1>5

\* Places of a finite sequence have a newest one: its distance to the end is the
\* smallest.
LEMMA NewestExists ==
    ASSUME NEW n \in Nat, NEW S \in SUBSET (1..n), S # {}
    PROVE  Newest(S) \in S /\ \A j \in S : j <= Newest(S)
  <1> DEFINE T == {n - i : i \in S}
  <1>1. T \subseteq Nat /\ T # {}
    <2>1. \A i \in S : n - i \in Nat
      OBVIOUS
    <2>2. PICK i : i \in S
      OBVIOUS
    <2>3. n - i \in T
      BY <2>2
    <2>4. QED
      BY <2>1, <2>3
  <1> HIDE DEF T
  <1>2. PICK x \in T : \A y \in T : ~(<<y, x>> \in OpToRel(<, Nat))
    BY <1>1, NatLessThanWellFounded, WFMin
  <1>3. \A y \in T : ~(y < x)
    BY <1>1, <1>2 DEF OpToRel
  <1>4. PICK i \in S : x = n - i
    BY <1>2 DEF T
  <1>5. \A j \in S : j <= i
    <2>1. TAKE j \in S
    <2>2. n - j \in T
      BY DEF T
    <2>3. QED
      BY <1>3, <1>4, <2>2
  <1>6. \E k \in S : \A j \in S : j <= k
    BY <1>5
  <1>7. QED
    BY <1>6 DEF Newest

\* The places of state rows, before and after a row is appended.
LEMMA StateRowsAppend ==
    ASSUME NEW rows \in Seq(Rows), NEW e \in Rows
    PROVE  StateRows(Append(rows, e)) =
               StateRows(rows) \cup (IF e.table = "state" THEN {Len(rows) + 1} ELSE {})
  BY AppendProperties DEF StateRows

\* The places of state rows are finitely many.
LEMMA StateRowsFinite ==
    ASSUME NEW rows \in Seq(Rows)
    PROVE  /\ StateRows(rows) \in SUBSET (1..Len(rows))
           /\ IsFiniteSet(StateRows(rows))
  <1>1. Len(rows) \in Nat /\ StateRows(rows) \in SUBSET (1..Len(rows))
    BY DEF StateRows
  <1>2. IsFiniteSet(1..Len(rows))
    BY <1>1, FS_Interval
  <1>3. QED
    BY <1>1, <1>2, FS_Subset

\* A page that has room for all rows lists them all.
LEMMA AllListed ==
    ASSUME NEW rows \in Seq(Rows), Cardinality(StateRows(rows)) <= PageSize
    PROVE  Listed(rows) = StateRows(rows)
  <1>1. ASSUME NEW i \in StateRows(rows)
        PROVE  Cardinality({j \in StateRows(rows) : j <= i}) <= PageSize
    <2> DEFINE S == {j \in StateRows(rows) : j <= i}
    <2>1. /\ IsFiniteSet(StateRows(rows))
          /\ S \in SUBSET StateRows(rows)
      BY StateRowsFinite
    <2> HIDE DEF S
    <2>2. /\ Cardinality(S) <= Cardinality(StateRows(rows))
          /\ Cardinality(S) \in Nat
          /\ Cardinality(StateRows(rows)) \in Nat
      BY <2>1, FS_Subset, FS_CardinalityType
    <2>3. Cardinality(S) <= PageSize
      BY <2>2, BoundsAssumption
    <2>4. QED
      BY <2>3 DEF S
  <1>2. QED
    BY <1>1 DEF Listed

\* Appending takes no row from a page that has room for all rows afterwards.
LEMMA RoomBefore ==
    ASSUME NEW rows \in Seq(Rows), NEW e \in Rows,
           Cardinality(StateRows(Append(rows, e))) <= PageSize
    PROVE  Cardinality(StateRows(rows)) <= PageSize
  <1> DEFINE S == StateRows(rows)
             T == StateRows(Append(rows, e))
  <1>1. Append(rows, e) \in Seq(Rows)
    BY AppendProperties
  <1>2. S \in SUBSET T /\ IsFiniteSet(T) /\ IsFiniteSet(S)
    BY <1>1, StateRowsAppend, StateRowsFinite
  <1>3. Cardinality(T) <= PageSize
    OBVIOUS
  <1> HIDE DEF S, T
  <1>4. Cardinality(S) <= Cardinality(T) /\ Cardinality(S) \in Nat /\ Cardinality(T) \in Nat
    BY <1>2, FS_Subset, FS_CardinalityType
  <1>5. Cardinality(S) <= PageSize
    BY <1>3, <1>4, BoundsAssumption
  <1>6. QED
    BY <1>5 DEF S

\* A row that is not a status does not change the status shown, while the page
\* has room for all rows.
LEMMA OtherRowKeepsStatus ==
    ASSUME NEW rows \in Seq(Rows), NEW e \in Rows,
           e.table = "audit" \/ e.kind # "status",
           Cardinality(StateRows(Append(rows, e))) <= PageSize
    PROVE  LatestStatus(Append(rows, e)) = LatestStatus(rows)
  <1> DEFINE more == Append(rows, e)
  <1>1. /\ more \in Seq(Rows)
        /\ \A i \in 1..Len(rows) : more[i] = rows[i]
        /\ more[Len(rows) + 1] = e
    BY AppendProperties
  <1>2. Listed(more) = StateRows(more)
    BY <1>1, AllListed
  <1>3. Listed(rows) = StateRows(rows)
    BY RoomBefore, AllListed
  <1>4. StateRows(rows) \in SUBSET (1..Len(rows)) /\ Len(rows) \in Nat
    BY StateRowsFinite
  <1>5. StateRows(more) = StateRows(rows) \cup (IF e.table = "state" THEN {Len(rows) + 1} ELSE {})
    BY StateRowsAppend
  <1>6. e.table = "audit" => e.table # "state"
    OBVIOUS
  <1> HIDE DEF more
  <1>7. StatusRows(more) = StatusRows(rows) /\ StatusRows(rows) \in SUBSET (1..Len(rows))
    BY <1>1, <1>2, <1>3, <1>4, <1>5, <1>6 DEF StatusRows
  <1>8. StatusRows(rows) # {} => Newest(StatusRows(rows)) \in 1..Len(rows)
    BY <1>4, <1>7, NewestExists
  <1>9. LatestStatus(more) = LatestStatus(rows)
    BY <1>1, <1>7, <1>8 DEF LatestStatus
  <1>10. QED
    BY <1>9 DEF more

\* A status that is appended is the one shown, while the page has room for all.
LEMMA StatusRowIsShown ==
    ASSUME NEW rows \in Seq(Rows), NEW e \in Rows,
           e.table = "state", e.kind = "status",
           Cardinality(StateRows(Append(rows, e))) <= PageSize
    PROVE  LatestStatus(Append(rows, e)) = e.status
  <1> DEFINE more == Append(rows, e)
  <1>1. /\ more \in Seq(Rows)
        /\ more[Len(rows) + 1] = e
        /\ Len(more) = Len(rows) + 1
        /\ Len(rows) \in Nat
    BY AppendProperties, LenProperties
  <1>2. Listed(more) = StateRows(more)
    BY <1>1, AllListed
  <1>3. StateRows(more) \in SUBSET (1..Len(more))
    BY <1>1, StateRowsFinite
  <1>4. Len(rows) + 1 \in StateRows(more)
    BY StateRowsAppend
  <1> HIDE DEF more
  <1>5. /\ StatusRows(more) \in SUBSET Nat
        /\ Len(rows) + 1 \in StatusRows(more)
        /\ \A j \in StatusRows(more) : j <= Len(rows) + 1
    BY <1>1, <1>2, <1>3, <1>4 DEF StatusRows
  <1>6. Newest(StatusRows(more)) = Len(rows) + 1
    BY <1>5, NewestIs
  <1>7. LatestStatus(more) = e.status
    BY <1>1, <1>5, <1>6 DEF LatestStatus
  <1>8. QED
    BY <1>7 DEF more

\* What a rollback to a mark leaves.
LEMMA PrefixProperties ==
    ASSUME NEW rows \in Seq(Rows), NEW n \in Nat, n <= Len(rows)
    PROVE  /\ SubSeq(rows, 1, n) \in Seq(Rows)
           /\ Len(SubSeq(rows, 1, n)) = n
           /\ \A i \in 1..n : SubSeq(rows, 1, n)[i] = rows[i]
           /\ \A m \in 0..n : PairedUpTo(rows, m) => PairedUpTo(SubSeq(rows, 1, n), m)
           /\ \A r, m : m \in 0..n /\ NoneOf(r, rows, m) => NoneOf(r, SubSeq(rows, 1, n), m)
  <1>1. \A i \in 1..n : rows[i] \in Rows
    BY ElementOfSeq, LenProperties
  <1>2. /\ SubSeq(rows, 1, n) \in Seq(Rows)
        /\ Len(SubSeq(rows, 1, n)) = n
        /\ \A i \in 1..n : SubSeq(rows, 1, n)[i] = rows[i]
    BY <1>1, SubSeqProperties
  <1> DEFINE less == SubSeq(rows, 1, n)
  <1> HIDE DEF less
  <1>3. \A i \in 1..n : less[i] = rows[i]
    BY <1>2 DEF less
  <1>4. \A m \in 0..n : PairedUpTo(rows, m) => PairedUpTo(less, m)
    <2>1. SUFFICES ASSUME NEW m \in 0..n, PairedUpTo(rows, m), NEW i \in 1..m
                   PROVE  \E j \in 1..m : less[j].id = less[i].id /\ less[j].table # less[i].table
      BY DEF PairedUpTo
    <2>2. PICK j \in 1..m : rows[j].id = rows[i].id /\ rows[j].table # rows[i].table
      BY <2>1 DEF PairedUpTo
    <2>3. less[i] = rows[i] /\ less[j] = rows[j]
      BY <1>3
    <2>4. QED
      BY <2>2, <2>3
  <1>5. \A r, m : m \in 0..n /\ NoneOf(r, rows, m) => NoneOf(r, less, m)
    BY <1>3 DEF NoneOf
  <1>6. QED
    BY <1>2, <1>4, <1>5 DEF less

\* What appending a row leaves.
LEMMA AppendedProperties ==
    ASSUME NEW rows \in Seq(Rows), NEW e \in Rows
    PROVE  /\ Append(rows, e) \in Seq(Rows)
           /\ Len(Append(rows, e)) = Len(rows) + 1
           /\ Append(rows, e)[Len(rows) + 1] = e
           /\ Append(rows, e) # <<>>
           /\ \A m \in 0..Len(rows) : PairedUpTo(rows, m) => PairedUpTo(Append(rows, e), m)
           /\ \A r, m : m \in 0..Len(rows) /\ NoneOf(r, rows, m) => NoneOf(r, Append(rows, e), m)
           /\ \A r : e.request # r /\ NoneOf(r, rows, Len(rows))
                     => NoneOf(r, Append(rows, e), Len(rows) + 1)
  <1>1. /\ Append(rows, e) \in Seq(Rows)
        /\ Len(Append(rows, e)) = Len(rows) + 1
        /\ Append(rows, e) # <<>>
        /\ \A i \in 1..Len(rows) : Append(rows, e)[i] = rows[i]
        /\ Append(rows, e)[Len(rows) + 1] = e
        /\ Len(rows) \in Nat
    BY AppendProperties, LenProperties
  <1> DEFINE more == Append(rows, e)
  <1>2. /\ \A i \in 1..Len(rows) : more[i] = rows[i]
        /\ more[Len(rows) + 1] = e
    BY <1>1
  <1> HIDE DEF more
  <1>3. \A m \in 0..Len(rows) : PairedUpTo(rows, m) => PairedUpTo(more, m)
    <2>1. SUFFICES ASSUME NEW m \in 0..Len(rows), PairedUpTo(rows, m), NEW i \in 1..m
                   PROVE  \E j \in 1..m : more[j].id = more[i].id /\ more[j].table # more[i].table
      BY DEF PairedUpTo
    <2>2. PICK j \in 1..m : rows[j].id = rows[i].id /\ rows[j].table # rows[i].table
      BY <2>1 DEF PairedUpTo
    <2>3. more[i] = rows[i] /\ more[j] = rows[j]
      BY <1>1, <1>2
    <2>4. QED
      BY <2>2, <2>3
  <1>4. \A r, m : m \in 0..Len(rows) /\ NoneOf(r, rows, m) => NoneOf(r, more, m)
    BY <1>1, <1>2 DEF NoneOf
  <1>5. \A r : e.request # r /\ NoneOf(r, rows, Len(rows)) => NoneOf(r, more, Len(rows) + 1)
    BY <1>1, <1>2 DEF NoneOf
  <1>6. QED
    BY <1>1, <1>3, <1>4, <1>5 DEF more

-----------------------------------------------------------------------------
(* What each step does to the places and marks of its request.             *)

\* A request that is not active relies on nothing but having put nothing in.
LEMMA IdleSound ==
    ASSUME NEW r, NEW p \in {"idle", "closed"}, NEW f, NEW items, NEW a,
           NEW rows, NEW marks, p = "idle" => NoneOf(r, rows, Len(rows))
    PROVE  Sound(r, p, f, items, a, rows, marks)
  BY DEF Sound, MarksSound, RowsSound, TodoSound, StatusSound, Active

\* A submitted form: the rows so far are not of this request, and the combined
\* form marks them.
LEMMA SubmitSound ==
    ASSUME NEW r, NEW f \in Forms, NEW items, NEW a, NEW rows \in Seq(Rows),
           NEW marks, NoneOf(r, rows, Len(rows)), PairedUpTo(rows, Len(rows)),
           marks = IF f.path = "update" THEN <<Len(rows)>> ELSE <<>>,
           TodoSound("create", f, items),
           f.status # None /\ items[1] # "status" => LatestStatus(rows) = f.status
    PROVE  Sound(r, "create", f, items, a, rows, marks)
  <1>1. Len(rows) \in Nat
    BY LenProperties
  <1>2. MarksSound(r, "create", f, rows, marks)
    BY <1>1 DEF MarksSound, Active
  <1>3. RowsSound(r, "create", f, a, rows)
    BY DEF RowsSound, Active
  <1>4. StatusSound("create", f, items, a, rows)
    BY DEF StatusSound
  <1>5. QED
    BY <1>2, <1>3, <1>4 DEF Sound

\* A form that asks for nothing new.
LEMMA NothingSound ==
    ASSUME NEW r, NEW f, NEW items, NEW rows,
           NoneOf(r, rows, Len(rows)), PairedUpTo(rows, Len(rows))
    PROVE  Sound(r, "answered", f, items, "nothing", rows, <<>>)
  BY DEF Sound, MarksSound, RowsSound, TodoSound, StatusSound, Active

\* A refused note leaves what was there.
LEMMA RejectSound ==
    ASSUME NEW r, NEW f, NEW items, NEW a, NEW rows, NEW marks,
           Sound(r, "create", f, items, a, rows, marks)
    PROVE  Sound(r, "failed", f, items, a, rows, marks)
  BY DEF Sound, MarksSound, RowsSound, TodoSound, StatusSound, Active

\* Marks are places.
LEMMA MarkType ==
    ASSUME NEW marks \in Seq(Nat), NEW i \in Nat, 1 <= i, i <= Len(marks)
    PROVE  marks[i] \in Nat
  <1>1. Len(marks) \in Nat
    BY LenProperties
  <1>2. i \in 1..Len(marks)
    BY <1>1
  <1>3. QED
    BY <1>2, ElementOfSeq

\* What is left when the last mark is taken away.
LEMMA PopProperties ==
    ASSUME NEW marks \in Seq(Nat), Len(marks) >= 1
    PROVE  /\ SubSeq(marks, 1, Len(marks) - 1) \in Seq(Nat)
           /\ Len(SubSeq(marks, 1, Len(marks) - 1)) = Len(marks) - 1
           /\ \A i \in 1..(Len(marks) - 1) : SubSeq(marks, 1, Len(marks) - 1)[i] = marks[i]
  <1>1. PICK n : n = Len(marks) - 1
    OBVIOUS
  <1>2. Len(marks) \in Nat /\ 1 \in Int /\ n \in Nat /\ n + 1 = Len(marks)
    BY <1>1, LenProperties
  <1>3. \A i \in 1..n : marks[i] \in Nat
    BY <1>2, ElementOfSeq
  <1>4. PICK less : less = SubSeq(marks, 1, n)
    OBVIOUS
  <1>5. /\ less \in Seq(Nat)
        /\ Len(less) = IF 1 <= n THEN n - 1 + 1 ELSE 0
        /\ \A i \in 1..(n - 1 + 1) : less[i] = marks[1 + i - 1]
    BY <1>2, <1>3, <1>4, SubSeqProperties
  <1>6. Len(less) = n /\ \A i \in 1..n : less[i] = marks[i]
    BY <1>2, <1>5
  <1>7. QED
    BY <1>1, <1>4, <1>5, <1>6

\* A sequence of one item.
LEMMA OneItem ==
    ASSUME NEW x
    PROVE  Len(<<x>>) = 1 /\ <<x>>[1] = x /\ Tail(<<x>>) = <<>>
  OBVIOUS

\* The savepoint of an item marks the place before its row.
LEMMA CreateRowSound ==
    ASSUME NEW r, NEW f, NEW items, NEW a, NEW rows \in Seq(Rows),
           NEW marks \in Seq(Nat), NEW e \in Rows,
           Sound(r, "create", f, items, a, rows, marks),
           e.table = "state", e.request = r, e.kind = items[1],
           items[1] = "status" => e.status = f.status
    PROVE  Sound(r, "audit", f, items, a, Append(rows, e), Append(marks, Len(rows)))
  <1> DEFINE more == Append(rows, e)
             deeper == Append(marks, Len(rows))
  <1>1. /\ Len(rows) \in Nat
        /\ Len(more) = Len(rows) + 1
        /\ more[Len(rows) + 1] = e
        /\ more # <<>>
        /\ \A m \in 0..Len(rows) : PairedUpTo(rows, m) => PairedUpTo(more, m)
        /\ \A q, m : m \in 0..Len(rows) /\ NoneOf(q, rows, m) => NoneOf(q, more, m)
    BY AppendedProperties, LenProperties
  <1>2. /\ Len(marks) \in Nat
        /\ Len(deeper) = Len(marks) + 1
        /\ deeper[Len(marks) + 1] = Len(rows)
        /\ \A i \in 1..Len(marks) : deeper[i] = marks[i]
    BY <1>1, AppendProperties, LenProperties
  <1>3. TodoSound("audit", f, items)
    BY DEF Sound, TodoSound
  <1>4. StatusSound("audit", f, items, a, more)
    <2>1. SUFFICES ASSUME f.status # None, Cardinality(StateRows(more)) <= PageSize
                   PROVE  LatestStatus(more) = f.status
      BY DEF StatusSound
    <2>2. CASE items[1] = "status"
      BY <2>1, <2>2, StatusRowIsShown
    <2>3. CASE items[1] # "status"
      <3>1. Cardinality(StateRows(rows)) <= PageSize
        BY <2>1, RoomBefore
      <3>2. LatestStatus(rows) = f.status
        BY <2>1, <2>3, <3>1 DEF Sound, StatusSound
      <3>3. QED
        BY <2>1, <2>3, <3>2, OtherRowKeepsStatus
    <2>4. QED
      BY <2>2, <2>3
  <1> HIDE DEF more, deeper
  <1>5. MarksSound(r, "create", f, rows, marks) /\ RowsSound(r, "create", f, a, rows)
    BY DEF Sound
  <1>6. RowsSound(r, "audit", f, a, more)
    BY <1>1, <1>5 DEF RowsSound, Active
  <1>7. ASSUME f.path = "update"
        PROVE  /\ Len(marks) = 1
               /\ marks[1] \in 0..Len(rows)
               /\ PairedUpTo(rows, marks[1])
               /\ NoneOf(r, rows, marks[1])
    <2>1. Len(marks) = 1 /\ marks[1] <= Len(rows) /\ PairedUpTo(rows, marks[1])
          /\ NoneOf(r, rows, marks[1])
      BY <1>5, <1>7 DEF MarksSound, Active
    <2>2. 1 \in Nat /\ 1 <= 1 /\ 1 <= Len(marks)
      BY <2>1
    <2>3. marks[1] \in Nat
      BY <2>2, MarkType
    <2>4. QED
      BY <1>1, <2>1, <2>3
  <1>8. MarksSound(r, "audit", f, more, deeper)
    <2>1. CASE f.path = "update"
      <3>1. Len(marks) = 1 /\ marks[1] \in 0..Len(rows)
        BY <1>7, <2>1
      <3>2. /\ Len(deeper) = 2
            /\ deeper[2] = Len(more) - 1
            /\ deeper[1] = marks[1]
            /\ marks[1] <= Len(more) - 1
            /\ marks[1] <= Len(more)
        BY <1>1, <1>2, <3>1
      <3>3. PairedUpTo(more, marks[1]) /\ NoneOf(r, more, marks[1])
        BY <1>1, <1>7, <2>1
      <3>4. QED
        BY <2>1, <3>2, <3>3 DEF MarksSound
    <2>2. CASE f.path # "update"
      <3>1. Len(marks) = 0
        BY <1>5, <2>2 DEF MarksSound
      <3>2. QED
        BY <1>1, <1>2, <2>2, <3>1 DEF MarksSound
    <2>3. QED
      BY <2>1, <2>2
  <1>9. QED
    BY <1>3, <1>4, <1>6, <1>8 DEF Sound, more, deeper

\* The event pairs the last row, and the savepoint of the item is gone.
LEMMA CreateAuditSound ==
    ASSUME NEW r, NEW f, NEW items, NEW a, NEW rows \in Seq(Rows),
           NEW marks \in Seq(Nat), NEW e \in Rows, NEW p, NEW rest,
           Sound(r, "audit", f, items, a, rows, marks),
           e.table = "audit", e.request = r, e.kind = items[1],
           e.id = rows[Len(rows)].id,
           p = IF Len(items) = 1 THEN "finish" ELSE "create",
           rest = Tail(items)
    PROVE  Sound(r, p, f, rest, a, Append(rows, e), SubSeq(marks, 1, Len(marks) - 1))
  <1> DEFINE more == Append(rows, e)
             outer == SubSeq(marks, 1, Len(marks) - 1)
  <1>0. /\ MarksSound(r, "audit", f, rows, marks)
        /\ RowsSound(r, "audit", f, a, rows)
        /\ TodoSound("audit", f, items)
        /\ StatusSound("audit", f, items, a, rows)
    BY DEF Sound
  <1>1. /\ Len(rows) \in Nat
        /\ Len(more) = Len(rows) + 1
        /\ more[Len(rows) + 1] = e
        /\ more # <<>>
        /\ \A i \in 1..Len(rows) : more[i] = rows[i]
    BY AppendProperties, LenProperties
  <1>11. /\ \A m \in 0..Len(rows) : PairedUpTo(rows, m) => PairedUpTo(more, m)
         /\ \A q, m : m \in 0..Len(rows) /\ NoneOf(q, rows, m) => NoneOf(q, more, m)
    BY AppendedProperties
  <1>2. /\ Len(rows) >= 1
        /\ PairedUpTo(rows, Len(rows) - 1)
        /\ rows[Len(rows)].table = "state"
    <2>1. /\ rows # <<>>
          /\ PairedUpTo(rows, Len(rows) - 1)
          /\ rows[Len(rows)].table = "state"
      BY <1>0 DEF RowsSound
    <2>2. QED
      BY <1>1, <2>1, EmptySeq
  <1>3. StatusSound(p, f, rest, a, more)
    <2>1. SUFFICES ASSUME f.status # None, Cardinality(StateRows(more)) <= PageSize
                   PROVE  LatestStatus(more) = f.status
      BY DEF StatusSound
    <2>2. Cardinality(StateRows(rows)) <= PageSize
      BY <2>1, RoomBefore
    <2>3. LatestStatus(rows) = f.status
      BY <1>0, <2>1, <2>2 DEF StatusSound
    <2>4. QED
      BY <2>1, <2>3, OtherRowKeepsStatus
  <1>4. PairedUpTo(more, Len(more))
    <2> HIDE DEF more
    <2>1. SUFFICES ASSUME NEW i \in 1..Len(more)
                   PROVE  \E j \in 1..Len(more) :
                             more[j].id = more[i].id /\ more[j].table # more[i].table
      BY DEF PairedUpTo
    <2>0. /\ Len(rows) \in 1..Len(more)
          /\ Len(rows) + 1 \in 1..Len(more)
          /\ more[Len(rows)] = rows[Len(rows)]
          /\ more[Len(rows) + 1] = e
      BY <1>1, <1>2
    <2>2. CASE i = Len(rows)
      BY <1>2, <2>0, <2>2
    <2>3. CASE i = Len(rows) + 1
      BY <1>2, <2>0, <2>3
    <2>4. CASE i \in 1..(Len(rows) - 1)
      <3>1. PICK j \in 1..(Len(rows) - 1) :
                rows[j].id = rows[i].id /\ rows[j].table # rows[i].table
        BY <1>2, <2>4 DEF PairedUpTo
      <3>2. i \in 1..Len(rows) /\ j \in 1..Len(rows) /\ j \in 1..Len(more)
        BY <1>1, <2>4
      <3>4. more[i] = rows[i] /\ more[j] = rows[j]
        BY <1>1, <3>2
      <3>3. QED
        BY <3>1, <3>2, <3>4
    <2>5. QED
      BY <1>1, <2>2, <2>3, <2>4
  <1>5. TodoSound(p, f, rest) /\ (p = "finish" /\ f.note # "none" => items[1] = "note")
    <2>1. /\ items \in {<<"status">>, <<"note">>, <<"status", "note">>}
          /\ f.note # "none" => items[Len(items)] = "note"
          /\ f.path # "update" => Len(items) = 1
      BY <1>0 DEF TodoSound
    <2>2. CASE items \in {<<"status">>, <<"note">>}
      BY <2>1, <2>2 DEF TodoSound
    <2>3. CASE items = <<"status", "note">>
      <3>1. rest = <<"note">> /\ Len(items) = 2 /\ p = "create"
        BY <2>3
      <3>2. rest[1] = "note" /\ Len(rest) = 1 /\ rest[Len(rest)] = "note"
        BY <3>1, OneItem
      <3>4. f.path = "update"
        BY <2>1, <3>1
      <3>3. QED
        BY <3>1, <3>2, <3>4 DEF TodoSound
    <2>4. QED
      BY <2>1, <2>2, <2>3
  <1>6. p = "create" => f.path = "update"
    BY <1>0 DEF TodoSound
  <1>7. RowsSound(r, p, f, a, more)
    <2> HIDE DEF more
    <2>1. more[Len(more)] = e
      BY <1>1
    <2>2. QED
      BY <1>1, <1>4, <1>5, <1>6, <2>1 DEF RowsSound, Active
  <1>8. /\ Len(marks) = IF f.path = "update" THEN 2 ELSE 1
        /\ f.path = "update" => /\ marks[1] <= Len(rows)
                                /\ PairedUpTo(rows, marks[1])
                                /\ NoneOf(r, rows, marks[1])
    BY <1>0 DEF MarksSound, Active
  <1>9. MarksSound(r, p, f, more, outer)
    <2>1. 1 \in Nat /\ 1 <= 1 /\ 1 <= Len(marks)
      BY <1>8
    <2>2. marks[1] \in Nat
      BY <2>1, MarkType
    <2>3. /\ Len(outer) = Len(marks) - 1
          /\ \A i \in 1..(Len(marks) - 1) : outer[i] = marks[i]
      BY <2>1, PopProperties
    <2> HIDE DEF more, outer
    <2>4. CASE f.path = "update"
      <3>1. /\ Len(outer) = 1
            /\ outer[1] = marks[1]
            /\ marks[1] \in 0..Len(rows)
            /\ marks[1] <= Len(more)
        BY <1>1, <1>8, <2>2, <2>3, <2>4
      <3>2. PairedUpTo(more, marks[1]) /\ NoneOf(r, more, marks[1])
        BY <1>11, <1>8, <2>4, <3>1
      <3>3. QED
        BY <2>4, <3>1, <3>2 DEF MarksSound
    <2>5. CASE f.path # "update"
      BY <1>8, <2>3, <2>5 DEF MarksSound
    <2>6. QED
      BY <2>4, <2>5
  <1>10. QED
    BY <1>3, <1>5, <1>7, <1>9 DEF Sound

\* Without an event the rows go back to the mark before the item.
LEMMA AuditFailsSound ==
    ASSUME NEW r, NEW f, NEW items, NEW a, NEW rows \in Seq(Rows),
           NEW marks \in Seq(Nat), Sound(r, "audit", f, items, a, rows, marks)
    PROVE  /\ marks # <<>>
           /\ marks[Len(marks)] \in Nat
           /\ marks[Len(marks)] <= Len(rows)
           /\ Sound(r, "failed", f, items, a, SubSeq(rows, 1, marks[Len(marks)]),
                    SubSeq(marks, 1, Len(marks) - 1))
  <1>1. PICK n : n = Len(rows) - 1
    OBVIOUS
  <1>2. /\ MarksSound(r, "audit", f, rows, marks)
        /\ RowsSound(r, "audit", f, a, rows)
    BY DEF Sound
  <1>3. Len(rows) \in Nat /\ n \in Nat /\ n <= Len(rows)
    <2>1. rows # <<>>
      BY <1>2 DEF RowsSound
    <2>2. QED
      BY <1>1, <2>1, LenProperties, EmptySeq
  <1>4. /\ PairedUpTo(rows, n)
        /\ f.path # "update" => NoneOf(r, rows, n)
    BY <1>1, <1>2 DEF RowsSound
  <1>5. /\ Len(marks) = IF f.path = "update" THEN 2 ELSE 1
        /\ marks[Len(marks)] = n
        /\ f.path = "update" => marks[1] <= n /\ PairedUpTo(rows, marks[1])
                                /\ NoneOf(r, rows, marks[1])
    BY <1>1, <1>2 DEF MarksSound, Active
  <1>6. marks # <<>> /\ 1 \in Nat /\ 1 <= 1 /\ 1 <= Len(marks)
    BY <1>5, EmptySeq
  <1>7. marks[1] \in Nat
    BY <1>6, MarkType
  <1>8. PICK less : less = SubSeq(rows, 1, n)
    OBVIOUS
  <1>9. PICK outer : outer = SubSeq(marks, 1, Len(marks) - 1)
    OBVIOUS
  <1>10. /\ Len(outer) = Len(marks) - 1
         /\ \A i \in 1..(Len(marks) - 1) : outer[i] = marks[i]
    BY <1>6, <1>9, PopProperties
  <1>11. /\ Len(less) = n
         /\ \A m \in 0..n : PairedUpTo(rows, m) => PairedUpTo(less, m)
         /\ \A q, m : m \in 0..n /\ NoneOf(q, rows, m) => NoneOf(q, less, m)
    BY <1>3, <1>8, PrefixProperties
  <1>12. RowsSound(r, "failed", f, a, less)
    <2>1. n \in 0..n
      BY <1>3
    <2>2. PairedUpTo(less, n) /\ (f.path # "update" => NoneOf(r, less, n))
      BY <1>4, <1>11, <2>1
    <2>3. QED
      BY <1>11, <2>2 DEF RowsSound
  <1>13. MarksSound(r, "failed", f, less, outer)
    <2>1. CASE f.path = "update"
      <3>1. Len(outer) = 1 /\ outer[1] = marks[1] /\ marks[1] \in 0..n
        BY <1>3, <1>5, <1>7, <1>10, <2>1
      <3>2. PairedUpTo(less, marks[1]) /\ NoneOf(r, less, marks[1])
        BY <1>5, <1>11, <2>1, <3>1
      <3>3. marks[1] <= Len(less)
        BY <1>11, <3>1
      <3>4. QED
        BY <2>1, <3>1, <3>2, <3>3 DEF MarksSound
    <2>2. CASE f.path # "update"
      BY <1>5, <1>10, <2>2 DEF MarksSound
    <2>3. QED
      BY <2>1, <2>2
  <1>14. TodoSound("failed", f, items) /\ StatusSound("failed", f, items, a, less)
    BY DEF TodoSound, StatusSound
  <1>15. QED
    BY <1>3, <1>5, <1>6, <1>8, <1>9, <1>12, <1>13, <1>14 DEF Sound

\* The combined form's savepoint is the only one left at its end.
LEMMA LastMark ==
    ASSUME NEW r, NEW f, NEW items, NEW a, NEW rows, NEW marks \in Seq(Nat),
           NEW p \in {"finish", "failed"}, Sound(r, p, f, items, a, rows, marks)
    PROVE  /\ f.path # "update" => marks = <<>>
           /\ f.path = "update" =>
                 /\ Len(marks) = 1
                 /\ SubSeq(marks, 1, Len(marks) - 1) = <<>>
                 /\ marks[1] \in Nat
                 /\ marks[1] <= Len(rows)
                 /\ PairedUpTo(rows, marks[1])
                 /\ NoneOf(r, rows, marks[1])
  <1>1. /\ Len(marks) = IF f.path = "update" THEN 1 ELSE 0
        /\ f.path = "update" => /\ marks[1] <= Len(rows)
                                /\ PairedUpTo(rows, marks[1])
                                /\ NoneOf(r, rows, marks[1])
    BY DEF Sound, MarksSound, Active
  <1>2. CASE f.path # "update"
    BY <1>1, <1>2, EmptySeq
  <1>3. CASE f.path = "update"
    <2>1. Len(marks) = 1 /\ 1 \in Nat /\ 1 <= 1 /\ 1 <= Len(marks)
          /\ Len(marks) - 1 = 0 /\ 0 \in Int /\ 1 \in Int /\ 0 < 1
      BY <1>1, <1>3
    <2>2. marks[1] \in Nat
      BY <2>1, MarkType
    <2>3. SubSeq(marks, 1, 0) = <<>>
      BY <2>1, SubSeqEmpty
    <2>4. QED
      BY <1>1, <1>3, <2>1, <2>2, <2>3
  <1>4. QED
    BY <1>2, <1>3

\* A form that is finished has its last item last.
LEMMA FinishSound ==
    ASSUME NEW r, NEW f, NEW items, NEW a, NEW rows, NEW marks,
           Sound(r, "finish", f, items, a, rows, marks)
    PROVE  Sound(r, "answered", f, items, "saved", rows, <<>>)
  BY DEF Sound, MarksSound, RowsSound, TodoSound, StatusSound, Active

\* A form that failed is taken back to before its first item.
LEMMA UndoSound ==
    ASSUME NEW r, NEW f, NEW items, NEW rows \in Seq(Rows), NEW n \in Nat,
           n <= Len(rows), PairedUpTo(rows, n), NoneOf(r, rows, n)
    PROVE  Sound(r, "answered", f, items, "not_saved", SubSeq(rows, 1, n), <<>>)
  <1>1. n \in 0..n
    OBVIOUS
  <1>2. /\ Len(SubSeq(rows, 1, n)) = n
        /\ PairedUpTo(SubSeq(rows, 1, n), n)
        /\ NoneOf(r, SubSeq(rows, 1, n), n)
    BY <1>1, PrefixProperties
  <1>3. PICK less : less = SubSeq(rows, 1, n)
    OBVIOUS
  <1>4. PairedUpTo(less, Len(less)) /\ NoneOf(r, less, Len(less))
    BY <1>2, <1>3
  <1>5. Sound(r, "answered", f, items, "not_saved", less, <<>>)
    BY <1>4 DEF Sound, MarksSound, RowsSound, TodoSound, StatusSound, Active
  <1>6. QED
    BY <1>3, <1>5

-----------------------------------------------------------------------------
(* What a step leaves alone.                                               *)

\* The connection of a request.
LEMMA ConnectionType ==
    ASSUME mode \in {"postgres", "fixture_demo"}
    PROVE  /\ \A r \in Requests : Connection(r) \in Connections
           /\ \A r, q \in Requests :
                 Connection(r) = Connection(q) /\ r # q => mode = "fixture_demo"
           /\ mode = "postgres" => \A r \in Requests : Connection(r) = r
  BY DEF Connection, Connections

\* A step of one request, which is sound for it and adds no row of another,
\* disturbs no other request and no other connection.
LEMMA Frame ==
    ASSUME IInv, TypeOK', NEW r \in Requests, mode' = mode, db' = db,
           \A q \in Requests \ {r} : /\ pc'[q] = pc[q] /\ form'[q] = form[q]
                                     /\ todo'[q] = todo[q] /\ answer'[q] = answer[q],
           \A c \in Connections \ {Connection(r)} :
               work'[c] = work[c] /\ savepoints'[c] = savepoints[c],
           Sound(r, pc'[r], form'[r], todo'[r], answer'[r],
                 work'[Connection(r)], savepoints'[Connection(r)]),
           pc[r] \in Active \/ (mode = "fixture_demo" =>
                                  \A q \in Requests : pc[q] \in {"idle", "closed"}),
           \A q \in Requests \ {r} :
               NoneOf(q, work[Connection(r)], Len(work[Connection(r)]))
               => NoneOf(q, work'[Connection(r)], Len(work'[Connection(r)])),
           pc'[r] \notin Active =>
               /\ savepoints'[Connection(r)] = <<>>
               /\ PairedUpTo(work'[Connection(r)], Len(work'[Connection(r)]))
    PROVE  IInv'
  <1>1. \A q \in Requests : Connection(q)' = Connection(q)
    BY DEF Connection
  <1>2. /\ mode \in {"postgres", "fixture_demo"}
        /\ \A q \in Requests :
              pc[q] \in Active \/ pc[q] \in {"idle", "closed"}
    BY DEF IInv, TypeOK, Active
  <1>3. Alone'
    BY DEF IInv, Alone, Active
  <1>4. ASSUME NEW q \in Requests
        PROVE  Sound(q, pc'[q], form'[q], todo'[q], answer'[q],
                     work'[Connection(q)], savepoints'[Connection(q)])
    <2>1. CASE q = r
      BY <2>1
    <2>2. CASE q # r /\ Connection(q) # Connection(r)
      <3>1. Connection(q) \in Connections \ {Connection(r)}
        BY <1>2, <2>2, ConnectionType
      <3>2. Sound(q, pc[q], form[q], todo[q], answer[q],
                  work[Connection(q)], savepoints[Connection(q)])
        BY DEF IInv, RequestsSound
      <3>3. QED
        BY <2>2, <3>1, <3>2
    <2>3. CASE q # r /\ Connection(q) = Connection(r)
      <3>1. pc[q] \notin Active
        BY <1>2, <2>3, ConnectionType DEF IInv, Alone, Active
      <3>2. pc'[q] = pc[q] /\ pc[q] \in {"idle", "closed"}
        BY <1>2, <2>3, <3>1
      <3>3. pc[q] = "idle" => NoneOf(q, work[Connection(q)], Len(work[Connection(q)]))
        BY DEF IInv, RequestsSound, Sound, RowsSound
      <3>4. pc'[q] = "idle" => NoneOf(q, work'[Connection(q)], Len(work'[Connection(q)]))
        BY <2>3, <3>2, <3>3
      <3>5. QED
        BY <3>2, <3>4, IdleSound
    <2>4. QED
      BY <2>1, <2>2, <2>3
  <1>5. RequestsSound'
    BY <1>1, <1>4 DEF RequestsSound
  <1>6. Quiet'
    <2>1. SUFFICES ASSUME NEW c \in Connections,
                          \A q \in Requests : Connection(q) = c => pc'[q] \notin Active
                   PROVE  savepoints'[c] = <<>> /\ PairedUpTo(work'[c], Len(work'[c]))
      BY <1>1 DEF Quiet, Connections
    <2>2. CASE c = Connection(r)
      BY <2>1, <2>2
    <2>3. CASE c # Connection(r)
      <3>1. \A q \in Requests : Connection(q) = c => pc[q] \notin Active
        BY <2>1, <2>3
      <3>2. savepoints[c] = <<>> /\ PairedUpTo(work[c], Len(work[c]))
        BY <3>1 DEF IInv, Quiet
      <3>3. QED
        BY <2>3, <3>2
    <2>4. QED
      BY <2>2, <2>3
  <1>7. QED
    BY <1>3, <1>5, <1>6 DEF IInv

-----------------------------------------------------------------------------
(* The steps of a request.                                                 *)

\* No request commits: a connection sees the rows of its transaction.
LEMMA ViewIsWork ==
    ASSUME IInv, NEW c \in Connections
    PROVE  View(c) = work[c] /\ work[c] \in Seq(Rows)
  <1>1. work[c] \in Seq(Rows) /\ db = <<>>
    BY DEF IInv, TypeOK
  <1>2. QED
    BY <1>1, ConcatEmptySeq DEF View

\* What a request has, by its types.
LEMMA RequestType ==
    ASSUME IInv, NEW r \in Requests
    PROVE  /\ Connection(r) \in Connections
           /\ work[Connection(r)] \in Seq(Rows)
           /\ savepoints[Connection(r)] \in Seq(Nat)
           /\ Sound(r, pc[r], form[r], todo[r], answer[r],
                    work[Connection(r)], savepoints[Connection(r)])
  <1>1. Connection(r) \in Connections
    BY ConnectionType DEF IInv, TypeOK
  <1>2. QED
    BY <1>1 DEF IInv, TypeOK, RequestsSound

\* Both items of a combined form.
LEMMA BothItems ==
    /\ <<"status">> \o <<"note">> = <<"status", "note">>
    /\ <<>> \o <<"note">> = <<"note">>
  <1>1. <<"status">> \in Seq(Kinds) /\ "note" \in Kinds /\ <<"note">> \in Seq(Kinds)
    BY DEF Kinds
  <1>2. Append(<<"status">>, "note") = <<"status">> \o <<"note">>
    BY <1>1, AppendIsConcat
  <1>3. Append(<<"status">>, "note") = <<"status", "note">>
    <2>1. PICK t : t = Append(<<"status">>, "note")
      OBVIOUS
    <2>2. PICK u : u = <<"status", "note">>
      OBVIOUS
    <2>3. Len(<<"status">>) = 1 /\ <<"status">>[1] = "status"
      BY OneItem
    <2>4. t \in Seq(Kinds) /\ Len(t) = 2 /\ t[1] = "status" /\ t[2] = "note"
      BY <1>1, <2>1, <2>3, AppendProperties
    <2>5. u \in Seq(Kinds) /\ Len(u) = 2 /\ u[1] = "status" /\ u[2] = "note"
      BY <2>2 DEF Kinds
    <2>6. \A i \in 1..2 : t[i] = u[i]
      BY <2>4, <2>5
    <2>7. t = u
      BY <2>4, <2>5, <2>6, SeqEqual
    <2>8. QED
      BY <2>1, <2>2, <2>7
  <1>4. <<>> \o <<"note">> = <<"note">>
    BY <1>1, ConcatEmptySeq
  <1>5. QED
    BY <1>2, <1>3, <1>4

\* What a form asks for is a status, a note or both, in this order.
LEMMA RequestedSound ==
    ASSUME IInv, NEW r \in Requests, NEW f \in Forms
    PROVE  /\ Requested(r, f) \in Seq(Kinds)
           /\ Requested(r, f) # <<>> =>
                 /\ TodoSound("create", f, Requested(r, f))
                 /\ f.status # None /\ Requested(r, f)[1] # "status" =>
                       LatestStatus(work[Connection(r)]) = f.status
  <1>1. View(Connection(r)) = work[Connection(r)]
    BY RequestType, ViewIsWork
  <1>2. PICK current : current = LatestStatus(work[Connection(r)])
    OBVIOUS
  <1> DEFINE status == f.status # None /\ (f.path = "update" => f.status # current)
             note == f.note # "none"
  <1>3. Requested(r, f) = (IF status THEN <<"status">> ELSE <<>>)
                          \o (IF note THEN <<"note">> ELSE <<>>)
    BY <1>1, <1>2 DEF Requested
  <1>4. /\ f.path \in {"update", "status", "note"}
        /\ f.path = "status" => f.note = "none"
        /\ f.path = "note" => f.status = None
    BY DEF Forms
  <1>5. CASE status /\ note
    <2>1. Requested(r, f) = <<"status", "note">>
      <3>1. Requested(r, f) = <<"status">> \o <<"note">>
        BY <1>3, <1>5
      <3>2. QED
        BY <3>1, BothItems
    <2>2. Len(<<"status", "note">>) = 2 /\ <<"status", "note">>[2] = "note"
          /\ <<"status", "note">>[1] = "status" /\ <<"status", "note">> \in Seq(Kinds)
      BY DEF Kinds
    <2>3. f.path = "update"
      BY <1>4, <1>5
    <2>4. QED
      BY <1>5, <2>1, <2>2, <2>3 DEF TodoSound
  <1>6. CASE status /\ ~note
    <2>1. Requested(r, f) = <<"status">>
      BY <1>3, <1>6
    <2>2. Len(<<"status">>) = 1 /\ <<"status">>[1] = "status" /\ <<"status">> \in Seq(Kinds)
      BY DEF Kinds
    <2>3. QED
      BY <1>6, <2>1, <2>2 DEF TodoSound
  <1>7. CASE ~status /\ note
    <2>1. Requested(r, f) = <<"note">>
      <3>1. Requested(r, f) = <<>> \o <<"note">>
        BY <1>3, <1>7
      <3>2. QED
        BY <3>1, BothItems
    <2>2. Len(<<"note">>) = 1 /\ <<"note">>[1] = "note" /\ <<"note">> \in Seq(Kinds)
      BY DEF Kinds
    <2>3. f.status # None => current = f.status
      BY <1>7
    <2>4. QED
      BY <1>2, <2>1, <2>2, <2>3 DEF TodoSound
  <1>8. CASE ~status /\ ~note
    <2>1. Requested(r, f) = <<>>
      BY <1>3, <1>8
    <2>2. QED
      BY <2>1
  <1>9. QED
    BY <1>5, <1>6, <1>7, <1>8

\* Submitting a form.
LEMMA SubmitInv ==
    ASSUME IInv, NEW r \in Requests, NEW f \in Forms, Submit(r, f)
    PROVE  IInv'
  <1> DEFINE c == Connection(r)
             items == Requested(r, f)
  <1>1. /\ pc[r] = "idle"
        /\ mode = "fixture_demo" => \A q \in Requests : pc[q] \in {"idle", "closed"}
        /\ mode' = mode /\ db' = db /\ work' = work /\ created' = created
        /\ form' = [form EXCEPT ![r] = f]
        /\ todo' = [todo EXCEPT ![r] = items]
    BY DEF Submit
  <1>2. /\ c \in Connections /\ work[c] \in Seq(Rows)
        /\ NoneOf(r, work[c], Len(work[c]))
    BY <1>1, RequestType DEF Sound, RowsSound
  <1>3. savepoints[c] = <<>> /\ PairedUpTo(work[c], Len(work[c]))
    <2>1. \A q \in Requests : Connection(q) = c => pc[q] \notin Active
      BY <1>1, ConnectionType DEF IInv, TypeOK, Active
    <2>2. QED
      BY <1>2, <2>1 DEF IInv, Quiet
  <1>4. items \in Seq(Kinds)
    BY RequestedSound
  <1>5. /\ form'[r] = f /\ todo'[r] = items
        /\ \A q \in Requests \ {r} : form'[q] = form[q] /\ todo'[q] = todo[q]
        /\ form' \in [Requests -> Forms]
        /\ todo' \in [Requests -> Seq(Kinds)]
    BY <1>1, <1>4 DEF IInv, TypeOK
  <1>6. CASE items = <<>>
    <2>1. /\ pc' = [pc EXCEPT ![r] = "answered"]
          /\ answer' = [answer EXCEPT ![r] = "nothing"]
          /\ savepoints' = savepoints
      BY <1>6 DEF Submit, Answer
    <2>2. TypeOK'
      BY <1>1, <1>5, <2>1 DEF IInv, TypeOK, Connections
    <2>3. /\ pc'[r] = "answered" /\ answer'[r] = "nothing"
          /\ \A q \in Requests \ {r} : pc'[q] = pc[q] /\ answer'[q] = answer[q]
      BY <2>1 DEF IInv, TypeOK
    <2>4. Sound(r, pc'[r], form'[r], todo'[r], answer'[r], work'[c], savepoints'[c])
      BY <1>1, <1>2, <1>3, <2>1, <2>3, NothingSound
    <2> HIDE DEF c, items
    <2>5. QED
      BY <1>1, <1>5, <2>1, <2>2, <2>3, <2>4, Frame DEF c, Active
  <1>7. CASE items # <<>>
    <2>1. /\ pc' = [pc EXCEPT ![r] = "create"]
          /\ answer' = answer
          /\ f.path = "update" =>
                savepoints' = [savepoints EXCEPT ![c] = Append(@, Len(work[c]))]
          /\ f.path # "update" => savepoints' = savepoints
      BY <1>7 DEF Submit, Push
    <2>2. /\ Append(<<>>, Len(work[c])) = <<Len(work[c])>>
          /\ <<Len(work[c])>> \in Seq(Nat)
      BY <1>2, LenProperties
    <2>3. /\ savepoints'[c] = IF f.path = "update" THEN <<Len(work[c])>> ELSE <<>>
          /\ \A d \in Connections \ {c} : savepoints'[d] = savepoints[d]
          /\ savepoints' \in [Connections -> Seq(Nat)]
      BY <1>2, <1>3, <2>1, <2>2 DEF IInv, TypeOK
    <2>4. TypeOK'
      BY <1>1, <1>5, <2>1, <2>3 DEF IInv, TypeOK, Connections
    <2>5. /\ pc'[r] = "create"
          /\ \A q \in Requests \ {r} : pc'[q] = pc[q] /\ answer'[q] = answer[q]
      BY <2>1 DEF IInv, TypeOK
    <2>6. /\ TodoSound("create", f, items)
          /\ f.status # None /\ items[1] # "status" => LatestStatus(work[c]) = f.status
      BY <1>7, RequestedSound
    <2>7. PICK marks : marks = savepoints'[c]
      OBVIOUS
    <2> HIDE DEF c, items
    <2>8. Sound(r, "create", f, items, answer'[r], work[c], marks)
      BY <1>2, <1>3, <2>3, <2>6, <2>7, SubmitSound
    <2>9. Sound(r, pc'[r], form'[r], todo'[r], answer'[r], work'[c], savepoints'[c])
      BY <1>1, <1>5, <2>5, <2>7, <2>8
    <2>10. QED
      BY <1>1, <1>5, <2>3, <2>4, <2>5, <2>9, Frame DEF c, Active
  <1>8. QED
    BY <1>6, <1>7

\* A note that is refused.
LEMMA RejectInv ==
    ASSUME IInv, NEW r \in Requests, Reject(r)
    PROVE  IInv'
  <1> DEFINE c == Connection(r)
  <1>1. /\ pc[r] = "create"
        /\ pc' = [pc EXCEPT ![r] = "failed"]
        /\ UNCHANGED <<mode, db, work, savepoints, form, todo, answer, created>>
    BY DEF Reject
  <1>2. TypeOK'
    BY <1>1 DEF IInv, TypeOK, Connections
  <1>3. pc'[r] = "failed" /\ \A q \in Requests \ {r} : pc'[q] = pc[q]
    BY <1>1 DEF IInv, TypeOK
  <1>4. Sound(r, "failed", form[r], todo[r], answer[r], work[c], savepoints[c])
    BY <1>1, RequestType, RejectSound
  <1>5. Sound(r, pc'[r], form'[r], todo'[r], answer'[r], work'[c], savepoints'[c])
    BY <1>1, <1>3, <1>4
  <1> HIDE DEF c
  <1>6. QED
    BY <1>1, <1>2, <1>3, <1>5, Frame DEF c, Active

\* A row of a request that is creating one.
LEMMA RowType ==
    ASSUME IInv, NEW r \in Requests, pc[r] \in {"create", "audit"},
           NEW t \in {"state", "audit"}, NEW id \in 1..MaxRows
    PROVE  /\ Row(r, t, id) \in Rows
           /\ Row(r, t, id).table = t
           /\ Row(r, t, id).id = id
           /\ Row(r, t, id).request = r
           /\ Row(r, t, id).kind = todo[r][1]
           /\ todo[r][1] = "status" => Row(r, t, id).status = form[r].status
  <1>1. todo[r] \in {<<"status">>, <<"note">>, <<"status", "note">>}
    BY DEF IInv, RequestsSound, Sound, TodoSound
  <1>2. Head(todo[r]) = todo[r][1] /\ todo[r][1] \in Kinds
    BY <1>1 DEF Kinds
  <1>3. form[r].status \in Statuses \cup {None}
    BY DEF IInv, TypeOK, Forms
  <1>4. QED
    BY <1>2, <1>3 DEF Row, Rows

\* An item, behind its savepoint.
LEMMA CreateRowInv ==
    ASSUME IInv, NEW r \in Requests, CreateRow(r)
    PROVE  IInv'
  <1> DEFINE c == Connection(r)
  <1>1. PICK e : e = Row(r, "state", created + 1)
    OBVIOUS
  <1>2. /\ pc[r] = "create" /\ created < MaxRows /\ created' = created + 1
        /\ savepoints' = [savepoints EXCEPT ![c] = Append(@, Len(work[c]))]
        /\ work' = [work EXCEPT ![c] = Append(@, e)]
        /\ pc' = [pc EXCEPT ![r] = "audit"]
        /\ mode' = mode /\ db' = db /\ form' = form /\ todo' = todo /\ answer' = answer
    BY <1>1 DEF CreateRow, Push
  <1>3. created + 1 \in 1..MaxRows /\ created' \in 0..MaxRows
    BY <1>2, BoundsAssumption DEF IInv, TypeOK
  <1>4. /\ e \in Rows /\ e.table = "state" /\ e.request = r /\ e.kind = todo[r][1]
        /\ todo[r][1] = "status" => e.status = form[r].status
    BY <1>1, <1>2, <1>3, RowType
  <1>5. /\ c \in Connections /\ work[c] \in Seq(Rows) /\ savepoints[c] \in Seq(Nat)
        /\ Sound(r, "create", form[r], todo[r], answer[r], work[c], savepoints[c])
    BY <1>2, RequestType
  <1> HIDE DEF c
  <1>6. Append(work[c], e) \in Seq(Rows) /\ Append(savepoints[c], Len(work[c])) \in Seq(Nat)
    BY <1>4, <1>5, AppendProperties, LenProperties
  <1>7. /\ work'[c] = Append(work[c], e)
        /\ savepoints'[c] = Append(savepoints[c], Len(work[c]))
        /\ \A d \in Connections \ {c} :
              work'[d] = work[d] /\ savepoints'[d] = savepoints[d]
        /\ work' \in [Connections -> Seq(Rows)]
        /\ savepoints' \in [Connections -> Seq(Nat)]
    BY <1>2, <1>5, <1>6 DEF IInv, TypeOK
  <1>8. pc'[r] = "audit" /\ \A q \in Requests \ {r} : pc'[q] = pc[q]
    BY <1>2 DEF IInv, TypeOK
  <1>9. TypeOK'
    BY <1>2, <1>3, <1>7 DEF IInv, TypeOK, Connections
  <1>10. Sound(r, "audit", form[r], todo[r], answer[r],
               Append(work[c], e), Append(savepoints[c], Len(work[c])))
    BY <1>4, <1>5, CreateRowSound
  <1>11. Sound(r, pc'[r], form'[r], todo'[r], answer'[r], work'[c], savepoints'[c])
    BY <1>2, <1>7, <1>8, <1>10
  <1>12. \A q \in Requests \ {r} :
             NoneOf(q, work[c], Len(work[c])) => NoneOf(q, work'[c], Len(work'[c]))
    <2>1. /\ Len(Append(work[c], e)) = Len(work[c]) + 1
          /\ \A q : e.request # q /\ NoneOf(q, work[c], Len(work[c]))
                    => NoneOf(q, Append(work[c], e), Len(work[c]) + 1)
      BY <1>4, <1>5, AppendedProperties
    <2>2. QED
      BY <1>4, <1>7, <2>1
  <1>13. QED
    BY <1>2, <1>7, <1>8, <1>9, <1>11, <1>12, Frame DEF c, Active

\* The event that completes an item.
LEMMA CreateAuditInv ==
    ASSUME IInv, NEW r \in Requests, CreateAudit(r)
    PROVE  IInv'
  <1> DEFINE c == Connection(r)
  <1>1. PICK e : e = Row(r, "audit", Current(r))
    OBVIOUS
  <1>2. /\ pc[r] = "audit"
        /\ work' = [work EXCEPT ![c] = Append(@, e)]
        /\ savepoints' = [savepoints EXCEPT ![c] = SubSeq(@, 1, Len(@) - 1)]
        /\ todo' = [todo EXCEPT ![r] = Tail(@)]
        /\ pc' = [pc EXCEPT ![r] = IF Len(todo[r]) = 1 THEN "finish" ELSE "create"]
        /\ mode' = mode /\ db' = db /\ form' = form /\ answer' = answer
        /\ created' = created
    BY <1>1 DEF CreateAudit, Pop
  <1>3. /\ c \in Connections /\ work[c] \in Seq(Rows) /\ savepoints[c] \in Seq(Nat)
        /\ Sound(r, "audit", form[r], todo[r], answer[r], work[c], savepoints[c])
    BY <1>2, RequestType
  <1>4. Current(r) = work[c][Len(work[c])].id /\ Current(r) \in 1..MaxRows
    <2>1. PICK rows : rows = work[c]
      OBVIOUS
    <2>2. rows # <<>> /\ rows[Len(rows)].table = "state" /\ rows[Len(rows)].request = r
      BY <1>3, <2>1 DEF Sound, RowsSound
    <2>3. PICK mine : mine = {i \in StateRows(rows) : rows[i].request = r}
      OBVIOUS
    <2>4. Len(rows) \in 1..Len(rows) /\ Len(rows) \in Nat
      BY <1>3, <2>1, <2>2, LenProperties, EmptySeq
    <2>5. mine \in SUBSET Nat /\ Len(rows) \in mine /\ \A j \in mine : j <= Len(rows)
      BY <1>3, <2>1, <2>2, <2>3, <2>4 DEF StateRows
    <2>6. Newest(mine) = Len(rows)
      BY <2>5, NewestIs
    <2>7. rows[Len(rows)] \in Rows
      BY <1>3, <2>1, <2>4, ElementOfSeq
    <2>8. Current(r) = rows[Len(rows)].id
      BY <2>1, <2>3, <2>6 DEF Current
    <2>9. rows[Len(rows)].id \in 1..MaxRows
      BY <2>7 DEF Rows
    <2>10. QED
      BY <2>1, <2>8, <2>9
  <1>5. /\ e \in Rows /\ e.table = "audit" /\ e.request = r /\ e.kind = todo[r][1]
        /\ e.id = work[c][Len(work[c])].id
    BY <1>1, <1>2, <1>4, RowType
  <1> HIDE DEF c
  <1>6. /\ Append(work[c], e) \in Seq(Rows)
        /\ SubSeq(savepoints[c], 1, Len(savepoints[c]) - 1) \in Seq(Nat)
    <2>1. Len(savepoints[c]) >= 1
      BY <1>3 DEF Sound, MarksSound
    <2>2. QED
      BY <1>3, <1>5, <2>1, AppendProperties, PopProperties
  <1>7. Tail(todo[r]) \in Seq(Kinds)
    <2>1. todo[r] \in {<<"status">>, <<"note">>, <<"status", "note">>}
      BY <1>3 DEF Sound, TodoSound
    <2>2. todo[r] # <<>> /\ todo[r] \in Seq(Kinds)
      <3>1. todo[r] \in Seq(Kinds)
        BY DEF IInv, TypeOK
      <3>2. Len(todo[r]) # 0
        BY <2>1
      <3>3. QED
        BY <3>1, <3>2, EmptySeq
    <2>3. QED
      BY <2>2, HeadTailProperties
  <1>8. /\ work'[c] = Append(work[c], e)
        /\ savepoints'[c] = SubSeq(savepoints[c], 1, Len(savepoints[c]) - 1)
        /\ \A d \in Connections \ {c} :
              work'[d] = work[d] /\ savepoints'[d] = savepoints[d]
        /\ work' \in [Connections -> Seq(Rows)]
        /\ savepoints' \in [Connections -> Seq(Nat)]
    BY <1>2, <1>3, <1>6 DEF IInv, TypeOK
  <1>9. /\ pc'[r] = IF Len(todo[r]) = 1 THEN "finish" ELSE "create"
        /\ todo'[r] = Tail(todo[r])
        /\ \A q \in Requests \ {r} : pc'[q] = pc[q] /\ todo'[q] = todo[q]
    BY <1>2 DEF IInv, TypeOK
  <1>10. TypeOK'
    <2>1. todo' \in [Requests -> Seq(Kinds)]
      BY <1>2, <1>7 DEF IInv, TypeOK
    <2>2. pc' \in [Requests -> {"idle", "create", "audit", "finish", "failed",
                                "answered", "closed"}]
      BY <1>2 DEF IInv, TypeOK
    <2>3. QED
      BY <1>2, <1>8, <2>1, <2>2 DEF IInv, TypeOK, Connections
  <1>11. Sound(r, pc'[r], form[r], todo'[r], answer[r], Append(work[c], e),
               SubSeq(savepoints[c], 1, Len(savepoints[c]) - 1))
    BY <1>3, <1>5, <1>9, CreateAuditSound
  <1>12. Sound(r, pc'[r], form'[r], todo'[r], answer'[r], work'[c], savepoints'[c])
    BY <1>2, <1>8, <1>11
  <1>13. \A q \in Requests \ {r} :
             NoneOf(q, work[c], Len(work[c])) => NoneOf(q, work'[c], Len(work'[c]))
    <2>1. /\ Len(Append(work[c], e)) = Len(work[c]) + 1
          /\ \A q : e.request # q /\ NoneOf(q, work[c], Len(work[c]))
                    => NoneOf(q, Append(work[c], e), Len(work[c]) + 1)
      BY <1>3, <1>5, AppendedProperties
    <2>2. QED
      BY <1>5, <1>8, <2>1
  <1>14. pc'[r] \in Active
    BY <1>9 DEF Active
  <1>15. QED
    BY <1>2, <1>8, <1>9, <1>10, <1>12, <1>13, <1>14, Frame DEF c, Active

\* A prefix of the rows has no row of a request that had none.
LEMMA PrefixNoneOf ==
    ASSUME NEW rows \in Seq(Rows), NEW n \in Nat, n <= Len(rows), NEW q,
           NoneOf(q, rows, Len(rows))
    PROVE  NoneOf(q, SubSeq(rows, 1, n), Len(SubSeq(rows, 1, n)))
  <1>1. Len(rows) \in Nat
    BY LenProperties
  <1>2. Len(SubSeq(rows, 1, n)) = n /\ \A i \in 1..n : SubSeq(rows, 1, n)[i] = rows[i]
    BY PrefixProperties
  <1>3. PICK less : less = SubSeq(rows, 1, n)
    OBVIOUS
  <1>4. NoneOf(q, less, Len(less))
    BY <1>1, <1>2, <1>3 DEF NoneOf
  <1>5. QED
    BY <1>3, <1>4

\* An event that cannot be written.
LEMMA AuditFailsInv ==
    ASSUME IInv, NEW r \in Requests, AuditFails(r)
    PROVE  IInv'
  <1> DEFINE c == Connection(r)
  <1>1. PICK n : n = savepoints[c][Len(savepoints[c])]
    OBVIOUS
  <1>2. /\ pc[r] = "audit"
        /\ work' = [work EXCEPT ![c] = SubSeq(@, 1, n)]
        /\ savepoints' = [savepoints EXCEPT ![c] = SubSeq(@, 1, Len(@) - 1)]
        /\ pc' = [pc EXCEPT ![r] = "failed"]
        /\ mode' = mode /\ db' = db /\ form' = form /\ todo' = todo /\ answer' = answer
        /\ created' = created
    BY <1>1 DEF AuditFails, RollBackTo, Pop
  <1>3. /\ c \in Connections /\ work[c] \in Seq(Rows) /\ savepoints[c] \in Seq(Nat)
        /\ Sound(r, "audit", form[r], todo[r], answer[r], work[c], savepoints[c])
    BY <1>2, RequestType
  <1> HIDE DEF c
  <1>4. /\ savepoints[c] # <<>> /\ n \in Nat /\ n <= Len(work[c])
        /\ Sound(r, "failed", form[r], todo[r], answer[r], SubSeq(work[c], 1, n),
                 SubSeq(savepoints[c], 1, Len(savepoints[c]) - 1))
    BY <1>1, <1>3, AuditFailsSound
  <1>5. /\ SubSeq(work[c], 1, n) \in Seq(Rows)
        /\ SubSeq(savepoints[c], 1, Len(savepoints[c]) - 1) \in Seq(Nat)
    <2>1. Len(savepoints[c]) >= 1
      BY <1>3 DEF Sound, MarksSound
    <2>2. QED
      BY <1>3, <1>4, <2>1, PrefixProperties, PopProperties
  <1>6. /\ work'[c] = SubSeq(work[c], 1, n)
        /\ savepoints'[c] = SubSeq(savepoints[c], 1, Len(savepoints[c]) - 1)
        /\ \A d \in Connections \ {c} :
              work'[d] = work[d] /\ savepoints'[d] = savepoints[d]
        /\ work' \in [Connections -> Seq(Rows)]
        /\ savepoints' \in [Connections -> Seq(Nat)]
    BY <1>2, <1>3, <1>5 DEF IInv, TypeOK
  <1>7. pc'[r] = "failed" /\ \A q \in Requests \ {r} : pc'[q] = pc[q]
    BY <1>2 DEF IInv, TypeOK
  <1>8. TypeOK'
    BY <1>2, <1>6 DEF IInv, TypeOK, Connections
  <1>9. Sound(r, pc'[r], form'[r], todo'[r], answer'[r], work'[c], savepoints'[c])
    BY <1>2, <1>4, <1>6, <1>7
  <1>10. \A q \in Requests \ {r} :
             NoneOf(q, work[c], Len(work[c])) => NoneOf(q, work'[c], Len(work'[c]))
    BY <1>3, <1>4, <1>6, PrefixNoneOf
  <1>11. QED
    BY <1>2, <1>6, <1>7, <1>8, <1>9, <1>10, Frame DEF c, Active

\* The end of a form that went well.
LEMMA FinishInv ==
    ASSUME IInv, NEW r \in Requests, Finish(r)
    PROVE  IInv'
  <1> DEFINE c == Connection(r)
  <1>1. /\ pc[r] = "finish"
        /\ form[r].path = "update" =>
              savepoints' = [savepoints EXCEPT ![c] = SubSeq(@, 1, Len(@) - 1)]
        /\ form[r].path # "update" => savepoints' = savepoints
        /\ pc' = [pc EXCEPT ![r] = "answered"]
        /\ answer' = [answer EXCEPT ![r] = "saved"]
        /\ mode' = mode /\ db' = db /\ work' = work /\ form' = form /\ todo' = todo
        /\ created' = created
    BY DEF Finish, Pop, Answer
  <1>2. /\ c \in Connections /\ work[c] \in Seq(Rows) /\ savepoints[c] \in Seq(Nat)
        /\ Sound(r, "finish", form[r], todo[r], answer[r], work[c], savepoints[c])
    BY <1>1, RequestType
  <1> HIDE DEF c
  <1>3. /\ form[r].path # "update" => savepoints[c] = <<>>
        /\ form[r].path = "update" =>
              SubSeq(savepoints[c], 1, Len(savepoints[c]) - 1) = <<>>
    BY <1>2, LastMark
  <1>4. /\ savepoints'[c] = <<>>
        /\ \A d \in Connections \ {c} : savepoints'[d] = savepoints[d]
        /\ savepoints' \in [Connections -> Seq(Nat)]
    <2>1. <<>> \in Seq(Nat)
      BY EmptySeq
    <2>2. CASE form[r].path = "update"
      <3>1. savepoints' = [savepoints EXCEPT ![c] = <<>>]
        BY <1>1, <1>2, <1>3, <2>2 DEF IInv, TypeOK
      <3>2. QED
        BY <1>2, <2>1, <3>1 DEF IInv, TypeOK
    <2>3. CASE form[r].path # "update"
      BY <1>1, <1>3, <2>3 DEF IInv, TypeOK
    <2>4. QED
      BY <2>2, <2>3
  <1>5. /\ pc'[r] = "answered" /\ answer'[r] = "saved"
        /\ \A q \in Requests \ {r} : pc'[q] = pc[q] /\ answer'[q] = answer[q]
    BY <1>1 DEF IInv, TypeOK
  <1>6. TypeOK'
    BY <1>1, <1>4 DEF IInv, TypeOK, Connections
  <1>7. Sound(r, "answered", form[r], todo[r], "saved", work[c], <<>>)
    BY <1>2, FinishSound
  <1>8. Sound(r, pc'[r], form'[r], todo'[r], answer'[r], work'[c], savepoints'[c])
    BY <1>1, <1>4, <1>5, <1>7
  <1>9. QED
    BY <1>1, <1>4, <1>5, <1>6, <1>8, Frame DEF c, Active

\* The end of a form that failed.
LEMMA UndoInv ==
    ASSUME IInv, NEW r \in Requests, Undo(r)
    PROVE  IInv'
  <1> DEFINE c == Connection(r)
  <1>1. /\ pc[r] = "failed"
        /\ pc' = [pc EXCEPT ![r] = "answered"]
        /\ answer' = [answer EXCEPT ![r] = "not_saved"]
        /\ mode' = mode /\ db' = db /\ form' = form /\ todo' = todo
        /\ created' = created
        /\ form[r].path # "update" => work' = work /\ savepoints' = savepoints
        /\ form[r].path = "update" =>
              /\ work' = [work EXCEPT ![c] =
                             SubSeq(@, 1, savepoints[c][Len(savepoints[c])])]
              /\ savepoints' = [savepoints EXCEPT ![c] = SubSeq(@, 1, Len(@) - 1)]
    BY DEF Undo, RollBackTo, Pop, Answer
  <1>2. /\ c \in Connections /\ work[c] \in Seq(Rows) /\ savepoints[c] \in Seq(Nat)
        /\ Sound(r, "failed", form[r], todo[r], answer[r], work[c], savepoints[c])
    BY <1>1, RequestType
  <1>3. /\ pc'[r] = "answered" /\ answer'[r] = "not_saved"
        /\ \A q \in Requests \ {r} : pc'[q] = pc[q] /\ answer'[q] = answer[q]
    BY <1>1 DEF IInv, TypeOK
  <1> HIDE DEF c
  <1>4. PICK n : n = IF form[r].path = "update" THEN savepoints[c][1] ELSE Len(work[c])
    OBVIOUS
  <1>5. n \in Nat /\ n <= Len(work[c]) /\ PairedUpTo(work[c], n) /\ NoneOf(r, work[c], n)
    <2>1. CASE form[r].path = "update"
      BY <1>2, <1>4, <2>1, LastMark
    <2>2. CASE form[r].path # "update"
      <3>1. PairedUpTo(work[c], Len(work[c])) /\ NoneOf(r, work[c], Len(work[c]))
        BY <1>2, <2>2 DEF Sound, RowsSound, Active
      <3>2. Len(work[c]) \in Nat
        BY <1>2, LenProperties
      <3>3. QED
        BY <1>4, <2>2, <3>1, <3>2
    <2>3. QED
      BY <2>1, <2>2
  <1>6. SubSeq(work[c], 1, n) \in Seq(Rows)
    BY <1>2, <1>5, PrefixProperties
  <1>7. /\ work'[c] = SubSeq(work[c], 1, n)
        /\ savepoints'[c] = <<>>
        /\ \A d \in Connections \ {c} :
              work'[d] = work[d] /\ savepoints'[d] = savepoints[d]
        /\ work' \in [Connections -> Seq(Rows)]
        /\ savepoints' \in [Connections -> Seq(Nat)]
    <2>1. CASE form[r].path = "update"
      <3>1. /\ Len(savepoints[c]) = 1
            /\ SubSeq(savepoints[c], 1, Len(savepoints[c]) - 1) = <<>>
        BY <1>2, <2>1, LastMark
      <3>2. /\ work' = [work EXCEPT ![c] = SubSeq(work[c], 1, n)]
            /\ savepoints' = [savepoints EXCEPT ![c] = <<>>]
        BY <1>1, <1>2, <1>4, <2>1, <3>1 DEF IInv, TypeOK
      <3>3. QED
        BY <1>2, <1>6, <3>2, EmptySeq DEF IInv, TypeOK
    <2>2. CASE form[r].path # "update"
      <3>1. savepoints[c] = <<>> /\ SubSeq(work[c], 1, n) = work[c]
        BY <1>2, <1>4, <2>2, LastMark, SubSeqFull
      <3>2. QED
        BY <1>1, <2>2, <3>1 DEF IInv, TypeOK
    <2>3. QED
      BY <2>1, <2>2
  <1>8. TypeOK'
    BY <1>1, <1>7 DEF IInv, TypeOK, Connections
  <1>9. Sound(r, "answered", form[r], todo[r], "not_saved", SubSeq(work[c], 1, n), <<>>)
    BY <1>2, <1>5, UndoSound
  <1>10. Sound(r, pc'[r], form'[r], todo'[r], answer'[r], work'[c], savepoints'[c])
    BY <1>1, <1>3, <1>7, <1>9
  <1>11. \A q \in Requests \ {r} :
             NoneOf(q, work[c], Len(work[c])) => NoneOf(q, work'[c], Len(work'[c]))
    BY <1>2, <1>5, <1>7, PrefixNoneOf
  <1>12. QED
    BY <1>1, <1>3, <1>7, <1>8, <1>10, <1>11, Frame DEF c, Active

\* The response is sent.
LEMMA CloseInv ==
    ASSUME IInv, NEW r \in Requests, Close(r)
    PROVE  IInv'
  <1> DEFINE c == Connection(r)
  <1>1. /\ pc[r] = "answered"
        /\ pc' = [pc EXCEPT ![r] = "closed"]
        /\ mode' = mode /\ db' = db /\ form' = form /\ todo' = todo /\ answer' = answer
        /\ created' = created
        /\ mode = "postgres" => /\ work' = [work EXCEPT ![r] = <<>>]
                                /\ savepoints' = [savepoints EXCEPT ![r] = <<>>]
        /\ mode # "postgres" => work' = work /\ savepoints' = savepoints
    BY DEF Close
  <1>2. /\ c \in Connections /\ work[c] \in Seq(Rows) /\ savepoints[c] \in Seq(Nat)
        /\ savepoints[c] = <<>> /\ PairedUpTo(work[c], Len(work[c]))
    BY <1>1, RequestType DEF Sound, MarksSound, RowsSound, Active
  <1>3. pc'[r] = "closed" /\ \A q \in Requests \ {r} : pc'[q] = pc[q]
    BY <1>1 DEF IInv, TypeOK
  <1>4. mode = "postgres" => c = r
    BY ConnectionType DEF IInv, TypeOK
  <1> HIDE DEF c
  <1>5. /\ savepoints'[c] = <<>>
        /\ work'[c] = work[c] \/ work'[c] = <<>>
        /\ \A d \in Connections \ {c} :
              work'[d] = work[d] /\ savepoints'[d] = savepoints[d]
        /\ work' \in [Connections -> Seq(Rows)]
        /\ savepoints' \in [Connections -> Seq(Nat)]
    <2>1. <<>> \in Seq(Rows) /\ <<>> \in Seq(Nat)
      BY EmptySeq
    <2>2. QED
      BY <1>1, <1>2, <1>4, <2>1 DEF IInv, TypeOK
  <1>6. TypeOK'
    BY <1>1, <1>5 DEF IInv, TypeOK, Connections
  <1>7. PairedUpTo(<<>>, Len(<<>>)) /\ \A q : NoneOf(q, <<>>, Len(<<>>))
    <2>1. Len(<<>>) = 0
      OBVIOUS
    <2>2. QED
      BY <2>1 DEF PairedUpTo, NoneOf
  <1>8. /\ PairedUpTo(work'[c], Len(work'[c]))
        /\ \A q \in Requests \ {r} :
              NoneOf(q, work[c], Len(work[c])) => NoneOf(q, work'[c], Len(work'[c]))
    BY <1>2, <1>5, <1>7
  <1>9. Sound(r, pc'[r], form'[r], todo'[r], answer'[r], work'[c], savepoints'[c])
    BY <1>3, IdleSound
  <1>10. QED
    BY <1>1, <1>3, <1>5, <1>6, <1>8, <1>9, Frame DEF c, Active

\* A request that is idle or closed on a connection without rows.
LEMMA AllQuiet ==
    ASSUME TypeOK, db = <<>>,
           \A r \in Requests : pc[r] \in {"idle", "closed"},
           work = [c \in Connections |-> <<>>],
           savepoints = [c \in Connections |-> <<>>]
    PROVE  IInv
  <1>1. Len(<<>>) = 0
    OBVIOUS
  <1>2. PairedUpTo(<<>>, Len(<<>>)) /\ \A q : NoneOf(q, <<>>, Len(<<>>))
    BY <1>1 DEF PairedUpTo, NoneOf
  <1>3. Alone
    BY DEF Alone, Active
  <1>4. Quiet
    BY <1>2 DEF Quiet
  <1>5. RequestsSound
    <2>1. SUFFICES ASSUME NEW r \in Requests
                   PROVE  Sound(r, pc[r], form[r], todo[r], answer[r],
                                work[Connection(r)], savepoints[Connection(r)])
      BY DEF RequestsSound
    <2>2. Connection(r) \in Connections
      BY ConnectionType DEF TypeOK
    <2>3. NoneOf(r, work[Connection(r)], Len(work[Connection(r)]))
      BY <1>2, <2>2
    <2>4. QED
      BY <2>3, IdleSound
  <1>6. QED
    BY <1>3, <1>4, <1>5 DEF IInv

\* A new server is in order.
LEMMA InitInv ==
    ASSUME Init
    PROVE  IInv
  <1>1. <<>> \in Seq(Rows) /\ <<>> \in Seq(Nat) /\ <<>> \in Seq(Kinds)
    BY EmptySeq
  <1>2. NoForm \in Forms
    BY NoneAssumption DEF NoForm, Forms
  <1>3. TypeOK
    BY <1>1, <1>2, BoundsAssumption DEF Init, TypeOK, Connections
  <1>4. QED
    BY <1>3, AllQuiet DEF Init

\* A server that starts again.
LEMMA RestartInv ==
    ASSUME IInv, Restart
    PROVE  IInv'
  <1>1. <<>> \in Seq(Rows) /\ <<>> \in Seq(Nat) /\ <<>> \in Seq(Kinds)
    BY EmptySeq
  <1>2. TypeOK'
    BY <1>1 DEF IInv, TypeOK, Restart, Connections
  <1>3. /\ db' = <<>>
        /\ \A r \in Requests : pc'[r] \in {"idle", "closed"}
        /\ work' = [c \in Connections |-> <<>>]
        /\ savepoints' = [c \in Connections |-> <<>>]
    BY DEF IInv, Restart
  <1>4. Len(<<>>) = 0
    OBVIOUS
  <1>5. PairedUpTo(<<>>, Len(<<>>)) /\ \A q : NoneOf(q, <<>>, Len(<<>>))
    BY <1>4 DEF PairedUpTo, NoneOf
  <1>6. Alone'
    BY <1>3 DEF Alone, Active
  <1>7. Quiet'
    BY <1>3, <1>5 DEF Quiet, Connections
  <1>8. RequestsSound'
    <2>1. \A r \in Requests : Connection(r)' \in Connections
      BY <1>2, ConnectionType DEF TypeOK, Connection, Connections
    <2>2. SUFFICES ASSUME NEW r \in Requests
                   PROVE  Sound(r, pc'[r], form'[r], todo'[r], answer'[r],
                                work'[Connection(r)'], savepoints'[Connection(r)'])
      BY DEF RequestsSound
    <2>3. NoneOf(r, work'[Connection(r)'], Len(work'[Connection(r)']))
      BY <1>3, <1>5, <2>1
    <2>4. QED
      BY <1>3, <2>3, IdleSound
  <1>9. QED
    BY <1>2, <1>3, <1>6, <1>7, <1>8 DEF IInv

-----------------------------------------------------------------------------
(* The theorems.                                                           *)

\* The invariant is inductive: every step of every request, and a restart, keeps
\* marks, rows and audit events in order.
THEOREM Invariance == Spec => []IInv
  <1>1. Init => IInv
    BY InitInv
  <1>2. IInv /\ [Next]_vars => IInv'
    <2>1. SUFFICES ASSUME IInv, [Next]_vars
                   PROVE  IInv'
      OBVIOUS
    <2>2. ASSUME NEW r \in Requests, NEW f \in Forms, Submit(r, f)
          PROVE  IInv'
      BY <2>1, <2>2, SubmitInv
    <2>3. ASSUME NEW r \in Requests, Step(r)
          PROVE  IInv'
      BY <2>1, <2>3, RejectInv, CreateRowInv, CreateAuditInv, AuditFailsInv,
         FinishInv, UndoInv, CloseInv DEF Step
    <2>4. CASE Restart
      BY <2>1, <2>4, RestartInv
    <2>5. CASE UNCHANGED vars
      BY <2>1, <2>5 DEF vars, IInv, TypeOK, Alone, Quiet, RequestsSound, View,
         Connection, Connections
    <2>6. QED
      BY <2>1, <2>2, <2>3, <2>4, <2>5 DEF Next
  <1>3. QED
    BY <1>1, <1>2, PTL DEF Spec

\* Type correctness of connections, savepoints and requests.
THEOREM TypeCorrect == Spec => []TypeOK
  <1>1. IInv => TypeOK
    BY DEF IInv
  <1>2. QED
    BY <1>1, Invariance, PTL

\* Pairing place by place is pairing of the identities.
LEMMA PairedIds ==
    ASSUME NEW rows \in Seq(Rows), PairedUpTo(rows, Len(rows)),
           NEW t \in {"state", "audit"}, NEW u \in {"state", "audit"}, t # u,
           NEW i \in DOMAIN rows, rows[i].table = t
    PROVE  \E j \in DOMAIN rows : rows[j].table = u /\ rows[j].id = rows[i].id
  <1>1. DOMAIN rows = 1..Len(rows)
    BY LenProperties
  <1>2. PICK j \in DOMAIN rows : rows[j].id = rows[i].id /\ rows[j].table # t
    BY <1>1 DEF PairedUpTo
  <1>3. rows[j].table \in {"state", "audit"}
    <2>1. rows[j] \in Rows
      BY <1>1, <1>2, ElementOfSeq
    <2>2. QED
      BY <2>1 DEF Rows
  <1>4. QED
    BY <1>2, <1>3

\* A connection outside its savepoints sees items with their audit events or
\* neither, whatever failed: a savepoint of an item is not released before
\* create_hosted_audit_event, and marks a paired place.
THEOREM AuditIsPaired == Spec => []AuditPaired
  <1>1. IInv => AuditPaired
    <2>1. SUFFICES ASSUME IInv, NEW c \in Connections, savepoints[c] = <<>>
                   PROVE  LET ids(t) == {e.id : e \in {View(c)[i] : i \in
                                  {j \in DOMAIN View(c) : View(c)[j].table = t}}}
                          IN ids("state") = ids("audit")
      BY DEF AuditPaired
    <2>2. PICK rows : rows = work[c]
      OBVIOUS
    <2>3. View(c) = rows /\ rows \in Seq(Rows)
      BY <2>1, <2>2, ViewIsWork
    <2>4. PairedUpTo(rows, Len(rows))
      <3>1. CASE \A r \in Requests : Connection(r) = c => pc[r] \notin Active
        BY <2>1, <2>2, <3>1 DEF IInv, Quiet
      <3>2. ASSUME NEW r \in Requests, Connection(r) = c, pc[r] \in Active
            PROVE  PairedUpTo(rows, Len(rows))
        <4>1. MarksSound(r, pc[r], form[r], rows, <<>>) /\ RowsSound(r, pc[r], form[r], answer[r], rows)
          BY <2>1, <2>2, <3>2 DEF IInv, RequestsSound, Sound
        <4>2. Len(<<>>) = 0
          OBVIOUS
        <4>3. pc[r] # "audit"
          BY <4>1, <4>2 DEF MarksSound
        <4>4. QED
          BY <3>2, <4>1, <4>3 DEF RowsSound
      <3>3. QED
        BY <3>1, <3>2
    <2> DEFINE ids(t) == {e.id : e \in {rows[i] : i \in {j \in DOMAIN rows : rows[j].table = t}}}
    <2>5. ASSUME NEW t \in {"state", "audit"}, NEW u \in {"state", "audit"}, t # u,
                 NEW x \in ids(t)
          PROVE  x \in ids(u)
      <3>1. PICK i \in DOMAIN rows : rows[i].table = t /\ x = rows[i].id
        OBVIOUS
      <3>2. PICK j \in DOMAIN rows : rows[j].table = u /\ rows[j].id = rows[i].id
        BY <2>3, <2>4, <2>5, <3>1, PairedIds
      <3>3. QED
        BY <3>1, <3>2
    <2>6. ids("state") = ids("audit")
      <3>1. \A x \in ids("state") : x \in ids("audit")
        BY <2>5
      <3>2. \A x \in ids("audit") : x \in ids("state")
        BY <2>5
      <3>3. QED
        BY <3>1, <3>2
    <2>7. QED
      BY <2>3, <2>6
  <1>2. QED
    BY <1>1, Invariance, PTL

\* A combined update is saved as a whole or not at all: where
\* _review_update_form_response rolls back, its mark is before its first item.
THEOREM UpdateIsWhole == Spec => []AllOrNothing
  <1>1. IInv => AllOrNothing
    <2>1. SUFFICES ASSUME IInv, NEW r \in Requests, pc[r] = "answered",
                          NEW rows, rows = View(Connection(r)),
                          NEW mine, mine = {i \in DOMAIN rows : rows[i].request = r}
                   PROVE  IF answer[r] = "saved"
                          THEN /\ mine # {}
                               /\ form[r].note # "none" => rows[Newest(mine)].kind = "note"
                          ELSE mine = {}
      BY DEF AllOrNothing
    <2>2. /\ rows \in Seq(Rows)
          /\ RowsSound(r, "answered", form[r], answer[r], rows)
      BY <2>1, RequestType, ViewIsWork DEF Sound
    <2>3. DOMAIN rows = 1..Len(rows) /\ Len(rows) \in Nat
      BY <2>2, LenProperties
    <2>4. CASE answer[r] # "saved"
      BY <2>1, <2>2, <2>3, <2>4 DEF RowsSound, NoneOf
    <2>5. CASE answer[r] = "saved"
      <3>1. /\ rows # <<>>
            /\ rows[Len(rows)].request = r
            /\ form[r].note # "none" => rows[Len(rows)].kind = "note"
        BY <2>2, <2>5 DEF RowsSound
      <3>2. Len(rows) \in 1..Len(rows)
        BY <2>2, <2>3, <3>1, EmptySeq
      <3>3. mine \in SUBSET Nat /\ Len(rows) \in mine /\ \A j \in mine : j <= Len(rows)
        BY <2>1, <2>3, <3>1, <3>2
      <3>4. Newest(mine) = Len(rows)
        BY <3>3, NewestIs
      <3>5. QED
        BY <2>5, <3>1, <3>3, <3>4
    <2>6. QED
      BY <2>4, <2>5
  <1>2. QED
    BY <1>1, Invariance, PTL

\* The page that answers a save shows the status that was saved, if the record
\* has no more rows than list_reviewer_created_state_scaffold returns.
THEOREM SavedStatusIsShown == Spec => []SavedStatusShown
  <1>1. IInv => SavedStatusShown
    <2>1. SUFFICES ASSUME IInv, NEW r \in Requests, pc[r] = "answered",
                          answer[r] = "saved", form[r].status # None,
                          Cardinality(StateRows(View(Connection(r)))) <= PageSize
                   PROVE  LatestStatus(View(Connection(r))) = form[r].status
      BY DEF SavedStatusShown
    <2>2. /\ View(Connection(r)) = work[Connection(r)]
          /\ StatusSound(pc[r], form[r], todo[r], answer[r], work[Connection(r)])
      BY <2>1, RequestType, ViewIsWork DEF Sound
    <2>3. QED
      BY <2>1, <2>2 DEF StatusSound
  <1>2. QED
    BY <1>1, Invariance, PTL
=============================================================================
