--------------------------- MODULE StableIdentities ---------------------------
(***************************************************************************)
(* Identities of the allegations or events of one complaint report. Import *)
(* stores them under the identities the connector generates, which are     *)
(* numbered in the order of the report. Reprocessing a preserved report    *)
(* with a newer extractor (ccld_backfill.py) first looks for the stored    *)
(* sibling that each item continues, so that what refers to a stored row   *)
(* still refers to the same item. Rows are merged and never deleted.       *)
(***************************************************************************)
EXTENDS Naturals, Sequences, FiniteSetsExt

CONSTANTS
    Items,              \* contents; the connector leaves no compared field of an
                        \* allegation blank, except a category that always is
    NoItem,             \* an identity that is not stored
    Less(_, _),         \* sorted() of two identities, which compares strings
    MaxItems,           \* bound: items of a report
    MaxRuns             \* bound: imports and reprocessings

ASSUME ItemsAssumption == NoItem \notin Items /\ MaxItems \in Nat /\ MaxRuns \in Nat

\* An identity: the format of its prefix and its ordinal.
Formats == {"document", "complaint"}
Ids == Formats \X (1..(MaxItems * MaxRuns))

\* Nothing else is known of the order: of the ordinals of one format it is not the
\* order of the numbers once they have more than one digit.
ASSUME LessAssumption ==
    \A a, b, c \in Ids :
        /\ ~ Less(a, a)
        /\ Less(a, b) /\ Less(b, c) => Less(a, c)
        /\ a # b => Less(a, b) \/ Less(b, a)

\* The identity of the i-th item of a report, as the connector generates it.
Generated(i) ==
    <<"complaint", i>>

Reports == UNION {[1..n -> Items] : n \in 0..MaxItems}

VARIABLES
    semantic,           \* allegations are matched by content, events are not
    siblings,           \* stored items, by identity
    report, assigned,   \* items of the last reprocessing, and their identities
    runs

identityVars == <<semantic, siblings, report, assigned, runs>>

IdentityTypeOK ==
    /\ semantic \in BOOLEAN
    /\ siblings \in [Ids -> Items \cup {NoItem}]
    /\ report \in Reports
    /\ assigned \in [DOMAIN report -> Ids]
    /\ runs \in 0..MaxRuns

IdentityInit ==
    /\ semantic \in BOOLEAN
    /\ siblings = [id \in Ids |-> NoItem]
    /\ report = <<>>
    /\ assigned = <<>>
    /\ runs = 0

-----------------------------------------------------------------------------
(* _preserve_sequence_stable_identities, stage by stage. Each stage maps   *)
(* indexes of items to stored identities that no earlier stage has used;   *)
(* sem says whether there are semantic_fields.                             *)

StoredIds(r) == {id \in Ids : r[id] # NoItem}

Free(r, done) == StoredIds(r) \ {done[i] : i \in DOMAIN done}
Open(items, done) == DOMAIN items \ DOMAIN done

\* The identity in sorted(S) that n others precede.
Nth(S, n) == CHOOSE id \in S : Cardinality({o \in S : Less(o, id)}) = n

\* How many indexes of S precede i.
Earlier(S, i) == Cardinality({j \in S : j < i})

Same(r, x) == {id \in StoredIds(r) : r[id] = x}
With(items, x) == {i \in DOMAIN items : items[i] = x}

\* Fault: content is not compared.
BySemanticsNone(sem, r, items) == <<>>

\* Equal content: the n-th such item continues the n-th such row.
BySemantics(sem, r, items) ==
    LET earlier(i) == Earlier(With(items, items[i]), i)
        matched == {i \in DOMAIN items : sem /\ earlier(i) < Cardinality(Same(r, items[i]))}
    IN [i \in matched |-> Nth(Same(r, items[i]), earlier(i))]

\* The identity the connector generated.
ByIdentity(r, items, done) ==
    [i \in {j \in Open(items, done) : Generated(j) \in Free(r, done)} |-> Generated(i)]

\* The one free identity with the ordinal of the item's position.
ByOrdinal(r, items, done) ==
    LET at(i) == {id \in Free(r, done) : id[2] = i}
    IN [i \in {j \in Open(items, done) : Cardinality(at(j)) = 1} |->
           CHOOSE id \in at(i) : TRUE]

\* The remaining items and identities, in order.
ByOrder(r, items, done) ==
    LET earlier(i) == Earlier(Open(items, done), i)
        matched == {i \in Open(items, done) : earlier(i) < Cardinality(Free(r, done))}
    IN [i \in matched |-> Nth(Free(r, done), earlier(i))]

\* assignments after a stage
Extended(done, more) ==
    [i \in DOMAIN done \cup DOMAIN more |-> IF i \in DOMAIN done THEN done[i] ELSE more[i]]

Matched(sem, r, items) ==
    LET a == BySemantics(sem, r, items)
        b == Extended(a, ByIdentity(r, items, a))
        c == Extended(b, ByOrdinal(r, items, b))
    IN Extended(c, ByOrder(r, items, c))

\* Fault: counts the identities of the format instead of taking the largest.
NextIdCounted(used) ==
    <<"complaint", 1 + Cardinality({u \in used : u[1] = "complaint"})>>

\* _next_sequence_stable_identity
NextId(used) ==
    <<"complaint", 1 + Max({id[2] : id \in {u \in used : u[1] = "complaint"}} \cup {0})>>

\* Fault: an item that continues no row keeps its generated identity.
KeepGenerated(sem, used, i) == Generated(i)

\* An item that continues no row keeps its generated identity unless it is used.
Fresh(sem, used, i) ==
    IF sem /\ Generated(i) \in used THEN NextId(used) ELSE Generated(i)

\* Identities in use when the first n items have theirs.
Used(sem, items, done) ==
    LET used[n \in 0..Len(items)] ==
            IF n = 0 THEN {done[i] : i \in DOMAIN done}
            ELSE used[n - 1] \cup
                 (IF n \in DOMAIN done THEN {} ELSE {Fresh(sem, used[n - 1], n)})
    IN used

Assign(sem, r, items) ==
    LET done == Matched(sem, r, items)
        used == Used(sem, items, done)
    IN [i \in DOMAIN items |->
           IF i \in DOMAIN done THEN done[i] ELSE Fresh(sem, used[i - 1], i)]

-----------------------------------------------------------------------------

\* Rows after the items were upserted under the given identities, in order: every
\* incoming value that is not blank replaces the stored one, so the last item under
\* an identity stays.
Written(r, items, ids) ==
    LET under(id) == {i \in DOMAIN items : ids[i] = id}
    IN [id \in Ids |-> IF under(id) = {} THEN r[id] ELSE items[Max(under(id))]]

\* A retrieval job or an artifact import, in the format of its time.
Import(items, format) ==
    /\ runs < MaxRuns
    /\ format = "document" => runs = 0
    /\ siblings' = Written(siblings, items, [i \in DOMAIN items |-> <<format, i>>])
    /\ report' = <<>>
    /\ assigned' = <<>>
    /\ runs' = runs + 1
    /\ UNCHANGED semantic

\* _reprocess_preserved_document and the import of its result.
Reprocess(items) ==
    /\ runs < MaxRuns
    /\ report' = items
    /\ assigned' = Assign(semantic, siblings, items)
    /\ siblings' = Written(siblings, items, assigned')
    /\ runs' = runs + 1
    /\ UNCHANGED semantic

IdentityNext ==
    \E items \in Reports : \/ \E format \in Formats : Import(items, format)
                           \/ Reprocess(items)

IdentitySpec == IdentityInit /\ [][IdentityNext]_identityVars

-----------------------------------------------------------------------------
(* Properties.                                                             *)

\* "A newly extracted allegation receives a collision-free identity": no two
\* items of a report are stored in one row, so none is lost.
CollisionFree ==
    \A i, j \in DOMAIN assigned : assigned[i] = assigned[j] => i = j

\* "... and therefore cannot shift the stable identities or values of unchanged
\* siblings": of the stored allegations that the report still has, each keeps its
\* identity and its values.
SiblingsKept ==
    [][\A x \in Items :
          LET before == {id \in Ids : siblings[id] = x}
              kept == {id \in before : siblings'[id] = x}
              count == Cardinality({i \in DOMAIN report' : report'[i] = x})
          IN (semantic /\ report' # <<>>)
             => Cardinality(kept) >= IF count < Cardinality(before) THEN count
                                     ELSE Cardinality(before)]_identityVars

\* "Repeating apply with unchanged inputs is idempotent": the same report
\* reprocessed again finds the rows it left, and changes none of them.
RepeatIsStable == Written(siblings, report, Assign(semantic, siblings, report)) = siblings
=============================================================================
