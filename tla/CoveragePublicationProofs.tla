---------------------- MODULE CoveragePublicationProofs ----------------------
(***************************************************************************)
(* Proofs about CoveragePublication for any number of publishers, readers, *)
(* reports and packages: the lock file makes the renames of one publisher  *)
(* a step of the accepted log, and a page has the files of one package.    *)
(***************************************************************************)
EXTENDS CoveragePublication, SequenceTheorems, TLAPS

\* A publisher at work holds the lock file and is the only one at work.
Mutex ==
    /\ \A p \in Publishers : pc[p] # "idle" => lock
    /\ \A p, q \in Publishers : pc[p] # "idle" /\ pc[q] # "idle" => p = q

\* A package that is made names the package that its publisher had read.
MadeSound ==
    \A p \in Publishers :
        pc[p] \in {"validate", "archive", "promote", "status"} =>
            /\ new[p] \in Packages
            /\ new[p].previous = IF prev[p] = None THEN None ELSE prev[p].report_id

\* What a publisher read is still active until it archives it, and then it is
\* the last archived package until the publisher's own one is in place.
RenameSound ==
    \A p \in Publishers :
        /\ pc[p] \in {"idle", "previous", "generate", "validate", "archive"} =>
              ~moved[p]
        /\ pc[p] \in {"generate", "validate", "archive"} => prev[p] = active
        /\ pc[p] = "promote" =>
              /\ active = None
              /\ prev[p] # None => moved[p]
              /\ moved[p] => archived # <<>> /\ archived[Len(archived)] = prev[p]

\* A reader has nothing for the files it has still to load, and for the others
\* what its manifest says.
ReadSound ==
    \A r \in Readers :
        /\ reader[r].pc = "validate" =>
              \A a \in Artifacts : reader[r].got[a] = None
        /\ reader[r].pc = "load" =>
              \A a \in Artifacts :
                  reader[r].got[a] = IF a \in reader[r].left THEN None
                                     ELSE Content(reader[r].manifest, a)

\* The inductive invariant.
IInv ==
    /\ TypeOK
    /\ Mutex
    /\ MadeSound
    /\ RenameSound
    /\ PreviousNamed
    /\ ReadSound
    /\ OneGeneration

-----------------------------------------------------------------------------
(* The accepted packages, as the renames change the two directories.       *)

\* Archiving the active package moves it within the accepted packages.
LEMMA ArchiveKeepsAccepted ==
    ASSUME archived \in Seq(Packages), active \in Packages,
           archived' = Append(archived, active), active' = None
    PROVE  accepted' = accepted
  <1>1. active # None
    BY NoneIsNoPackage
  <1>2. accepted = Append(archived, active)
    BY <1>1, AppendIsConcat DEF accepted
  <1>3. accepted' = Append(archived, active) \o <<>>
    BY DEF accepted
  <1>4. Append(archived, active) \in Seq(Packages)
    BY AppendProperties
  <1>5. QED
    BY <1>2, <1>3, <1>4, ConcatEmptySeq

\* Renaming the last archived package back does so too.
LEMMA UndoKeepsAccepted ==
    ASSUME archived \in Seq(Packages), archived # <<>>, active = None,
           active' = archived[Len(archived)],
           archived' = SubSeq(archived, 1, Len(archived) - 1)
    PROVE  /\ accepted' = accepted
           /\ active' \in Packages
           /\ archived' \in Seq(Packages)
  <1>1. Len(archived) \in Nat \ {0}
    BY EmptySeq
  <1>2. active' \in Packages /\ active' # None
    BY <1>1, ElementOfSeq, NoneIsNoPackage
  <1>3. archived' \in Seq(Packages)
    BY <1>1, SubSeqProperties, ElementOfSeq
  <1>4. accepted' = SubSeq(archived, 1, Len(archived) - 1)
                      \o <<archived[Len(archived)]>>
    BY <1>2 DEF accepted
  <1>5. accepted' = archived
    BY <1>1, <1>4, SubSeqRecursiveSecond, SubSeqFull
  <1>6. accepted = archived
    BY ConcatEmptySeq DEF accepted
  <1>7. QED
    BY <1>2, <1>3, <1>5, <1>6

\* A package renamed into the empty place is accepted as the last one.
LEMMA PromoteAppends ==
    ASSUME NEW q \in Packages, archived \in Seq(Packages), active = None,
           active' = q, archived' = archived
    PROVE  accepted = archived /\ accepted' = Append(accepted, q)
  <1>1. accepted = archived
    BY ConcatEmptySeq DEF accepted
  <1>2. accepted' = archived \o <<q>>
    BY NoneIsNoPackage DEF accepted
  <1>3. QED
    BY <1>1, <1>2, AppendIsConcat

\* What depends only on the accepted packages and on the readers.
LEMMA OthersIInv ==
    ASSUME IInv, UNCHANGED <<accepted, reader>>
    PROVE  PreviousNamed' /\ ReadSound' /\ OneGeneration'
  BY DEF IInv, PreviousNamed, ReadSound, OneGeneration

-----------------------------------------------------------------------------

\* Without packages and with idle processes the invariant holds.
LEMMA InitIInv == Init => IInv
  <1> SUFFICES ASSUME Init PROVE IInv
    OBVIOUS
  <1>1. TypeOK
    <2>1. Idle \in [pc : {"idle", "validate", "load", "loaded"},
                    manifest : Packages \cup {None},
                    left : SUBSET Artifacts,
                    got : [Artifacts -> Contents \cup {None}]]
      BY DEF Idle
    <2>2. archived \in Seq(Packages)
      BY EmptySeq DEF Init
    <2>3. QED
      BY <2>1, <2>2 DEF Init, TypeOK
  <1>2. Mutex /\ MadeSound /\ RenameSound
    BY DEF Init, Mutex, MadeSound, RenameSound
  <1>3. PreviousNamed
    BY ConcatEmptySeq, EmptySeq DEF Init, PreviousNamed, accepted
  <1>4. ReadSound /\ OneGeneration
    BY DEF Init, Idle, ReadSound, OneGeneration
  <1>5. QED
    BY <1>1, <1>2, <1>3, <1>4 DEF IInv

-----------------------------------------------------------------------------
(* One lemma for each step of a publisher.                                 *)

\* Only a publisher that creates the lock file starts, so that no other is at work.
LEMMA AcquireIInv ==
    ASSUME IInv, NEW p \in Publishers, Acquire(p)
    PROVE  IInv'
  <1>1. TypeOK'
    BY DEF IInv, TypeOK, Acquire, Go
  <1>2. Mutex'
    BY DEF IInv, Mutex, TypeOK, Acquire, Go
  <1>3. MadeSound'
    BY DEF IInv, MadeSound, TypeOK, Acquire, Go
  <1>4. RenameSound'
    BY DEF IInv, RenameSound, TypeOK, Acquire, Go
  <1>5. UNCHANGED <<accepted, reader>>
    BY DEF Acquire, accepted
  <1>6. QED
    BY <1>1, <1>2, <1>3, <1>4, <1>5, OthersIInv DEF IInv

\* The package that a publisher reads is the active one.
LEMMA ReadPreviousIInv ==
    ASSUME IInv, NEW p \in Publishers, ReadPrevious(p)
    PROVE  IInv'
  <1>1. TypeOK'
    BY DEF IInv, TypeOK, ReadPrevious, Go
  <1>2. Mutex'
    BY DEF IInv, Mutex, TypeOK, ReadPrevious, Go
  <1>3. MadeSound'
    BY DEF IInv, MadeSound, TypeOK, ReadPrevious, Go
  <1>4. RenameSound'
    BY DEF IInv, RenameSound, TypeOK, ReadPrevious, Go
  <1>5. UNCHANGED <<accepted, reader>>
    BY DEF ReadPrevious, accepted
  <1>6. QED
    BY <1>1, <1>2, <1>3, <1>4, <1>5, OthersIInv DEF IInv

\* The package that is made names the one that was read.
LEMMA GenerateIInv ==
    ASSUME IInv, NEW p \in Publishers, NEW i \in ReportIds,
           NEW t \in Times, NEW b \in BOOLEAN, Generate(p, i, t, b)
    PROVE  IInv'
  <1>1. TypeOK'
    BY DEF IInv, TypeOK, Packages, Generate, Go
  <1>2. Mutex'
    BY DEF IInv, Mutex, TypeOK, Generate, Go
  <1>3. MadeSound'
    BY DEF IInv, MadeSound, TypeOK, Packages, Generate, Go
  <1>4. RenameSound'
    BY DEF IInv, RenameSound, TypeOK, Generate, Go
  <1>5. UNCHANGED <<accepted, reader>>
    BY DEF Generate, accepted
  <1>6. QED
    BY <1>1, <1>2, <1>3, <1>4, <1>5, OthersIInv DEF IInv

\* A validation changes nothing that others see.
LEMMA ValidateIInv ==
    ASSUME IInv, NEW p \in Publishers, Validate(p)
    PROVE  IInv'
  <1>1. TypeOK'
    BY DEF IInv, TypeOK, Validate, Go
  <1>2. Mutex'
    BY DEF IInv, Mutex, TypeOK, Validate, Go
  <1>3. MadeSound'
    BY DEF IInv, MadeSound, TypeOK, Validate, Go
  <1>4. RenameSound'
    BY DEF IInv, RenameSound, TypeOK, Validate, Go
  <1>5. UNCHANGED <<accepted, reader>>
    BY DEF Validate, accepted
  <1>6. QED
    BY <1>1, <1>2, <1>3, <1>4, <1>5, OthersIInv DEF IInv

\* A step that raises before the renames leaves the packages alone.
LEMMA RaiseIInv ==
    ASSUME IInv, NEW p \in Publishers, Raise(p)
    PROVE  IInv'
  <1>1. TypeOK'
    BY DEF IInv, TypeOK, Raise, Go
  <1>2. Mutex'
    BY DEF IInv, Mutex, TypeOK, Raise, Go
  <1>3. MadeSound'
    BY DEF IInv, MadeSound, TypeOK, Raise, Go
  <1>4. RenameSound'
    BY DEF IInv, RenameSound, TypeOK, Raise, Go
  <1>5. UNCHANGED <<accepted, reader>>
    BY DEF Raise, accepted
  <1>6. QED
    BY <1>1, <1>2, <1>3, <1>4, <1>5, OthersIInv DEF IInv

\* The status file names the report of a package that was made.
LEMMA WriteStatusIInv ==
    ASSUME IInv, NEW p \in Publishers, WriteStatus(p)
    PROVE  IInv'
  <1>1. TypeOK'
    <2>1. new[p].report_id \in ReportIds
      BY DEF IInv, MadeSound, Packages, WriteStatus
    <2>2. QED
      BY <2>1 DEF IInv, TypeOK, WriteStatus, Go
  <1>2. Mutex'
    BY DEF IInv, Mutex, TypeOK, WriteStatus, Go
  <1>3. MadeSound'
    BY DEF IInv, MadeSound, TypeOK, WriteStatus, Go
  <1>4. RenameSound'
    BY DEF IInv, RenameSound, TypeOK, WriteStatus, Go
  <1>5. UNCHANGED <<accepted, reader>>
    BY DEF WriteStatus, accepted
  <1>6. QED
    BY <1>1, <1>2, <1>3, <1>4, <1>5, OthersIInv DEF IInv

\* The except clause leaves the packages alone.
LEMMA FailIInv ==
    ASSUME IInv, NEW p \in Publishers, Fail(p)
    PROVE  IInv'
  <1>1. TypeOK'
    BY DEF IInv, TypeOK, Packages, Fail, Go
  <1>2. Mutex'
    BY DEF IInv, Mutex, TypeOK, Fail, Go
  <1>3. MadeSound'
    BY DEF IInv, MadeSound, TypeOK, Fail, Go
  <1>4. RenameSound'
    BY DEF IInv, RenameSound, TypeOK, Fail, Go
  <1>5. UNCHANGED <<accepted, reader>>
    BY DEF Fail, accepted
  <1>6. QED
    BY <1>1, <1>2, <1>3, <1>4, <1>5, OthersIInv DEF IInv

\* The lock file is removed by the only publisher at work.
LEMMA UnlockIInv ==
    ASSUME IInv, NEW p \in Publishers, Unlock(p)
    PROVE  IInv'
  <1>1. TypeOK'
    BY DEF IInv, TypeOK, Unlock, Forget, Go
  <1>2. Mutex'
    BY DEF IInv, Mutex, TypeOK, Unlock, Forget, Go
  <1>3. MadeSound'
    BY DEF IInv, MadeSound, TypeOK, Unlock, Forget, Go
  <1>4. RenameSound'
    BY DEF IInv, RenameSound, TypeOK, Unlock, Forget, Go
  <1>5. UNCHANGED <<accepted, reader>>
    BY DEF Unlock, accepted
  <1>6. QED
    BY <1>1, <1>2, <1>3, <1>4, <1>5, OthersIInv DEF IInv

\* A killed publisher leaves packages and lock file as they are.
LEMMA CrashIInv ==
    ASSUME IInv, NEW p \in Publishers, Crash(p)
    PROVE  IInv'
  <1>1. TypeOK'
    BY DEF IInv, TypeOK, Crash, Forget, Go
  <1>2. Mutex'
    BY DEF IInv, Mutex, TypeOK, Crash, Forget, Go
  <1>3. MadeSound'
    BY DEF IInv, MadeSound, TypeOK, Crash, Forget, Go
  <1>4. RenameSound'
    BY DEF IInv, RenameSound, TypeOK, Crash, Forget, Go
  <1>5. UNCHANGED <<accepted, reader>>
    BY DEF Crash, accepted
  <1>6. QED
    BY <1>1, <1>2, <1>3, <1>4, <1>5, OthersIInv DEF IInv

\* The operator removes a lock file while no publisher is at work.
LEMMA ClearLockIInv ==
    ASSUME IInv, ClearLock
    PROVE  IInv'
  <1>1. TypeOK'
    BY DEF IInv, TypeOK, ClearLock, publisherVars
  <1>2. Mutex'
    BY DEF IInv, Mutex, TypeOK, ClearLock, publisherVars
  <1>3. MadeSound'
    BY DEF IInv, MadeSound, TypeOK, ClearLock, publisherVars
  <1>4. RenameSound'
    BY DEF IInv, RenameSound, TypeOK, ClearLock, publisherVars
  <1>5. UNCHANGED <<accepted, reader>>
    BY DEF ClearLock, accepted
  <1>6. QED
    BY <1>1, <1>2, <1>3, <1>4, <1>5, OthersIInv DEF IInv

\* The first rename: the active package, which is the one the publisher read,
\* becomes the last archived one. A package that the publisher did not read is
\* never there.
LEMMA ArchiveIInv ==
    ASSUME IInv, NEW p \in Publishers, Archive(p)
    PROVE  IInv'
  <1>1. prev[p] = active /\ ~moved[p]
    BY DEF IInv, RenameSound, Archive
  <1>2. CASE active = None
    <2>1. /\ pc[p] = "archive"
          /\ Go(p, "promote")
          /\ UNCHANGED <<lock, active, archived, status, prev, new, moved, reader>>
      BY <1>2 DEF Archive
    <2>2. TypeOK'
      BY <2>1 DEF IInv, TypeOK, Go
    <2>3. Mutex' /\ MadeSound' 
      BY <2>1 DEF IInv, Mutex, MadeSound, TypeOK, Go
    <2>4. RenameSound'
      BY <1>1, <1>2, <2>1 DEF IInv, RenameSound, TypeOK, Go
    <2>5. UNCHANGED <<accepted, reader>>
      BY <2>1 DEF accepted
    <2>6. QED
      BY <2>2, <2>3, <2>4, <2>5, OthersIInv DEF IInv
  <1>3. CASE active # None
    <2>1. /\ pc[p] = "archive"
          /\ archived' = Append(archived, active)
          /\ active' = None
          /\ moved' = [moved EXCEPT ![p] = TRUE]
          /\ Go(p, "promote")
          /\ UNCHANGED <<lock, status, prev, new, reader>>
      BY <1>1, <1>3 DEF Archive
    <2>2. archived \in Seq(Packages) /\ active \in Packages
      BY <1>3 DEF IInv, TypeOK
    <2>3. /\ archived' \in Seq(Packages)
          /\ archived' # <<>>
          /\ archived'[Len(archived')] = active
      BY <2>1, <2>2, AppendProperties
    <2>4. TypeOK'
      BY <2>1, <2>3 DEF IInv, TypeOK, Go
    <2>5. Mutex' /\ MadeSound'
      BY <2>1 DEF IInv, Mutex, MadeSound, TypeOK, Go
    <2>6. RenameSound'
      BY <1>1, <2>1, <2>3 DEF IInv, RenameSound, Mutex, TypeOK, Go
    <2>7. UNCHANGED <<accepted, reader>>
      BY <2>1, <2>2, ArchiveKeepsAccepted
    <2>8. QED
      BY <2>4, <2>5, <2>6, <2>7, OthersIInv DEF IInv
  <1>4. QED
    BY <1>2, <1>3

\* The second rename: the package that the publisher made names the last
\* accepted one.
LEMMA PromoteIInv ==
    ASSUME IInv, NEW p \in Publishers, Promote(p)
    PROVE  IInv'
  <1>1. new[p] \in Packages /\ archived \in Seq(Packages)
    BY DEF IInv, MadeSound, TypeOK, Promote
  <1>2. TypeOK'
    BY <1>1 DEF IInv, TypeOK, Promote, Go
  <1>3. Mutex' /\ MadeSound'
    BY DEF IInv, Mutex, MadeSound, TypeOK, Promote, Go
  <1>4. RenameSound'
    BY DEF IInv, RenameSound, Mutex, TypeOK, Promote, Go
  <1>5. accepted = archived /\ accepted' = Append(archived, new[p])
    BY <1>1, PromoteAppends DEF Promote
  <1>6. PreviousNamed'
    <2>1. SUFFICES ASSUME NEW i \in 1..Len(accepted'), accepted'[i].previous # None
                   PROVE  /\ i > 1
                          /\ accepted'[i].previous = accepted'[i - 1].report_id
      BY DEF PreviousNamed
    <2>2. /\ Len(archived) \in Nat
          /\ Len(accepted') = Len(archived) + 1
          /\ \A k \in 1..Len(archived) : accepted'[k] = archived[k]
          /\ accepted'[Len(archived) + 1] = new[p]
      BY <1>1, <1>5, AppendProperties, LenProperties
    <2>3. CASE i \in 1..Len(archived)
      <3>1. i > 1 /\ archived[i].previous = archived[i - 1].report_id
        BY <1>5, <2>1, <2>2, <2>3 DEF IInv, PreviousNamed
      <3>2. i - 1 \in 1..Len(archived)
        BY <2>2, <2>3, <3>1
      <3>3. QED
        BY <2>2, <2>3, <3>1, <3>2
    <2>4. CASE i = Len(archived) + 1
      <3>1. accepted'[i] = new[p]
        BY <2>2, <2>4
      <3>2. prev[p] # None /\ new[p].previous = prev[p].report_id
        BY <2>1, <3>1 DEF IInv, MadeSound, Promote
      <3>3. archived # <<>> /\ archived[Len(archived)] = prev[p]
        BY <3>2 DEF IInv, RenameSound, Promote
      <3>4. Len(archived) \in 1..Len(archived)
        BY <1>1, <3>3, EmptySeq
      <3>5. QED
        BY <2>2, <2>4, <3>1, <3>2, <3>3, <3>4
    <2>5. QED
      BY <2>1, <2>2, <2>3, <2>4
  <1>7. ReadSound' /\ OneGeneration'
    BY DEF IInv, ReadSound, OneGeneration, Promote
  <1>8. QED
    BY <1>2, <1>3, <1>4, <1>6, <1>7 DEF IInv

\* A failed second rename leaves the package archived, or active again.
LEMMA PromoteFailsIInv ==
    ASSUME IInv, NEW p \in Publishers, PromoteFails(p)
    PROVE  IInv'
  <1>1. /\ accepted' = accepted
        /\ active' \in Packages \cup {None}
        /\ archived' \in Seq(Packages)
    <2>1. CASE /\ moved[p]
               /\ active = None
               /\ active' = archived[Len(archived)]
               /\ archived' = SubSeq(archived, 1, Len(archived) - 1)
      <3>1. archived \in Seq(Packages) /\ archived # <<>>
        BY <2>1 DEF IInv, TypeOK, RenameSound, PromoteFails
      <3>2. QED
        BY <2>1, <3>1, UndoKeepsAccepted
    <2>2. CASE UNCHANGED <<active, archived>>
      BY <2>2 DEF accepted, IInv, TypeOK
    <2>3. QED
      BY <2>1, <2>2 DEF PromoteFails
  <1>2. TypeOK'
    BY <1>1 DEF IInv, TypeOK, PromoteFails, Go
  <1>3. Mutex' /\ MadeSound'
    BY DEF IInv, Mutex, MadeSound, TypeOK, PromoteFails, Go
  <1>4. RenameSound'
    BY DEF IInv, RenameSound, Mutex, TypeOK, PromoteFails, Go
  <1>5. UNCHANGED <<accepted, reader>>
    BY <1>1 DEF PromoteFails
  <1>6. QED
    BY <1>2, <1>3, <1>4, <1>5, OthersIInv DEF IInv

-----------------------------------------------------------------------------
(* Readers.                                                                *)

\* A reader changes nothing that a publisher relies on.
LEMMA ReaderIInv ==
    ASSUME IInv, NEW r \in Readers, NEW s, Reads(r, s),
           s \in [pc : {"idle", "validate", "load", "loaded"},
                  manifest : Packages \cup {None},
                  left : SUBSET Artifacts,
                  got : [Artifacts -> Contents \cup {None}]],
           s.pc = "validate" => \A a \in Artifacts : s.got[a] = None,
           s.pc = "load" =>
               \A a \in Artifacts :
                   s.got[a] = IF a \in s.left THEN None ELSE Content(s.manifest, a),
           s.pc = "loaded" => \A a \in Artifacts : s.got[a] = Content(s.manifest, a)
    PROVE  IInv'
  <1>1. TypeOK'
    BY DEF IInv, TypeOK, Reads, publisherVars
  <1>2. Mutex' /\ MadeSound' /\ RenameSound'
    BY DEF IInv, Mutex, MadeSound, RenameSound, Reads, publisherVars
  <1>3. PreviousNamed'
    <2>1. accepted' = accepted
      BY DEF accepted, Reads
    <2>2. QED
      BY <2>1 DEF IInv, PreviousNamed
  <1>4. ReadSound'
    BY DEF IInv, TypeOK, ReadSound, Reads
  <1>5. OneGeneration'
    BY DEF IInv, TypeOK, OneGeneration, Reads
  <1>6. QED
    BY <1>1, <1>2, <1>3, <1>4, <1>5 DEF IInv

\* A content that the active package has for an artifact is a content.
LEMMA ContentType ==
    ASSUME NEW q \in Packages, NEW a \in Artifacts
    PROVE  Content(q, a) \in Contents
  BY DEF Contents

\* Whatever a reader reads between two renames, what it keeps is of its manifest.
LEMMA ReadIInv ==
    ASSUME IInv, NEW r \in Readers, Read(r)
    PROVE  IInv'
  <1> DEFINE v == reader[r]
  <1>1. /\ v \in [pc : {"idle", "validate", "load", "loaded"},
                  manifest : Packages \cup {None},
                  left : SUBSET Artifacts,
                  got : [Artifacts -> Contents \cup {None}]]
        /\ active \in Packages \cup {None}
    BY DEF IInv, TypeOK
  <1>2. /\ v.pc = "validate" => \A a \in Artifacts : v.got[a] = None
        /\ v.pc = "load" =>
               \A a \in Artifacts :
                   v.got[a] = IF a \in v.left THEN None ELSE Content(v.manifest, a)
    BY DEF IInv, ReadSound
  <1> HIDE DEF v
  <1>3. CASE ReadManifest(r)
    BY <1>1, <1>3, ReaderIInv DEF ReadManifest, Idle
  <1>4. ASSUME NEW a \in Artifacts, ValidateArtifact(r, a)
        PROVE  IInv'
    BY <1>1, <1>2, <1>4, ReaderIInv DEF ValidateArtifact, v
  <1>5. ASSUME NEW a \in Artifacts, LoadArtifact(r, a)
        PROVE  IInv'
    <2>1. v.pc = "load" /\ a \in v.left
      BY <1>5 DEF LoadArtifact, v
    <2>2. CASE /\ Matches(v.manifest, a)
               /\ Reads(r, [v EXCEPT !.left = @ \ {a}, !.got[a] = Content(active, a)])
      <3>1. Content(active, a) = Content(v.manifest, a) /\ Content(active, a) \in Contents
        BY <1>1, <2>2, ContentType DEF Matches
      <3>2. QED
        BY <1>1, <1>2, <2>1, <2>2, <3>1, ReaderIInv
    <2>3. CASE /\ Content(v.manifest, a) = None
               /\ Reads(r, [v EXCEPT !.left = @ \ {a}])
      BY <1>1, <1>2, <2>1, <2>3, ReaderIInv
    <2>4. QED
      BY <1>5, <2>2, <2>3 DEF LoadArtifact, v
  <1>6. CASE RereadManifest(r)
    <2>1. /\ v.pc = "validate"
          /\ active = v.manifest
          /\ Reads(r, [v EXCEPT !.pc = "load", !.left = Artifacts])
      BY <1>6 DEF RereadManifest, v
    <2>2. QED
      BY <1>1, <1>2, <2>1, ReaderIInv
  <1>7. CASE Loaded(r)
    <2>1. v.pc = "load" /\ v.left = {} /\ Reads(r, [v EXCEPT !.pc = "loaded"])
      BY <1>7 DEF Loaded, v
    <2>2. QED
      BY <1>1, <1>2, <2>1, ReaderIInv
  <1>8. CASE EndRead(r)
    BY <1>8, ReaderIInv DEF EndRead, Idle
  <1>9. QED
    BY <1>3, <1>4, <1>5, <1>6, <1>7, <1>8 DEF Read

-----------------------------------------------------------------------------

\* Every step preserves the invariant.
LEMMA NextIInv == IInv /\ [Next]_vars => IInv'
  <1> SUFFICES ASSUME IInv, [Next]_vars PROVE IInv'
    OBVIOUS
  <1>1. ASSUME NEW p \in Publishers, Publish(p)
        PROVE  IInv'
    BY <1>1, AcquireIInv, ReadPreviousIInv, GenerateIInv, ValidateIInv, RaiseIInv,
       ArchiveIInv, PromoteIInv, PromoteFailsIInv, WriteStatusIInv, FailIInv,
       UnlockIInv DEF Publish
  <1>2. CASE Next
    BY <1>1, <1>2, CrashIInv, ClearLockIInv, ReadIInv DEF Next
  <1>3. CASE UNCHANGED vars
    <2>1. UNCHANGED <<accepted, reader>>
      BY <1>3 DEF vars, accepted
    <2>2. TypeOK' /\ Mutex' /\ MadeSound' /\ RenameSound'
      BY <1>3 DEF vars, publisherVars, IInv, TypeOK, Mutex, MadeSound, RenameSound
    <2>3. QED
      BY <2>1, <2>2, OthersIInv DEF IInv
  <1>4. QED
    BY <1>2, <1>3

\* The invariant holds in every reachable state.
THEOREM Invariance == Spec => []IInv
  BY InitIInv, NextIInv, PTL DEF Spec

\* Type correctness of directories, status file, publishers and readers.
THEOREM TypeCorrect == Spec => []TypeOK
  <1>1. IInv => TypeOK
    BY DEF IInv
  <1>2. QED
    BY Invariance, <1>1, PTL

\* No two publishers are past the lock file at the same time, killed publishers
\* and removed lock files included.
THEOREM PublishersExcluded == Spec => []Mutex
  <1>1. IInv => Mutex
    BY DEF IInv
  <1>2. QED
    BY Invariance, <1>1, PTL

\* The previous package that an accepted one names is the one before it.
THEOREM PreviousIsNamed == Spec => []PreviousNamed
  <1>1. IInv => PreviousNamed
    BY DEF IInv
  <1>2. QED
    BY Invariance, <1>1, PTL

\* A page is made of the files of one package.
THEOREM PageOfOneGeneration == Spec => []OneGeneration
  <1>1. IInv => OneGeneration
    BY DEF IInv
  <1>2. QED
    BY Invariance, <1>1, PTL

-----------------------------------------------------------------------------
(* The refinement: only the second rename accepts a package.               *)

\* A step of a publisher accepts one package or keeps the accepted ones.
LEMMA AcceptedStep ==
    ASSUME IInv, [Next]_vars
    PROVE  [Accepted!Next]_accepted
  <1>1. CASE UNCHANGED <<active, archived>>
    BY <1>1 DEF accepted
  <1>2. ASSUME NEW p \in Publishers, Archive(p)
        PROVE  accepted' = accepted
    <2>1. prev[p] = active
      BY <1>2 DEF IInv, RenameSound, Archive
    <2>2. CASE active = None
      BY <1>2, <2>2 DEF Archive, accepted
    <2>3. CASE active # None
      <3>1. archived' = Append(archived, active) /\ active' = None
        BY <1>2, <2>1, <2>3 DEF Archive
      <3>2. QED
        BY <2>3, <3>1, ArchiveKeepsAccepted DEF IInv, TypeOK
    <2>4. QED
      BY <2>2, <2>3
  <1>3. ASSUME NEW p \in Publishers, Promote(p)
        PROVE  Accepted!Next
    <2>1. new[p] \in Packages /\ archived \in Seq(Packages)
      BY <1>3 DEF IInv, MadeSound, TypeOK, Promote
    <2>2. accepted' = Append(accepted, new[p])
      BY <1>3, <2>1, PromoteAppends DEF Promote
    <2>3. QED
      BY <2>1, <2>2 DEF Accepted!Next, Accepted!Accept
  <1>4. ASSUME NEW p \in Publishers, PromoteFails(p)
        PROVE  accepted' = accepted
    <2>1. CASE /\ moved[p]
               /\ active = None
               /\ active' = archived[Len(archived)]
               /\ archived' = SubSeq(archived, 1, Len(archived) - 1)
      <3>1. archived \in Seq(Packages) /\ archived # <<>>
        BY <1>4, <2>1 DEF IInv, TypeOK, RenameSound, PromoteFails
      <3>2. QED
        BY <2>1, <3>1, UndoKeepsAccepted
    <2>2. CASE UNCHANGED <<active, archived>>
      BY <2>2 DEF accepted
    <2>3. QED
      BY <1>4, <2>1, <2>2 DEF PromoteFails
  <1>5. ASSUME NEW p \in Publishers, Publish(p)
        PROVE  \/ Archive(p) \/ Promote(p) \/ PromoteFails(p)
               \/ UNCHANGED <<active, archived>>
    BY <1>5 DEF Publish, Acquire, ReadPrevious, Generate, Validate, Raise,
                WriteStatus, Fail, Unlock
  <1>6. ASSUME NEW r \in Readers, Read(r)
        PROVE  UNCHANGED <<active, archived>>
    BY <1>6 DEF Read, ReadManifest, ValidateArtifact, LoadArtifact, RereadManifest,
                Loaded, EndRead, Reads
  <1>7. CASE Next
    BY <1>1, <1>2, <1>3, <1>4, <1>5, <1>6, <1>7 DEF Next, Crash, ClearLock
  <1>8. QED
    BY <1>1, <1>7 DEF vars

\* Publishing implements the log of accepted packages: the directories hold
\* what was accepted, in order, and publishing adds one package at the end.
THEOREM Refinement == Spec => HistoryRetained
  <1>1. Init => Accepted!Init
    BY ConcatEmptySeq, EmptySeq DEF Init, Accepted!Init, accepted
  <1>2. QED
    BY <1>1, Invariance, AcceptedStep, PTL
       DEF Spec, HistoryRetained, Accepted!Spec
=============================================================================
