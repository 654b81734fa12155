------------------------- MODULE CoveragePublication -------------------------
(***************************************************************************)
(* publish_runtime_coverage_package (source_to_screen_audit.py) and the    *)
(* readers of what it publishes (source_to_screen_coverage.py). Publishers *)
(* are processes that exclude each other with a lock file, generate into a *)
(* directory of their own, move the active package into the directory of   *)
(* instances and rename theirs into its place. Any file operation may fail *)
(* and a process may die anywhere; readers open the files of a package by  *)
(* path, one after the other, while directories are being renamed.         *)
(***************************************************************************)
EXTENDS Naturals, Sequences, FiniteSets

CONSTANTS
    None,
    Publishers, Readers,
    ReportIds, Times,   \* of a report: its deterministic identity, generated_at
    MaxPackages         \* bound: packages accepted or being made

ASSUME NoneAssumption ==
    /\ None \notin Publishers
    /\ None \notin ReportIds
    /\ MaxPackages \in Nat

\* A package: what tells its files apart. The index is an optional artifact.
Packages == [report_id : ReportIds, generated_at : Times,
             previous : ReportIds \cup {None}, index : BOOLEAN]
ASSUME NoneIsNoPackage == None \notin Packages

VARIABLES
    lock,               \* whether the sibling lock file exists
    active,             \* the package in runtime-current, None if no directory
    archived,           \* packages in the directory of instances, oldest first
    status,             \* sibling status file: <<status, report id>>
    pc,                 \* where each publisher is
    prev, new,          \* the previous package it read, the one it made
    moved,              \* whether it has archived the active package
    reader              \* each reader: where it is and what it has read

publisherVars == <<pc, prev, new, moved>>
vars == <<lock, active, archived, status, publisherVars, reader>>

Artifacts == {"coverage-report.json", "operator-facility-index.jsonl"}

\* What a file of package p holds, None when p declares it unavailable.
Content(p, a) ==
    IF a = "coverage-report.json" THEN <<p.report_id, p.generated_at>>
    ELSE IF p.index THEN <<p.report_id>> ELSE None

Contents == {Content(p, a) : p \in Packages, a \in Artifacts}

Idle == [pc |-> "idle", manifest |-> None, left |-> {},
         got |-> [a \in Artifacts |-> None]]

TypeOK ==
    /\ lock \in BOOLEAN
    /\ active \in Packages \cup {None}
    /\ archived \in Seq(Packages)
    /\ status \in {"absent", "published", "generation_failed"} \X (ReportIds \cup {None})
    /\ pc \in [Publishers -> {"idle", "previous", "generate", "validate", "archive",
                              "promote", "status", "failed", "unlock"}]
    /\ prev \in [Publishers -> Packages \cup {None}]
    /\ new \in [Publishers -> Packages \cup {None}]
    /\ moved \in [Publishers -> BOOLEAN]
    /\ reader \in [Readers -> [pc : {"idle", "validate", "load", "loaded"},
                               manifest : Packages \cup {None},
                               left : SUBSET Artifacts,
                               got : [Artifacts -> Contents \cup {None}]]]

Init ==
    /\ lock = FALSE
    /\ active = None
    /\ archived = <<>>
    /\ status = <<"absent", None>>
    /\ pc = [p \in Publishers |-> "idle"]
    /\ prev = [p \in Publishers |-> None]
    /\ new = [p \in Publishers |-> None]
    /\ moved = [p \in Publishers |-> FALSE]
    /\ reader = [r \in Readers |-> Idle]

-----------------------------------------------------------------------------
(* A publisher.                                                            *)

Go(p, step) == pc' = [pc EXCEPT ![p] = step]

Forget(p) ==
    /\ Go(p, "idle")
    /\ prev' = [prev EXCEPT ![p] = None]
    /\ new' = [new EXCEPT ![p] = None]
    /\ moved' = [moved EXCEPT ![p] = FALSE]

\* Fault: the lock file is opened without O_EXCL.
AcquireShared(p) ==
    /\ pc[p] = "idle"
    /\ lock' = TRUE
    /\ Go(p, "previous")
    /\ UNCHANGED <<active, archived, status, prev, new, moved, reader>>

\* os.open(..., O_CREAT | O_EXCL); with a lock file there it raises.
Acquire(p) ==
    /\ pc[p] = "idle"
    /\ ~lock
    /\ lock' = TRUE
    /\ Go(p, "previous")
    /\ UNCHANGED <<active, archived, status, prev, new, moved, reader>>

ReadPrevious(p) ==
    /\ pc[p] = "previous"
    /\ prev' = [prev EXCEPT ![p] = active]
    /\ Go(p, "generate")
    /\ UNCHANGED <<lock, active, archived, status, new, moved, reader>>

\* build_runtime_coverage_input and generate_coverage_package.
Generate(p, report_id, generated_at, index) ==
    /\ pc[p] = "generate"
    /\ Len(archived) < MaxPackages
    /\ new' = [new EXCEPT ![p] =
                  [report_id |-> report_id, generated_at |-> generated_at,
                   previous |-> IF prev[p] = None THEN None ELSE prev[p].report_id,
                   index |-> index]]
    /\ Go(p, "validate")
    /\ UNCHANGED <<lock, active, archived, status, prev, moved, reader>>

\* The temporary package is loaded the way a consumer loads it.
Validate(p) ==
    /\ pc[p] = "validate"
    /\ Go(p, "archive")
    /\ UNCHANGED <<lock, active, archived, status, prev, new, moved, reader>>

\* A step up to the first rename raises.
Raise(p) ==
    /\ pc[p] \in {"previous", "generate", "validate", "archive"}
    /\ Go(p, "failed")
    /\ UNCHANGED <<lock, active, archived, status, prev, new, moved, reader>>

\* Fault: the superseded package is removed, not archived.
ArchiveRemoves(p) ==
    /\ pc[p] = "archive"
    /\ active' = None
    /\ Go(p, "promote")
    /\ UNCHANGED <<lock, archived, status, prev, new, moved, reader>>

\* os.replace(effective_output_dir, archived_path), if there is a directory.
Archive(p) ==
    /\ pc[p] = "archive"
    /\ CASE active = None ->
              /\ Go(p, "promote")
              /\ UNCHANGED <<active, archived, moved>>
         [] active # None /\ prev[p] = None ->
              /\ Go(p, "failed")
              /\ UNCHANGED <<active, archived, moved>>
         [] OTHER ->
              /\ archived' = Append(archived, active)
              /\ active' = None
              /\ moved' = [moved EXCEPT ![p] = TRUE]
              /\ Go(p, "promote")
    /\ UNCHANGED <<lock, status, prev, new, reader>>

Promote(p) ==
    /\ pc[p] = "promote"
    /\ active = None
    /\ active' = new[p]
    /\ Go(p, "status")
    /\ UNCHANGED <<lock, archived, status, prev, new, moved, reader>>

\* The rename raises. The archived package is renamed back, which may raise too.
PromoteFails(p) ==
    /\ pc[p] = "promote"
    /\ \/ /\ moved[p]
          /\ active = None
          /\ active' = archived[Len(archived)]
          /\ archived' = SubSeq(archived, 1, Len(archived) - 1)
       \/ UNCHANGED <<active, archived>>
    /\ Go(p, "failed")
    /\ UNCHANGED <<lock, status, prev, new, moved, reader>>

\* Fault: the status file names the package, not its report.
WriteStatusPackage(p) ==
    /\ pc[p] = "status"
    /\ status' = <<"published", new[p]>>
    /\ Go(p, "unlock")
    /\ UNCHANGED <<lock, active, archived, prev, new, moved, reader>>

\* os.replace of the status file is atomic; the write before it may raise.
WriteStatus(p) ==
    /\ pc[p] = "status"
    /\ \/ status' = <<"published", new[p].report_id>> /\ Go(p, "unlock")
       \/ UNCHANGED status /\ Go(p, "failed")
    /\ UNCHANGED <<lock, active, archived, prev, new, moved, reader>>

\* The except clause. Removing the temporary directory or writing the status may
\* raise again; the finally clause runs in any case.
Fail(p) ==
    /\ pc[p] = "failed"
    /\ \/ status' = <<"generation_failed",
                      IF new[p] = None THEN None ELSE new[p].report_id>>
       \/ UNCHANGED status
    /\ Go(p, "unlock")
    /\ UNCHANGED <<lock, active, archived, prev, new, moved, reader>>

Unlock(p) ==
    /\ pc[p] = "unlock"
    /\ lock' = FALSE
    /\ Forget(p)
    /\ UNCHANGED <<active, archived, status, reader>>

\* The process is killed: no clause runs, and the lock file stays.
Crash(p) ==
    /\ pc[p] # "idle"
    /\ Forget(p)
    /\ UNCHANGED <<lock, active, archived, status, reader>>

\* No code removes a left lock file: an operator does, when no publisher runs.
ClearLock ==
    /\ lock
    /\ \A p \in Publishers : pc[p] = "idle"
    /\ lock' = FALSE
    /\ UNCHANGED <<active, archived, status, publisherVars, reader>>

-----------------------------------------------------------------------------
(* A reader: load_validated_coverage_package.                              *)

Reads(r, state) ==
    /\ reader' = [reader EXCEPT ![r] = state]
    /\ UNCHANGED <<lock, active, archived, status, publisherVars>>

\* Without a directory the read ends at once.
ReadManifest(r) ==
    /\ reader[r].pc = "idle"
    /\ active # None
    /\ Reads(r, [pc |-> "validate", manifest |-> active, left |-> Artifacts,
                 got |-> Idle.got])

\* The file that is there now is the one the manifest describes.
Matches(manifest, a) ==
    /\ active # None
    /\ Content(active, a) = Content(manifest, a)

\* validate_coverage_package: an artifact declared unavailable must not be there.
ValidateArtifact(r, a) ==
    /\ reader[r].pc = "validate"
    /\ a \in reader[r].left
    /\ \/ Matches(reader[r].manifest, a)
       \/ Content(reader[r].manifest, a) = None /\ active = None
    /\ Reads(r, [reader[r] EXCEPT !.left = @ \ {a}])

\* The manifest is read again, and must be the one that was validated.
RereadManifest(r) ==
    /\ reader[r].pc = "validate"
    /\ reader[r].left = {}
    /\ active = reader[r].manifest
    /\ Reads(r, [reader[r] EXCEPT !.pc = "load", !.left = Artifacts])

\* Fault: files that were validated once are not hashed again.
LoadArtifactUnchecked(r, a) ==
    /\ reader[r].pc = "load"
    /\ a \in reader[r].left
    /\ active # None
    /\ Reads(r, [reader[r] EXCEPT !.left = @ \ {a}, !.got[a] = Content(active, a)])

\* _artifact_bytes: a declared artifact is read and hashed a second time.
LoadArtifact(r, a) ==
    /\ reader[r].pc = "load"
    /\ a \in reader[r].left
    /\ \/ /\ Matches(reader[r].manifest, a)
          /\ Reads(r, [reader[r] EXCEPT !.left = @ \ {a}, !.got[a] = Content(active, a)])
       \/ /\ Content(reader[r].manifest, a) = None
          /\ Reads(r, [reader[r] EXCEPT !.left = @ \ {a}])

Loaded(r) ==
    /\ reader[r].pc = "load"
    /\ reader[r].left = {}
    /\ Reads(r, [reader[r] EXCEPT !.pc = "loaded"])

\* The page is sent; or a check failed and the page says unavailable.
EndRead(r) ==
    /\ reader[r].pc # "idle"
    /\ Reads(r, Idle)

-----------------------------------------------------------------------------

Publish(p) ==
    \/ Acquire(p)
    \/ ReadPrevious(p)
    \/ \E i \in ReportIds, t \in Times, b \in BOOLEAN : Generate(p, i, t, b)
    \/ Validate(p)
    \/ Raise(p)
    \/ Archive(p)
    \/ Promote(p)
    \/ PromoteFails(p)
    \/ WriteStatus(p)
    \/ Fail(p)
    \/ Unlock(p)

Read(r) ==
    \/ ReadManifest(r)
    \/ \E a \in Artifacts : ValidateArtifact(r, a) \/ LoadArtifact(r, a)
    \/ RereadManifest(r)
    \/ Loaded(r)
    \/ EndRead(r)

Next ==
    \/ \E p \in Publishers : Publish(p) \/ Crash(p)
    \/ ClearLock
    \/ \E r \in Readers : Read(r)

Spec == Init /\ [][Next]_vars

-----------------------------------------------------------------------------
(* Properties.                                                             *)

\* The accepted packages in the order in which they became active.
accepted == archived \o (IF active = None THEN <<>> ELSE <<active>>)

Accepted == INSTANCE AcceptedLog WITH log <- accepted

\* "Superseded accepted packages are retained under the sibling
\* immutable-instance directory and are not automatically deleted": failed
\* renames, a failed undo, killed publishers and removed lock files included,
\* the directories hold the history of what was accepted, and publishing adds
\* one package at its end.
HistoryRetained == Accepted!Spec

\* The package a retention record names as its previous one is the package that
\* was active before it, or none is named, which happens after a publisher was
\* killed between its two renames.
PreviousNamed ==
    \A i \in 1..Len(accepted) :
        LET named == accepted[i].previous
        IN named # None => i > 1 /\ named = accepted[i - 1].report_id

\* A page is made of the files of one package, however many publications pass
\* while it is read.
OneGeneration ==
    \A r \in Readers :
        reader[r].pc = "loaded" =>
            \A a \in Artifacts :
                reader[r].got[a] = Content(reader[r].manifest, a)
=============================================================================
