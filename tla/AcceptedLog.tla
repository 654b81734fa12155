----------------------------- MODULE AcceptedLog -----------------------------
(***************************************************************************)
(* What the publication of runtime coverage packages promises: packages    *)
(* are accepted one at a time and an accepted package is kept as it is.    *)
(* docs/data/source-to-screen-audit.md states the promise, and also that   *)
(* the previous package stays current when a promotion fails, which is not *)
(* part of this specification: a promotion that can neither be finished    *)
(* nor undone leaves no current package. CoveragePublication implements    *)
(* the log with directories that are renamed.                              *)
(***************************************************************************)
EXTENDS Sequences

CONSTANT Packages

VARIABLE log            \* accepted packages, oldest first

Init == log = <<>>

Accept(p) == log' = Append(log, p)

Next == \E p \in Packages : Accept(p)

Spec == Init /\ [][Next]_log
=============================================================================
