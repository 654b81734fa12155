--------------------------- MODULE MCReviewerState ---------------------------
(* Requests and statuses are interchangeable. *)
EXTENDS ReviewerState, TLC

Symmetry == Permutations(Requests) \cup Permutations(Statuses)
=============================================================================
