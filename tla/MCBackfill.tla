------------------------------ MODULE MCBackfill ------------------------------
(* An instance of Backfill for TLC.                                        *)
EXTENDS Backfill

CONSTANTS seed, backfill, job, v1, v2

MCFacilities == 1..2

MCOperations == {"facility-reference", "preserved-artifacts"}

\* Against rows that start out as below and are refreshed meanwhile: conflicting
\* values, a blank against a value, and a value against a blank.
MCObserved ==
    [op \in MCOperations |->
        IF op = "facility-reference" THEN <<v2, Blank>> ELSE <<Blank, v1>>]

MCStored ==
    LET Row(v) == [value |-> v, batch |-> seed, conflicts |-> {}]
    IN <<Row(v1), Row(Blank)>>
=============================================================================
