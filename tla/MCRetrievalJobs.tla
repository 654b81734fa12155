--------------------------- MODULE MCRetrievalJobs ---------------------------
(* Instances of RetrievalJobs for TLC.                                     *)
EXTENDS RetrievalJobs

CONSTANTS seed, r1, r2, r3, ann, bob, fac, d1, v1, v2

In(k, v) == [key |-> k, value |-> v]

\* The facility was imported before, from a report without the field.
MCStored ==
    [k \in Keys |-> IF k = fac
                    THEN [value |-> Blank, batch |-> seed, conflicts |-> {}]
                    ELSE None]

MCActorOf == [r \in Requests |-> IF r = r3 THEN bob ELSE ann]

\* Overlapping windows of one facility: the facility row follows the last
\* report of a request, so the two orders differ.
MCReports ==
    [r \in Requests |->
        IF r = r1 THEN <<In(d1, v1), In(fac, v1)>>
        ELSE IF r = r2 THEN <<In(fac, v2), In(d1, v1)>>
        ELSE <<In(fac, Blank)>>]
=============================================================================
