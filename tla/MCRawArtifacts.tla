---------------------------- MODULE MCRawArtifacts ----------------------------
(* An instance of RawArtifacts for TLC.                                    *)
EXTENDS RawArtifacts

CONSTANTS v1, v2, f1, f2

\* The second version of the report no longer has one of the fields.
MCFilled ==
    [c \in Versions \cup {Partial} |-> IF c = v1 THEN {f1, f2} ELSE {f1}]
===============================================================================
