--------------------------- MODULE MCBatchRetrieval ---------------------------
(* An instance of BatchCommand for TLC.                                    *)
EXTENDS BatchCommand

MCWindows == 1..3
=============================================================================
