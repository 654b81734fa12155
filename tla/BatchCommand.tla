----------------------------- MODULE BatchCommand -----------------------------
(***************************************************************************)
(* The batch command as a whole: build_plan cuts the requested range into  *)
(* windows, as DateWindows has it, before run_batch opens the manifest and *)
(* works through them, as BatchRetrieval has it. A range that cannot be    *)
(* cut ends the command before it has touched anything, and the operator   *)
(* asks for another one.                                                   *)
(***************************************************************************)
EXTENDS BatchRetrieval, DateWindows

\* A bound of the model: a plan for one facility with as many windows as the manifest
\* has room for.
Planned == step = "done" /\ Len(windows) = Cardinality(Windows)

Refused == step = "overflow" \/ (step = "done" /\ ~Planned)

CommandInit == Init /\ SplitInit

Split == SplitNext /\ UNCHANGED vars

AskAgain ==
    /\ Refused
    /\ \E s, e \in Days :
          /\ s <= e
          /\ start' = s
          /\ end' = e
          /\ current' = s
    /\ windows' = <<>>
    /\ step' = "loop"
    /\ UNCHANGED vars

RunBatch == Planned /\ Next /\ UNCHANGED loopVars

CommandNext == Split \/ AskAgain \/ RunBatch

\* A started run goes on by itself.
CommandSpec ==
    CommandInit /\ [][CommandNext]_<<vars, loopVars>> /\ WF_vars(Work)
===============================================================================
