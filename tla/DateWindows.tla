----------------------------- MODULE DateWindows -----------------------------
(***************************************************************************)
(* split_date_range of hosted_app/batch_complaint_retrieval.py: the loop   *)
(* that cuts a requested range of dates into windows a retrieval job may   *)
(* ask for. Dates are day numbers; Python's date ends at LastDay.          *)
(***************************************************************************)
EXTENDS Integers, Sequences

CONSTANTS
    LastDay,            \* date.max
    MaxInclusiveDays    \* DATE_WINDOW_LIMIT_DAYS

ASSUME DaysAssumption ==
    /\ LastDay \in Nat \ {0}
    /\ MaxInclusiveDays \in Nat \ {0}

VARIABLES
    start, end,     \* the requested range
    current,        \* first day not in a window yet
    windows,        \* the result so far
    step            \* "loop", "done", or "overflow" after an OverflowError

loopVars == <<start, end, current, windows, step>>

Days == 1..LastDay
DateWindow == [start_date : Days, end_date : Days]

SplitTypeOK ==
    /\ start \in Days
    /\ end \in Days
    /\ current \in Days
    /\ windows \in Seq(DateWindow)
    /\ step \in {"loop", "done", "overflow"}

\* A range that ends before it starts is refused.
SplitInit ==
    /\ start \in Days
    /\ end \in Days
    /\ start <= end
    /\ current = start
    /\ windows = <<>>
    /\ step = "loop"

-----------------------------------------------------------------------------

Earlier(a, b) == IF a <= b THEN a ELSE b

\* Fault: the bound is not inclusive.
WindowEndTooLate == Earlier(current + MaxInclusiveDays, end)

WindowEnd == Earlier(current + MaxInclusiveDays - 1, end)

\* The body of the loop; both additions raise beyond LastDay.
AppendWindow ==
    /\ step = "loop"
    /\ current <= end
    /\ current + MaxInclusiveDays - 1 <= LastDay
    /\ windows' = Append(windows,
                         [start_date |-> current, end_date |-> WindowEnd])
    /\ IF WindowEnd < LastDay
       THEN current' = WindowEnd + 1 /\ UNCHANGED step
       ELSE step' = "overflow" /\ UNCHANGED current
    /\ UNCHANGED <<start, end>>

\* Fault: a window that would leave the range is refused.
OverflowAtRangeEnd ==
    /\ step = "loop"
    /\ current <= end
    /\ current + MaxInclusiveDays - 1 > end
    /\ step' = "overflow"
    /\ UNCHANGED <<start, end, current, windows>>

Overflow ==
    /\ step = "loop"
    /\ current <= end
    /\ current + MaxInclusiveDays - 1 > LastDay
    /\ step' = "overflow"
    /\ UNCHANGED <<start, end, current, windows>>

Return ==
    /\ step = "loop"
    /\ current > end
    /\ step' = "done"
    /\ UNCHANGED <<start, end, current, windows>>

SplitNext == AppendWindow \/ Overflow \/ Return

SplitSpec == SplitInit /\ [][SplitNext]_loopVars

-----------------------------------------------------------------------------
(* Properties.                                                             *)

\* The windows follow each other without gap or overlap, from the first day of
\* the range to the last, and none is longer than a job may ask for.
Tiled ==
    step # "overflow" =>
        /\ \A i \in 1..Len(windows) :
              /\ windows[i].start_date <= windows[i].end_date
              /\ windows[i].end_date - windows[i].start_date < MaxInclusiveDays
        /\ \A i \in 1..(Len(windows) - 1) :
              windows[i + 1].start_date = windows[i].end_date + 1
        /\ windows # <<>> => /\ windows[1].start_date = start
                             /\ windows[Len(windows)].end_date = current - 1
        /\ windows = <<>> => current = start
        /\ step = "done" => windows # <<>> /\ current = end + 1

\* A range is refused by an OverflowError only if it ends on the last day of the
\* calendar or a full window from its last day would leave the calendar. A range
\* that ends on the last day is always refused.
OverflowOnlyAtEnd ==
    /\ step = "overflow" => end = LastDay \/ end + MaxInclusiveDays - 1 > LastDay
    /\ step = "done" => end < LastDay
=============================================================================
