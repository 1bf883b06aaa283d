------------------------------ MODULE Metered ------------------------------
(***************************************************************************)
(* What the metered evaluation promises, without saying how it evaluates:  *)
(* it spends a limited budget that is never refunded, ends in finite time, *)
(* and ends in exactly one of three ways -- with an answer, with the whole *)
(* budget spent, or with the element cap crossed.                          *)
(***************************************************************************)
EXTENDS Naturals

CONSTANT Limits

VARIABLES limit, used,
          status     \* running, exhausted, capped: the latch; then over
mvars == <<limit, used, status>>

MInit == limit \in Limits /\ used = 0 /\ status \in {"running", "capped"}

\* Some work, possibly the work that crosses the element cap.
Work == /\ status = "running"
        /\ used' \in used..limit
        /\ status' \in {"running", "capped"}
        /\ UNCHANGED limit

\* The work that does not fit: the budget reads fully spent.
Exhaust == /\ status = "running"
           /\ used' = limit
           /\ status' = "exhausted"
           /\ UNCHANGED limit

Over == /\ status \in {"running", "exhausted", "capped"}
        /\ status' = "over"
        /\ UNCHANGED <<limit, used>>

MNext == Work \/ Exhaust \/ Over

\* Its steps, without the promise that it ends.
MSteps == MInit /\ [][MNext]_mvars

MSpec == MSteps /\ <>(status = "over")
=============================================================================
