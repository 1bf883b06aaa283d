------------------------------- MODULE MCBll -------------------------------
(***************************************************************************)
(* Small instances of BllMachine for TLC, over the jobs of Programs.       *)
(***************************************************************************)
EXTENDS BllMachine, Programs

\* The loop through apply's tail position runs in constant stack: two frames,
\* apply and the evaluation of its argument.
TailCallsFlat == job.program = FlatLoop => Len(stack) <= 2

\* What the comment on ELEMENT_ALLOCATION_LIMIT says, that every construction is
\* preceded by a charge of at least STEP / 2, at the end of an evaluation.
EveryConstructionPaid == result # Pending => (STEP \div 2) * made <= budget.used
=============================================================================
