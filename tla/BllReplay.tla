----------------------------- MODULE BllReplay -----------------------------
(***************************************************************************)
(* The same program evaluated twice: what a second validator, with its own *)
(* budget limit or its own set of recognized softfork extensions, makes of *)
(* a program a first one has finished.  The code promises that a replay    *)
(* under exactly the reported cost reproduces the evaluation and under one *)
(* unit less exhausts (costs.py, "the boundary replay contract"), and that *)
(* every validator prices a softfork application identically however much  *)
(* of its form it understands (bll.py, fn_softfork).                       *)
(***************************************************************************)
EXTENDS BllMachine

CONSTANT Extensions     \* sets of recognized extensions a replay may run with

VARIABLE first          \* the first evaluation's outcome, None before it ends

None == [result |-> Pending]

replayVars == <<vars, first>>

ReplayInit == Init /\ first = None

Finished == result # Pending

\* Limits the second evaluation is given: around what the first one used.
ReplayLimits == {n \in {0, budget.used - 1, budget.used, budget.used + 1, budget.limit} : n >= 0}

Replay ==
    /\ Finished /\ first = None
    /\ first' = [result |-> result, used |-> budget.used, limit |-> budget.limit,
                 latched |-> Latched(budget), extensions |-> job.extensions]
    /\ \E limit \in ReplayLimits, ext \in Extensions :
          LET j == [job EXCEPT !.extensions = ext]
              c == begin(j, limit)
          IN  /\ job' = j
              /\ stack' = c.stack /\ budget' = c.budget /\ made' = c.made
    /\ result' = Pending

ReplayNext == \/ Step /\ UNCHANGED first
              \/ Return /\ UNCHANGED first
              \/ Replay
              \/ Finished /\ first # None /\ UNCHANGED replayVars

ReplaySpec == ReplayInit /\ [][ReplayNext]_replayVars

-----------------------------------------------------------------------------
Replayed == Finished /\ first # None

\* The reported cost is the whole truth about the budget: with that much or
\* more the evaluation repeats exactly, with less it exhausts and reports the
\* limit it was given.
BoundaryReplay ==
    Replayed /\ ~first.latched /\ job.extensions = first.extensions =>
        IF budget.limit >= first.used
        THEN result = first.result /\ budget.used = first.used
        ELSE result = Error("budget exhausted") /\ budget.used = budget.limit

\* A validator that recognizes less accepts whatever one that recognizes more
\* accepted, with the same value and the same price.
OldValidatorsAgree ==
    Replayed /\ budget.limit = first.limit /\ ~IsError(first.result)
             /\ job.extensions \subseteq first.extensions =>
        result = first.result /\ budget.used = first.used

\* A guard that ran cannot be told from one that did not: a validator that
\* recognizes more either agrees in value and price or refuses the program, with
\* an error or the exception of an operator that only the guard runs.
NewValidatorsOnlyRefuse ==
    Replayed /\ budget.limit = first.limit /\ ~IsError(first.result)
             /\ first.extensions \subseteq job.extensions =>
        IsError(result) \/ (result = first.result /\ budget.used = first.used)

\* Whatever extensions two validators recognize, the one that recognizes more
\* refuses or agrees with the other in value and in price.
ValidatorsAgree == OldValidatorsAgree /\ NewValidatorsOnlyRefuse
=============================================================================
