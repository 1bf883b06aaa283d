------------------------------- MODULE Shell -------------------------------
(***************************************************************************)
(* The shell's debugger (bllsh): one bll evaluation held as a work item    *)
(* between commands, advanced by step, next, cont and trace.               *)
(*                                                                         *)
(* The work item is the machine of module BllMachine, which is never asked *)
(* to Return: the commands have loops of their own.  A step of the machine *)
(* inside a loop is an action here; a command begins at the prompt and     *)
(* goes back to it.  The element cap is armed by no command but spend,     *)
(* which disarms it before it ends.                                        *)
(***************************************************************************)
EXTENDS BllMachine

VARIABLES
    wi,         \* whether an expression is being debugged (self.wi is not None)
    command,    \* the command in progress, "prompt" between commands
    target,     \* do_next: the height to come back to
    below,      \* do_next: the stack it started from (of the model, for the properties)
    printed,    \* what ended the last expression debugged, Pending before it does
    raised      \* whether a step of it raised (of the model, for the properties)

shellVars == <<vars, wi, command, target, below, printed, raised>>


ShellInit ==
    /\ Init
    /\ wi = FALSE /\ command = "prompt" /\ target = 0 /\ below = <<>> /\ printed = Pending
    /\ raised = FALSE

\* do_blldebug: a fresh work item, with a budget of its own.
do_blldebug ==
    /\ command = "prompt" /\ ~wi
    /\ wi' = TRUE /\ printed' = Pending /\ raised' = FALSE
    /\ job' \in Jobs
    /\ \E limit \in Limits :
          LET c == begin(job', limit)
          IN  stack' = c.stack /\ budget' = c.budget /\ made' = c.made
    /\ UNCHANGED <<result, command, target, below>>

\* Mutant: get_result hands out whatever finished.
GetUngated(s) == s[1].args

\* get_result, and the gate that keeps function objects out of results.
GetResult(s) ==
    LET r == s[1].args
    IN  IF IsBll(r) \/ IsError(r) THEN r ELSE Error("program result contains a function object")

\* The work item is reported and discarded.
Report(r) == printed' = r /\ wi' = FALSE /\ command' = "prompt"

\* A command given to an item that has finished reports its result.
ReportFinished ==
    /\ command = "prompt" /\ wi /\ finished
    /\ Report(GetResult(stack))
    /\ UNCHANGED <<vars, target, below, raised>>

\* A command is given to an item that has not: its loop begins.
Give(c) ==
    /\ command = "prompt" /\ wi /\ ~finished
    /\ command' = c /\ target' = Len(stack) /\ below' = stack
    /\ UNCHANGED <<vars, wi, printed, raised>>

do_step  == Give("step")
do_next  == Give("next")
do_cont  == Give("cont")
do_trace == Give("trace")

\* Mutant: do_next goes on until the stack is lower than it was.
KeepGoingLower == command \in {"cont", "trace"} \/ (command = "next" /\ Len(stack') >= target)

\* do_next's loop goes on while the stack is higher than it was, the others' to
\* the end; step has none.
KeepGoing == command \in {"cont", "trace"} \/ (command = "next" /\ Len(stack') > target)

\* Mutant: the loops test only whether the work item has finished.
StepsUnlatched == KeepGoing /\ ~finished'

StepsAgain == KeepGoing /\ ~finished' /\ ~budget'.exhausted

\* What follows a step of the work item: the loop's condition, then
\* check_exhausted, then the report of a result (which do_step leaves to the
\* next command) or the prompt.  An exception comes before all of them.
AfterStep ==
    IF StepsAgain \/ Thrown(stack') THEN UNCHANGED <<wi, command, printed>>
    ELSE IF budget'.exhausted THEN Report(Error("budget exhausted"))
    ELSE IF finished' /\ command # "step" THEN Report(GetResult(stack'))
    ELSE command' = "prompt" /\ UNCHANGED <<wi, printed>>

\* What is on top only once a frame was lost: a guard's exit, whose step was to
\* be unreachable, or nothing, and a pop from nothing raises.
StepExitGuard == /\ Stepping("exitguard")
                 /\ Commit(error(Popped(Charged), "BUG? should be unreachable"))
StepNothing   == Looping /\ Commit(IF Ok(Charged) THEN Throw(Charged) ELSE Charged)

LoopStep ==
    /\ command # "prompt"
    /\ IF stack = <<>> THEN StepNothing ELSE Step \/ StepExitGuard
    /\ AfterStep
    /\ UNCHANGED <<target, below, raised>>

\* handle_exc: the command is over, the work item stays as the exception left it.
handle_exc ==
    /\ command # "prompt" /\ Thrown(stack)
    /\ stack' = Below(stack) /\ command' = "prompt" /\ raised' = TRUE
    /\ UNCHANGED <<job, budget, made, result, wi, target, below, printed>>

ShellNext ==
    \/ do_blldebug \/ ReportFinished
    \/ do_step \/ do_next \/ do_cont \/ do_trace
    \/ LoopStep \/ handle_exc

\* A command runs to its end; giving one is up to the user.
Running   == LoopStep \/ handle_exc
ShellSpec == ShellInit /\ [][ShellNext]_shellVars /\ WF_shellVars(Running)
-----------------------------------------------------------------------------
(***************************************************************************)
(* Properties.                                                             *)
(***************************************************************************)
\* The work item at hand between commands can be stepped or reported: it is
\* not latched, and has a frame unless an exception took it; nothing but a
\* debugged expression has a command running.
AtHand ==
    /\ wi /\ command = "prompt" => ~Latched(budget) /\ (stack # <<>> \/ raised)
    /\ command # "prompt" => wi /\ (Looping \/ Thrown(stack))
    /\ ~finished /\ wi => printed = Pending

\* README.md of next, "step through any sub evaluations": between commands an
\* expression is back where next was given.  The frames waiting for the value
\* of the one it was given at are as they were, unless an error has taken them
\* all, or that frame only handed its value to the one below, which took it.  An
\* expression that raised has lost a frame, and is not asked about.
Unwound(s) == Len(s) = 1 /\ IsError(s[1].args)
HandsOver(f) == f.fn.fn \in {"fin", "quote"}
SteppedOver(s) ==
    LET kept == IF HandsOver(Top(below)) THEN target - 2 ELSE target - 1
    IN  \/ Unwound(s)
        \/ /\ ~HandsOver(Top(below)) => Len(s) = target
           /\ \A i \in 1..kept : s[i] = below[i]

NextStepsOver ==
    [][command = "next" /\ command' = "prompt" /\ wi' /\ ~raised' => SteppedOver(stack')]_shellVars

\* Every command comes back to the prompt, a loop over an expression that never
\* ends included: its budget does.
ReturnsToPrompt == command # "prompt" ~> command = "prompt"
=============================================================================
