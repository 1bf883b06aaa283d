-------------------------- MODULE SpendVerdictProofs --------------------------
(***************************************************************************)
(* Proofs about the spend checker, for every spend, command, element cap   *)
(* and price: in which context a spend is evaluated, what its evaluation   *)
(* finds on the stack and in the budget that two decodes have left, and    *)
(* what the verdict says of a latch.  They stand on the invariant of       *)
(* BllMachineProofs, which an evaluation inside a spend keeps as one that  *)
(* begins on its own does.                                                 *)
(***************************************************************************)
EXTENDS SpendVerdict, AmountProofs

Phases == {"idle", "armed", "program", "environment", "evaluate"}

\* A budget between two phases of a check, before its evaluation: no guard.
Unguarded(b) == IsBudget(b) /\ b.allowances = <<>> /\ ~b.guard_breach

\* A decode that exhausted the budget has nothing to show for it.
DecodeTold == budget.exhausted => out = D!None

\* What eval returned agrees with the latches it left; an exception tells nothing.
EvalTold ==
    result # Pending =>
        /\ ~IsError(result) => ~Latched(budget)
        /\ budget.exhausted => result = Raises \/ (IsError(result) /\ result.msg = Spent)

\* The inductive invariant.
SpendInv ==
    /\ phase \in Phases
    /\ OwnContext
    /\ LatchTells
    /\ phase \in {"armed", "program", "environment"} => Unguarded(budget) /\ result = Pending
    /\ phase # "idle" => verdict = Undecided
    /\ phase = "armed" => ~Latched(budget)
    /\ phase \in {"program", "environment"} => DecodeTold
    /\ phase = "evaluate" => Inv /\ EvalTold

\* A charge outside any guard.
LEMMA ChargeUnguarded ==
    ASSUME NEW b, Unguarded(b), ~b.exhausted, NEW n
    PROVE  Unguarded(charge(b, n))
<1>1. IsBudget(charge(b, n))
  BY ChargeBudget DEF Unguarded, Exclusive
<1>2. charge(b, n).allowances = <<>> /\ ~charge(b, n).guard_breach
  BY DEF charge, ChargeOuter, Guarded, Unguarded, IsBudget
<1> QED
  BY <1>1, <1>2 DEF Unguarded

\* Construction in the decoder.
LEMMA ConstructUnguarded ==
    ASSUME NEW b, Unguarded(b), ~b.exhausted, NEW n
    PROVE  Unguarded(D!Construct(b, n)) /\ ~D!Construct(b, n).exhausted
<1>1. /\ IsBudget(latch_alloc_breach(b)) /\ ~latch_alloc_breach(b).exhausted
      /\ latch_alloc_breach(b).allowances = b.allowances
  BY LatchBudget DEF Unguarded
<1>2. ~latch_alloc_breach(b).guard_breach
  BY DEF Unguarded, IsBudget, latch_alloc_breach
<1>3. D!Construct(b, n) \in {b, latch_alloc_breach(b)}
  BY DEF D!Construct, D!latch_alloc_breach, latch_alloc_breach
<1> QED
  BY <1>1, <1>2, <1>3 DEF Unguarded

\* The decoder's instance of the budget is the budget.
LEMMA SameBudget ==
    /\ \A b : D!Latched(b) = Latched(b)
    /\ \A b, n : D!charge(b, n) = charge(b, n)
<1>1. \A b : D!Latched(b) = Latched(b)
  BY DEF D!Latched, Latched
<1>2. ASSUME NEW b, NEW n
      PROVE  D!charge(b, n) = charge(b, n)
  <2>1. D!ChargeAllowance(b, n) = ChargeAllowance(b, n)
    BY DEF D!ChargeAllowance, ChargeAllowance, D!Room, Room, D!Innermost, Innermost
  <2>2. D!ChargeOuter(b, n) = ChargeOuter(b, n)
    BY DEF D!ChargeOuter, ChargeOuter
  <2> QED
    BY <1>1, <2>1, <2>2 DEF D!charge, charge, D!Guarded, Guarded
<1> QED
  BY <1>1, <1>2

\* A decode under way has exhausted nothing.
LEMMA DecodeRuns ==
    ASSUME out = D!Pending, DecodeTold
    PROVE  ~budget.exhausted
BY DEF DecodeTold, D!Pending, D!None

\* The ways a token can end: an error, a refused charge, an element.
LEMMA FailTold ==
    ASSUME Unguarded(budget), out = D!Pending, DecodeTold, NEW msg, NEW consumed,
           D!Fail(msg, consumed)
    PROVE  Unguarded(budget') /\ DecodeTold'
<1>1. budget' = D!Construct(budget, 1)
  BY DEF D!Fail
<1> QED
  BY <1>1, DecodeRuns, ConstructUnguarded DEF DecodeTold

\* Reading one element more.
LEMMA ReadElementTold ==
    ASSUME Unguarded(budget), out = D!Pending, DecodeTold, NEW el, NEW n, NEW consumed,
           D!ReadElement(el, D!charge(budget, n), consumed)
    PROVE  Unguarded(budget') /\ DecodeTold'
<1> DEFINE b == D!charge(budget, n)
<1>1. Unguarded(b)
  BY DecodeRuns, ChargeUnguarded, SameBudget
<1> HIDE DEF b
<1>2. CASE D!Refuse(b)
  BY <1>1, <1>2 DEF D!Refuse, DecodeTold
<1>3. CASE D!Take(el, b, consumed)
  <2>1. ~b.exhausted
    BY <1>3, SameBudget DEF D!Take, Latched
  <2>2. budget' = D!Construct(b, D!Fresh(el))
    BY <1>3 DEF D!Take
  <2> QED
    BY <1>1, <2>1, <2>2, ConstructUnguarded DEF DecodeTold
<1> QED
  BY <1>2, <1>3 DEF D!ReadElement, b

\* A payload is one charge and one element.
LEMMA ReadPayloadTold ==
    ASSUME Unguarded(budget), out = D!Pending, DecodeTold, NEW at, NEW n,
           D!ReadPayload(at, n)
    PROVE  Unguarded(budget') /\ DecodeTold'
BY ReadElementTold DEF D!ReadPayload

\* A wide prefix is an error or a payload.
LEMMA ReadWideTold ==
    ASSUME Unguarded(budget), out = D!Pending, DecodeTold,
           NEW width, NEW n, NEW floor, D!ReadWide(width, n, floor)
    PROVE  Unguarded(budget') /\ DecodeTold'
<1>1. \/ \E msg, consumed : D!Fail(msg, consumed)
      \/ D!ReadPayload(pos + 1 + width, n)
  BY DEF D!ReadWide
<1> QED
  BY <1>1, FailTold, ReadPayloadTold

\* Whatever the decoder reads or delivers.
LEMMA DecodeStepTold ==
    ASSUME Unguarded(budget), DecodeTold, D!DecodeNext
    PROVE  Unguarded(budget') /\ DecodeTold'
<1>1. out = D!Pending
  <2>1. D!ReadEnd => D!Awaiting
    BY DEF D!ReadEnd
  <2>2. D!ReadCons \/ D!ReadNil \/ D!ReadSingle \/ D!ReadOversize => D!Reading
    BY DEF D!ReadCons, D!ReadNil, D!ReadSingle, D!ReadOversize
  <2>3. D!ReadShort => D!Reading
    BY DEF D!ReadShort
  <2>4. D!ReadMid \/ D!ReadLong => D!Reading
    BY DEF D!ReadMid, D!ReadLong
  <2>5. D!Place \/ D!Fold \/ D!Finish => D!Delivering
    BY DEF D!Place, D!Fold, D!Finish
  <2>6. D!Reading => D!Awaiting
    BY DEF D!Reading
  <2>7. D!Awaiting \/ D!Delivering
    BY <2>1, <2>2, <2>3, <2>4, <2>5, <2>6 DEF D!DecodeNext, D!Read, D!Deliver
  <2> QED
    BY <2>7 DEF D!Awaiting, D!Delivering
<1>2. ~budget.exhausted
  BY <1>1, DecodeRuns
<1>3. D!ElementPaid = D!charge(budget, D!RD_PER_ELEMENT)
  BY DEF D!ElementPaid
<1>4. CASE D!ReadEnd
  BY <1>1, <1>4, FailTold DEF D!ReadEnd
<1>5. CASE D!ReadCons
  <2>1. Unguarded(D!ElementPaid)
    BY <1>2, <1>3, SameBudget, ChargeUnguarded
  <2>2. CASE D!Refuse(D!ElementPaid)
    BY <2>1, <2>2 DEF D!Refuse, DecodeTold
  <2>3. CASE ~D!Latched(D!ElementPaid) /\ budget' = D!ElementPaid
    BY <2>1, <2>3, SameBudget DEF DecodeTold, Latched
  <2> QED
    BY <1>5, <2>2, <2>3 DEF D!ReadCons
<1>6. CASE D!ReadNil
  BY <1>1, <1>3, <1>6, ReadElementTold DEF D!ReadNil
<1>7. CASE D!ReadSingle
  BY <1>1, <1>3, <1>7, ReadElementTold DEF D!ReadSingle
<1>8. CASE D!ReadShort
  <2>1. \/ \E msg, consumed : D!Fail(msg, consumed)
        \/ \E n : D!ReadPayload(pos + 1, n)
    BY <1>8 DEF D!ReadShort
  <2> QED
    BY <1>1, <2>1, FailTold, ReadPayloadTold
<1>9. CASE D!ReadMid
  BY <1>1, <1>9, ReadWideTold DEF D!ReadMid
<1>10. CASE D!ReadLong
  BY <1>1, <1>10, ReadWideTold DEF D!ReadLong
<1>11. CASE D!ReadOversize
  BY <1>1, <1>11, FailTold DEF D!ReadOversize
<1>12. CASE D!Place
  BY <1>2, <1>12 DEF D!Place, DecodeTold
<1>13. CASE D!Fold
  <2>1. budget' = D!Construct(budget, 1)
    BY <1>13 DEF D!Fold
  <2> QED
    BY <1>2, <2>1, ConstructUnguarded DEF DecodeTold
<1>14. CASE D!Finish
  <2>1. \/ \E msg, consumed : D!Fail(msg, consumed)
        \/ budget' = budget
    BY <1>14 DEF D!Finish
  <2> QED
    BY <1>1, <1>2, <2>1, FailTold DEF DecodeTold
<1> QED
  BY <1>4, <1>5, <1>6, <1>7, <1>8, <1>9, <1>10, <1>11, <1>12, <1>13, <1>14
     DEF D!DecodeNext, D!Read, D!Deliver

\* A decode begins with a charge; the first finds a new budget, the second what
\* the first has left.
LEMMA CallTold ==
    ASSUME Unguarded(budget), ~budget.exhausted, NEW input, D!Call(input)
    PROVE  Unguarded(budget') /\ DecodeTold'
<1>1. Unguarded(budget')
  BY ChargeUnguarded, SameBudget DEF D!Call
<1>2. budget'.exhausted => out' = D!None
  BY SameBudget DEF D!Call, D!Opening, Latched
<1> QED
  BY <1>1, <1>2 DEF DecodeTold

-----------------------------------------------------------------------------
\* Evaluation.

\* An evaluation that begins in the budget and the span of two decodes.
LEMMA EvaluateInv ==
    ASSUME SpendInv, Evaluate
    PROVE  Inv' /\ EvalTold'
<1> DEFINE c == [Now EXCEPT !.stack = <<>>]
           d == eval_arg(c, job.program, out)
<1>1. /\ phase = "environment" /\ out # D!None /\ result = Pending
      /\ Unguarded(budget) /\ ~budget.exhausted
  BY DEF Evaluate, Element, SpendInv, DecodeTold
<1>2. stack' = d.stack /\ budget' = d.budget /\ made' = d.made /\ result' = Pending
  BY <1>1 DEF Evaluate
<1>3. /\ c \in [stack : {c.stack}, budget : {c.budget}, made : {c.made}]
      /\ c.stack = <<>> /\ c.budget = budget
  BY DEF Now
<1> HIDE DEF c
<1>4. Ready(c, budget) /\ Calm(c)
  <2>1. IsSeq(<<>>) /\ Receiving(<<>>)
    BY DEF IsSeq, Receiving
  <2> QED
    BY <1>1, <1>3, <2>1, NoExits
       DEF Ready, Open, IsConf, Exclusive, Frozen, Ahead, Unguarded, Calm
<1>5. Over(d, budget)
  BY <1>4, EvalOver
<1>6. ~d.budget.guard_breach
  <2> DEFINE e == Build(c, 1)
  <2>1. /\ ~e.budget.guard_breach
        /\ e \in [stack : {e.stack}, budget : {e.budget}, made : {e.made}]
    BY <1>1, <1>3, <1>4, BuildFields DEF Ready, Open, Unguarded
  <2> HIDE DEF e
  <2>2. d.budget = e.budget
    BY <2>1 DEF eval_arg, new_continuation, e
  <2> QED
    BY <2>1, <2>2
<1> HIDE DEF d
<1>7. Looping' => Ok(d)
  BY <1>2, <1>6 DEF Looping, Ok, Latched
<1> QED
  BY <1>2, <1>5, <1>6, <1>7 DEF Over, IsConf, Inv, EvalTold

\* What eval returns: an error for a latched budget, no latch on a value, or the
\* exception that left it.
LEMMA ReturnTold ==
    ASSUME Inv, Return
    PROVE  EvalTold'
<1>0. result = Pending /\ IsConf(Now) /\ Now.budget = budget /\ ~budget.guard_breach
  BY NowConf DEF Return, Inv
<1>1. result' = Outcome.value /\ budget' = Outcome.c.budget
  BY DEF Return
<1>2. ASSUME NEW msg
      PROVE  /\ Refusal(Now, msg).value = Error(msg)
             /\ IsError(Error(msg)) /\ Error(msg).msg = msg
  BY DEF Refusal, Answer, IsError, Error
<1>6. CASE Thrown(stack)
  <2>1. Outcome.value = Raises
    BY <1>6 DEF Outcome, Answer
  <2>2. IsError(Raises)
    BY DEF Raises, IsError, Error
  <2> QED
    BY <1>1, <2>1, <2>2 DEF EvalTold
<1>3. CASE budget.alloc_breach /\ ~Thrown(stack)
  <2>1. Outcome = Refusal(Now, "element allocation limit exceeded")
    BY <1>3 DEF Outcome
  <2>2. ~budget.exhausted
    BY <1>0, <1>3 DEF IsConf, Exclusive
  <2>3. ~Refusal(Now, "element allocation limit exceeded").c.budget.exhausted
    <3> DEFINE u == unwind(Now)
               v == Build(u, 1)
    <3>1. IsConf(u) /\ ~u.budget.exhausted
      BY <1>0, <2>2, UnwindCloses, ClearBudget DEF Closing, IsConf, Frozen
    <3>2. /\ ~v.budget.exhausted
          /\ v \in [stack : {v.stack}, budget : {v.budget}, made : {v.made}]
      BY <3>1, BuildConf DEF Calm, IsConf
    <3> HIDE DEF v
    <3> QED
      BY <3>2 DEF Refusal, Answer, v
  <2> QED
    BY <1>1, <1>2, <2>1, <2>3 DEF EvalTold
<1>4. CASE ~budget.alloc_breach /\ budget.exhausted /\ ~Thrown(stack)
  <2>1. Outcome = Refusal(Now, Spent)
    BY <1>4 DEF Outcome, Spent
  <2> QED
    BY <1>1, <1>2, <2>1 DEF EvalTold
<1>5. CASE ~Latched(budget) /\ ~Thrown(stack)
  <2> DEFINE w == Build(Now, 1)
             value == stack[1].args
             no == Error("program result contains a function object")
  <2>1. \/ Outcome = Answer(Now, value)
        \/ Outcome = Answer(w, no)
    BY <1>5 DEF Outcome, Latched
  <2>2. /\ Answer(Now, value).c.budget = budget
        /\ Answer(w, no).value = no
    BY <1>0 DEF Answer, IsConf
  <2>3. ~Answer(w, no).c.budget.exhausted
    <3>1. IsConf(w) /\ ~w.budget.exhausted
      BY <1>0, <1>5, BuildConf DEF Calm, Latched
    <3> HIDE DEF w
    <3> QED
      BY <3>1 DEF Answer, IsConf
  <2>4. IsError(no)
    BY DEF IsError, Error
  <2> QED
    BY <1>1, <1>5, <2>1, <2>2, <2>3, <2>4 DEF EvalTold, Latched
<1> QED
  BY <1>0, <1>3, <1>4, <1>5, <1>6 DEF Latched

\* Every step of the evaluation.
LEMMA EvalStepInv ==
    ASSUME Inv, EvalTold, Step \/ Return
    PROVE  Inv' /\ EvalTold'
<1>1. CASE Step
  <2>1. result = Pending
    BY <1>1 DEF Step, StepRefused, StepValue, StepOp, StepPartial, StepApply, StepSoftfork,
                StepBllEval, Stepping, Looping
  <2>2. result' = result
    BY <1>1 DEF Step, StepRefused, StepValue, StepOp, StepPartial, StepApply, StepSoftfork,
                StepBllEval, Commit
  <2> QED
    BY <1>1, <2>1, <2>2, StepPreserves DEF EvalTold
<1>2. CASE Return
  BY <1>2, ReturnPreserves, ReturnTold
<1> QED
  BY <1>1, <1>2

-----------------------------------------------------------------------------
\* The checker.

\* A verdict: its numbers are the budget's, and its reason is a latch's if one
\* is set.
LEMMA ConcludeInv ==
    ASSUME SpendInv, phase # "idle", NEW reason, Conclude(reason), IsBudget(budget),
           budget.alloc_breach => reason = Breached,
           budget.exhausted /\ ~budget.alloc_breach => reason = Spent
    PROVE  SpendInv'
<1>1. /\ phase' = "idle" /\ budget' = budget
      /\ verdict' = [reason |-> reason, used |-> budget.used, limit |-> budget.limit]
  BY DEF Conclude, vars
<1>2. budget.exhausted => budget.used = budget.limit
  BY DEF IsBudget, SpentInFull
<1>3. LatchTells'
  BY <1>1, <1>2 DEF LatchTells
<1>4. OwnContext' /\ phase' \in Phases
  BY <1>1 DEF OwnContext, Phases
<1> QED
  BY <1>1, <1>3, <1>4 DEF SpendInv

\* The reasons that stand for a latch.
LEMMA Reasons ==
    /\ budget.alloc_breach => BudgetReason = Breached
    /\ ~budget.alloc_breach => BudgetReason = Spent
    /\ \A reason : budget.alloc_breach => Reported(reason) = Breached
    /\ \A reason : ~budget.alloc_breach => Reported(reason) = reason
BY DEF BudgetReason, Reported, Breached, Spent

\* A decode that failed.
LEMMA DecodeRefusedInv ==
    ASSUME SpendInv, DecodeRefused
    PROVE  SpendInv'
<1>1. /\ phase \in {"program", "environment"} /\ phase # "idle"
      /\ IsBudget(budget) /\ DecodeTold
  BY DEF DecodeRefused, SpendInv, Unguarded
<1>2. CASE Conclude(BudgetReason)
  BY <1>1, <1>2, Reasons, ConcludeInv
<1>3. CASE IsError(out) /\ \E item : Conclude(Reported(item))
  <2>1. PICK item : Conclude(Reported(item))
    BY <1>3
  <2>2. ~budget.exhausted
    BY <1>1, <1>3 DEF DecodeTold, D!None, IsError
  <2> QED
    BY <1>1, <2>1, <2>2, Reasons, ConcludeInv
<1>4. Conclude(BudgetReason) \/ (IsError(out) /\ \E item : Conclude(Reported(item)))
  BY DEF DecodeRefused
<1> QED
  BY <1>2, <1>3, <1>4

\* An evaluation that returned, refused or accepted.
LEMMA EvalConcludedInv ==
    ASSUME SpendInv, EvalRefused \/ EvalAccepted
    PROVE  SpendInv'
<1>1. /\ phase = "evaluate" /\ phase # "idle" /\ result # Pending
      /\ IsBudget(budget) /\ EvalTold
  BY DEF EvalRefused, EvalAccepted, SpendInv, Inv
<1>2. CASE IsError(result) /\ result # Raises /\ Conclude(Reported(result.msg))
  <2>1. budget.exhausted => result.msg = Spent
    BY <1>1, <1>2 DEF EvalTold
  <2> QED
    BY <1>1, <1>2, <2>1, Reasons, ConcludeInv
<1>3. CASE ~IsError(result) /\ \E reason : Conclude(reason)
  <2>1. PICK reason : Conclude(reason)
    BY <1>3
  <2>2. ~budget.alloc_breach /\ ~budget.exhausted
    BY <1>1, <1>3 DEF EvalTold, Latched
  <2> QED
    BY <1>1, <2>1, <2>2, ConcludeInv
<1>4. \/ IsError(result) /\ result # Raises /\ Conclude(Reported(result.msg))
      \/ ~IsError(result) /\ \E reason : Conclude(reason)
  BY DEF EvalRefused, EvalAccepted
<1> QED
  BY <1>2, <1>3, <1>4

\* An evaluation that an exception left: there is no verdict to tell anything.
LEMMA EvalRaisesInv ==
    ASSUME SpendInv, EvalRaises
    PROVE  SpendInv'
<1>1. phase' = "idle" /\ verdict' = Undecided
  BY DEF EvalRaises, SpendInv
<1>2. LatchTells' /\ OwnContext' /\ phase' \in Phases
  BY <1>1 DEF LatchTells, Decided, OwnContext, Phases
<1> QED
  BY <1>1, <1>2 DEF SpendInv

\* No verdict while a check is under way, and nothing to tell without one.
LEMMA NothingToTell ==
    ASSUME phase' # "idle" \/ verdict'.limit = 0
    PROVE  LatchTells'
<1>1. CASE phase' # "idle"
  BY <1>1 DEF LatchTells, Decided
<1>2. CASE verdict'.limit = 0
  BY <1>2 DEF LatchTells, Decided
<1> QED
  BY <1>1, <1>2

\* What happens between two checks.
LEMMA IdleInv ==
    ASSUME SpendInv, SetGlobal \/ Reject \/ Arm
    PROVE  SpendInv'
<1>1. CASE SetGlobal
  <2>1. phase = "idle" /\ phase' = "idle" /\ verdict' = verdict /\ budget' = budget
    BY <1>1 DEF SetGlobal, vars
  <2> QED
    BY <2>1 DEF SpendInv, OwnContext, LatchTells, Decided, Phases, Undecided
<1>2. CASE Reject
  <2>1. phase' = "idle" /\ verdict'.limit = 0
    BY <1>2 DEF Reject
  <2>2. LatchTells'
    BY <2>1, NothingToTell
  <2> QED
    BY <2>1, <2>2 DEF SpendInv, OwnContext, Phases
<1>3. CASE Arm
  <2>1. /\ phase' = "armed" /\ context' = NoContext /\ result' = Pending
        /\ verdict' = Undecided /\ budget' = NewBudget(Limit(spend'))
    BY <1>3 DEF Arm, Cleared, D!Pending, Pending
  <2>2. LatchTells'
    BY <2>1, NothingToTell
  <2>3. Unguarded(budget') /\ ~Latched(budget')
    <3>1. IsSeq(<<>>)
      BY DEF IsSeq
    <3> QED
      BY <2>1, <3>1 DEF NewBudget, Unguarded, IsBudget, SpentInFull, Latched
  <2>4. OwnContext'
    BY <2>1 DEF OwnContext
  <2> QED
    BY <2>1, <2>2, <2>3, <2>4 DEF SpendInv, Phases
<1> QED
  BY <1>1, <1>2, <1>3

\* The two decodes.
LEMMA DecodingInv ==
    ASSUME SpendInv, DecodeProgram \/ DecodeStep \/ DecodeEnvironment
    PROVE  SpendInv'
<1>1. /\ phase' \in {"program", "environment"} /\ phase \in {"armed", "program", "environment"}
      /\ context' = context /\ result' = result /\ verdict' = verdict
  BY DEF DecodeProgram, DecodeStep, DecodeEnvironment
<1>2. Unguarded(budget) /\ result = Pending /\ context = NoContext /\ verdict = Undecided
  BY <1>1 DEF SpendInv, OwnContext
<1>3. Unguarded(budget') /\ DecodeTold'
  <2>1. CASE DecodeProgram
    <3>1. ~budget.exhausted
      BY <2>1 DEF DecodeProgram, SpendInv, Latched
    <3>2. \E input : D!Call(input)
      BY <2>1 DEF DecodeProgram
    <3> QED
      BY <1>2, <3>1, <3>2, CallTold
  <2>2. CASE DecodeStep
    <3>1. DecodeTold /\ D!DecodeNext
      BY <2>2 DEF DecodeStep, SpendInv
    <3> QED
      BY <1>2, <3>1, DecodeStepTold
  <2>3. CASE DecodeEnvironment
    <3>1. ~budget.exhausted
      BY <2>3 DEF DecodeEnvironment, Element, SpendInv, DecodeTold
    <3>2. \E input : D!Call(input)
      BY <2>3 DEF DecodeEnvironment
    <3> QED
      BY <1>2, <3>1, <3>2, CallTold
  <2> QED
    BY <2>1, <2>2, <2>3
<1>4. LatchTells' /\ OwnContext'
  BY <1>1, <1>2, NothingToTell DEF OwnContext
<1> QED
  BY <1>1, <1>2, <1>3, <1>4 DEF SpendInv, Phases

\* The evaluation inside a check.
LEMMA EvaluatingInv ==
    ASSUME SpendInv, Evaluate \/ EvalStep
    PROVE  SpendInv'
<1>1. phase' = "evaluate" /\ verdict' = Undecided
  BY DEF Evaluate, EvalStep, SpendInv
<1>2. Inv' /\ EvalTold'
  <2>1. CASE Evaluate
    BY <2>1, EvaluateInv
  <2>2. CASE EvalStep
    BY <2>2, EvalStepInv DEF EvalStep, SpendInv
  <2> QED
    BY <2>1, <2>2
<1>3. context' = SetContext(spend) /\ spend' = spend
  BY DEF Evaluate, EvalStep, SpendInv, OwnContext
<1>4. OwnContext'
  BY <1>1, <1>3 DEF OwnContext, SetContext
<1>5. LatchTells'
  BY <1>1, NothingToTell
<1> QED
  BY <1>1, <1>2, <1>4, <1>5 DEF SpendInv, Phases

\* The inductive invariant of the checker: the context of each phase, a budget
\* without guards until the evaluation, decodes and evaluations that agree with
\* their latches, the structure of the evaluator's stack inside a spend.
THEOREM SpendInvariant ==
    SpendSpec => []SpendInv
<1>1. SpendInit => SpendInv
  BY DEF SpendInit, SpendInv, OwnContext, LatchTells, Decided, Undecided, Phases
<1>2. SpendInv /\ [SpendNext]_spendVars => SpendInv'
  <2> SUFFICES ASSUME SpendInv, [SpendNext]_spendVars PROVE SpendInv'
    OBVIOUS
  <2>1. CASE SetGlobal \/ Reject \/ Arm
    BY <2>1, IdleInv
  <2>2. CASE DecodeProgram \/ DecodeStep \/ DecodeEnvironment
    BY <2>2, DecodingInv
  <2>3. CASE Evaluate \/ EvalStep
    BY <2>3, EvaluatingInv
  <2>4. CASE DecodeRefused
    BY <2>4, DecodeRefusedInv
  <2>5. CASE EvalRefused \/ EvalAccepted
    BY <2>5, EvalConcludedInv
  <2>7. CASE EvalRaises
    BY <2>7, EvalRaisesInv
  <2>6. CASE UNCHANGED spendVars
    <3>1. /\ UNCHANGED <<phase, spend, context, verdict, out, budget, result>>
          /\ UNCHANGED vars
      BY <2>6 DEF spendVars, vars
    <3>2. Inv => Inv'
      BY <3>1, NextInv DEF vars
    <3> QED
      BY <3>1, <3>2 DEF SpendInv, OwnContext, LatchTells, Decided, DecodeTold, EvalTold
  <2> QED
    BY <2>1, <2>2, <2>3, <2>4, <2>5, <2>6, <2>7 DEF SpendNext, Check
<1> QED
  BY <1>1, <1>2, PTL DEF SpendSpec

\* verify_spend clears the context globals before it decodes and sets all four
\* before it evaluates: no operator of a spend reads what another spend or a
\* command of the shell left behind.
THEOREM ContextIsOwn ==
    SpendSpec => []OwnContext
<1>1. SpendInv => OwnContext
  BY DEF SpendInv
<1> QED
  BY <1>1, SpendInvariant, PTL

\* A spend whose budget is latched, in whichever phase, is refused in the name of
\* the latch, and an exhausted one at its full limit: no result that raced the
\* latch, nor nil, nor an error of its own, becomes the verdict.
THEOREM LatchIsTold ==
    SpendSpec => []LatchTells
<1>1. SpendInv => LatchTells
  BY DEF SpendInv
<1> QED
  BY <1>1, SpendInvariant, PTL

\* Inside a spend, in the budget two decodes have left, the evaluator's frames
\* receive, its guards are paired and its latches exclude one another.
THEOREM SpendEvaluates ==
    SpendSpec => [](phase = "evaluate" =>
                       PendingFramesReceive /\ GuardsPaired /\ LatchesExclusive)
<1>1. Inv => PendingFramesReceive /\ GuardsPaired /\ LatchesExclusive
  BY InvReceives, InvPairs, InvExcludes
<1>2. SpendInv => (phase = "evaluate" =>
                      PendingFramesReceive /\ GuardsPaired /\ LatchesExclusive)
  BY <1>1 DEF SpendInv
<1> QED
  BY <1>2, SpendInvariant, PTL

-----------------------------------------------------------------------------
(***************************************************************************)
(* What a witness buys, and the bytes that two decodes read.               *)
(***************************************************************************)
SizeTurn(s, g, i) ==
    IF i = 0 THEN CompactSize(Len(s.stack))
    ELSE g[i-1] + CompactSize(s.stack[i].size) + s.stack[i].size
SizeTurns(s, n, g) == g = [i \in 0..n |-> SizeTurn(s, g, i)]

\* The sum of the sizes of a witness has its turns.
LEMMA SizeTurnsExist ==
    ASSUME NEW s, NEW n \in Nat
    PROVE  \E g : SizeTurns(s, n, g)
<1> DEFINE T == {m \in 0..n : \E g : SizeTurns(s, m, g)}
<1>1. 0 \in T
  <2>1. SizeTurns(s, 0, [i \in 0..0 |-> CompactSize(Len(s.stack))])
    BY DEF SizeTurns, SizeTurn
  <2> QED
    BY <2>1
<1>2. ASSUME NEW m \in 0..n, m # n, m \in T
      PROVE  m + 1 \in T
  <2>1. PICK g : SizeTurns(s, m, g)
    BY <1>2
  <2> DEFINE f == [i \in 0..m+1 |-> IF i = m + 1 THEN SizeTurn(s, g, i) ELSE g[i]]
  <2>2. \A i \in 0..m+1 : f[i] = SizeTurn(s, g, i)
    BY <2>1 DEF SizeTurns
  <2>3. \A i \in 0..m : f[i] = g[i]
    OBVIOUS
  <2>4. \A i \in 0..m+1 : i # 0 => i - 1 \in 0..m
    OBVIOUS
  <2> HIDE DEF f
  <2>5. \A i \in 0..m+1 : SizeTurn(s, f, i) = SizeTurn(s, g, i)
    BY <2>3, <2>4 DEF SizeTurn
  <2>6. f = [i \in 0..m+1 |-> f[i]]
    BY DEF f
  <2>7. SizeTurns(s, m + 1, f)
    BY <2>2, <2>5, <2>6 DEF SizeTurns
  <2> QED
    BY <1>2, <2>7
<1> HIDE DEF T
<1>3. n \in T
  BY <1>1, <1>2, Climb
<1> QED
  BY <1>3 DEF T

\* A spend that gets a budget.
Sound(s) == s \in Spends /\ Fault(s) = ""

\* A spend that got a budget has an environment and a leaf script, both part of
\* the witness that bought it.
LEMMA WitnessCovers ==
    ASSUME NEW s, Sound(s)
    PROVE  /\ leaf_script(s) \in Seq(0..255) /\ env_bytes(s) \in Seq(0..255)
           /\ WitnessSize(s) \in Nat
           /\ Len(leaf_script(s)) + Len(env_bytes(s)) <= WitnessSize(s)
<1> DEFINE n == Len(s.stack)
           g == CHOOSE f : SizeTurns(s, n, f)
<1>0. IsSeq(s.stack)
  BY WitnessAssumption, Zenon DEF Sound, IsSeq
<1>1. \A k \in 1..n : /\ s.stack[k].bytes \in Seq(0..255) /\ s.stack[k].size \in Nat
                      /\ Len(s.stack[k].bytes) <= s.stack[k].size
  BY WitnessAssumption, Zenon DEF Sound
<1>2. n \in Nat
  BY <1>0 DEF IsSeq
<1>3. Len(strip_annex(s.stack)) = 3
  BY Zenon DEF Sound, Fault
<1>4. /\ n >= 3
      /\ strip_annex(s.stack)[1] = s.stack[1] /\ strip_annex(s.stack)[2] = s.stack[2]
  <2> DEFINE whole == s.stack
             rest  == strip_annex(whole)
  <2>1. Len(rest) = 3 /\ IsSeq(whole)
    BY <1>0, <1>3
  <2>2. rest = whole \/ (Len(whole) >= 2 /\ rest = SubSeq(whole, 1, Len(whole) - 1))
    BY Zenon DEF strip_annex
  <2> HIDE DEF whole, rest
  <2>3. PICK S : whole \in Seq(S)
    BY <2>1 DEF IsSeq
  <2>4. Len(whole) >= 3 /\ rest[1] = whole[1] /\ rest[2] = whole[2]
    <3>1. CASE rest = whole
      <4>1. Len(whole) = 3 /\ rest[1] = whole[1] /\ rest[2] = whole[2]
        BY <2>1, <3>1, Zenon
      <4> QED
        BY <4>1
    <3>2. CASE Len(whole) >= 2 /\ rest = SubSeq(whole, 1, Len(whole) - 1)
      <4>1. Len(whole) \in Nat
        BY <2>3
      <4>2. /\ Len(SubSeq(whole, 1, Len(whole) - 1)) = Len(whole) - 1
            /\ \A k \in 1..Len(whole) - 1 : SubSeq(whole, 1, Len(whole) - 1)[k] = whole[k]
        BY <2>3, <3>2, <4>1
      <4>3. Len(rest) = Len(whole) - 1 /\ \A k \in 1..Len(whole) - 1 : rest[k] = whole[k]
        BY <3>2, <4>2, Zenon
      <4>4. Len(whole) = 4 /\ 1 \in 1..Len(whole) - 1 /\ 2 \in 1..Len(whole) - 1
        <5> DEFINE l == Len(whole)
        <5>1. l \in Nat /\ l - 1 = 3
          BY <2>1, <4>1, <4>3, Zenon
        <5> HIDE DEF l
        <5>2. l = 4 /\ 1 \in 1..l - 1 /\ 2 \in 1..l - 1
          BY <5>1
        <5> QED
          BY <5>2 DEF l
      <4> QED
        BY <4>3, <4>4
    <3> QED
      BY <2>2, <3>1, <3>2
  <2> QED
    BY <2>4 DEF whole, rest
<1>5. leaf_script(s) = s.stack[2].bytes /\ env_bytes(s) = s.stack[1].bytes
  BY <1>4 DEF leaf_script, env_bytes
<1>6. SizeTurns(s, n, g)
  BY <1>2, SizeTurnsExist
<1>7. WitnessSize(s) = g[n]
  BY DEF WitnessSize, SizeTurns, SizeTurn
<1> HIDE DEF g
<1>8. /\ g[0] = CompactSize(n)
      /\ \A k \in 0..n : k # n =>
            g[k+1] = g[k] + CompactSize(s.stack[k+1].size) + s.stack[k+1].size
  <2>1. \A k \in 0..n : g[k] = SizeTurn(s, g, k)
    BY <1>2, <1>6 DEF SizeTurns
  <2>2. 0 \in 0..n /\ \A k \in 0..n : k # n => k + 1 \in 0..n /\ k + 1 # 0 /\ (k + 1) - 1 = k
    BY <1>2
  <2> QED
    BY <2>1, <2>2 DEF SizeTurn
<1>9. \A m : CompactSize(m) \in Nat
  BY DEF CompactSize
<1>10. \A k \in 0..n : k # n => k + 1 \in 1..n /\ s.stack[k+1].size \in Nat
  BY <1>1, <1>2
<1> DEFINE a == s.stack[1].size
           b == s.stack[2].size
           T == {k \in 0..n : g[k] \in Nat /\ (k >= 1 => g[k] >= a) /\ (k >= 2 => g[k] >= a + b)}
<1>11. a \in Nat /\ b \in Nat /\ Len(s.stack[1].bytes) <= a /\ Len(s.stack[2].bytes) <= b
  BY <1>1, <1>2, <1>4
<1>12. \A k \in 0..n : k # n => (k = 0 => s.stack[k+1].size = a) /\ (k = 1 => s.stack[k+1].size = b)
  OBVIOUS
<1> HIDE DEF n, a, b
<1>13. \A k \in 0..n : k \in T
  <2>1. 0 \in T
    BY <1>2, <1>8, <1>9
  <2>2. ASSUME NEW k \in 0..n, k # n, k \in T
        PROVE  k + 1 \in T
    <3> DEFINE c == CompactSize(s.stack[k+1].size)
               z == s.stack[k+1].size
    <3>1. /\ c \in Nat /\ z \in Nat /\ g[k+1] = g[k] + c + z
          /\ k = 0 => z = a
          /\ k = 1 => z = b
          /\ k \in Nat /\ k + 1 \in 0..n
      BY <1>2, <1>8, <1>9, <1>10, <1>12, <2>2
    <3> HIDE DEF c, z
    <3> QED
      BY <1>11, <2>2, <3>1, SMTT(30)
  <2> HIDE DEF T
  <2> QED
    BY <1>2, <2>1, <2>2, Climb
<1>14. n \in T
  BY <1>2, <1>13
<1>15. g[n] \in Nat /\ g[n] >= a + b
  BY <1>2, <1>4, <1>14 DEF n
<1> DEFINE script == leaf_script(s)
           environment == env_bytes(s)
           x == s.stack[1].bytes
           y == s.stack[2].bytes
<1>16. x \in Seq(0..255) /\ y \in Seq(0..255) /\ Len(x) \in Nat /\ Len(y) \in Nat
  BY <1>1, <1>2, <1>4, SMTT(30) DEF n
<1>17. /\ script = y /\ environment = x /\ WitnessSize(s) = g[n]
       /\ Len(x) <= a /\ Len(y) <= b
  BY <1>5, <1>7, <1>11
<1> HIDE DEF x, y, script, environment
<1>18. Len(y) + Len(x) <= g[n]
  BY <1>11, <1>15, <1>16, <1>17
<1> QED
  BY <1>15, <1>16, <1>17, <1>18 DEF script, environment

\* The budget a spend is granted.
LEMMA Granted ==
    ASSUME NEW s, Sound(s)
    PROVE  /\ Limit(s) \in Nat /\ BUDGET_MAX \in Nat /\ 28000 <= Limit(s) /\ Limit(s) <= BUDGET_MAX
           /\ WitnessSize(s) <= MAX_BLOCK_WEIGHT => Limit(s) = 28000 + 560 * WitnessSize(s)
<1>1. WitnessSize(s) \in Nat /\ MAX_BLOCK_WEIGHT \in Nat
  BY WitnessCovers, BlockWeightAssumption
<1>2. /\ BUDGET_MAX = 28000 + 560 * MAX_BLOCK_WEIGHT
      /\ budget_for_witness_size(WitnessSize(s)) = 28000 + 560 * WitnessSize(s)
  BY DEF BUDGET_MAX, budget_for_witness_size, BUDGET_BASE, BUDGET_PER_WITNESS_BYTE
<1> QED
  BY <1>1, <1>2 DEF Limit, Lesser

-----------------------------------------------------------------------------
(***************************************************************************)
(* Amounts in the decodes: what has been counted is paid for, and the      *)
(* bytes that were read pay for it.                                        *)
(***************************************************************************)
\* A budget without guards and the elements counted beside it.
Purse(b, m) ==
    /\ Within(b) /\ ~Guarded(b) /\ m \in Nat /\ job.cap \in Nat
    /\ b.alloc_breach <=> m > job.cap

\* If the limit covers the whole input on top of what was spent before it, the
\* bytes up to a position cover what has been spent.
Covered(b, base, p) ==
    base + 336 * Len(data) <= b.limit => ~b.exhausted /\ b.used <= base + 336 * p

\* A decode: elements in its fields, every construction prepaid, and so much to
\* spare that the evaluation of its result is.
Walk(base) ==
    /\ data \in Seq(0..255) /\ pos \in 0..Len(data)
    /\ IsSeq(frames) /\ \A i \in 1..Len(frames) : frames[i] = D!Open \/ IsElement(frames[i])
    /\ hand = D!Nothing \/ IsElement(hand)
    /\ out \in {D!Pending, D!None} \/ IsErr(out) \/ IsElement(out)
    /\ Purse(budget, made) /\ 12 * made <= budget.used
    /\ out = D!Pending \/ IsElement(out) => 12 * (made + Len(frames)) + 48 <= budget.used
    /\ Covered(budget, base, pos)

\* The prices of a decode.
LEMMA DecodePrices == D!RD_BASE = 192 /\ D!RD_PER_ELEMENT = 336 /\ D!PayloadRate = 14
BY DEF D!RD_BASE, D!RD_PER_ELEMENT, D!PayloadRate, D!RD_PER_BYTE, D!MALLOC_PER_BYTE, D!ELEMENT_ALLOC

\* The decoder's elements are the evaluator's.
LEMMA SameElements ==
    /\ IsElement(D!Nil)
    /\ \A n \in Int : IsElement(D!Atom(n, 1))
    /\ \A b \in Seq(Nat) : IsElement(D!FromBytes(b))
    /\ \A l, r : IsElement(l) /\ IsElement(r) => IsElement(D!Cons(l, r))
    /\ \A msg : IsErr(D!Error(msg))
    /\ \A e : D!Fresh(e) \in {0, 1}
<1>1. \A b : D!FromBytes(b) = FromBytes(b)
  BY DEF D!FromBytes, FromBytes
<1>2. \A n, w : D!Atom(n, w) = Atom(n, w)
  <2>1. \A n, k : D!ByteOf(n, k) = ByteOf(n, k)
    BY DEF D!ByteOf, ByteOf, D!MaxIntBytes, MaxIntBytes
  <2> QED
    BY <1>1, <2>1, Zenon DEF D!Atom, Atom
<1>3. D!Nil = Nil
  BY <1>2 DEF D!Nil, Nil
<1>4. \A l, r : D!Cons(l, r) = Cons(l, r)
  BY DEF D!Cons, Cons, D!IsBll, IsBll
<1>5. \A msg : D!Error(msg) = Error(msg)
  BY DEF D!Error, Error
<1>6. \A e : D!Fresh(e) \in {0, 1}
  BY DEF D!Fresh
<1>7. IsElement(D!Nil)
  BY <1>3, Interned, ElementAtom
<1>8. ASSUME NEW n \in Int PROVE IsElement(D!Atom(n, 1))
  <2>1. 1 \in Nat
    OBVIOUS
  <2>2. IsWhole(Atom(n, 1))
    BY <2>1, NumberAtom
  <2> QED
    BY <1>2, <2>2, ElementAtom
<1>9. \A b \in Seq(Nat) : IsElement(D!FromBytes(b))
  BY <1>1, WholeBytes, ElementAtom
<1>10. \A l, r : IsElement(l) /\ IsElement(r) => IsElement(D!Cons(l, r))
  BY <1>4, ElementPair
<1>11. \A msg : IsErr(D!Error(msg))
  BY <1>5, ErrorIsErr
<1> QED
  BY <1>6, <1>7, <1>8, <1>9, <1>10, <1>11

\* None of what a decode says is an element, and no element is none of it.
LEMMA WalkKinds ==
    /\ \A e : IsElement(e) =>
          e # D!Pending /\ e # D!None /\ e # D!Nothing /\ e # D!Open /\ ~IsErr(e)
    /\ D!Pending # D!None /\ \A e : IsErr(e) => e # D!Pending /\ e # D!None
<1>1. ASSUME NEW e, IsElement(e)
      PROVE  e # D!Pending /\ e # D!None /\ e # D!Nothing /\ e # D!Open /\ ~IsErr(e)
  <2>1. (IsAtom(e) \/ IsCons(e) \/ IsFunc(e)) /\ ~IsError(e)
    BY <1>1, ElementKinds
  <2>2. e.kind \in {"atom", "bllcons", "symcons", "func"}
    BY <2>1 DEF IsAtom, IsCons, IsFunc
  <2>3. /\ D!Pending.kind = "pending" /\ D!None.kind = "none" /\ D!Nothing.kind = "nothing"
        /\ D!Open.kind = "open"
    BY DEF D!Pending, D!None, D!Nothing, D!Open
  <2>4. ~IsErr(e)
    <3>1. IsErr(e) => IsError(e)
      BY DEF IsErr, Error, IsError
    <3> QED
      BY <2>1, <3>1
  <2> QED
    BY <2>2, <2>3, <2>4
<1>2. D!Pending # D!None /\ \A e : IsErr(e) => e # D!Pending /\ e # D!None
  BY DEF D!Pending, D!None, IsErr, Error
<1> QED
  BY <1>1, <1>2

\* A charge for bytes that are there.
LEMMA ChargePurse ==
    ASSUME NEW b, NEW m, Purse(b, m), NEW base \in Nat, NEW p \in Nat, NEW q \in Nat, p <= q,
           Len(data) \in Nat, q <= Len(data), NEW n \in Nat, n <= 336 * (q - p), Covered(b, base, p)
    PROVE  LET c == D!charge(b, n)
           IN  /\ Purse(c, m) /\ Covered(c, base, q) /\ c.limit = b.limit
               /\ c.used \in Nat /\ b.used \in Nat /\ b.used <= c.used
               /\ ~D!Latched(c) => c.used = b.used + n
               /\ Latched(b) => c = b
               /\ ~Latched(b) /\ D!Latched(c) => ~(base + 336 * Len(data) <= b.limit)
<1> DEFINE c == charge(b, n)
<1>1. /\ Within(b) /\ ~Guarded(b) /\ b.limit \in Nat /\ b.used \in Nat /\ b.used <= b.limit
  BY WithinNumbers DEF Purse
<1>2. base + 336 * p <= base + 336 * q /\ base + 336 * q <= base + 336 * Len(data)
      /\ base + 336 * p + n <= base + 336 * q
  OBVIOUS
<1>3. CASE Latched(b)
  <2>1. c = b
    BY <1>3 DEF charge
  <2>2. Covered(b, base, q)
    BY <1>1, <1>2 DEF Covered
  <2> QED
    BY <1>1, <1>3, <2>1, <2>2, SameBudget
<1>4. CASE ~Latched(b)
  <2>1. /\ Within(c) /\ ~Guarded(c) /\ c.limit = b.limit /\ c.used >= b.used
        /\ c.alloc_breach = b.alloc_breach
        /\ ~Latched(c) <=> n <= b.limit - b.used
        /\ ~Latched(c) => c.used = b.used + n
    BY <1>1, <1>4, ChargeOutside
  <2> HIDE DEF c
  <2>2. c.used \in Nat
    BY <2>1, WithinNumbers
  <2>3. Purse(c, m)
    BY <2>1 DEF Purse
  <2>4. ASSUME base + 336 * Len(data) <= b.limit
        PROVE  ~Latched(c) /\ c.used <= base + 336 * q
    <3>1. b.used <= base + 336 * p
      BY <2>4 DEF Covered
    <3>2. n <= b.limit - b.used /\ b.used + n <= base + 336 * q
      BY <1>1, <1>2, <2>4, <3>1, SMTT(30)
    <3> QED
      BY <2>1, <3>2
  <2>5. Covered(c, base, q)
    BY <2>1, <2>4 DEF Covered, Latched
  <2> QED
    BY <1>1, <1>4, <2>1, <2>2, <2>3, <2>4, <2>5, SameBudget DEF c
<1> QED
  BY <1>3, <1>4

\* Construction in the decoder, counted and latched.
LEMMA ConstructPurse ==
    ASSUME NEW b, Purse(b, made), NEW k \in {0, 1}
    PROVE  LET c == D!Construct(b, k)
           IN  /\ Purse(c, made + k) /\ c.limit = b.limit /\ c.used = b.used
               /\ c.exhausted = b.exhausted
<1> DEFINE c == D!Construct(b, k)
<1>1. c = IF made + k > job.cap THEN latch_alloc_breach(b) ELSE b
  BY DEF D!Construct, D!latch_alloc_breach, latch_alloc_breach
<1>2. /\ Within(b) /\ ~Guarded(b) /\ made \in Nat /\ job.cap \in Nat
      /\ b.alloc_breach <=> made > job.cap
  BY DEF Purse
<1> HIDE DEF c
<1>3. CASE made + k > job.cap
  <2>1. /\ Within(c) /\ c.alloc_breach = TRUE /\ c.limit = b.limit /\ c.used = b.used
        /\ c.allowances = b.allowances /\ c.exhausted = b.exhausted
    BY <1>1, <1>2, <1>3, LatchWithin
  <2> QED
    BY <1>2, <1>3, <2>1 DEF Purse, Guarded, c
<1>4. CASE ~(made + k > job.cap)
  <2>1. c = b
    BY <1>1, <1>4
  <2>2. ~(made > job.cap) /\ made + k \in Nat
    BY <1>2, <1>4
  <2> QED
    BY <1>2, <1>4, <2>1, <2>2 DEF Purse, c
<1> QED
  BY <1>3, <1>4

\* What is known while a decode is under way.
LEMMA WalkUnderway ==
    ASSUME NEW base, Walk(base), out = D!Pending
    PROVE  /\ data \in Seq(0..255) /\ Len(data) \in Nat /\ pos \in Nat /\ pos <= Len(data)
           /\ IsSeq(frames) /\ Len(frames) \in Nat /\ made \in Nat
           /\ Purse(budget, made) /\ budget.used \in Nat /\ Covered(budget, base, pos)
           /\ 12 * (made + Len(frames)) + 48 <= budget.used
<1>1. /\ data \in Seq(0..255) /\ IsSeq(frames) /\ pos \in 0..Len(data) /\ made \in Nat
      /\ Purse(budget, made) /\ Covered(budget, base, pos)
      /\ 12 * (made + Len(frames)) + 48 <= budget.used
  BY DEF Walk, Purse
<1>2. Len(data) \in Nat /\ Len(frames) \in Nat
  BY <1>1 DEF IsSeq
<1>3. budget.used \in Nat
  BY <1>1, WithinNumbers DEF Purse
<1> QED
  BY <1>1, <1>2, <1>3

\* A refusal drops the pending pairs; its Error is prepaid.
LEMMA FailWalks ==
    ASSUME NEW base \in Nat, Walk(base), out = D!Pending,
           NEW msg, NEW consumed \in Nat, pos <= consumed, consumed <= Len(data),
           D!Fail(msg, consumed)
    PROVE  Walk(base)' /\ budget'.limit = budget.limit
<1>1. /\ data' = data /\ pos' = consumed /\ frames' = <<>> /\ hand' = D!Nothing
      /\ out' = D!Error(msg) /\ budget' = D!Construct(budget, 1) /\ made' = made + 1
      /\ job'.cap = job.cap
  BY DEF D!Fail
<1>2. /\ data \in Seq(0..255) /\ Len(data) \in Nat /\ pos \in Nat /\ made \in Nat
      /\ Len(frames) \in Nat /\ Purse(budget, made) /\ budget.used \in Nat
      /\ Covered(budget, base, pos) /\ 12 * (made + Len(frames)) + 48 <= budget.used
  BY WalkUnderway
<1>3. /\ Purse(budget', made + 1) /\ budget'.limit = budget.limit /\ budget'.used = budget.used
      /\ budget'.exhausted = budget.exhausted
  BY <1>1, <1>2, ConstructPurse
<1>4. IsErr(out') /\ ~IsElement(out') /\ out' # D!Pending
  BY <1>1, SameElements, WalkKinds
<1>5. Purse(budget, made)'
  BY <1>1, <1>3 DEF Purse
<1>6. 12 * made' <= budget'.used
  BY <1>1, <1>2, <1>3
<1>7. Covered(budget, base, pos)'
  <2>1. 336 * pos <= 336 * consumed
    BY <1>2
  <2> QED
    BY <1>1, <1>2, <1>3, <2>1 DEF Covered
<1>8. IsSeq(frames)' /\ pos' \in 0..Len(data)' /\ \A i \in 1..Len(frames') : FALSE
  <2>1. <<>> \in Seq({}) /\ Len(<<>>) = 0
    OBVIOUS
  <2> QED
    BY <1>1, <1>2, <2>1 DEF IsSeq
<1> QED
  BY <1>1, <1>2, <1>3, <1>4, <1>5, <1>6, <1>7, <1>8 DEF Walk

\* The next state of a decode that has another element to build.
LEMMA WalkOn ==
    ASSUME NEW base \in Nat, data' = data, job'.cap = job.cap, data \in Seq(0..255),
           pos' \in 0..Len(data), IsSeq(frames)',
           \A i \in 1..Len(frames') : frames'[i] = D!Open \/ IsElement(frames'[i]),
           hand' = D!Nothing \/ IsElement(hand'), out' = D!Pending \/ IsElement(out'),
           Purse(budget', made'), 12 * (made' + Len(frames')) + 48 <= budget'.used,
           Covered(budget', base, pos')
    PROVE  Walk(base)'
<1>1. Purse(budget, made)' /\ Covered(budget, base, pos)'
  BY DEF Purse, Covered
<1>2. made' \in Nat /\ Len(frames') \in Nat /\ budget'.used \in Nat
  BY WithinNumbers DEF Purse, IsSeq
<1>3. 12 * made' <= budget'.used
  BY <1>2, SMTT(30)
<1> QED
  BY <1>1, <1>3 DEF Walk

\* A charge that fails has nothing to build.
LEMMA RefuseWalks ==
    ASSUME NEW base \in Nat, Walk(base), out = D!Pending,
           NEW q \in Nat, pos <= q, q <= Len(data), NEW n \in Nat, n <= 336 * (q - pos),
           D!Refuse(D!charge(budget, n))
    PROVE  Walk(base)' /\ budget'.limit = budget.limit
<1> DEFINE c == D!charge(budget, n)
<1>1. /\ data \in Seq(0..255) /\ Len(data) \in Nat /\ pos \in Nat /\ pos <= Len(data)
      /\ Purse(budget, made) /\ budget.used \in Nat /\ Covered(budget, base, pos)
      /\ made \in Nat /\ Len(frames) \in Nat
      /\ 12 * (made + Len(frames)) + 48 <= budget.used
  BY WalkUnderway
<1>2. /\ Purse(c, made) /\ c.limit = budget.limit /\ c.used \in Nat /\ budget.used <= c.used
      /\ Latched(budget) => c = budget
      /\ ~Latched(budget) /\ D!Latched(c) => ~(base + 336 * Len(data) <= budget.limit)
  BY <1>1, ChargePurse
<1>3. /\ D!Latched(c) /\ out' = D!None /\ frames' = <<>> /\ budget' = c
      /\ data' = data /\ pos' = pos /\ hand' = hand /\ made' = made /\ job'.cap = job.cap
  BY DEF D!Refuse
<1> HIDE DEF c
<1>4. Covered(budget, base, pos)'
  BY <1>1, <1>2, <1>3, SMTT(30) DEF Covered
<1>5. Purse(budget, made)'
  BY <1>2, <1>3 DEF Purse
<1>6. IsSeq(frames)' /\ \A i \in 1..Len(frames') : FALSE
  <2>1. <<>> \in Seq({}) /\ Len(<<>>) = 0
    OBVIOUS
  <2> QED
    BY <1>3, <2>1 DEF IsSeq
<1>7. 12 * made' <= budget'.used
  BY <1>1, <1>2, <1>3, SMTT(30)
<1>8. out' \in {D!Pending, D!None} /\ out' # D!Pending /\ ~IsElement(out')
  BY <1>3, WalkKinds
<1>9. hand' = D!Nothing \/ IsElement(hand')
  BY <1>3 DEF Walk
<1> QED
  BY <1>1, <1>2, <1>3, <1>4, <1>5, <1>6, <1>7, <1>8, <1>9 DEF Walk

\* An element that is read has paid for itself with bytes of its own.
LEMMA TakeWalks ==
    ASSUME NEW base \in Nat, Walk(base), out = D!Pending, NEW el, IsElement(el),
           NEW q \in Nat, pos <= q, q <= Len(data), NEW n \in Nat, 336 <= n, n <= 336 * (q - pos),
           D!Take(el, D!charge(budget, n), q)
    PROVE  Walk(base)' /\ budget'.limit = budget.limit
<1> DEFINE c == D!charge(budget, n)
           k == D!Fresh(el)
<1>1. /\ data \in Seq(0..255) /\ Len(data) \in Nat /\ pos \in Nat /\ pos <= Len(data)
      /\ Purse(budget, made) /\ budget.used \in Nat /\ Covered(budget, base, pos)
      /\ made \in Nat /\ Len(frames) \in Nat /\ IsSeq(frames)
      /\ 12 * (made + Len(frames)) + 48 <= budget.used
  BY WalkUnderway
<1>2. /\ Purse(c, made) /\ c.limit = budget.limit /\ Covered(c, base, q)
      /\ ~D!Latched(c) => c.used = budget.used + n
  BY <1>1, ChargePurse
<1>3. /\ ~D!Latched(c) /\ hand' = el /\ pos' = q /\ budget' = D!Construct(c, k)
      /\ made' = made + k /\ data' = data /\ frames' = frames /\ job'.cap = job.cap
      /\ out' = out
  BY DEF D!Take
<1>4. k \in {0, 1}
  BY SameElements
<1> HIDE DEF c, k
<1>5. /\ Purse(budget', made') /\ budget'.limit = c.limit /\ budget'.used = c.used
      /\ budget'.exhausted = c.exhausted
  BY <1>2, <1>3, <1>4, ConstructPurse
<1>6. Covered(budget', base, pos')
  BY <1>2, <1>3, <1>5 DEF Covered
<1>7. 12 * (made' + Len(frames')) + 48 <= budget'.used
  <2> DEFINE f == Len(frames)
             u == budget.used
  <2>1. f \in Nat /\ u \in Nat /\ 12 * (made + f) + 48 <= u /\ made \in Nat
    BY <1>1
  <2>2. budget'.used = u + n /\ made' = made + k /\ Len(frames') = f
    BY <1>2, <1>3, <1>5
  <2> HIDE DEF f, u
  <2> QED
    BY <1>4, <2>1, <2>2
<1>8. pos' \in 0..Len(data)
  BY <1>1, <1>3
<1>9. \A i \in 1..Len(frames') : frames'[i] = D!Open \/ IsElement(frames'[i])
  BY <1>3 DEF Walk
<1>10. IsSeq(frames)'
  BY <1>1, <1>3 DEF IsSeq
<1> QED
  BY <1>1, <1>2, <1>3, <1>5, <1>6, <1>7, <1>8, <1>9, <1>10, WalkOn

\* A read refuses or takes.
LEMMA ReadElementWalks ==
    ASSUME NEW base \in Nat, Walk(base), out = D!Pending, NEW el, IsElement(el),
           NEW q \in Nat, pos <= q, q <= Len(data), NEW n \in Nat, 336 <= n, n <= 336 * (q - pos),
           D!ReadElement(el, D!charge(budget, n), q)
    PROVE  Walk(base)' /\ budget'.limit = budget.limit
<1>1. CASE D!Refuse(D!charge(budget, n))
  BY <1>1, RefuseWalks
<1>2. CASE D!Take(el, D!charge(budget, n), q)
  BY <1>2, TakeWalks
<1> QED
  BY <1>1, <1>2 DEF D!ReadElement

\* A payload of n bytes behind at least one byte of prefix.
LEMMA ReadPayloadWalks ==
    ASSUME NEW base \in Nat, Walk(base), out = D!Pending, NEW at \in Nat, pos < at,
           NEW n \in Nat, D!Available(at, n), D!ReadPayload(at, n)
    PROVE  Walk(base)' /\ budget'.limit = budget.limit
<1>1. data \in Seq(0..255) /\ Len(data) \in Nat /\ pos \in Nat
  BY WalkUnderway
<1> DEFINE q == at + n
           price == D!RD_PER_ELEMENT + D!PayloadRate * n
           payload == D!Payload(at, n)
<1>2. q \in Nat /\ pos <= q /\ q <= Len(data) /\ pos + 1 + n <= q
  BY <1>1 DEF D!Available
<1>3. price = 336 + 14 * n
  BY DecodePrices
<1>4. D!ReadElement(payload, D!charge(budget, price), q)
  BY DEF D!ReadPayload
<1>5. IsElement(payload)
  <2> DEFINE part == SubSeq(data, at + 1, at + n)
  <2>1. at + 1 \in Nat /\ at + n \in Nat
    OBVIOUS
  <2>2. data \in Seq(Nat)
    <3> DEFINE B == 0..255
    <3>1. data \in Seq(B) /\ \A x \in B : x \in Nat
      BY <1>1
    <3> HIDE DEF B
    <3> QED
      BY <3>1
  <2>3. part \in Seq(Nat)
    <3>1. \A i \in at + 1..at + n : i \in 1..Len(data)
      BY <1>1, <1>2
    <3> QED
      BY <2>1, <2>2, <3>1
  <2> HIDE DEF part
  <2>4. payload = D!FromBytes(part)
    BY DEF D!Payload, part
  <2> QED
    BY <2>3, <2>4, SameElements
<1> HIDE DEF q, price, payload
<1>6. price \in Nat /\ 336 <= price /\ price <= 336 * (q - pos)
  BY <1>1, <1>2, <1>3
<1> QED
  BY <1>2, <1>4, <1>5, <1>6, ReadElementWalks

\* A wide prefix ends in one of four ways.
LEMMA ReadWideWalks ==
    ASSUME NEW base \in Nat, Walk(base), out = D!Pending, pos < Len(data),
           NEW width \in Nat, NEW n, NEW floor, D!Available(pos + 1, width) => n \in Nat,
           D!ReadWide(width, n, floor)
    PROVE  Walk(base)' /\ budget'.limit = budget.limit
<1> DEFINE at == pos + 1 + width
<1>1. Len(data) \in Nat /\ pos \in Nat
  BY WalkUnderway
<1>2. pos + 1 \in Nat /\ pos <= pos + 1 /\ pos + 1 <= Len(data) /\ at \in Nat /\ pos < at
      /\ pos <= at
  BY <1>1
<1>3. CASE ~D!Available(pos + 1, width)
  <2>1. D!Fail("witness element truncated", pos + 1)
    BY <1>3 DEF D!ReadWide
  <2> QED
    BY <1>2, <2>1, FailWalks
<1>4. CASE D!Available(pos + 1, width) /\ D!Narrower(n, floor)
  <2>1. D!Fail("wide length prefix", at)
    BY <1>4 DEF D!ReadWide
  <2>2. at <= Len(data)
    BY <1>4 DEF D!Available
  <2> HIDE DEF at
  <2> QED
    BY <1>2, <2>1, <2>2, FailWalks
<1>5. CASE D!Available(pos + 1, width) /\ ~D!Narrower(n, floor) /\ ~D!Available(at, n)
  <2>1. D!Fail("witness element truncated", at)
    BY <1>5 DEF D!ReadWide
  <2>2. at <= Len(data)
    BY <1>5 DEF D!Available
  <2> HIDE DEF at
  <2> QED
    BY <1>2, <2>1, <2>2, FailWalks
<1>6. CASE D!Available(pos + 1, width) /\ ~D!Narrower(n, floor) /\ D!Available(at, n)
  <2>1. D!ReadPayload(at, n)
    BY <1>6 DEF D!ReadWide
  <2> HIDE DEF at
  <2> QED
    BY <1>2, <1>6, <2>1, ReadPayloadWalks
<1> QED
  BY <1>3, <1>4, <1>5, <1>6

\* A pair is paid for by the byte of its marker before either child is read.
LEMMA ReadConsWalks ==
    ASSUME NEW base \in Nat, Walk(base), out = D!Pending, D!ReadCons
    PROVE  Walk(base)' /\ budget'.limit = budget.limit
<1> DEFINE c == D!charge(budget, 336)
           q == pos + 1
<1>1. /\ data \in Seq(0..255) /\ Len(data) \in Nat /\ pos \in Nat /\ pos <= Len(data)
      /\ Purse(budget, made) /\ budget.used \in Nat /\ Covered(budget, base, pos)
      /\ made \in Nat /\ Len(frames) \in Nat /\ IsSeq(frames)
      /\ 12 * (made + Len(frames)) + 48 <= budget.used
  BY WalkUnderway
<1>2. q \in Nat /\ pos <= q /\ q <= Len(data) /\ 336 <= 336 * (q - pos) /\ 336 \in Nat
  <2>1. pos < Len(data)
    BY DEF D!ReadCons, D!Reading
  <2> QED
    BY <1>1, <2>1
<1>3. D!ElementPaid = c
  BY DecodePrices DEF D!ElementPaid
<1>4. CASE D!Refuse(c)
  BY <1>2, <1>4, RefuseWalks
<1>5. CASE ~D!Refuse(c)
  <2>1. /\ ~D!Latched(c) /\ budget' = c /\ frames' = Append(frames, D!Open) /\ pos' = q
        /\ data' = data /\ hand' = hand /\ made' = made /\ job'.cap = job.cap /\ out' = out
    BY <1>3, <1>5 DEF D!ReadCons
  <2>2. Purse(c, made) /\ c.limit = budget.limit /\ Covered(c, base, q) /\ c.used = budget.used + 336
    BY <1>1, <1>2, <2>1, ChargePurse, SMTT(30)
  <2> HIDE DEF c, q
  <2>3. PICK S : frames \in Seq(S)
    BY <1>1 DEF IsSeq
  <2>4. /\ IsSeq(frames') /\ Len(frames') = Len(frames) + 1
        /\ \A i \in 1..Len(frames) : frames'[i] = frames[i]
        /\ frames'[Len(frames) + 1] = D!Open
    <3>1. frames \in Seq(S \cup {D!Open})
      BY <2>3
    <3> QED
      BY <2>1, <3>1 DEF IsSeq
  <2>5. \A i \in 1..Len(frames') : frames'[i] = D!Open \/ IsElement(frames'[i])
    <3>1. \A i \in 1..Len(frames) : frames[i] = D!Open \/ IsElement(frames[i])
      BY DEF Walk
    <3>2. \A i \in 1..Len(frames') : i \in 1..Len(frames) \/ i = Len(frames) + 1
      BY <1>1, <2>4
    <3> QED
      BY <2>4, <3>1, <3>2
  <2>6. 12 * (made' + Len(frames')) + 48 <= budget'.used
    <3> DEFINE f == Len(frames)
               u == budget.used
    <3>1. f \in Nat /\ u \in Nat /\ 12 * (made + f) + 48 <= u /\ made \in Nat
      BY <1>1
    <3>2. budget'.used = u + 336 /\ made' = made /\ Len(frames') = f + 1
      BY <2>1, <2>2, <2>4
    <3> HIDE DEF f, u
    <3> QED
      BY <3>1, <3>2
  <2>7. hand' = D!Nothing \/ IsElement(hand')
    BY <2>1 DEF Walk
  <2>8. pos' \in 0..Len(data) /\ IsSeq(frames)'
    BY <1>1, <1>2, <2>1, <2>4 DEF IsSeq
  <2>9. Purse(budget', made') /\ Covered(budget', base, pos') /\ budget'.limit = budget.limit
    BY <2>1, <2>2
  <2> QED
    BY <1>1, <2>1, <2>5, <2>6, <2>7, <2>8, <2>9, WalkOn
<1> QED
  BY <1>4, <1>5

\* Every token the decoder reads is paid for by its bytes.
LEMMA ReadWalks ==
    ASSUME NEW base \in Nat, Walk(base), out = D!Pending, D!Read
    PROVE  Walk(base)' /\ budget'.limit = budget.limit
<1>1. data \in Seq(0..255) /\ Len(data) \in Nat /\ pos \in Nat /\ pos <= Len(data)
  BY WalkUnderway
<1>2. \A k \in 1..Len(data) : data[k] \in Nat
  <2> DEFINE B == 0..255
  <2>1. data \in Seq(B) /\ \A x \in B : x \in Nat
    BY <1>1
  <2> HIDE DEF B
  <2> QED
    BY <2>1, ElementOfSeq
<1> DEFINE q == pos + 1
<1>3. ASSUME D!Reading
      PROVE  /\ D!Marker \in Nat /\ pos < Len(data) /\ q \in Nat /\ pos <= q /\ pos < q
             /\ q <= Len(data) /\ 336 <= 336 * (q - pos)
  <2>1. pos < Len(data)
    BY <1>3 DEF D!Reading
  <2>2. q \in 1..Len(data) /\ q \in Nat /\ pos <= q /\ pos < q /\ q <= Len(data)
        /\ 336 <= 336 * (q - pos)
    BY <1>1, <2>1
  <2> QED
    BY <1>2, <2>1, <2>2 DEF D!Marker
<1>4. D!ElementPaid = D!charge(budget, 336) /\ 336 \in Nat
  BY DecodePrices DEF D!ElementPaid
<1>5. CASE D!ReadEnd
  <2>1. D!Fail("witness element truncated", pos)
    BY <1>5 DEF D!ReadEnd
  <2>2. pos <= pos
    BY <1>1
  <2> QED
    BY <1>1, <2>1, <2>2, FailWalks
<1>6. CASE D!ReadCons
  BY <1>6, ReadConsWalks
<1>7. CASE D!ReadNil
  <2>1. D!Reading /\ D!ReadElement(D!Nil, D!charge(budget, 336), q)
    BY <1>4, <1>7 DEF D!ReadNil
  <2> HIDE DEF q
  <2> QED
    BY <1>3, <1>4, <2>1, SameElements, ReadElementWalks
<1>8. CASE D!ReadSingle
  <2>1. D!Reading /\ D!ReadElement(D!Atom(D!Marker, 1), D!charge(budget, 336), q)
    BY <1>4, <1>8 DEF D!ReadSingle
  <2>2. IsElement(D!Atom(D!Marker, 1))
    BY <1>3, <2>1, SameElements
  <2> HIDE DEF q
  <2> QED
    BY <1>3, <1>4, <2>1, <2>2, ReadElementWalks
<1>9. CASE D!ReadShort
  <2> DEFINE n == D!Marker - 128
  <2>1. D!Reading /\ 128 < D!Marker
    BY <1>9 DEF D!ReadShort
  <2>2. n \in Nat
    BY <1>3, <2>1
  <2>3. \/ \E msg : D!Fail(msg, q)
        \/ D!Available(q, n) /\ D!ReadPayload(q, n)
    BY <1>9, ZenonT(40) DEF D!ReadShort
  <2> HIDE DEF n, q
  <2>4. CASE \E msg : D!Fail(msg, q)
    BY <1>3, <2>1, <2>4, FailWalks
  <2>5. CASE D!Available(q, n) /\ D!ReadPayload(q, n)
    BY <1>3, <2>1, <2>2, <2>5, ReadPayloadWalks
  <2> QED
    BY <2>3, <2>4, <2>5
<1>10. CASE D!ReadMid
  <2> DEFINE n == (D!Marker - 192) * 256 + data[pos + 2]
  <2>1. D!Reading /\ 192 <= D!Marker /\ D!ReadWide(1, n, D!SHORT_MAX)
    BY <1>10 DEF D!ReadMid
  <2>2. D!Available(pos + 1, 1) => n \in Nat
    <3>1. HAVE D!Available(pos + 1, 1)
    <3>2. pos + 2 \in 1..Len(data)
      BY <1>1, <3>1 DEF D!Available
    <3>3. data[pos + 2] \in Nat
      BY <1>2, <3>2
    <3>4. D!Marker - 192 \in Nat
      BY <1>3, <2>1
    <3> QED
      BY <3>3, <3>4
  <2> HIDE DEF n
  <2>3. pos < Len(data) /\ 1 \in Nat
    BY <1>3, <2>1
  <2> QED
    BY <2>1, <2>2, <2>3, ReadWideWalks
<1>11. CASE D!ReadLong
  <2> DEFINE n == (D!Marker - 224) * 65536 + data[pos + 2] * 256 + data[pos + 3]
  <2>1. D!Reading /\ 224 <= D!Marker /\ D!ReadWide(2, n, D!MID_MAX)
    BY <1>11 DEF D!ReadLong
  <2>2. D!Available(pos + 1, 2) => n \in Nat
    <3>1. HAVE D!Available(pos + 1, 2)
    <3>2. pos + 2 \in 1..Len(data) /\ pos + 3 \in 1..Len(data)
      BY <1>1, <3>1 DEF D!Available
    <3>3. data[pos + 2] \in Nat /\ data[pos + 3] \in Nat
      BY <1>2, <3>2
    <3>4. D!Marker - 224 \in Nat
      BY <1>3, <2>1, SMTT(30)
    <3> QED
      BY <3>3, <3>4
  <2> HIDE DEF n
  <2>3. pos < Len(data) /\ 2 \in Nat
    BY <1>3, <2>1
  <2> QED
    BY <2>1, <2>2, <2>3, ReadWideWalks
<1>12. CASE D!ReadOversize
  <2>1. D!Reading /\ D!Fail("witness element atom too large", q)
    BY <1>12 DEF D!ReadOversize
  <2> HIDE DEF q
  <2> QED
    BY <1>3, <2>1, FailWalks
<1> QED
  BY <1>5, <1>6, <1>7, <1>8, <1>9, <1>10, <1>11, <1>12 DEF D!Read

\* The left child takes the place of the marker of its pair.
LEMMA PlaceWalks ==
    ASSUME NEW base \in Nat, Walk(base), D!Place
    PROVE  Walk(base)' /\ budget'.limit = budget.limit
<1>1. out = D!Pending /\ hand # D!Nothing /\ frames # <<>>
  BY DEF D!Place, D!Delivering
<1>2. /\ data \in Seq(0..255) /\ Len(data) \in Nat /\ pos \in Nat /\ pos <= Len(data)
      /\ Purse(budget, made) /\ Covered(budget, base, pos) /\ Len(frames) \in Nat
      /\ IsSeq(frames) /\ 12 * (made + Len(frames)) + 48 <= budget.used
  BY <1>1, WalkUnderway
<1>3. /\ frames' = [frames EXCEPT ![Len(frames)] = hand] /\ hand' = D!Nothing
      /\ data' = data /\ pos' = pos /\ budget' = budget /\ made' = made /\ out' = out
      /\ job'.cap = job.cap
  BY DEF D!Place
<1>4. PICK S : frames \in Seq(S)
  BY <1>2 DEF IsSeq
<1>5. frames \in Seq(S \cup {hand}) /\ Len(frames) \in 1..Len(frames)
  BY <1>1, <1>2, <1>4
<1>6. frames' \in Seq(S \cup {hand}) /\ Len(frames') = Len(frames)
  BY <1>3, <1>5
<1>7. IsSeq(frames)'
  BY <1>6 DEF IsSeq
<1>8. \A i \in 1..Len(frames') : frames'[i] = D!Open \/ IsElement(frames'[i])
  <2>1. IsElement(hand) /\ \A i \in 1..Len(frames) : frames[i] = D!Open \/ IsElement(frames[i])
    BY <1>1 DEF Walk
  <2>2. \A i \in 1..Len(frames) : frames'[i] = frames[i] \/ frames'[i] = hand
    BY <1>3, <1>5
  <2> QED
    BY <1>6, <2>1, <2>2
<1>9. /\ Purse(budget', made') /\ 12 * (made' + Len(frames')) + 48 <= budget'.used
      /\ Covered(budget', base, pos') /\ pos' \in 0..Len(data)
  BY <1>2, <1>3, <1>6
<1> QED
  BY <1>1, <1>2, <1>3, <1>7, <1>8, <1>9, WalkOn

\* The pair is built from the charge its marker paid.
LEMMA FoldWalks ==
    ASSUME NEW base \in Nat, Walk(base), D!Fold
    PROVE  Walk(base)' /\ budget'.limit = budget.limit
<1>1. out = D!Pending /\ hand # D!Nothing /\ frames # <<>> /\ D!Top # D!Open
  BY DEF D!Fold, D!Delivering
<1>2. /\ data \in Seq(0..255) /\ Len(data) \in Nat /\ pos \in Nat /\ pos <= Len(data)
      /\ Purse(budget, made) /\ Covered(budget, base, pos) /\ Len(frames) \in Nat
      /\ IsSeq(frames) /\ made \in Nat /\ 12 * (made + Len(frames)) + 48 <= budget.used
  BY <1>1, WalkUnderway
<1> DEFINE m == Len(frames) - 1
<1>3. /\ hand' = D!Cons(D!Top, hand) /\ frames' = SubSeq(frames, 1, m)
      /\ budget' = D!Construct(budget, 1) /\ made' = made + 1
      /\ data' = data /\ pos' = pos /\ out' = out /\ job'.cap = job.cap
  BY DEF D!Fold
<1>4. PICK S : frames \in Seq(S)
  BY <1>2 DEF IsSeq
<1>5. Len(frames) \in 1..Len(frames) /\ m \in Nat /\ m + 1 = Len(frames)
  BY <1>1, <1>2, <1>4
<1>6. frames' \in Seq(S) /\ Len(frames') = m /\ \A i \in 1..m : frames'[i] = frames[i]
  <2> HIDE DEF m
  <2> DEFINE low == SubSeq(frames, 1, m)
  <2>1. low \in Seq(S) /\ Len(low) = m /\ \A i \in 1..m : low[i] = frames[i]
    BY <1>4, <1>5
  <2> HIDE DEF low
  <2>2. frames' = low
    BY <1>3 DEF low
  <2> QED
    BY <2>1, <2>2
<1>7. IsSeq(frames)'
  BY <1>6 DEF IsSeq
<1>8. IsElement(hand) /\ \A i \in 1..Len(frames) : frames[i] = D!Open \/ IsElement(frames[i])
  BY <1>1 DEF Walk
<1>9. \A i \in 1..Len(frames') : frames'[i] = D!Open \/ IsElement(frames'[i])
  <2>1. \A i \in 1..m : i \in 1..Len(frames)
    BY <1>5
  <2> QED
    BY <1>6, <1>8, <2>1
<1>10. IsElement(hand')
  <2>1. IsElement(D!Top)
    BY <1>1, <1>5, <1>8 DEF D!Top
  <2> QED
    BY <1>3, <1>8, <2>1, SameElements
<1>11. /\ Purse(budget', made') /\ budget'.limit = budget.limit /\ budget'.used = budget.used
       /\ budget'.exhausted = budget.exhausted
  BY <1>2, <1>3, ConstructPurse
<1>12. Covered(budget', base, pos') /\ pos' \in 0..Len(data)
  BY <1>2, <1>3, <1>11 DEF Covered
<1>13. 12 * (made' + Len(frames')) + 48 <= budget'.used
  <2>1. made' + Len(frames') = made + Len(frames)
    <3> DEFINE f == Len(frames)
    <3>1. made' = made + 1 /\ Len(frames') = m
      BY <1>3, <1>6
    <3>2. made \in Nat /\ m \in Nat /\ f = m + 1
      <4>1. f \in Nat /\ m = f - 1
        BY <1>2
      <4> HIDE DEF f, m
      <4> QED
        BY <1>2, <1>5, <4>1
    <3> HIDE DEF f, m
    <3>3. made' + Len(frames') = made + f
      BY <3>1, <3>2
    <3> QED
      BY <3>3 DEF f
  <2> QED
    BY <1>2, <1>11, <2>1
<1> QED
  BY <1>1, <1>2, <1>3, <1>7, <1>9, <1>10, <1>11, <1>12, <1>13, WalkOn

\* The element that nothing waits for is the result, or there are bytes left.
LEMMA FinishWalks ==
    ASSUME NEW base \in Nat, Walk(base), D!Finish
    PROVE  Walk(base)' /\ budget'.limit = budget.limit
<1>1. out = D!Pending /\ hand # D!Nothing
  BY DEF D!Finish, D!Delivering
<1>2. /\ data \in Seq(0..255) /\ Len(data) \in Nat /\ pos \in Nat /\ pos <= Len(data)
      /\ Purse(budget, made) /\ Covered(budget, base, pos) /\ IsSeq(frames)
      /\ 12 * (made + Len(frames)) + 48 <= budget.used /\ pos <= pos
  BY <1>1, WalkUnderway
<1>3. \/ \E msg : D!Fail(msg, pos)
      \/ /\ out' = hand /\ hand' = D!Nothing /\ data' = data /\ pos' = pos
         /\ frames' = frames /\ budget' = budget /\ made' = made /\ job'.cap = job.cap
  BY DEF D!Finish
<1>4. CASE \E msg : D!Fail(msg, pos)
  BY <1>1, <1>2, <1>4, FailWalks
<1>5. CASE /\ out' = hand /\ hand' = D!Nothing /\ data' = data /\ pos' = pos
           /\ frames' = frames /\ budget' = budget /\ made' = made /\ job'.cap = job.cap
  <2>1. /\ IsElement(hand)
        /\ \A i \in 1..Len(frames) : frames[i] = D!Open \/ IsElement(frames[i])
    BY <1>1 DEF Walk
  <2>2. IsSeq(frames)' /\ pos' \in 0..Len(data)
    BY <1>2, <1>5 DEF IsSeq
  <2> QED
    BY <1>2, <1>5, <2>1, <2>2, WalkOn
<1> QED
  BY <1>3, <1>4, <1>5

\* A step of a decode.
LEMMA DecodeStepWalks ==
    ASSUME NEW base \in Nat, Walk(base), D!DecodeNext
    PROVE  Walk(base)' /\ budget'.limit = budget.limit
<1>1. CASE D!Read
  <2>1. D!ReadEnd => D!Awaiting
    BY DEF D!ReadEnd
  <2>2. D!ReadCons \/ D!ReadNil \/ D!ReadSingle \/ D!ReadOversize => D!Reading
    BY DEF D!ReadCons, D!ReadNil, D!ReadSingle, D!ReadOversize
  <2>3. D!ReadShort => D!Reading
    BY DEF D!ReadShort
  <2>4. D!ReadMid \/ D!ReadLong => D!Reading
    BY DEF D!ReadMid, D!ReadLong
  <2>5. D!Reading => D!Awaiting
    BY DEF D!Reading
  <2>6. D!Awaiting => out = D!Pending
    BY DEF D!Awaiting
  <2>7. out = D!Pending
    BY <1>1, <2>1, <2>2, <2>3, <2>4, <2>5, <2>6 DEF D!Read
  <2> QED
    BY <1>1, <2>7, ReadWalks
<1>2. CASE D!Deliver
  BY <1>2, PlaceWalks, FoldWalks, FinishWalks DEF D!Deliver
<1> QED
  BY <1>1, <1>2 DEF D!DecodeNext

\* A limit that covers an input has room for the charge on entry as well.
Enough(base, input) ==
    base + 336 * Len(input) <= budget.limit => ~budget.exhausted /\ budget.used + 192 <= base

\* A decode begins: the charge on entry pays for what evaluation will need.
LEMMA CallWalks ==
    ASSUME NEW input \in Seq(0..255), NEW base \in Nat, D!Call(input), Purse(budget, made),
           12 * made <= budget.used, Enough(base, input)
    PROVE  Walk(base)' /\ budget'.limit = budget.limit
<1> DEFINE c == D!charge(budget, 192)
<1>1. /\ data' = input /\ pos' = 0 /\ frames' = <<>> /\ hand' = D!Nothing /\ budget' = c
      /\ out' = D!Opening(c) /\ made' = made /\ job'.cap = job.cap
  BY DecodePrices DEF D!Call
<1>2. /\ Within(budget) /\ ~Guarded(budget) /\ budget.limit \in Nat /\ budget.used \in Nat
      /\ budget.used <= budget.limit /\ made \in Nat
  BY WithinNumbers DEF Purse
<1>3. c = charge(budget, 192)
  BY SameBudget
<1> HIDE DEF c
<1>4. /\ Purse(c, made) /\ c.limit = budget.limit /\ budget.used <= c.used /\ c.used \in Nat
      /\ ~Latched(c) => ~Latched(budget) /\ c.used = budget.used + 192
      /\ ~budget.exhausted /\ budget.used + 192 <= budget.limit
            => ~c.exhausted /\ c.used <= budget.used + 192
  <2>1. CASE Latched(budget)
    <3>1. c = budget
      BY <1>3, <2>1 DEF charge
    <3> QED
      BY <1>2, <2>1, <3>1
  <2>2. CASE ~Latched(budget)
    <3>1. /\ Within(c) /\ ~Guarded(c) /\ c.limit = budget.limit /\ c.used >= budget.used
          /\ c.alloc_breach = budget.alloc_breach
          /\ ~Latched(c) <=> 192 <= budget.limit - budget.used
          /\ ~Latched(c) => c.used = budget.used + 192
      <4>1. 192 \in Nat
        OBVIOUS
      <4> DEFINE d == charge(budget, 192)
      <4>2. /\ Within(d) /\ ~Guarded(d) /\ d.limit = budget.limit /\ d.used >= budget.used
            /\ d.alloc_breach = budget.alloc_breach
            /\ ~Latched(d) <=> 192 <= budget.limit - budget.used
            /\ ~Latched(d) => d.used = budget.used + 192
        BY <1>2, <2>2, <4>1, ChargeOutside
      <4>3. c = d
        BY <1>3
      <4> HIDE DEF d
      <4> QED
        BY <4>2, <4>3
    <3>2. c.used \in Nat
      BY <3>1, WithinNumbers
    <3>3. budget.used + 192 <= budget.limit => ~Latched(c) /\ ~c.exhausted
      BY <1>2, <3>1 DEF Latched
    <3> QED
      BY <1>2, <2>2, <3>1, <3>2, <3>3 DEF Purse
  <2> QED
    BY <2>1, <2>2
<1>5. out' \in {D!Pending, D!None} /\ (out' = D!Pending => ~Latched(c)) /\ ~IsElement(out')
  BY <1>1, SameBudget, WalkKinds DEF D!Opening
<1>6. Len(input) \in Nat /\ IsSeq(frames)' /\ Len(frames') = 0
  <2>1. <<>> \in Seq({}) /\ Len(<<>>) = 0
    OBVIOUS
  <2> QED
    BY <1>1, <2>1 DEF IsSeq
<1>7. Purse(budget, made)' /\ 12 * made' <= budget'.used
  BY <1>1, <1>2, <1>4 DEF Purse
<1>8. out' = D!Pending => 12 * (made' + Len(frames')) + 48 <= budget'.used
  BY <1>1, <1>2, <1>4, <1>5, <1>6
<1>9. Covered(budget, base, pos)'
  <2> SUFFICES ASSUME base + 336 * Len(input) <= c.limit
               PROVE  ~c.exhausted /\ c.used <= base
    BY <1>1 DEF Covered
  <2>1. ~budget.exhausted /\ budget.used + 192 <= base
    BY <1>4 DEF Enough
  <2>2. budget.used + 192 <= budget.limit
    BY <1>2, <1>4, <1>6, <2>1
  <2> QED
    BY <1>2, <1>4, <2>1, <2>2
<1>10. /\ \A i \in 1..Len(frames') : FALSE
       /\ pos' \in 0..Len(data')
  BY <1>1, <1>6
<1> QED
  BY <1>1, <1>4, <1>5, <1>6, <1>7, <1>8, <1>9, <1>10 DEF Walk

\* No step of a decode changes what it decodes.
LEMMA DecodeData ==
    ASSUME D!DecodeNext
    PROVE  data' = data
<1>1. \A msg, consumed : D!Fail(msg, consumed) => data' = data
  BY DEF D!Fail
<1>2. \A c : D!Refuse(c) => data' = data
  BY DEF D!Refuse
<1>3. \A el, c, q : D!ReadElement(el, c, q) => data' = data
  BY <1>2 DEF D!ReadElement, D!Take
<1>4. \A at, n : D!ReadPayload(at, n) => data' = data
  BY <1>3 DEF D!ReadPayload
<1>5. \A width, n, floor : D!ReadWide(width, n, floor) => data' = data
  BY <1>1, <1>4 DEF D!ReadWide
<1>6. CASE D!Read
  <2>1. D!ReadEnd \/ D!ReadOversize => data' = data
    BY <1>1 DEF D!ReadEnd, D!ReadOversize
  <2>2. D!ReadCons => data' = data
    BY <1>2 DEF D!ReadCons
  <2>3. D!ReadNil \/ D!ReadSingle => data' = data
    BY <1>3 DEF D!ReadNil, D!ReadSingle
  <2>4. D!ReadShort => data' = data
    BY <1>1, <1>4 DEF D!ReadShort
  <2>5. D!ReadMid \/ D!ReadLong => data' = data
    BY <1>5 DEF D!ReadMid, D!ReadLong
  <2> QED
    BY <1>6, <2>1, <2>2, <2>3, <2>4, <2>5 DEF D!Read
<1>7. CASE D!Deliver
  <2>1. D!Finish => data' = data
    BY <1>1 DEF D!Finish
  <2> QED
    BY <1>7, <2>1 DEF D!Deliver, D!Place, D!Fold
<1> QED
  BY <1>6, <1>7 DEF D!DecodeNext

-----------------------------------------------------------------------------
(***************************************************************************)
(* Amounts in a spend.                                                     *)
(***************************************************************************)
\* What a decode reads, and what both entries and everything read before it
\* can have cost.
Item == IF phase = "program" THEN leaf_script(spend) ELSE env_bytes(spend)
Ceiling == IF phase = "program" THEN 192 ELSE 384 + 336 * Len(leaf_script(spend))

Decoding == \E base \in Nat : base = Ceiling /\ Walk(base) /\ data = Item

JobFields == {"program", "env", "cap", "extensions", "context"}

\* In every phase: a budget within bounds and within the largest one, a latch
\* that says whether the cap is crossed, every counted construction paid for, and
\* a context that the operators know their answers in.
Counted ==
    /\ DOMAIN job = JobFields /\ job.cap \in Nat /\ job.context \in DOMAIN Views
    /\ made \in Nat /\ Within(budget) /\ (budget.alloc_breach <=> made > job.cap)
    /\ 12 * made <= budget.used /\ budget.limit <= BUDGET_MAX

VerdictPaid ==
    verdict.used \in Nat /\ verdict.limit \in Nat /\ verdict.used <= verdict.limit

\* The inductive invariant: what the witness has bought, and what is left of it
\* when the evaluation begins.
SpendFunds ==
    /\ Counted /\ VerdictPaid
    /\ phase # "idle" => Sound(spend) /\ budget.limit = Limit(spend)
    /\ phase = "armed" => made = 0 /\ budget.used = 0 /\ ~Latched(budget) /\ ~Guarded(budget)
    /\ phase \in {"program", "environment"} => Decoding
    /\ phase = "environment" => IsElement(job.program)
    /\ phase = "evaluate" => Funded(24)

\* A new budget.
LEMMA NewWithin ==
    ASSUME NEW n \in Nat
    PROVE  /\ Within(NewBudget(n)) /\ ~Guarded(NewBudget(n)) /\ ~Latched(NewBudget(n))
           /\ ~NewBudget(n).alloc_breach /\ NewBudget(n).used = 0 /\ NewBudget(n).limit = n
<1> DEFINE b == NewBudget(n)
<1>1. /\ b \in [limit : {b.limit}, used : {b.used}, allowances : {b.allowances},
                exhausted : BOOLEAN, guard_breach : BOOLEAN, alloc_breach : BOOLEAN]
      /\ b.limit = n /\ b.used = 0 /\ b.allowances = <<>> /\ ~b.guard_breach
      /\ ~b.alloc_breach /\ ~b.exhausted
  BY DEF NewBudget
<1> HIDE DEF b
<1>2. <<>> \in Seq(Allowance) /\ Len(<<>>) = 0
  OBVIOUS
<1>3. Within(b) /\ ~Guarded(b) /\ ~Latched(b)
  BY <1>1, <1>2 DEF Within, Guarded, Latched
<1> QED
  BY <1>1, <1>3 DEF b

\* No context and the context of a sound spend are contexts that have answers.
LEMMA KnownContexts ==
    /\ NoContext \in DOMAIN Views
    /\ \A s : Sound(s) => SetContext(s) \in DOMAIN Views
BY ContextAssumption DEF Sound

\* A machine without a program.
LEMMA UnevaluatedFields ==
    ASSUME NEW cap
    PROVE  /\ DOMAIN Unevaluated(cap) = JobFields /\ Unevaluated(cap).cap = cap
           /\ Unevaluated(cap).context \in DOMAIN Views
BY KnownContexts DEF Unevaluated, JobFields

\* The largest budget is a number.
LEMMA LargestBudget == BUDGET_MAX \in Nat
BY BlockWeightAssumption
   DEF BUDGET_MAX, budget_for_witness_size, BUDGET_BASE, BUDGET_PER_WITNESS_BYTE

\* What a decode says of the count.
LEMMA WalkCounted ==
    ASSUME Decoding, DOMAIN job = JobFields, job.context \in DOMAIN Views,
           budget.limit <= BUDGET_MAX
    PROVE  Counted
BY DEF Decoding, Walk, Purse, Counted

\* Nothing is spent before the first check.
LEMMA InitFunds == SpendInit => SpendFunds
<1> SUFFICES ASSUME SpendInit PROVE SpendFunds
  OBVIOUS
<1>1. /\ phase = "idle" /\ verdict = Undecided /\ made = 0 /\ budget = NewBudget(0)
      /\ job = Unevaluated(0)
  BY DEF SpendInit
<1>2. /\ Within(budget) /\ ~budget.alloc_breach /\ budget.used = 0 /\ budget.limit = 0
  BY <1>1, NewWithin
<1>3. DOMAIN job = JobFields /\ job.cap = 0 /\ job.context \in DOMAIN Views
  BY <1>1, UnevaluatedFields
<1>4. Counted
  BY <1>1, <1>2, <1>3, LargestBudget DEF Counted
<1>5. VerdictPaid
  BY <1>1 DEF VerdictPaid, Undecided
<1> QED
  BY <1>1, <1>4, <1>5 DEF SpendFunds

\* What happens between two checks.
LEMMA IdleFunds ==
    ASSUME SpendFunds, SetGlobal \/ Reject \/ Arm
    PROVE  SpendFunds'
<1>1. CASE SetGlobal
  <2>1. /\ phase = "idle" /\ phase' = "idle" /\ verdict' = verdict /\ budget' = budget
        /\ made' = made /\ job' = job
    BY <1>1 DEF SetGlobal, vars
  <2>2. Counted' /\ VerdictPaid'
    BY <2>1 DEF SpendFunds, Counted, VerdictPaid
  <2> QED
    BY <2>1, <2>2 DEF SpendFunds
<1>2. CASE Reject
  <2>1. /\ phase' = "idle" /\ verdict'.used = 0 /\ verdict'.limit = 0
        /\ budget' = NewBudget(0) /\ made' = 0
        /\ job' = Unevaluated(0)
    BY <1>2, Zenon DEF Reject
  <2>2. /\ Within(budget') /\ ~budget'.alloc_breach /\ budget'.used = 0 /\ budget'.limit = 0
    BY <2>1, NewWithin
  <2>3. DOMAIN job' = JobFields /\ job'.cap = 0 /\ job'.context \in DOMAIN Views
    BY <2>1, UnevaluatedFields
  <2>4. Counted'
    BY <2>1, <2>2, <2>3, LargestBudget DEF Counted
  <2>5. VerdictPaid'
    BY <2>1 DEF VerdictPaid
  <2> QED
    BY <2>1, <2>4, <2>5 DEF SpendFunds
<1>3. CASE Arm
  <2>1. /\ phase' = "armed" /\ verdict' = Undecided /\ budget' = NewBudget(Limit(spend'))
        /\ made' = 0
        /\ \E cap \in ElementCaps : job' = Unevaluated(cap)
    BY <1>3, Zenon DEF Arm, arm_element_cap
  <2>2. Sound(spend')
    BY <1>3, Zenon DEF Arm, Sound
  <2>3. Limit(spend') \in Nat /\ Limit(spend') <= BUDGET_MAX
    BY <2>2, Granted
  <2>4. /\ Within(budget') /\ ~Guarded(budget') /\ ~Latched(budget') /\ ~budget'.alloc_breach
        /\ budget'.used = 0 /\ budget'.limit = Limit(spend')
    BY <2>1, <2>3, NewWithin
  <2>5. DOMAIN job' = JobFields /\ job'.cap \in Nat /\ job'.context \in DOMAIN Views
    BY <2>1, UnevaluatedFields, ElementCapAssumption
  <2>6. Counted'
    BY <2>1, <2>3, <2>4, <2>5, LargestBudget DEF Counted
  <2>7. VerdictPaid'
    BY <2>1 DEF VerdictPaid, Undecided
  <2>8. Sound(spend)' /\ budget'.limit = Limit(spend)'
    BY <2>2, <2>4, Zenon
  <2>9. ~Latched(budget)' /\ ~Guarded(budget)'
    BY <2>4 DEF Latched, Guarded
  <2> QED
    BY <2>1, <2>4, <2>6, <2>7, <2>8, <2>9 DEF SpendFunds
<1> QED
  BY <1>1, <1>2, <1>3

\* The first decode: nothing is spent but the charge on entry.
LEMMA DecodeProgramFunds ==
    ASSUME SpendFunds, DecodeProgram
    PROVE  SpendFunds'
<1>1. /\ phase = "armed" /\ phase' = "program" /\ spend' = spend /\ verdict' = verdict
      /\ job' = job /\ D!Call(leaf_script(spend))
  BY DEF DecodeProgram
<1>2. /\ Counted /\ VerdictPaid /\ Sound(spend) /\ budget.limit = Limit(spend)
      /\ made = 0 /\ budget.used = 0 /\ ~Latched(budget) /\ ~Guarded(budget)
  BY <1>1 DEF SpendFunds
<1>3. leaf_script(spend) \in Seq(0..255)
  BY <1>2, WitnessCovers
<1>4. Purse(budget, made) /\ 12 * made <= budget.used /\ ~budget.exhausted
      /\ budget.used + 192 <= 192
  BY <1>2 DEF Counted, Purse, Latched
<1>5. Walk(192)' /\ budget'.limit = budget.limit
  <2>1. 192 \in Nat /\ Enough(192, leaf_script(spend))
    BY <1>4 DEF Enough
  <2> QED
    BY <1>1, <1>3, <1>4, <2>1, CallWalks
<1>6. data' = leaf_script(spend)
  BY <1>1 DEF D!Call
<1>7. Item' = leaf_script(spend) /\ Ceiling' = 192
  <2>1. Item' = leaf_script(spend')
    BY <1>1, Zenon DEF Item
  <2>2. Ceiling' = 192
    BY <1>1, Zenon DEF Ceiling
  <2> QED
    BY <1>1, <2>1, <2>2
<1>8. Decoding'
  <2>1. 192 \in Nat /\ 192 = Ceiling' /\ data' = Item'
    BY <1>6, <1>7
  <2> QED
    BY <1>5, <2>1 DEF Decoding
<1>9. Counted'
  <2>1. /\ DOMAIN job' = JobFields /\ job'.context \in DOMAIN Views
        /\ budget'.limit <= BUDGET_MAX
    BY <1>1, <1>2, <1>5 DEF Counted
  <2> QED
    BY <1>8, <2>1 DEF Decoding, Walk, Purse, Counted
<1>10. Sound(spend)' /\ budget'.limit = Limit(spend)' /\ VerdictPaid'
  <2>1. Sound(spend') /\ budget'.limit = Limit(spend')
    BY <1>1, <1>2, <1>5
  <2>2. VerdictPaid'
    BY <1>1, <1>2 DEF VerdictPaid
  <2> QED
    BY <2>1, <2>2, Zenon
<1> QED
  BY <1>1, <1>8, <1>9, <1>10 DEF SpendFunds

\* A step of either decode.
LEMMA DecodeStepFunds ==
    ASSUME SpendFunds, DecodeStep
    PROVE  SpendFunds'
<1>1. /\ phase \in {"program", "environment"} /\ phase' = phase /\ spend' = spend
      /\ verdict' = verdict /\ job' = job /\ D!DecodeNext
  BY DEF DecodeStep
<1>2. Counted /\ VerdictPaid /\ Decoding /\ Sound(spend) /\ budget.limit = Limit(spend)
  BY <1>1 DEF SpendFunds
<1>3. PICK base \in Nat : base = Ceiling /\ Walk(base) /\ data = Item
  BY <1>2 DEF Decoding
<1>4. Walk(base)' /\ budget'.limit = budget.limit /\ data' = data
  BY <1>1, <1>3, DecodeStepWalks, DecodeData
<1>5. Item' = Item /\ Ceiling' = Ceiling
  BY <1>1, ZenonT(40) DEF Item, Ceiling
<1>6. Decoding'
  <2>1. base = Ceiling' /\ data' = Item'
    BY <1>3, <1>4, <1>5
  <2> QED
    BY <1>4, <2>1 DEF Decoding
<1>7. Counted'
  <2>1. /\ DOMAIN job' = JobFields /\ job'.context \in DOMAIN Views
        /\ budget'.limit <= BUDGET_MAX
    BY <1>1, <1>2, <1>4 DEF Counted
  <2> QED
    BY <1>6, <2>1 DEF Decoding, Walk, Purse, Counted
<1>8. Sound(spend)' /\ budget'.limit = Limit(spend)' /\ VerdictPaid'
  <2>1. Sound(spend') /\ budget'.limit = Limit(spend')
    BY <1>1, <1>2, <1>4
  <2>2. VerdictPaid'
    BY <1>1, <1>2 DEF VerdictPaid
  <2> QED
    BY <2>1, <2>2, Zenon
<1>9. phase' = "environment" => IsElement(job'.program)
  BY <1>1 DEF SpendFunds
<1> QED
  BY <1>1, <1>6, <1>7, <1>8, <1>9 DEF SpendFunds

\* What a decode that has its element leaves.
LEMMA DecodedElement ==
    ASSUME Decoding, Element(out)
    PROVE  /\ IsElement(out) /\ 12 * made + 48 <= budget.used
           /\ Purse(budget, made) /\ budget.used \in Nat /\ made \in Nat
<1>1. PICK base \in Nat : Walk(base)
  BY DEF Decoding
<1>2. out # D!Pending /\ out # D!None /\ ~IsErr(out)
  BY DEF Element, IsErr, Error, IsError
<1>3. IsElement(out)
  BY <1>1, <1>2 DEF Walk
<1>4. /\ Purse(budget, made) /\ IsSeq(frames) /\ made \in Nat
      /\ 12 * (made + Len(frames)) + 48 <= budget.used
  BY <1>1, <1>3 DEF Walk, Purse
<1>5. Len(frames) \in Nat /\ budget.used \in Nat
  BY <1>4, WithinNumbers DEF Purse, IsSeq
<1> QED
  BY <1>3, <1>4, <1>5

\* The second decode begins with what the first has left.
LEMMA DecodeEnvironmentFunds ==
    ASSUME SpendFunds, DecodeEnvironment
    PROVE  SpendFunds'
<1>1. /\ phase = "program" /\ phase' = "environment" /\ spend' = spend /\ verdict' = verdict
      /\ job' = [job EXCEPT !.program = out] /\ Element(out) /\ D!Call(env_bytes(spend))
  BY DEF DecodeEnvironment
<1>2. Counted /\ VerdictPaid /\ Decoding /\ Sound(spend) /\ budget.limit = Limit(spend)
  BY <1>1 DEF SpendFunds
<1> DEFINE script == leaf_script(spend)
           environment == env_bytes(spend)
<1>3. /\ script \in Seq(0..255) /\ environment \in Seq(0..255)
  BY <1>2, WitnessCovers
<1>4. Item = script /\ Ceiling = 192
  BY <1>1, Zenon DEF Item, Ceiling
<1>5. Walk(192) /\ data = script
  BY <1>2, <1>4 DEF Decoding
<1>6. /\ IsElement(out) /\ 12 * made + 48 <= budget.used /\ Purse(budget, made)
      /\ budget.used \in Nat /\ made \in Nat
  BY <1>1, <1>2, DecodedElement
<1> HIDE DEF script, environment
<1>7. Len(script) \in Nat /\ Len(environment) \in Nat
  BY <1>3
<1>8. PICK base \in Nat : base = 384 + 336 * Len(script)
  BY <1>7
<1>9. Len(script) \in Nat /\ Len(environment) \in Nat /\ base \in Nat /\ base = 384 + 336 * Len(script)
  BY <1>7, <1>8
<1>10. Enough(base, environment)
  <2> SUFFICES ASSUME base + 336 * Len(environment) <= budget.limit
               PROVE  ~budget.exhausted /\ budget.used + 192 <= base
    BY DEF Enough
  <2>1. /\ Covered(budget, 192, pos) /\ pos \in 0..Len(script) /\ Within(budget)
    BY <1>5 DEF Walk, Purse
  <2>2. budget.limit \in Nat
    BY <2>1, WithinNumbers
  <2>3. 192 + 336 * Len(data) <= budget.limit
    BY <1>5, <1>9, <2>2
  <2>4. ~budget.exhausted /\ budget.used <= 192 + 336 * pos
    BY <2>1, <2>3 DEF Covered
  <2> QED
    BY <1>6, <1>9, <2>1, <2>4
<1>11. /\ environment \in Seq(0..255) /\ Purse(budget, made) /\ 12 * made <= budget.used
  BY <1>3, <1>6
<1>12. D!Call(environment)
  BY <1>1 DEF environment
<1>13. Walk(base)' /\ budget'.limit = budget.limit
  BY <1>10, <1>11, <1>12, CallWalks
<1>14. data' = environment
  BY <1>12 DEF D!Call
<1>15. Item' = environment /\ Ceiling' = base
  <2>1. Item' = env_bytes(spend') /\ Ceiling' = 384 + 336 * Len(leaf_script(spend'))
    BY <1>1 DEF Item, Ceiling
  <2> QED
    BY <1>1, <1>9, <2>1 DEF environment, script
<1>16. Decoding'
  <2>1. base = Ceiling' /\ data' = Item'
    BY <1>14, <1>15
  <2> QED
    BY <1>9, <1>13, <2>1 DEF Decoding
<1>17. DOMAIN job' = JobFields /\ job'.program = out /\ job'.context \in DOMAIN Views
  BY <1>1, <1>2 DEF Counted, JobFields
<1>18. Counted'
  <2>1. budget'.limit <= BUDGET_MAX
    BY <1>2, <1>13 DEF Counted
  <2> QED
    BY <1>16, <1>17, <2>1 DEF Decoding, Walk, Purse, Counted
<1>19. Sound(spend)' /\ budget'.limit = Limit(spend)' /\ VerdictPaid'
  <2>1. Sound(spend') /\ budget'.limit = Limit(spend')
    BY <1>1, <1>2, <1>13
  <2>2. VerdictPaid'
    BY <1>1, <1>2 DEF VerdictPaid
  <2> QED
    BY <2>1, <2>2, Zenon
<1>20. IsElement(job'.program)
  BY <1>6, <1>17
<1> QED
  BY <1>1, <1>16, <1>18, <1>19, <1>20 DEF SpendFunds

\* The evaluation begins with the credit the decodes have left it.
LEMMA EvaluateFunds ==
    ASSUME SpendInv, SpendFunds, Evaluate
    PROVE  SpendFunds'
<1> DEFINE c == [Now EXCEPT !.stack = <<>>]
           d == eval_arg(c, job.program, out)
<1>1. /\ phase = "environment" /\ phase' = "evaluate" /\ Element(out) /\ spend' = spend
      /\ verdict' = verdict
      /\ job' = [job EXCEPT !.env = out, !.context = SetContext(spend)]
      /\ stack' = d.stack /\ budget' = d.budget /\ made' = d.made
  BY DEF Evaluate
<1>2. /\ Counted /\ VerdictPaid /\ Decoding /\ Sound(spend) /\ budget.limit = Limit(spend)
      /\ IsElement(job.program)
  BY <1>1 DEF SpendFunds
<1>3. /\ IsElement(out) /\ 12 * made + 48 <= budget.used /\ Purse(budget, made)
      /\ budget.used \in Nat /\ made \in Nat
  BY <1>1, <1>2, DecodedElement
<1>4. /\ c \in [stack : {c.stack}, budget : {c.budget}, made : {c.made}]
      /\ c.stack = <<>> /\ c.budget = budget /\ c.made = made
  BY DEF Now
<1> HIDE DEF c
<1>5. Slack \in Int /\ Worth(budget, 12 * made + Slack) /\ 12 * made + Slack = budget.used + 12
  <2>1. /\ Worth(budget, budget.used + 12) /\ \A w : Worth(budget, w) => w = budget.used + 12
    BY <1>3, WorthOutside DEF Purse
  <2> DEFINE s == budget.used + 12 - 12 * made
  <2>2. s \in Int /\ 12 * made + s = budget.used + 12
    BY <1>3
  <2> HIDE DEF s
  <2>3. \E t \in Int : Worth(budget, 12 * made + t)
    BY <2>1, <2>2
  <2>4. Slack \in Int /\ Worth(budget, 12 * made + Slack)
    BY <2>3 DEF Slack
  <2> QED
    BY <2>1, <2>4
<1>6. Kept(c, 0)
  <2>1. StackOk(<<>>)
    <3>1. <<>> \in Seq({}) /\ Len(<<>>) = 0
      OBVIOUS
    <3> QED
      BY <3>1 DEF StackOk, IsSeq
  <2>2. Fit(c)
    BY <1>2, <1>3, <1>4, <2>1 DEF Fit, Purse, Counted
  <2>3. 12 * c.made + 0 + Slack <= 12 * made + Slack /\ 12 * made + Slack \in Int
    BY <1>3, <1>4, <1>5
  <2>4. Credit(c, 0)
    BY <1>4, <1>5, <2>3 DEF Credit
  <2> QED
    BY <1>3, <1>4, <2>2, <2>4 DEF Kept
<1>7. Kept(d, -12)
  <2>1. -12 \in Int /\ 0 \in Int /\ -12 + 12 <= 0
    OBVIOUS
  <2> QED
    BY <1>2, <1>3, <1>6, <2>1, EvalKept
<1> HIDE DEF d
<1>8. /\ Fit(d) /\ d.budget.limit = budget.limit /\ Within(d.budget) /\ d.made \in Nat
      /\ d \in [stack : {d.stack}, budget : {d.budget}, made : {d.made}]
  BY <1>7 DEF Kept, Fit
<1>9. PICK w \in Int : Worth(d.budget, w) /\ 12 * d.made + (-12) + Slack <= w
  BY <1>7 DEF Kept, Credit
<1>10. w <= d.budget.used + 12 /\ d.budget.used \in Nat
  BY <1>8, <1>9, WorthBelow, WithinNumbers
<1>11. 60 <= Slack
  BY <1>3, <1>5
<1>12. /\ 12 * d.made + 24 <= w /\ 12 * d.made + 24 <= d.budget.used + 24
       /\ 12 * d.made <= d.budget.used
  BY <1>5, <1>8, <1>9, <1>10, <1>11
<1>13. /\ DOMAIN job' = JobFields /\ job'.cap = job.cap /\ job'.context \in DOMAIN Views
  <2>1. SetContext(spend) \in DOMAIN Views
    BY <1>2, KnownContexts
  <2> QED
    BY <1>1, <1>2, <2>1 DEF Counted, JobFields
<1>14. Now' = d
  BY <1>1, <1>8 DEF Now
<1>15. Fit(Now)'
  BY <1>8, <1>13, <1>14 DEF Fit
<1>16. Funded(24)'
  <2>1. \E v \in Int : Worth(budget', v) /\ 12 * made' + 24 <= v
    BY <1>1, <1>9, <1>12
  <2>2. 12 * made' + 24 <= budget'.used + 24
    BY <1>1, <1>12
  <2> QED
    BY <1>15, <2>1, <2>2 DEF Funded
<1>17. Counted'
  <2>1. /\ job'.cap \in Nat /\ job'.context \in DOMAIN Views
        /\ made' \in Nat /\ Within(budget')
        /\ (budget'.alloc_breach <=> made' > job'.cap) /\ 12 * made' <= budget'.used
        /\ budget'.limit <= BUDGET_MAX
    BY <1>1, <1>2, <1>8, <1>12, <1>13 DEF Counted, Fit
  <2> QED
    BY <1>13, <2>1 DEF Counted, Within, SpentAt, Guarded
<1>18. Sound(spend)' /\ budget'.limit = Limit(spend)' /\ VerdictPaid'
  <2>1. Sound(spend') /\ budget'.limit = Limit(spend')
    BY <1>1, <1>2, <1>8
  <2>2. VerdictPaid'
    BY <1>1, <1>2 DEF VerdictPaid
  <2> QED
    BY <2>1, <2>2, Zenon
<1> QED
  BY <1>1, <1>16, <1>17, <1>18 DEF SpendFunds

\* An evaluation keeps the credit it began with.
LEMMA EvalStepFunds ==
    ASSUME SpendInv, SpendFunds, EvalStep
    PROVE  SpendFunds'
<1>1. /\ phase = "evaluate" /\ phase' = "evaluate" /\ spend' = spend /\ verdict' = verdict
      /\ Step \/ Return
  BY DEF EvalStep
<1>2. /\ Counted /\ VerdictPaid /\ Funded(24) /\ Sound(spend) /\ budget.limit = Limit(spend)
      /\ Inv /\ 24 \in Int
  BY <1>1 DEF SpendFunds, SpendInv
<1>3. Funded(24)' /\ budget'.limit = budget.limit /\ job' = job
  <2>1. CASE Step
    <3>1. Funded(24)' /\ Metering
      BY <1>2, <2>1, StepAmounts
    <3>2. job' = job
      BY <2>1 DEF Step, StepRefused, StepValue, StepOp, StepPartial, StepApply, StepSoftfork,
                  StepBllEval, Commit
    <3> QED
      BY <3>1, <3>2 DEF Metering
  <2>2. CASE Return
    <3>1. Funded(24)' /\ budget'.limit = budget.limit
      BY <1>2, <2>2, ReturnAmounts
    <3> QED
      BY <2>2, <3>1 DEF Return
  <2> QED
    BY <1>1, <2>1, <2>2
<1>4. Fit(Now)' /\ 12 * made' + 24 <= budget'.used + 24
  BY <1>3 DEF Funded
<1>5. /\ Within(budget') /\ made' \in Nat /\ job'.cap \in Nat /\ job'.context \in DOMAIN Views
      /\ budget'.alloc_breach <=> made' > job'.cap
  BY <1>4 DEF Fit, Now
<1>6. budget'.used \in Nat
  BY <1>5, WithinNumbers
<1>7. Counted'
  <2>1. /\ 12 * made' <= budget'.used /\ budget'.limit <= BUDGET_MAX
        /\ DOMAIN job' = JobFields
    BY <1>2, <1>3, <1>4, <1>5, <1>6 DEF Counted
  <2> QED
    BY <1>5, <2>1 DEF Counted, Within, SpentAt, Guarded
<1>8. Sound(spend)' /\ budget'.limit = Limit(spend)' /\ VerdictPaid'
  <2>1. Sound(spend') /\ budget'.limit = Limit(spend')
    BY <1>1, <1>2, <1>3
  <2>2. VerdictPaid'
    BY <1>1, <1>2 DEF VerdictPaid
  <2> QED
    BY <2>1, <2>2, Zenon
<1> QED
  BY <1>1, <1>3, <1>7, <1>8 DEF SpendFunds

\* A verdict reports the budget as it stands; an exception leaves no other.
LEMMA ConcludeFunds ==
    ASSUME SpendFunds, DecodeRefused \/ EvalRefused \/ EvalRaises \/ EvalAccepted
    PROVE  SpendFunds'
<1>1. (\E reason : Conclude(reason)) \/ EvalRaises
  BY Zenon DEF DecodeRefused, EvalRefused, EvalAccepted
<1>2. /\ phase' = "idle" /\ budget' = budget /\ made' = made /\ job' = job
      /\ \/ verdict'.used = budget.used /\ verdict'.limit = budget.limit
         \/ verdict' = verdict
  BY <1>1 DEF Conclude, EvalRaises, vars
<1>3. Counted /\ VerdictPaid
  BY DEF SpendFunds
<1>4. Counted'
  BY <1>2, <1>3 DEF Counted
<1>5. VerdictPaid'
  BY <1>2, <1>3, WithinNumbers DEF Counted, VerdictPaid
<1> QED
  BY <1>2, <1>4, <1>5 DEF SpendFunds

\* A step that changes nothing.
LEMMA StutterFunds ==
    ASSUME SpendFunds, UNCHANGED spendVars
    PROVE  SpendFunds'
<1>1. /\ phase' = phase /\ spend' = spend /\ verdict' = verdict /\ data' = data /\ pos' = pos
      /\ frames' = frames /\ hand' = hand /\ out' = out
      /\ job' = job /\ stack' = stack /\ budget' = budget /\ made' = made /\ result' = result
  BY DEF spendVars, vars
<1>2. Counted' /\ VerdictPaid'
  BY <1>1 DEF SpendFunds, Counted, VerdictPaid
<1>3. Funded(24) => Funded(24)'
  <2>1. Now' = Now
    BY <1>1 DEF Now
  <2> QED
    BY <1>1, <2>1 DEF Funded, Fit
<1>4. Decoding => Decoding'
  <2> SUFFICES ASSUME Decoding PROVE Decoding'
    OBVIOUS
  <2>1. PICK base \in Nat : base = Ceiling /\ Walk(base) /\ data = Item
    BY DEF Decoding
  <2>2. Ceiling' = Ceiling /\ Item' = Item
    BY <1>1, ZenonT(40) DEF Ceiling, Item
  <2>3. Walk(base)'
    BY <1>1, <2>1 DEF Walk, Purse, Covered
  <2>4. base = Ceiling' /\ data' = Item'
    BY <1>1, <2>1, <2>2
  <2> QED
    BY <2>3, <2>4 DEF Decoding
<1>5. phase # "idle" => Sound(spend)' /\ budget'.limit = Limit(spend)'
  <2>1. phase # "idle" => Sound(spend') /\ budget'.limit = Limit(spend')
    BY <1>1 DEF SpendFunds
  <2> QED
    BY <2>1, Zenon
<1> QED
  BY <1>1, <1>2, <1>3, <1>4, <1>5 DEF SpendFunds

\* In every phase of every check what was bought covers what was built, and in
\* a decode the bytes that were read cover what was spent: see SpendFunds.
THEOREM SpendFunded ==
    SpendSpec => []SpendFunds
<1>1. SpendInv /\ SpendFunds /\ [SpendNext]_spendVars => SpendFunds'
  <2> SUFFICES ASSUME SpendInv, SpendFunds, [SpendNext]_spendVars PROVE SpendFunds'
    OBVIOUS
  <2>1. CASE SetGlobal \/ Reject \/ Arm
    BY <2>1, IdleFunds
  <2>2. CASE DecodeProgram
    BY <2>2, DecodeProgramFunds
  <2>3. CASE DecodeStep
    BY <2>3, DecodeStepFunds
  <2>4. CASE DecodeEnvironment
    BY <2>4, DecodeEnvironmentFunds
  <2>5. CASE Evaluate
    BY <2>5, EvaluateFunds
  <2>6. CASE EvalStep
    BY <2>6, EvalStepFunds
  <2>7. CASE DecodeRefused \/ EvalRefused \/ EvalRaises \/ EvalAccepted
    BY <2>7, ConcludeFunds
  <2>8. CASE UNCHANGED spendVars
    BY <2>8, StutterFunds
  <2> QED
    BY <2>1, <2>2, <2>3, <2>4, <2>5, <2>6, <2>7, <2>8 DEF SpendNext, Check
<1> QED
  BY InitFunds, <1>1, SpendInvariant, PTL DEF SpendSpec

\* The charge that a witness buys per byte is more than the decoder asks for it:
\* the two items and both entries are within what the witness was granted.
LEMMA DecodePaid ==
    SpendFunds => DecodeAffordable
<1> SUFFICES ASSUME SpendFunds, phase \in {"program", "environment"},
                    WitnessSize(spend) <= MAX_BLOCK_WEIGHT
             PROVE  ~budget.exhausted
  BY Zenon DEF DecodeAffordable
<1>1. Sound(spend) /\ budget.limit = Limit(spend) /\ Decoding
  BY DEF SpendFunds
<1>2. PICK base \in Nat : base = Ceiling /\ Walk(base) /\ data = Item
  BY <1>1 DEF Decoding
<1> DEFINE script == leaf_script(spend)
           environment == env_bytes(spend)
           size == WitnessSize(spend)
<1>3. /\ script \in Seq(0..255) /\ environment \in Seq(0..255) /\ size \in Nat
      /\ Len(script) + Len(environment) <= size
  BY <1>1, WitnessCovers
<1>4. budget.limit = 28000 + 560 * size
  BY <1>1, Granted
<1>5. \/ Ceiling = 192 /\ Item = script
      \/ Ceiling = 384 + 336 * Len(script) /\ Item = environment
  BY DEF Ceiling, Item
<1> HIDE DEF script, environment, size
<1>6. Len(script) \in Nat /\ Len(environment) \in Nat
  BY <1>3
<1>7. base + 336 * Len(data) <= budget.limit
  <2>1. CASE base = 192 /\ data = script
    BY <1>3, <1>4, <1>6, <2>1
  <2>2. CASE base = 384 + 336 * Len(script) /\ data = environment
    BY <1>3, <1>4, <1>6, <2>2
  <2> QED
    BY <1>2, <1>5, <2>1, <2>2
<1>8. Covered(budget, base, pos)
  BY <1>2 DEF Walk
<1> QED
  BY <1>7, <1>8 DEF Covered

\* A cap that is worth the largest budget is never crossed.
LEMMA BackstopHolds ==
    SpendFunds => BackstopNeverFires
<1> SUFFICES ASSUME SpendFunds, job.cap * (STEP \div 2) >= BUDGET_MAX
             PROVE  ~budget.alloc_breach
  BY Zenon DEF BackstopNeverFires
<1>1. STEP \div 2 = 12
  BY DEF STEP
<1>2. /\ job.cap \in Nat /\ made \in Nat /\ Within(budget) /\ 12 * made <= budget.used
      /\ budget.limit <= BUDGET_MAX /\ (budget.alloc_breach <=> made > job.cap)
  BY DEF SpendFunds, Counted
<1>3. budget.used \in Nat /\ budget.limit \in Nat /\ budget.used <= budget.limit
  BY <1>2, WithinNumbers
<1>4. 12 * made <= job.cap * 12
  BY <1>1, <1>2, <1>3, LargestBudget
<1> QED
  BY <1>2, <1>4

\* No spend whose witness fits a block is refused for the work of checking it:
\* the bytes its two items were decoded from have paid for their decodes, and the
\* element cap, if the assertion of spend.py relates it to the budget, never stops
\* what a budget has paid for, in either decode or in the evaluation.
THEOREM HonestSpends ==
    SpendSpec => []NoHonestSpendRefused
<1>1. SpendFunds => NoHonestSpendRefused
  BY DecodePaid, BackstopHolds DEF NoHonestSpendRefused
<1> QED
  BY <1>1, SpendFunded, PTL

\* An evaluation inside a spend, in a budget that decodes have used and a span that
\* they have counted in, overspends nothing, pays for every construction, and is
\* stopped by the cap exactly when it is crossed, as one of its own is.
THEOREM SpendMetered ==
    SpendSpec => [](phase = "evaluate" => BudgetSound /\ AllocationCovered /\ CapLatched)
<1>1. SpendInv /\ SpendFunds =>
          (phase = "evaluate" => BudgetSound /\ AllocationCovered /\ CapLatched)
  <2> SUFFICES ASSUME Inv, Funded(24)
               PROVE  BudgetSound /\ AllocationCovered /\ CapLatched
    BY DEF SpendInv, SpendFunds
  <2>1. Fit(Now) /\ 12 * made + 24 <= budget.used + 24
        /\ (result = Pending => \E w \in Int : Worth(budget, w) /\ 12 * made + 24 <= w)
    BY DEF Funded
  <2>2. made \in Nat /\ budget.used \in Nat
    BY <2>1, WithinNumbers DEF Fit, Now
  <2>3. 12 * made + 0 <= budget.used + 24
    BY <2>1, <2>2
  <2>4. result = Pending => \E w \in Int : Worth(budget, w) /\ 12 * made + 0 <= w
    BY <2>1, <2>2
  <2>5. Amounts
    BY <2>1, <2>3, <2>4 DEF Amounts, Funded
  <2> QED
    BY <2>5, AmountsSound, AmountsCover, AmountsLatch
<1> QED
  BY <1>1, SpendInvariant, SpendFunded, PTL

\* No verdict, in whichever phase it falls, reports more than the witness bought.
THEOREM VerdictWithin ==
    SpendSpec => [](Decided => verdict.used <= verdict.limit)
<1>1. SpendFunds => (Decided => verdict.used <= verdict.limit)
  BY DEF SpendFunds, VerdictPaid
<1> QED
  BY <1>1, SpendFunded, PTL
=============================================================================
