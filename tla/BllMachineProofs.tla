-------------------------- MODULE BllMachineProofs --------------------------
(***************************************************************************)
(* Proofs about BllMachine, for every program, environment, limit, cap and *)
(* price: which frames wait on the stack, which latches can be set         *)
(* together, what closes a guard and what leaves the outer counter alone.  *)
(* None of it depends on what an operator computes or charges, so no       *)
(* element is opened.                                                      *)
(*                                                                         *)
(* A handler runs from a configuration that is Ready (every frame can      *)
(* receive, a guard open at the start is still open and has shielded the   *)
(* outer counter) to one that is Over (the iteration may end here).        *)
(* Closing lies between: a guard may have just been closed, and only       *)
(* uncharged work may follow.                                              *)
(***************************************************************************)
EXTENDS BllMachine, SequenceTheorems, FiniteSetTheorems, TLAPS

\* A sequence, of whatever.
IsSeq(s) == \E S : s \in Seq(S)

\* An exhausted budget is spent to its limit, and no guard is open.
SpentInFull(b) == b.exhausted => b.used = b.limit /\ b.allowances = <<>>

\* A budget record, whatever its numbers.
IsBudget(b) ==
    /\ b \in [limit : {b.limit}, used : {b.used}, allowances : {b.allowances},
              exhausted : BOOLEAN, guard_breach : BOOLEAN, alloc_breach : BOOLEAN]
    /\ IsSeq(b.allowances)
    /\ SpentInFull(b)

\* Exhaustion excludes both breaches.
Exclusive(b) == b.exhausted => ~b.guard_breach /\ ~b.alloc_breach

IsConf(c) ==
    /\ c \in [stack : {c.stack}, budget : {c.budget}, made : {c.made}]
    /\ IsSeq(c.stack) /\ IsBudget(c.budget) /\ Exclusive(c.budget)

Receiving(s) == \A i \in 1..Len(s) : s[i].fn.fn \in Receivers
LowerReceiving(s) == \A i \in 1..Len(s)-1 : s[i].fn.fn \in Receivers

\* Work begun under an open guard does not move the outer counter.
Frozen(b, d) == Guarded(b) => d.used = b.used

\* The places of the stack that hold the exit frame of a guard.
Exits(s) == {i \in 1..Len(s) : s[i].fn.fn = "exitguard"}

\* While nothing is latched, k more allowances are open than exit frames wait.
Ahead(s, b, k) == ~Latched(b) => Len(b.allowances) = Cardinality(Exits(s)) + k

\* A configuration in the middle of a handler that started from budget b:
\* every frame can receive, and if b was guarded then it still is.
Open(c, b) ==
    /\ IsConf(c) /\ Receiving(c.stack)
    /\ Frozen(b, c.budget)
    /\ Guarded(b) => Guarded(c.budget)

\* Open, and every allowance has its exit frame.
Ready(c, b) == Open(c, b) /\ Ahead(c.stack, c.budget, 0)

\* Ready, but the guard may be closed: nothing is charged from here on.
Closing(c, b) ==
    /\ IsConf(c) /\ Receiving(c.stack) /\ Frozen(b, c.budget)
    /\ Ahead(c.stack, c.budget, 0)

\* Constructions happen only before exhaustion.
Calm(c) == ~c.budget.exhausted

\* An iteration may end here: if nothing is latched there is a frame to step,
\* and it is not the exit frame of a guard.
Over(c, b) ==
    /\ IsConf(c) /\ LowerReceiving(c.stack)
    /\ Frozen(b, c.budget) /\ Ahead(c.stack, c.budget, 0)
    /\ Ok(c) => c.stack # <<>> /\ Top(c.stack).fn.fn # "exitguard"

\* What Append does to a sequence of unknown elements.
LEMMA AppendEntries ==
    ASSUME NEW s, IsSeq(s), NEW x
    PROVE  /\ IsSeq(Append(s, x))
           /\ Len(Append(s, x)) = Len(s) + 1
           /\ Len(s) \in Nat
           /\ Append(s, x) # <<>>
           /\ \A i \in 1..Len(s) : Append(s, x)[i] = s[i]
           /\ Append(s, x)[Len(s) + 1] = x
<1>1. PICK S : s \in Seq(S)
  BY DEF IsSeq
<1> DEFINE T == S \cup {x}
<1>2. s \in Seq(T) /\ x \in T
  BY <1>1
<1> HIDE DEF T
<1>3. Append(s, x) \in Seq(T)
  BY <1>2
<1> QED
  BY <1>2, <1>3 DEF IsSeq

\* What taking the top off does (Below, the code's list.pop).
LEMMA BelowEntries ==
    ASSUME NEW s, IsSeq(s), s # <<>>
    PROVE  /\ IsSeq(Below(s))
           /\ Len(s) \in Nat \ {0}
           /\ Len(Below(s)) = Len(s) - 1
           /\ \A i \in 1..Len(s)-1 : Below(s)[i] = s[i]
<1>1. PICK S : s \in Seq(S)
  BY DEF IsSeq
<1>2. Len(s) \in Nat \ {0}
  BY <1>1
<1>3. \A i \in 1..Len(s)-1 : s[i] \in S
  BY <1>1, <1>2, ElementOfSeq
<1>4. /\ Below(s) \in Seq(S)
      /\ Len(Below(s)) = Len(s) - 1
      /\ \A i \in 1..Len(s)-1 : Below(s)[i] = s[i]
  <2> DEFINE n == Len(s) - 1
  <2>1. /\ SubSeq(s, 1, n) \in Seq(S)
        /\ Len(SubSeq(s, 1, n)) = IF 1 <= n THEN n - 1 + 1 ELSE 0
        /\ \A i \in 1 .. n - 1 + 1 : SubSeq(s, 1, n)[i] = s[1 + i - 1]
    <3>1. n \in Int /\ 1 \in Int
      BY <1>2
    <3> QED
      BY <1>3, <3>1, SubSeqProperties
  <2>2. Below(s) = SubSeq(s, 1, n)
    BY DEF Below
  <2>3. n \in Nat
    BY <1>2
  <2> HIDE DEF n
  <2>4. /\ Len(Below(s)) = n
        /\ \A i \in 1..n : Below(s)[i] = s[i]
    BY <2>1, <2>2, <2>3
  <2> QED
    BY <2>1, <2>2, <2>4 DEF n
<1> QED
  BY <1>2, <1>4 DEF IsSeq

\* One frame more is one exit frame more if it is one.
LEMMA ExitsGrow ==
    ASSUME NEW s, NEW t, Len(s) \in Nat, Len(t) = Len(s) + 1,
           \A i \in 1..Len(s) : t[i] = s[i]
    PROVE  /\ Cardinality(Exits(s)) \in Nat
           /\ t[Len(t)].fn.fn = "exitguard" => Cardinality(Exits(t)) = Cardinality(Exits(s)) + 1
           /\ t[Len(t)].fn.fn # "exitguard" => Cardinality(Exits(t)) = Cardinality(Exits(s))
<1>1. IsFiniteSet(Exits(s)) /\ Cardinality(Exits(s)) \in Nat
  <2>1. Exits(s) \subseteq 1..Len(s) /\ IsFiniteSet(1..Len(s))
    BY FS_Interval DEF Exits
  <2> QED
    BY <2>1, FS_Subset, FS_CardinalityType
<1>2. CASE t[Len(t)].fn.fn = "exitguard"
  <2>1. Exits(t) = Exits(s) \cup {Len(t)} /\ Len(t) \notin Exits(s)
    BY <1>2 DEF Exits
  <2> QED
    BY <1>1, <1>2, <2>1, FS_AddElement
<1>3. CASE t[Len(t)].fn.fn # "exitguard"
  <2>1. Exits(t) = Exits(s)
    BY <1>3 DEF Exits
  <2> QED
    BY <1>1, <1>3, <2>1
<1> QED
  BY <1>1, <1>2, <1>3

\* The exit frames of a stack can be counted.
LEMMA ExitsFinite ==
    ASSUME NEW s, IsSeq(s)
    PROVE  Cardinality(Exits(s)) \in Nat
<1>1. Len(s) \in Nat
  BY DEF IsSeq
<1>2. IsFiniteSet(1..Len(s))
  BY <1>1, FS_Interval
<1>3. Exits(s) \subseteq 1..Len(s)
  BY DEF Exits
<1> QED
  BY <1>2, <1>3, FS_Subset, FS_CardinalityType

\* No frame, no exit frame.
LEMMA NoExits ==
    Cardinality(Exits(<<>>)) = 0 /\ Len(<<>>) = 0
<1>1. Exits(<<>>) = {}
  BY DEF Exits
<1> QED
  BY <1>1, FS_EmptySet

\* Budget.charge keeps the latches exclusive and the guards that are open, and
\* under an open guard it leaves the outer counter alone.
LEMMA ChargeBudget ==
    ASSUME NEW b, IsBudget(b), Exclusive(b), NEW n
    PROVE  /\ IsBudget(charge(b, n)) /\ Exclusive(charge(b, n))
           /\ Guarded(b) => Guarded(charge(b, n)) /\ charge(b, n).used = b.used
           /\ Len(charge(b, n).allowances) = Len(b.allowances)
           /\ Latched(b) => Latched(charge(b, n))
<1>1. CASE Latched(b)
  BY <1>1 DEF charge
<1>2. CASE ~Latched(b) /\ ~Guarded(b)
  BY <1>2 DEF charge, ChargeOuter, IsBudget, SpentInFull, Exclusive, Latched, Guarded
<1>3. CASE ~Latched(b) /\ Guarded(b)
  <2> DEFINE a == b.allowances
             spent == [a EXCEPT ![Len(a)].used = @ + n]
  <2>1. IsSeq(spent) /\ spent # <<>> /\ Len(spent) = Len(a)
    <3>1. PICK S : a \in Seq(S)
      BY DEF IsBudget, IsSeq
    <3> DEFINE e == [a[Len(a)] EXCEPT !.used = @ + n]
    <3>2. Len(a) \in Nat \ {0} /\ a # <<>>
      BY <3>1, <1>3 DEF Guarded
    <3>3. spent = [a EXCEPT ![Len(a)] = e]
      OBVIOUS
    <3> HIDE DEF e
    <3>4. a \in Seq(S \cup {e})
      BY <3>1
    <3>5. [a EXCEPT ![Len(a)] = e] \in Seq(S \cup {e})
      BY <3>4, <3>2
    <3>6. Len([a EXCEPT ![Len(a)] = e]) = Len(a)
      BY <3>4, <3>2
    <3> QED
      BY <3>2, <3>3, <3>5, <3>6 DEF IsSeq
  <2>2. \/ charge(b, n) = [b EXCEPT !.guard_breach = TRUE]
        \/ charge(b, n) = [b EXCEPT !.allowances = spent]
    BY <1>3 DEF charge, ChargeAllowance
  <2> HIDE DEF spent
  <2> QED
    BY <2>1, <2>2, <1>3 DEF IsBudget, SpentInFull, Exclusive, Latched, Guarded
<1> QED
  BY <1>1, <1>2, <1>3

\* A charge opens and closes no guard.
LEMMA SpendOpen ==
    ASSUME NEW b, NEW c, Open(c, b), NEW n, NEW k, Ahead(c.stack, c.budget, k)
    PROVE  /\ Open(Spend(c, n), b)
           /\ Ahead(Spend(c, n).stack, Spend(c, n).budget, k)
           /\ Spend(c, n).stack = c.stack
<1>1. /\ Spend(c, n).stack = c.stack /\ Spend(c, n).budget = charge(c.budget, n)
      /\ Spend(c, n) \in [stack : {Spend(c, n).stack}, budget : {Spend(c, n).budget},
                           made : {Spend(c, n).made}]
  BY DEF Spend, Open, IsConf
<1> QED
  BY <1>1, ChargeBudget DEF Open, IsConf, Frozen, Ahead

\* A charge, paid or refused, leaves the handler able to go on or to return.
LEMMA SpendReady ==
    ASSUME NEW b, NEW c, Ready(c, b), NEW n
    PROVE  Ready(Spend(c, n), b)
BY SpendOpen DEF Ready

\* The allocator's latch on a budget that is not exhausted.
LEMMA LatchBudget ==
    ASSUME NEW b, IsBudget(b), ~b.exhausted
    PROVE  /\ IsBudget(latch_alloc_breach(b)) /\ Exclusive(latch_alloc_breach(b))
           /\ ~latch_alloc_breach(b).exhausted
           /\ latch_alloc_breach(b).used = b.used
           /\ latch_alloc_breach(b).allowances = b.allowances
BY DEF IsBudget, SpentInFull, Exclusive, latch_alloc_breach

\* What Element construction may touch: the count and the allocation latch.
LEMMA BuildFields ==
    ASSUME NEW c, IsConf(c), NEW n
    PROVE  /\ Build(c, n).stack = c.stack
           /\ Build(c, n).budget \in {c.budget, latch_alloc_breach(c.budget)}
           /\ Build(c, n).budget.used = c.budget.used
           /\ Build(c, n).budget.guard_breach = c.budget.guard_breach
           /\ Build(c, n) \in [stack : {Build(c, n).stack}, budget : {Build(c, n).budget},
                               made : {Build(c, n).made}]
<1>1. /\ latch_alloc_breach(c.budget).used = c.budget.used
      /\ latch_alloc_breach(c.budget).guard_breach = c.budget.guard_breach
  BY DEF IsConf, IsBudget, latch_alloc_breach
<1> QED
  BY <1>1 DEF IsConf, Build

\* Construction before exhaustion keeps the latches exclusive.
LEMMA BuildConf ==
    ASSUME NEW c, IsConf(c), Calm(c), NEW n
    PROVE  /\ IsConf(Build(c, n)) /\ Calm(Build(c, n))
           /\ Build(c, n).stack = c.stack
           /\ Build(c, n).budget.used = c.budget.used
           /\ Build(c, n).budget.allowances = c.budget.allowances
           /\ Latched(c.budget) => Latched(Build(c, n).budget)
<1>1. Latched(c.budget) => Latched(latch_alloc_breach(c.budget))
  BY DEF IsConf, IsBudget, Latched, latch_alloc_breach
<1> QED
  BY <1>1, BuildFields, LatchBudget DEF IsConf, Calm

\* Construction after a guard closed.
LEMMA BuildClosing ==
    ASSUME NEW b, NEW c, Closing(c, b), Calm(c), NEW n
    PROVE  Closing(Build(c, n), b) /\ Calm(Build(c, n))
BY BuildConf DEF Closing, Frozen, Ahead

\* Construction in the middle of a handler.
LEMMA BuildReady ==
    ASSUME NEW b, NEW c, Ready(c, b), Calm(c), NEW n
    PROVE  Ready(Build(c, n), b) /\ Calm(Build(c, n))
BY BuildConf DEF Ready, Open, Frozen, Guarded, Ahead

\* A call site that saw its charge succeed may construct.
LEMMA OkCalm ==
    ASSUME NEW c, Ok(c)
    PROVE  Calm(c)
BY DEF Ok, Calm, Latched

\* Closing is the weaker condition.
LEMMA ReadyCloses ==
    ASSUME NEW b, NEW c, Ready(c, b)
    PROVE  Closing(c, b)
BY DEF Ready, Open, Closing

\* A configuration that is latched may be left as it is.
LEMMA LatchedOver ==
    ASSUME NEW b, NEW c, Ready(c, b), ~Ok(c)
    PROVE  Over(c, b)
<1>1. Len(c.stack) \in Nat
  BY DEF Ready, Open, IsConf, IsSeq
<1> QED
  BY <1>1 DEF Ready, Open, Over, Receiving, LowerReceiving

\* Pushing any frame but a guard's exit frame may end an iteration.
LEMMA PushOver ==
    ASSUME NEW b, NEW c, Closing(c, b),
           NEW fn, fn.fn # "exitguard", NEW args, NEW env
    PROVE  Over(new_continuation(c, fn, args, env), b)
<1> DEFINE x == Frame(fn, args, env)
           s == Append(c.stack, x)
           d == new_continuation(c, fn, args, env)
<1>1. d = [stack |-> s, budget |-> c.budget, made |-> c.made]
  BY SMTT(40) DEF Closing, IsConf, new_continuation
<1>2. /\ IsSeq(s) /\ s # <<>> /\ Len(s) = Len(c.stack) + 1 /\ Len(c.stack) \in Nat
      /\ \A i \in 1..Len(c.stack) : s[i] = c.stack[i]
      /\ s[Len(c.stack) + 1] = x
  BY AppendEntries, ZenonT(40) DEF Closing, IsConf
<1>3. x.fn.fn # "exitguard"
  BY DEF Frame
<1> HIDE DEF x, s, d
<1>4. LowerReceiving(s)
  BY <1>2 DEF Closing, Receiving, LowerReceiving
<1>5. Top(s).fn.fn # "exitguard"
  BY <1>2, <1>3 DEF Top
<1>6. Ahead(s, c.budget, 0)
  BY <1>2, <1>3, ExitsGrow, SMTT(30) DEF Closing, Ahead
<1> QED
  BY <1>1, <1>2, <1>4, <1>5, <1>6 DEF d, Over, Closing, IsConf

\* Pushing a frame that can receive lets the handler go on above it; the exit
\* frame of a guard is pushed when its allowance is the one that is ahead.
LEMMA PushOpen ==
    ASSUME NEW b, NEW c, Open(c, b),
           NEW fn, fn.fn \in Receivers, NEW args, NEW env,
           Ahead(c.stack, c.budget, IF fn.fn = "exitguard" THEN 1 ELSE 0)
    PROVE  /\ Ready(new_continuation(c, fn, args, env), b)
           /\ Calm(c) => Calm(new_continuation(c, fn, args, env))
<1> DEFINE x == Frame(fn, args, env)
           s == Append(c.stack, x)
           d == new_continuation(c, fn, args, env)
<1>1. d = [stack |-> s, budget |-> c.budget, made |-> c.made]
  BY SMTT(40) DEF Open, IsConf, new_continuation
<1>2. /\ IsSeq(s) /\ Len(s) = Len(c.stack) + 1 /\ Len(c.stack) \in Nat
      /\ \A i \in 1..Len(c.stack) : s[i] = c.stack[i]
      /\ s[Len(c.stack) + 1] = x
  BY AppendEntries DEF Open, IsConf
<1>3. x.fn = fn
  BY DEF Frame
<1> HIDE DEF x, s, d
<1>4. Receiving(s)
  BY <1>2, <1>3 DEF Open, Receiving
<1>5. Ahead(s, c.budget, 0)
  <2>1. /\ Cardinality(Exits(c.stack)) \in Nat
        /\ fn.fn = "exitguard" => Cardinality(Exits(s)) = Cardinality(Exits(c.stack)) + 1
        /\ fn.fn # "exitguard" => Cardinality(Exits(s)) = Cardinality(Exits(c.stack))
    <3>1. /\ Cardinality(Exits(c.stack)) \in Nat
          /\ s[Len(s)].fn.fn = "exitguard" => Cardinality(Exits(s)) = Cardinality(Exits(c.stack)) + 1
          /\ s[Len(s)].fn.fn # "exitguard" => Cardinality(Exits(s)) = Cardinality(Exits(c.stack))
      BY <1>2, ExitsGrow, ZenonT(40)
    <3>2. s[Len(s)].fn = fn
      BY <1>2, <1>3
    <3> QED
      BY <3>1, <3>2
  <2>2. CASE fn.fn = "exitguard"
    BY <2>1, <2>2 DEF Ahead
  <2>3. CASE fn.fn # "exitguard"
    BY <2>1, <2>3 DEF Ahead
  <2> QED
    BY <2>2, <2>3
<1> QED
  BY <1>1, <1>2, <1>4, <1>5 DEF d, Ready, Open, Calm, IsConf

\* fin_value may end an iteration.
LEMMA FinOver ==
    ASSUME NEW b, NEW c, Closing(c, b), Calm(c), NEW value
    PROVE  Over(fin_value(c, value), b)
<1>1. SpecialFunc("fin", Nil).fn # "exitguard"
  BY DEF SpecialFunc, Func
<1> QED
  BY <1>1, BuildClosing, PushOver DEF fin_value

\* So may an exception, and what an operator delivers.
LEMMA DeliverOver ==
    ASSUME NEW b, NEW c, Closing(c, b), Calm(c), NEW value
    PROVE  Over(Deliver(c, value), b)
<1>1. SpecialFunc("fin", Nil).fn # "exitguard"
  BY DEF SpecialFunc, Func
<1> QED
  BY <1>1, PushOver, FinOver DEF Deliver, Throw

\* WorkItem.error may end an iteration.
LEMMA ErrorOver ==
    ASSUME NEW b, NEW c, Closing(c, b), Calm(c), NEW msg
    PROVE  Over(error(c, msg), b)
BY BuildClosing, FinOver DEF error

\* eval_arg may end an iteration.
LEMMA EvalOver ==
    ASSUME NEW b, NEW c, Ready(c, b), Calm(c), NEW expr, NEW env
    PROVE  Over(eval_arg(c, expr, env), b)
<1>1. SpecialFunc("blleval", Nil).fn # "exitguard"
  BY DEF SpecialFunc, Func
<1> QED
  BY <1>1, BuildReady, ReadyCloses, PushOver DEF eval_arg

\* clear_allowances takes back the guard breach and no other latch.
LEMMA ClearBudget ==
    ASSUME NEW b, IsBudget(b), Exclusive(b)
    PROVE  /\ IsBudget(clear_allowances(b)) /\ Exclusive(clear_allowances(b))
           /\ clear_allowances(b).allowances = <<>>
           /\ clear_allowances(b).used = b.used
           /\ clear_allowances(b).exhausted = b.exhausted
           /\ clear_allowances(b).alloc_breach = b.alloc_breach
           /\ ~clear_allowances(b).guard_breach
<1>1. IsSeq(<<>>)
  BY DEF IsSeq
<1> QED
  BY <1>1 DEF IsBudget, SpentInFull, Exclusive, clear_allowances

\* WorkItem.unwind abandons every frame and guard, at no cost.
LEMMA UnwindCloses ==
    ASSUME NEW b, NEW c, IsConf(c), Frozen(b, c.budget)
    PROVE  /\ Closing(unwind(c), b)
           /\ Calm(c) => Calm(unwind(c))
           /\ unwind(c).budget = clear_allowances(c.budget)
<1>1. IsSeq(<<>>) /\ Receiving(<<>>)
  BY DEF IsSeq, Receiving
<1>2. /\ unwind(c).stack = <<>>
      /\ unwind(c).budget = clear_allowances(c.budget)
      /\ unwind(c) \in [stack : {unwind(c).stack}, budget : {unwind(c).budget},
                        made : {unwind(c).made}]
  BY DEF unwind, IsConf
<1> QED
  BY <1>1, <1>2, ClearBudget, NoExits DEF Closing, IsConf, Frozen, Calm, Ahead

-----------------------------------------------------------------------------
\* The handlers.

\* Evaluating the next argument leaves a frame below that can receive it.
LEMMA NextArgOver ==
    ASSUME NEW b, NEW c, Ready(c, b), Calm(c),
           NEW f, f.fn.fn \in Receivers \ {"exitguard"}
    PROVE  Over(EvalNextArg(c, f), b)
<1>1. Ready(Build(c, 1), b) /\ Calm(Build(c, 1))
  BY BuildReady
<1> QED
  BY <1>1, PushOpen, EvalOver DEF EvalNextArg, Ready

\* Paying leg by leg is at most two payments.
LEMMA PaidReady ==
    ASSUME NEW b, NEW c, Ready(c, b), NEW leg
    PROVE  Ready(Paid(c, leg), b)
<1> DEFINE p == Spend(c, leg.cost)
<1>1. Ready(p, b)
  BY SpendReady
<1>2. Ok(p) => Ready(Build(p, leg.built), b)
  BY <1>1, OkCalm, BuildReady
<1> QED
  BY <1>1, <1>2 DEF Paid

\* Legs paid one after another.
LEMMA PayInTurnReady ==
    ASSUME NEW b, NEW c, Ready(c, b), NEW legs
    PROVE  Ready(PayInTurn(c, legs), b)
<1> DEFINE upTo  == Totals(legs)
           fit   == {k \in 0..Len(legs) : Ok(Paid(c, upTo[k]))}
           first == CHOOSE k \in fit : k + 1 \notin fit
           one   == Paid(c, upTo[first])
           two   == Paid(one, legs[first + 1])
<1>1. Ready(one, b)
  BY PaidReady
<1>2. Ready(two, b)
  BY <1>1, PaidReady
<1>3. PayInTurn(c, legs) \in {c, one, two}
  BY DEF PayInTurn
<1> HIDE DEF one, two
<1> QED
  BY <1>1, <1>2, <1>3

\* fn_op.step.
LEMMA OpStepOver ==
    ASSUME NEW b, NEW c, Ready(c, b), Calm(c), NEW f, f.fn.fn = "op"
    PROVE  Over(OpStep(c, f), b)
<1> DEFINE r == finish(View, f.fn.op, f.fn.ist, f.fn.state)
           p == Spend(PayInTurn(c, r.legs), r.cost)
<1>1. Ready(p, b)
  BY PayInTurnReady, SpendReady
<1>2. Ok(p) => Over(Deliver(Build(p, r.built), r.val), b)
  BY <1>1, OkCalm, BuildReady, ReadyCloses, DeliverOver
<1>3. ~Ok(p) => Over(p, b)
  BY <1>1, LatchedOver
<1>4. Over(EvalNextArg(c, f), b)
  BY NextArgOver DEF Receivers
<1>5. Over(error(c, "argument to opcode is improper list"), b)
  BY ReadyCloses, ErrorOver
<1> QED
  BY <1>2, <1>3, <1>4, <1>5 DEF OpStep, Finishing

\* fn_op.feedback.
LEMMA OpFeedbackOver ==
    ASSUME NEW b, NEW c, Ready(c, b), Calm(c), NEW f, NEW value
    PROVE  Over(OpFeedback(c, f, value), b)
<1> DEFINE r == argument(View, f.fn.op, f.fn.ist, f.fn.state, value)
           p == Spend(c, r.cost)
<1>1. Ready(p, b)
  BY SpendReady
<1>2. CASE ~Ok(p)
  BY <1>1, <1>2, LatchedOver DEF OpFeedback, Folded
<1>3. CASE Ok(p) /\ IsError(r.val)
  <2>1. Closing(Build(p, r.built), b) /\ Calm(Build(p, r.built))
    BY <1>1, <1>3, OkCalm, BuildReady, ReadyCloses
  <2> QED
    BY <1>3, <2>1, DeliverOver DEF OpFeedback, Folded
<1>4. CASE Ok(p) /\ ~IsError(r.val)
  <2>1. Closing(Build(p, r.built + 1), b)
    BY <1>1, <1>4, OkCalm, BuildReady, ReadyCloses
  <2>2. Refed(f.fn, r).fn # "exitguard"
    BY DEF Refed, Func
  <2> QED
    BY <1>4, <2>1, <2>2, PushOver DEF OpFeedback, Folded
<1> QED
  BY <1>2, <1>3, <1>4

\* WorkItem.get_partial_func: a function is found only with every charge paid.
LEMMA PartialFuncReady ==
    ASSUME NEW b, NEW c, Ready(c, b), Calm(c), NEW value
    PROVE  /\ Ready(get_partial_func(c, value).c, b)
           /\ IsFunc(get_partial_func(c, value).func) => Calm(get_partial_func(c, value).c)
<1> DEFINE s == Spend(c, atom_scan(value.width))
           p == Spend(s, ELEMENT_ALLOC)
           n == AsInt(value)
           g == get_partial_func(c, value)
<1>1. Ready(s, b) /\ Ready(p, b)
  BY SpendReady
<1>2. ~IsFunc(Nil)
  BY DEF IsFunc, Nil, Atom, FromBytes
<1>3. CASE IsAtom(value) /\ Ok(s) /\ n \in DOMAIN Op_FUNCS /\ Ok(p)
  <2>1. g.c = Build(p, InitialOpBuilt(Op_FUNCS[n]))
    BY <1>3 DEF get_partial_func
  <2> QED
    BY <1>1, <1>3, <2>1, OkCalm, BuildReady
<1>4. CASE ~IsAtom(value) /\ IsFunc(value) /\ value.fn \in {"op", "partial"}
  BY <1>4 DEF get_partial_func
<1>5. CASE /\ ~(IsAtom(value) /\ Ok(s) /\ n \in DOMAIN Op_FUNCS /\ Ok(p))
           /\ ~(~IsAtom(value) /\ IsFunc(value) /\ value.fn \in {"op", "partial"})
  <2>1. g.c \in {c, s, p} /\ g.func = Nil
    BY <1>5 DEF get_partial_func
  <2> QED
    BY <1>1, <1>2, <2>1
<1> QED
  BY <1>3, <1>4, <1>5

\* fn_partial.feedback, the value that names the operator.
LEMMA PartialBindOver ==
    ASSUME NEW b, NEW c, Ready(c, b), Calm(c), NEW f, NEW value
    PROVE  Over(PartialBind(c, f, value), b)
<1> DEFINE got == get_partial_func(c, value)
<1>1. Ready(got.c, b) /\ (IsFunc(got.func) => Calm(got.c))
  BY PartialFuncReady
<1> HIDE DEF got
<1>2. CASE ~IsFunc(got.func)
  <2>1. Ok(got.c) => Over(error(got.c, "partial: requires a normal opcode"), b)
    BY <1>1, OkCalm, ReadyCloses, ErrorOver
  <2>2. ~Ok(got.c) => Over(got.c, b)
    BY <1>1, LatchedOver
  <2> QED
    BY <1>2, <2>1, <2>2 DEF PartialBind, got
<1>3. CASE IsFunc(got.func)
  <2>1. BoundOp(got.func).fn # "exitguard" /\ Binding(got.func).fn # "exitguard"
    BY DEF BoundOp, Binding, Func
  <2>2. Closing(got.c, b) /\ Closing(Build(got.c, 1), b)
    BY <1>1, <1>3, BuildReady, ReadyCloses
  <2>3. /\ Over(new_continuation(got.c, BoundOp(got.func), f.args, f.env), b)
        /\ Over(new_continuation(Build(got.c, 1), Binding(got.func), f.args, f.env), b)
    BY <2>1, <2>2, PushOver
  <2> QED
    BY <1>3, <2>3 DEF PartialBind, got
<1> QED
  BY <1>2, <1>3

\* fn_partial.feedback.
LEMMA PartialFeedbackOver ==
    ASSUME NEW b, NEW c, Ready(c, b), Calm(c), NEW f, NEW value
    PROVE  Over(PartialFeedback(c, f, value), b)
<1> DEFINE r    == argument(View, f.fn.op, f.fn.ist, f.fn.state, value)
           p    == Spend(c, r.cost)
           paid == Spend(Build(p, r.built + 1), ELEMENT_ALLOC)
<1>1. Ready(p, b)
  BY SpendReady
<1>2. CASE f.fn = Unbound
  BY <1>2, PartialBindOver DEF PartialFeedback, PartialFolded
<1>3. CASE f.fn # Unbound /\ ~Ok(p)
  BY <1>1, <1>3, LatchedOver DEF PartialFeedback, PartialFolded
<1>4. CASE f.fn # Unbound /\ Ok(p) /\ IsError(r.val)
  <2>1. Closing(Build(p, r.built), b) /\ Calm(Build(p, r.built))
    BY <1>1, <1>4, OkCalm, BuildReady, ReadyCloses
  <2> QED
    BY <1>4, <2>1, DeliverOver DEF PartialFeedback, PartialFolded
<1>5. CASE f.fn # Unbound /\ Ok(p) /\ ~IsError(r.val)
  <2>1. Ready(paid, b)
    BY <1>1, <1>5, OkCalm, BuildReady, SpendReady
  <2>2. ~Ok(paid) => Over(paid, b)
    BY <2>1, LatchedOver
  <2>3. Ok(paid) => Closing(Build(paid, 1), b)
    BY <2>1, OkCalm, BuildReady, ReadyCloses
  <2>4. Binding(Refed(f.fn, r)).fn # "exitguard"
    BY DEF Binding, Func
  <2>5. Ok(paid) => Over(new_continuation(Build(paid, 1), Binding(Refed(f.fn, r)), f.args, f.env), b)
    BY <2>3, <2>4, PushOver
  <2> QED
    BY <1>5, <2>2, <2>5 DEF PartialFeedback, PartialFolded
<1> QED
  BY <1>2, <1>3, <1>4, <1>5

\* fn_partial.step.
LEMMA PartialStepOver ==
    ASSUME NEW b, NEW c, Ready(c, b), Calm(c), NEW f, f.fn.fn = "partial"
    PROVE  Over(PartialStep(c, f), b)
<1>1. Over(fin_value(Build(c, 1), f.fn), b)
  BY BuildReady, ReadyCloses, FinOver
<1>2. \A msg : Over(error(c, msg), b)
  BY ReadyCloses, ErrorOver
<1>3. Over(EvalNextArg(c, f), b)
  BY NextArgOver DEF Receivers
<1> QED
  BY <1>1, <1>2, <1>3 DEF PartialStep

\* fn_apply.step.
LEMMA ApplyStepOver ==
    ASSUME NEW b, NEW c, Ready(c, b), Calm(c), NEW f, f.fn.fn = "apply"
    PROVE  Over(ApplyStep(c, f), b)
<1>1. \A expr, env : Over(TailEval(c, expr, env), b)
  BY EvalOver DEF TailEval
<1>2. \A msg : Over(error(c, msg), b)
  BY ReadyCloses, ErrorOver
<1>3. Over(EvalNextArg(c, f), b)
  BY NextArgOver DEF Receivers
<1> QED
  BY <1>1, <1>2, <1>3 DEF ApplyStep

\* fn_apply.feedback.
LEMMA ApplyFeedbackOver ==
    ASSUME NEW b, NEW c, Ready(c, b), Calm(c), NEW f, NEW value
    PROVE  Over(ApplyFeedback(c, f, value), b)
<1>1. ASSUME NEW n, NEW st
      PROVE  Over(new_continuation(Build(c, n + 1), SpecialFunc("apply", st), f.args, f.env), b)
  <2>1. SpecialFunc("apply", st).fn # "exitguard"
    BY DEF SpecialFunc, Func
  <2> QED
    BY <2>1, BuildReady, ReadyCloses, PushOver
<1>2. \A msg : Over(error(c, msg), b)
  BY ReadyCloses, ErrorOver
<1> QED
  BY <1>1, <1>2 DEF ApplyFeedback

\* fn_softfork.feedback.
LEMMA SoftforkFeedbackOver ==
    ASSUME NEW b, NEW c, Ready(c, b), Calm(c), NEW f, NEW value
    PROVE  Over(SoftforkFeedback(c, f, value), b)
<1>1. ASSUME NEW n, NEW st
      PROVE  Over(new_continuation(Build(c, n + 1), SpecialFunc("softfork", st), f.args, f.env), b)
  <2>1. SpecialFunc("softfork", st).fn # "exitguard"
    BY DEF SpecialFunc, Func
  <2> QED
    BY <2>1, BuildReady, ReadyCloses, PushOver
<1> QED
  BY <1>1 DEF SoftforkFeedback

\* fn_softfork.finish opening a guard: the exit frame is covered by the guarded
\* evaluation before the iteration ends.
LEMMA EnterGuardOver ==
    ASSUME NEW b, NEW c, Ready(c, b), Calm(c), NEW declared, NEW program, NEW guardenv
    PROVE  Over(EnterGuard(c, declared, program, guardenv), b)
<1> DEFINE o == [c EXCEPT !.budget = push_allowance(@, declared)]
           g == Spend(o, GUARD)
           w == new_continuation(Build(g, 1), SpecialFunc("exitguard", Nil), Nil, Nil)
<1>1. /\ o.stack = c.stack /\ o.budget = push_allowance(c.budget, declared)
      /\ o \in [stack : {o.stack}, budget : {o.budget}, made : {o.made}]
  BY DEF Ready, Open, IsConf
<1>2. /\ IsBudget(o.budget) /\ Exclusive(o.budget) /\ Guarded(o.budget)
      /\ o.budget.used = c.budget.used
  <2> DEFINE x == [allowed |-> declared, used |-> 0]
  <2>1. IsSeq(Append(c.budget.allowances, x)) /\ Append(c.budget.allowances, x) # <<>>
    BY AppendEntries DEF Ready, Open, IsConf, IsBudget
  <2> HIDE DEF x
  <2> QED
    BY <1>1, <2>1 DEF push_allowance, x, Ready, Open, IsConf, IsBudget, SpentInFull, Exclusive,
                          Guarded, Calm
<1>3. Open(o, b)
  BY <1>1, <1>2 DEF Ready, Open, IsConf, Frozen
<1>4. Ahead(o.stack, o.budget, 1)
  <2>1. Len(o.budget.allowances) = Len(c.budget.allowances) + 1
    BY <1>1, AppendEntries DEF push_allowance, Ready, Open, IsConf, IsBudget
  <2>2. Latched(c.budget) => Latched(o.budget)
    BY <1>1 DEF push_allowance, Latched, Ready, Open, IsConf, IsBudget
  <2>3. Cardinality(Exits(c.stack)) \in Nat
    BY ExitsFinite DEF Ready, Open, IsConf
  <2> QED
    BY <1>1, <2>1, <2>2, <2>3 DEF Ready, Ahead
<1> HIDE DEF o
<1>5. /\ Open(g, b) /\ Ahead(g.stack, g.budget, 1)
      /\ ~Ok(g) => Over(g, b)
  <2>1. Open(g, b) /\ Ahead(g.stack, g.budget, 1)
    BY <1>3, <1>4, SpendOpen
  <2>2. ~Ok(g) => Ready(g, b)
    BY <2>1 DEF Ready, Ok, Ahead
  <2> QED
    BY <2>1, <2>2, LatchedOver
<1> HIDE DEF g
<1>6. Ok(g) => Ready(w, b) /\ Calm(w)
  <2> SUFFICES ASSUME Ok(g) PROVE Ready(w, b) /\ Calm(w)
    OBVIOUS
  <2> DEFINE h  == Build(g, 1)
             fn == SpecialFunc("exitguard", Nil)
  <2>1. Open(h, b) /\ Calm(h) /\ Ahead(h.stack, h.budget, 1)
    BY <1>5, OkCalm, BuildConf DEF Open, Frozen, Guarded, Ahead
  <2>2. fn.fn = "exitguard" /\ fn.fn \in Receivers
    BY DEF SpecialFunc, Func, Receivers
  <2> HIDE DEF h, fn
  <2>3. Ready(new_continuation(h, fn, Nil, Nil), b) /\ Calm(new_continuation(h, fn, Nil, Nil))
    BY <2>1, <2>2, PushOpen
  <2> QED
    BY <2>3 DEF h, fn
<1>7. Ok(g) => Over(eval_arg(w, program, guardenv), b)
  BY <1>6, EvalOver
<1> QED
  BY <1>5, <1>7 DEF EnterGuard, g, o

\* fn_softfork.finish.
LEMMA SoftforkFinishOver ==
    ASSUME NEW b, NEW c, Ready(c, b), Calm(c), NEW state
    PROVE  Over(SoftforkFinish(c, state), b)
<1> DEFINE count    == Stored(state)
           val(k)   == After(state, count - k).val1
           declared == AsInt(val(1))
           scanned  == IF IsAtom(val(1)) THEN Spend(c, atom_scan(val(1).width)) ELSE c
           lump     == Spend(scanned, declared)
           shaped   == count = 4 /\ IsAtom(val(2))
           read     == IF shaped THEN Spend(lump, atom_scan(val(2).width)) ELSE lump
<1>1. Ready(scanned, b)
  BY SpendReady
<1>2. Ready(read, b)
  BY <1>1, SpendReady
<1>3. \A msg : Over(error(c, msg), b)
  BY ReadyCloses, ErrorOver
<1>4. Ok(scanned) => \A msg : Over(error(scanned, msg), b)
  BY <1>1, OkCalm, ReadyCloses, ErrorOver
<1>5. ~Ok(scanned) => Over(scanned, b)
  BY <1>1, LatchedOver
<1>6. ~Ok(read) => Over(read, b)
  BY <1>2, LatchedOver
<1>7. Ok(read) => /\ Over(EnterGuard(read, declared, val(3), val(4)), b)
                 /\ Over(fin_value(read, Nil), b)
  BY <1>2, OkCalm, ReadyCloses, EnterGuardOver, FinOver
<1> QED
  BY <1>3, <1>4, <1>5, <1>6, <1>7 DEF SoftforkFinish

\* fn_softfork.step.
LEMMA SoftforkStepOver ==
    ASSUME NEW b, NEW c, Ready(c, b), Calm(c), NEW f, f.fn.fn = "softfork"
    PROVE  Over(SoftforkStep(c, f), b)
<1>1. Over(SoftforkFinish(c, f.fn.state), b)
  BY SoftforkFinishOver
<1>2. \A msg : Over(error(c, msg), b)
  BY ReadyCloses, ErrorOver
<1>3. Over(EvalNextArg(c, f), b)
  BY NextArgOver DEF Receivers
<1> QED
  BY <1>1, <1>2, <1>3 DEF SoftforkStep

\* The guard that closes is the innermost one of a guarded configuration.
LEMMA ExitGuardOver ==
    ASSUME NEW b, NEW c, Open(c, b), Ok(c), Ahead(c.stack, c.budget, 1), NEW f, NEW value
    PROVE  Over(ExitGuardFeedback(c, f, value), b)
<1> DEFINE closed == [c EXCEPT !.budget = pop_allowance(@)]
           a      == c.budget.allowances
<1>1. /\ closed.stack = c.stack /\ closed.budget = pop_allowance(c.budget)
      /\ closed \in [stack : {closed.stack}, budget : {closed.budget}, made : {closed.made}]
  BY DEF Open, IsConf
<1>2. /\ IsSeq(SubSeq(a, 1, Len(a) - 1))
      /\ Len(SubSeq(a, 1, Len(a) - 1)) = Len(a) - 1
      /\ Cardinality(Exits(c.stack)) = Len(a) - 1
  <2>1. Cardinality(Exits(c.stack)) \in Nat
    BY ExitsFinite DEF Open, IsConf
  <2>2. Len(a) = Cardinality(Exits(c.stack)) + 1
    BY DEF Ahead, Ok
  <2>3. a # <<>>
    BY <2>1, <2>2, NoExits
  <2> QED
    BY <2>1, <2>2, <2>3, BelowEntries DEF Below, Open, IsConf, IsBudget
<1>3. /\ IsBudget(closed.budget) /\ Exclusive(closed.budget)
      /\ closed.budget.used = c.budget.used /\ closed.budget.exhausted = c.budget.exhausted
      /\ Len(closed.budget.allowances) = Len(a) - 1
  BY <1>1, <1>2, OkCalm DEF pop_allowance, Open, IsConf, IsBudget, SpentInFull, Exclusive, Calm
<1>4. Closing(closed, b) /\ Calm(closed)
  <2>1. Calm(c) /\ Cardinality(Exits(c.stack)) \in Nat
    BY OkCalm, ExitsFinite DEF Open, IsConf
  <2> QED
    BY <1>1, <1>2, <1>3, <2>1 DEF Closing, Calm, Open, IsConf, Frozen, Ahead
<1> HIDE DEF closed
<1>5. Over(fin_value(closed, Nil), b) /\ Over(error(closed, Mismatch), b)
  BY <1>4, FinOver, ErrorOver
<1> QED
  BY <1>5 DEF ExitGuardFeedback, closed

\* Every class of frame that can wait delivers what it received.
LEMMA ReceiveOver ==
    ASSUME NEW b, NEW c, Open(c, b), Ok(c), NEW f, f.fn.fn \in Receivers, NEW value,
           Ahead(c.stack, c.budget, IF f.fn.fn = "exitguard" THEN 1 ELSE 0)
    PROVE  Over(Receive(c, f, value), b)
<1>1. CASE f.fn.fn = "exitguard"
  <2>1. Over(ExitGuardFeedback(c, f, value), b)
    BY <1>1, ExitGuardOver
  <2> QED
    BY <1>1, <2>1 DEF Receive
<1>2. CASE f.fn.fn # "exitguard"
  <2>1. Ready(c, b) /\ Calm(c)
    BY <1>2, OkCalm DEF Ready
  <2>2. /\ Over(OpFeedback(c, f, value), b)
        /\ Over(PartialFeedback(c, f, value), b)
        /\ Over(ApplyFeedback(c, f, value), b)
        /\ Over(SoftforkFeedback(c, f, value), b)
    BY <2>1, OpFeedbackOver, PartialFeedbackOver, ApplyFeedbackOver, SoftforkFeedbackOver
  <2> QED
    BY <1>2, <2>2 DEF Receive, Receivers
<1> QED
  BY <1>1, <1>2

\* Taking the top frame off.
LEMMA PoppedOpen ==
    ASSUME NEW b, NEW c, IsConf(c), Exclusive(c.budget), LowerReceiving(c.stack),
           c.stack # <<>>, Frozen(b, c.budget), Guarded(b) => Guarded(c.budget),
           Ahead(c.stack, c.budget, 0)
    PROVE  /\ Open(Popped(c), b)
           /\ Ahead(Popped(c).stack, Popped(c).budget,
                    IF Top(c.stack).fn.fn = "exitguard" THEN 1 ELSE 0)
           /\ Popped(c).budget = c.budget
<1>1. /\ Popped(c).stack = Below(c.stack) /\ Popped(c).budget = c.budget
      /\ Popped(c) \in [stack : {Popped(c).stack}, budget : {Popped(c).budget},
                        made : {Popped(c).made}]
  BY DEF IsConf, Popped
<1>2. /\ IsSeq(Below(c.stack)) /\ Len(Below(c.stack)) = Len(c.stack) - 1
      /\ Len(c.stack) \in Nat \ {0}
      /\ \A i \in 1..Len(c.stack)-1 : Below(c.stack)[i] = c.stack[i]
  BY BelowEntries DEF IsConf
<1>3. Receiving(Below(c.stack))
  BY <1>2 DEF Receiving, LowerReceiving
<1>4. Ahead(Below(c.stack), c.budget, IF Top(c.stack).fn.fn = "exitguard" THEN 1 ELSE 0)
  <2> DEFINE t == Below(c.stack)
  <2>1. Len(t) \in Nat /\ Len(c.stack) = Len(t) + 1 /\ \A i \in 1..Len(t) : c.stack[i] = t[i]
    BY <1>2
  <2> HIDE DEF t
  <2>2. /\ Cardinality(Exits(t)) \in Nat
        /\ Top(c.stack).fn.fn = "exitguard" =>
              Cardinality(Exits(c.stack)) = Cardinality(Exits(t)) + 1
        /\ Top(c.stack).fn.fn # "exitguard" =>
              Cardinality(Exits(c.stack)) = Cardinality(Exits(t))
    BY <2>1, ExitsGrow DEF Top
  <2>3. Ahead(t, c.budget, IF Top(c.stack).fn.fn = "exitguard" THEN 1 ELSE 0)
    BY <2>2 DEF Ahead
  <2> QED
    BY <2>3 DEF t
<1> QED
  BY <1>1, <1>2, <1>3, <1>4 DEF Open, IsConf

\* WorkItem.feedback.
LEMMA DeliveryOver ==
    ASSUME NEW b, NEW c, Ready(c, b), Calm(c), NEW value
    PROVE  Over(feedback(c, value), b)
<1> DEFINE p == Spend(c, STEP)
<1>1. Ready(p, b) /\ p.stack = c.stack
  BY SpendReady DEF Spend, Ready, Open, IsConf
<1>2. CASE IsError(value)
  <2>1. Closing(unwind(c), b) /\ Calm(unwind(c))
    BY UnwindCloses DEF Ready, Open
  <2> QED
    BY <1>2, <2>1, FinOver DEF feedback
<1>3. CASE ~IsError(value) /\ c.stack = <<>>
  BY <1>3, ReadyCloses, FinOver DEF feedback
<1>4. CASE ~IsError(value) /\ c.stack # <<>> /\ ~Ok(p)
  BY <1>1, <1>4, LatchedOver DEF feedback
<1>5. CASE ~IsError(value) /\ c.stack # <<>> /\ Ok(p)
  <2>1. Len(p.stack) \in Nat \ {0}
    BY <1>1, <1>5, BelowEntries DEF Ready, Open, IsConf
  <2>2. LowerReceiving(p.stack) /\ Top(p.stack).fn.fn \in Receivers
    BY <1>1, <2>1 DEF Ready, Open, Receiving, LowerReceiving, Top
  <2>3. /\ Open(Popped(p), b) /\ Ok(Popped(p))
        /\ Ahead(Popped(p).stack, Popped(p).budget,
                 IF Top(p.stack).fn.fn = "exitguard" THEN 1 ELSE 0)
    BY <1>1, <1>5, <2>2, PoppedOpen DEF Ready, Open, IsConf, Ok
  <2>4. Over(Receive(Popped(p), Top(p.stack), value), b)
    BY <2>2, <2>3, ReceiveOver
  <2> QED
    BY <1>5, <2>4 DEF feedback
<1> QED
  BY <1>2, <1>3, <1>4, <1>5

\* fn_blleval.step on an atom.
LEMMA EvalAtomOver ==
    ASSUME NEW b, NEW c, Ready(c, b), Calm(c), NEW a, NEW env
    PROVE  Over(EvalAtom(c, a, env), b)
<1> DEFINE s == Spend(c, atom_scan(a.width))
           r == ResolveEnv(env, AsInt(a))
           p == Spend(s, r.cost)
<1>1. Ready(s, b) /\ Ready(p, b)
  BY SpendReady
<1>2. ~Ok(s) => Over(s, b)
  BY <1>1, LatchedOver
<1>3. Ok(s) => Over(fin_value(s, a), b)
  BY <1>1, OkCalm, ReadyCloses, FinOver
<1>4. ~Ok(p) => Over(p, b)
  BY <1>1, LatchedOver
<1>5. Ok(p) => Over(fin_value(Build(p, r.built), r.val), b)
  BY <1>1, OkCalm, BuildReady, ReadyCloses, FinOver
<1> HIDE DEF r
<1> QED
  BY <1>2, <1>3, <1>4, <1>5 DEF EvalAtom, r

\* ResolveOpcode: a function is found only with its scan paid, and no operator
\* number names the exit frame of a guard.
LEMMA ResolvedReady ==
    ASSUME NEW b, NEW c, Ready(c, b), Calm(c), NEW op
    PROVE  /\ Ready(ResolveOpcode(c, op).c, b)
           /\ IsFunc(ResolveOpcode(c, op).func) =>
                 /\ Calm(ResolveOpcode(c, op).c)
                 /\ ResolveOpcode(c, op).func.fn # "exitguard"
<1> DEFINE s    == Spend(c, atom_scan(op.width))
           func == OpcodeFunc(AsInt(op))
           g    == ResolveOpcode(c, op)
<1>1. Ready(s, b)
  BY SpendReady
<1>2. ~IsFunc(Nil)
  BY DEF IsFunc, Nil, Atom, FromBytes
<1>3. IsFunc(func) => func.fn # "exitguard"
  <2>1. \A n \in 0..3 : SpecialOps[n] # "exitguard"
    BY DEF SpecialOps
  <2>2. DOMAIN SpecialOps = 0..3
    BY DEF SpecialOps
  <2> QED
    BY <1>2, <2>1, <2>2 DEF OpcodeFunc, SpecialFunc, InitialOp, Func
<1> HIDE DEF func
<1>4. CASE IsAtom(op) /\ Ok(s) /\ IsFunc(func)
  <2>1. g.c = Build(s, InitialOpBuilt(func.op)) /\ g.func = func
    BY <1>4 DEF ResolveOpcode, func
  <2> QED
    BY <1>1, <1>3, <1>4, <2>1, OkCalm, BuildReady
<1>5. CASE ~(IsAtom(op) /\ Ok(s) /\ IsFunc(func))
  <2>1. g.c \in {c, s} /\ g.func = Nil
    BY <1>5 DEF ResolveOpcode, func
  <2> QED
    BY <1>1, <1>2, <2>1
<1> QED
  BY <1>4, <1>5

\* fn_blleval.step on a pair.
LEMMA EvalConsOver ==
    ASSUME NEW b, NEW c, Ready(c, b), Calm(c), NEW expr, NEW env
    PROVE  Over(EvalCons(c, expr, env), b)
<1> DEFINE r == ResolveOpcode(c, expr.val1)
<1>1. /\ Ready(r.c, b)
      /\ IsFunc(r.func) => Calm(r.c) /\ r.func.fn # "exitguard"
  BY ResolvedReady
<1> HIDE DEF r
<1>2. IsFunc(r.func) => Over(new_continuation(r.c, r.func, expr.val2, env), b)
  BY <1>1, ReadyCloses, PushOver
<1>3. Ok(r.c) => Over(error(r.c, "invalid opcode"), b)
  BY <1>1, OkCalm, ReadyCloses, ErrorOver
<1>4. ~Ok(r.c) => Over(r.c, b)
  BY <1>1, LatchedOver
<1> QED
  BY <1>2, <1>3, <1>4 DEF EvalCons, r

\* fn_blleval.step.
LEMMA BllEvalOver ==
    ASSUME NEW b, NEW c, Ready(c, b), Calm(c), NEW f
    PROVE  Over(BllEvalStep(c, f), b)
<1>1. Over(fin_value(c, f.args), b) /\ \A msg : Over(error(c, msg), b)
  BY ReadyCloses, FinOver, ErrorOver
<1>2. Over(EvalAtom(c, f.args, f.env), b) /\ Over(EvalCons(c, f.args, f.env), b)
  BY EvalAtomOver, EvalConsOver
<1> QED
  BY <1>1, <1>2 DEF BllEvalStep

\* The end of WorkItem.step hides the guard breach from the driver.
LEMMA SettleOver ==
    ASSUME NEW b, NEW c, Over(c, b)
    PROVE  Over(Settle(c), b) /\ ~Settle(c).budget.guard_breach
<1>1. CASE ~c.budget.guard_breach
  BY <1>1 DEF Settle
<1>2. CASE c.budget.guard_breach
  <2> DEFINE u == unwind(c)
             v == Build(u, 1)
             w == Build(v, 1)
  <2>1. Closing(u, b) /\ Calm(u) /\ ~u.budget.guard_breach
    BY <1>2, UnwindCloses, ClearBudget DEF Over, IsConf, Exclusive, Calm
  <2>2. Over(error(u, Mismatch), b)
    BY <2>1, ErrorOver
  <2>3. Closing(v, b) /\ ~v.budget.guard_breach
    BY <2>1, BuildClosing, BuildFields DEF Closing
  <2>4. IsConf(w) /\ ~w.budget.guard_breach
    BY <2>1, <2>3, BuildClosing, BuildFields DEF Closing
  <2> HIDE DEF u, v, w
  <2>5. error(u, Mismatch).budget = w.budget
    BY <2>4 DEF v, w, error, fin_value, new_continuation, IsConf
  <2> QED
    BY <1>2, <2>2, <2>4, <2>5 DEF Settle, u
<1> QED
  BY <1>1, <1>2 DEF Over, IsConf, IsBudget

-----------------------------------------------------------------------------
\* The machine.

\* The inductive invariant, between two iterations and after the return.
Inv ==
    /\ IsSeq(stack) /\ IsBudget(budget) /\ LowerReceiving(stack)
    /\ Looping => stack # <<>> /\ Top(stack).fn.fn # "exitguard"
    /\ ~budget.guard_breach
    /\ result = Pending => Exclusive(budget)
    /\ Ahead(stack, budget, 0)
    /\ result # Pending => stack = <<>>

\* The variables of a running evaluation form a configuration.
LEMMA NowConf ==
    ASSUME Inv, result = Pending
    PROVE  /\ IsConf(Now) /\ LowerReceiving(Now.stack)
           /\ Now.stack = stack /\ Now.budget = budget /\ Now.made = made
BY DEF Inv, Now, IsConf

\* What an iteration commits keeps the invariant.
LEMMA CommitStep ==
    ASSUME NEW d, Over(d, budget), result = Pending, Commit(d)
    PROVE  Inv' /\ Frozen(budget, budget')
<1> DEFINE e == Settle(d)
<1>1. Over(e, budget) /\ ~e.budget.guard_breach
  BY SettleOver
<1>2. stack' = e.stack /\ budget' = e.budget /\ result' = Pending
  BY DEF Commit
<1> HIDE DEF e
<1>3. Looping' => Ok(e)
  BY <1>1, <1>2 DEF Looping, Ok, Latched
<1> QED
  BY <1>1, <1>2, <1>3 DEF Over, IsConf, Inv, Frozen

\* What every stepping action starts its handler from.
LEMMA SteppingReady ==
    ASSUME Inv, Looping, Ok(Charged)
    PROVE  Ready(Popped(Charged), budget) /\ Calm(Popped(Charged))
<1>1. result = Pending /\ stack # <<>>
  BY DEF Looping, Inv
<1>2. /\ Charged.stack = stack /\ Charged.budget = charge(budget, STEP)
      /\ Charged \in [stack : {Charged.stack}, budget : {Charged.budget}, made : {Charged.made}]
  BY DEF Charged, Spend, Now
<1>3. /\ IsBudget(Charged.budget) /\ Exclusive(Charged.budget)
      /\ Guarded(budget) => Guarded(Charged.budget) /\ Charged.budget.used = budget.used
  BY <1>1, <1>2, ChargeBudget DEF Inv
<1>4. IsConf(Charged) /\ LowerReceiving(Charged.stack)
  BY <1>2, <1>3 DEF Inv, IsConf
<1>5. Calm(Charged)
  BY OkCalm
<1>6. Ahead(Charged.stack, Charged.budget, 0) /\ Top(Charged.stack).fn.fn # "exitguard"
  BY <1>1, <1>2, ChargeBudget DEF Inv, Ahead
<1> HIDE DEF Charged
<1> QED
  BY <1>1, <1>2, <1>3, <1>4, <1>5, <1>6, PoppedOpen DEF Frozen, Ready, Calm

\* The charge for the pop failed: the frame stays, the evaluation is latched.
LEMMA RefusedOver ==
    ASSUME Inv, Looping, ~Ok(Charged)
    PROVE  Over(Charged, budget)
<1>1. result = Pending
  BY DEF Looping
<1>2. /\ Charged.stack = stack /\ Charged.budget = charge(budget, STEP)
      /\ Charged \in [stack : {Charged.stack}, budget : {Charged.budget}, made : {Charged.made}]
  BY DEF Charged, Spend, Now
<1>3. /\ IsBudget(Charged.budget) /\ Exclusive(Charged.budget)
      /\ Guarded(budget) => Charged.budget.used = budget.used
      /\ Ahead(Charged.stack, Charged.budget, 0)
  BY <1>1, <1>2, ChargeBudget DEF Inv, Ahead
<1> QED
  BY <1>2, <1>3 DEF Inv, Over, IsConf, Frozen

\* Every iteration of eval's loop keeps the invariant and shields the outer
\* counter of a guard it began in.
LEMMA StepPreserves ==
    ASSUME Inv, Step
    PROVE  Inv' /\ Frozen(budget, budget')
<1>0. result = Pending
  BY DEF Step, StepRefused, StepValue, StepOp, StepPartial, StepApply, StepSoftfork,
         StepBllEval, Stepping, Looping
<1> DEFINE c == Popped(Charged)
           f == Top(stack)
<1>1. CASE StepRefused
  BY <1>0, <1>1, RefusedOver, CommitStep DEF StepRefused
<1>2. CASE StepValue
  <2>1. Ready(c, budget) /\ Calm(c) /\ Commit(feedback(c, f.args))
    BY <1>2, SteppingReady DEF StepValue, Stepping
  <2> QED
    BY <1>0, <2>1, DeliveryOver, CommitStep
<1>3. CASE StepOp
  <2>1. Ready(c, budget) /\ Calm(c) /\ f.fn.fn = "op" /\ Commit(OpStep(c, f))
    BY <1>3, SteppingReady DEF StepOp, Stepping
  <2> QED
    BY <1>0, <2>1, OpStepOver, CommitStep
<1>4. CASE StepPartial
  <2>1. Ready(c, budget) /\ Calm(c) /\ f.fn.fn = "partial" /\ Commit(PartialStep(c, f))
    BY <1>4, SteppingReady DEF StepPartial, Stepping
  <2> QED
    BY <1>0, <2>1, PartialStepOver, CommitStep
<1>5. CASE StepApply
  <2>1. Ready(c, budget) /\ Calm(c) /\ f.fn.fn = "apply" /\ Commit(ApplyStep(c, f))
    BY <1>5, SteppingReady DEF StepApply, Stepping
  <2> QED
    BY <1>0, <2>1, ApplyStepOver, CommitStep
<1>6. CASE StepSoftfork
  <2>1. Ready(c, budget) /\ Calm(c) /\ f.fn.fn = "softfork" /\ Commit(SoftforkStep(c, f))
    BY <1>6, SteppingReady DEF StepSoftfork, Stepping
  <2> QED
    BY <1>0, <2>1, SoftforkStepOver, CommitStep
<1>7. CASE StepBllEval
  <2>1. Ready(c, budget) /\ Calm(c) /\ Commit(BllEvalStep(c, f))
    BY <1>7, SteppingReady DEF StepBllEval, Stepping
  <2> QED
    BY <1>0, <2>1, BllEvalOver, CommitStep
<1> QED
  BY <1>1, <1>2, <1>3, <1>4, <1>5, <1>6, <1>7 DEF Step

\* So does the end of eval.
LEMMA ReturnPreserves ==
    ASSUME Inv, Return
    PROVE  Inv' /\ Frozen(budget, budget')
<1>0. result = Pending /\ IsConf(Now) /\ Now.budget = budget
  BY NowConf DEF Return
<1>1. ASSUME NEW msg
      PROVE  LET d == Refusal(Now, msg).c
             IN  /\ d.stack = <<>> /\ IsBudget(d.budget) /\ ~d.budget.guard_breach
                 /\ d.budget.used = budget.used /\ d.budget.allowances = <<>>
                 /\ Refusal(Now, msg).value # Pending
  <2> DEFINE u == unwind(Now)
             v == Build(u, 1)
  <2>1. /\ IsConf(u) /\ ~u.budget.guard_breach /\ u.budget.used = budget.used
        /\ u.budget.allowances = <<>>
    BY <1>0, UnwindCloses, ClearBudget DEF Closing, IsConf, Frozen
  <2>2. /\ IsBudget(v.budget) /\ ~v.budget.guard_breach /\ v.budget.used = budget.used
        /\ v.budget.allowances = <<>>
        /\ v \in [stack : {v.stack}, budget : {v.budget}, made : {v.made}]
    <3>1. /\ IsBudget(latch_alloc_breach(u.budget))
          /\ latch_alloc_breach(u.budget).allowances = <<>>
      BY <2>1 DEF IsConf, IsBudget, SpentInFull, latch_alloc_breach
    <3> QED
      BY <2>1, <3>1, BuildFields DEF IsConf
  <2> HIDE DEF v
  <2> QED
    BY <2>2 DEF Refusal, Answer, v, Error, Pending
<1>2. \A e : IsBll(e) \/ IsError(e) => e # Pending
  BY DEF IsBll, IsError, Pending
<1>3. ASSUME ~budget.exhausted, ~budget.alloc_breach, NEW v
      PROVE  LET d == Answer(Now, v).c
                 g == Answer(Build(Now, 1), v).c
             IN  /\ d.stack = <<>> /\ d.budget = budget
                 /\ g.stack = <<>> /\ IsBudget(g.budget) /\ ~g.budget.guard_breach
                 /\ g.budget.used = budget.used /\ g.budget.allowances = budget.allowances
                 /\ Answer(Now, v).value = v /\ Answer(Build(Now, 1), v).value = v
  <2> DEFINE w == Build(Now, 1)
  <2>1. /\ IsConf(w) /\ ~w.budget.guard_breach /\ w.budget.used = budget.used
        /\ w.budget.allowances = budget.allowances
    BY <1>0, <1>3, BuildConf, BuildFields DEF Calm, Inv
  <2> HIDE DEF w
  <2> QED
    BY <1>0, <2>1 DEF Answer, IsConf, w
<1>4. \A msg : Error(msg) # Pending
  BY DEF Error, Pending
<1>5. /\ Outcome.c.stack = <<>> /\ IsBudget(Outcome.c.budget)
      /\ ~Outcome.c.budget.guard_breach /\ Outcome.c.budget.used = budget.used
      /\ Outcome.value # Pending /\ Outcome.c.budget.allowances = <<>>
  <2>0. CASE Thrown(stack)
    <3>1. Outcome = Answer(unwind(Now), Raises)
      BY <2>0 DEF Outcome
    <3>2. /\ IsConf(unwind(Now)) /\ ~unwind(Now).budget.guard_breach
          /\ unwind(Now).budget.used = budget.used /\ unwind(Now).budget.allowances = <<>>
      BY <1>0, UnwindCloses, ClearBudget DEF Closing, IsConf, Frozen
    <3> DEFINE u == unwind(Now)
    <3> HIDE DEF u
    <3>3. Answer(u, Raises).c.budget = u.budget /\ Answer(u, Raises).c.stack = <<>>
          /\ Answer(u, Raises).value = Raises
      BY <3>2 DEF Answer, IsConf, u
    <3> QED
      BY <1>4, <3>1, <3>2, <3>3 DEF IsConf, Raises, u
  <2>1. CASE ~Thrown(stack) /\ (budget.alloc_breach \/ budget.exhausted)
    <3>1. \E msg : Outcome = Refusal(Now, msg)
      BY <2>1 DEF Outcome
    <3> QED
      BY <1>1, <3>1
  <2>2. CASE ~Thrown(stack) /\ ~budget.alloc_breach /\ ~budget.exhausted
    <3>1. \E v : /\ v # Pending
                 /\ Outcome \in {Answer(Now, v), Answer(Build(Now, 1), v)}
      BY <1>2, <1>4, <2>2 DEF Outcome
    <3>2. IsBudget(budget) /\ ~budget.guard_breach
      BY DEF Inv
    <3>3. budget.allowances = <<>>
      <4>1. Len(stack) = 1 /\ stack[1].fn.fn = "fin"
        BY <1>0, <2>2 DEF Return, Looping, finished
      <4>2. Cardinality(Exits(stack)) = 0
        <5>1. Exits(stack) = {}
          BY <4>1 DEF Exits
        <5> QED
          BY <5>1, FS_EmptySet
      <4>3. Len(budget.allowances) = 0
        BY <2>2, <4>2 DEF Inv, Ahead, Latched
      <4> QED
        BY <4>3 DEF Inv, IsBudget, IsSeq
    <3> QED
      BY <1>3, <2>2, <3>1, <3>2, <3>3
  <2> QED
    BY <2>0, <2>1, <2>2
<1>6. IsSeq(<<>>) /\ LowerReceiving(<<>>)
  BY DEF IsSeq, LowerReceiving
<1> QED
  BY <1>5, <1>6, NoExits DEF Return, Inv, Looping, Frozen, Ahead

\* WorkItem.begin establishes the invariant.
LEMMA InitInv ==
    Init => Inv
<1> SUFFICES ASSUME Init PROVE Inv
  OBVIOUS
<1>1. PICK j, limit : /\ stack = begin(j, limit).stack
                      /\ budget = begin(j, limit).budget /\ result = Pending
  BY DEF Init
<1>2. PICK p, e : stack = <<Frame(SpecialFunc("blleval", Nil), p, e)>>
  BY <1>1 DEF begin
<1> DEFINE x == Frame(SpecialFunc("blleval", Nil), p, e)
<1>3. x.fn.fn # "exitguard"
  BY DEF Frame, SpecialFunc, Func
<1> HIDE DEF x
<1>4. /\ IsSeq(<<x>>) /\ Len(<<x>>) = 1 /\ <<x>>[1] = x /\ <<x>> # <<>>
  <2>1. <<x>> \in Seq({x})
    OBVIOUS
  <2> QED
    BY <2>1 DEF IsSeq
<1>7. /\ IsSeq(stack) /\ Top(stack).fn.fn # "exitguard" /\ stack # <<>>
      /\ LowerReceiving(stack)
  <2>1. stack = <<x>>
    BY <1>2 DEF x
  <2> QED
    BY <1>3, <1>4, <2>1 DEF Top, LowerReceiving
<1>5. budget \in {NewBudget(limit), latch_alloc_breach(NewBudget(limit))}
  BY <1>1 DEF begin
<1>6. IsBudget(budget) /\ ~budget.guard_breach /\ Exclusive(budget)
  <2>1. IsSeq(<<>>)
    BY DEF IsSeq
  <2>2. IsBudget(NewBudget(limit)) /\ ~NewBudget(limit).exhausted
        /\ ~NewBudget(limit).guard_breach
    BY <2>1 DEF NewBudget, IsBudget, SpentInFull
  <2>3. ~latch_alloc_breach(NewBudget(limit)).guard_breach
    BY DEF NewBudget, latch_alloc_breach
  <2> QED
    BY <1>5, <2>2, <2>3, LatchBudget DEF Exclusive
<1>8. Ahead(stack, budget, 0)
  <2>1. Exits(stack) = {}
    BY <1>2, <1>3, <1>4 DEF Exits, x
  <2>2. Cardinality(Exits(stack)) = 0
    BY <2>1, FS_EmptySet
  <2>3. budget.allowances = <<>>
    BY <1>5 DEF NewBudget, latch_alloc_breach
  <2> QED
    BY <2>2, <2>3, NoExits DEF Ahead
<1> QED
  BY <1>1, <1>6, <1>7, <1>8 DEF Inv

\* The invariant is inductive.
LEMMA NextInv ==
    Inv /\ [Next]_vars => Inv' /\ Frozen(budget, budget')
<1> SUFFICES ASSUME Inv, [Next]_vars PROVE Inv' /\ Frozen(budget, budget')
  OBVIOUS
<1>1. CASE Step
  BY <1>1, StepPreserves
<1>2. CASE Return
  BY <1>2, ReturnPreserves
<1>3. CASE Done \/ UNCHANGED vars
  BY <1>3 DEF Done, vars, Inv, Looping, finished, Thrown, Frozen
<1> QED
  BY <1>1, <1>2, <1>3 DEF Next

\* The inductive invariant: frames below the top receive values, a running
\* evaluation has a frame to step that is not a guard's exit frame, the guard
\* breach is never seen between iterations, exhaustion excludes both breaches and
\* reports the limit, open allowances and waiting exit frames are equally many.
THEOREM Structure ==
    Spec => []Inv
<1>1. Init => Inv
  BY InitInv
<1>2. Inv /\ [Next]_vars => Inv'
  BY NextInv
<1> QED
  BY <1>1, <1>2, PTL DEF Spec

\* What the invariant says of the stack.
LEMMA InvReceives ==
    Inv => PendingFramesReceive
BY DEF Inv, PendingFramesReceive, LowerReceiving

\* Of the guards: allowances and exit frames are as many.
LEMMA InvPairs ==
    Inv => GuardsPaired
<1> SUFFICES ASSUME Inv PROVE GuardsPaired
  OBVIOUS
<1>1. Cardinality(Exits(stack)) \in Nat
  BY ExitsFinite DEF Inv
<1> QED
  BY <1>1 DEF Inv, Ahead, Exits, GuardsPaired

\* Of the latches: they exclude each other.
LEMMA InvExcludes ==
    Inv => LatchesExclusive
BY DEF Inv, Exclusive, LatchesExclusive

\* Of exhaustion: it reads the limit.
LEMMA InvSpent ==
    Inv => ExhaustedInFull
BY DEF Inv, IsBudget, SpentInFull, ExhaustedInFull

\* In eval's loop every value is delivered to a frame whose feedback exists, and
\* WorkItem.step never pops an empty stack or steps fn_exitguard.
THEOREM FramesReceive ==
    Spec => []PendingFramesReceive
BY InvReceives, Structure, PTL

\* eval's comment that its two latches are mutually exclusive, and step's promise
\* that drivers never see the guard breach latch, hold of every evaluation.
THEOREM LatchExclusion ==
    Spec => []LatchesExclusive
BY InvExcludes, Structure, PTL

\* Until something is latched as many allowances are open as exit frames wait to
\* close them: no charge falls on an allowance that nobody will close, and no
\* guard that closes finds none open.
THEOREM GuardPairing ==
    Spec => []GuardsPaired
BY InvPairs, Structure, PTL

\* An exhausted evaluation reports exactly its limit and has left every guard,
\* whatever its operators charge and wherever in a handler the charge failed.
THEOREM ExhaustionReported ==
    Spec => []ExhaustedInFull
BY InvSpent, Structure, PTL

\* An iteration that begins under an open guard never changes the outer counter,
\* however many guards it closes, overruns or abandons.
THEOREM GuardShields ==
    Spec => OuterFrozen
<1>1. Inv /\ [Next]_vars => [Guarded(budget) => budget'.used = budget.used]_vars
  BY NextInv DEF Frozen
<1> QED
  BY <1>1, Structure, PTL DEF Spec, OuterFrozen
=============================================================================
