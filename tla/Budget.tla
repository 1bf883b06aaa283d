------------------------------- MODULE Budget -------------------------------
(***************************************************************************)
(* The cost allowance of one evaluation (costs.py, class Budget) as a      *)
(* record, one operator per method, and the cost constants the evaluator   *)
(* charges.  charge() answers False exactly when a latch is set after the  *)
(* call, so an operator returns the new budget and its caller reads        *)
(* Latched of it.  What an operator charges and builds is a path, at the   *)
(* end of the module.                                                      *)
(***************************************************************************)
EXTENDS Elements

STEP          == 24
ENV_EDGE      == 3
GUARD         == 56
FIX_COLLECT   == 152
ELEMENT_ALLOC == 320
MALLOC_PER_BYTE == 10
COPY_PER_BYTE   == 1

CONTROL_BASE     == 64
RC_ARG           == 64 + ELEMENT_ALLOC
B_ARG            == 192 + ELEMENT_ALLOC
LOGIC_ARG        == 10
COMPARE_ARG      == 64
COMPARE_PER_BYTE == 1
LT_NUM_PER_BYTE  == 3
BIGEQ_PER_NODE   == 10
STRLEN_ARG       == 128
CAT_ARG          == 96
BITWISE_ARG      == 160
SUBSTR_BASE      == 64 + ELEMENT_ALLOC

ARITH_ARG      == 160
ARITH_PER_BYTE == 4
MULDIV_LIMB_PER_BYTE == 6
MUL_PRODUCT_DIV == 8
MOD_BASE     == 512 + ELEMENT_ALLOC
MOD_PER_BYTE == 3
SHIFT_BASE   == 384 + ELEMENT_ALLOC

HASH_ARG      == 200
HASH_PER_BYTE == 4
HASH_BASE     == 448 + ELEMENT_ALLOC

SIG_VERIFY      == 28000
ECDSA_PARSE     == 4096
MULADD_ARG      == 96 + ELEMENT_ALLOC
MULADD_BASE     == 3072
MULADD_PER_TERM == 28000

TX_ARG         == 176
TXMSG_BASE     == 3584 + ELEMENT_ALLOC
TXMSG_PER_BYTE == 8

RD_BASE        == 192
RD_PER_ELEMENT == 16 + ELEMENT_ALLOC
RD_PER_BYTE    == 4
WR_BASE        == 224 + ELEMENT_ALLOC
WR_PER_ELEMENT == 4
WR_PER_BYTE    == 1

BUDGET_BASE             == 28000
BUDGET_PER_WITNESS_BYTE == 560

\* Mutant: the witness buys nothing beyond the base.
BudgetBaseOnly(size) == BUDGET_BASE

budget_for_witness_size(size) == BUDGET_BASE + BUDGET_PER_WITNESS_BYTE * size

Wider(l, r) == IF l >= r THEN l ELSE r

atom_scan(width) == IF width <= 8 THEN 0 ELSE width

mul_fold_work(l, r) ==
    ARITH_PER_BYTE * (l + r) + MULDIV_LIMB_PER_BYTE * Wider(l, r)
        + (l * r) \div MUL_PRODUCT_DIV

(***************************************************************************)
(* The three latches, the outer counter and the stack of guard allowances. *)
(***************************************************************************)
NewBudget(limit) ==
    [limit |-> limit, used |-> 0, exhausted |-> FALSE, allowances |-> <<>>,
     guard_breach |-> FALSE, alloc_breach |-> FALSE]

Latched(b) == b.exhausted \/ b.guard_breach \/ b.alloc_breach

Guarded(b) == b.allowances # <<>>

Innermost(b) == b.allowances[Len(b.allowances)]

\* Mutant: what the guard has already spent is forgotten.
RoomForgetful(a) == a.allowed
Room(a) == a.allowed - a.used

\* Mutant: guarded work is billed to the outer budget as well.
ChargeTwice(b, amount) ==
    IF amount > Room(Innermost(b)) THEN [b EXCEPT !.guard_breach = TRUE]
    ELSE [b EXCEPT !.allowances[Len(b.allowances)].used = @ + amount, !.used = @ + amount]

\* Inside a guard: the innermost allowance, whose overrun is a breach.
ChargeAllowance(b, amount) ==
    IF amount > Room(Innermost(b)) THEN [b EXCEPT !.guard_breach = TRUE]
    ELSE [b EXCEPT !.allowances[Len(b.allowances)].used = @ + amount]

\* Mutants: the last unit cannot be spent; the failed charge is not reported
\* as the full limit.
ChargeStrictly(b, amount) ==
    IF amount >= b.limit - b.used THEN [b EXCEPT !.exhausted = TRUE, !.used = b.limit]
    ELSE [b EXCEPT !.used = @ + amount]
ChargeUnreported(b, amount) ==
    IF amount > b.limit - b.used THEN [b EXCEPT !.exhausted = TRUE]
    ELSE [b EXCEPT !.used = @ + amount]

\* Outside any guard: the budget itself, exhausted by a charge that does not
\* fit and then reported as spent in full.
ChargeOuter(b, amount) ==
    IF amount > b.limit - b.used THEN [b EXCEPT !.exhausted = TRUE, !.used = b.limit]
    ELSE [b EXCEPT !.used = @ + amount]

charge(b, amount) ==
    IF Latched(b) THEN b
    ELSE IF Guarded(b) THEN ChargeAllowance(b, amount)
    ELSE ChargeOuter(b, amount)

push_allowance(b, allowed) ==
    [b EXCEPT !.allowances = Append(@, [allowed |-> allowed, used |-> 0])]

pop_allowance(b) ==
    [b EXCEPT !.allowances = SubSeq(@, 1, Len(@) - 1)]

\* Mutant: a guard that spent less than it declared is accepted.
SpentAtMost(b) == Innermost(b).used <= Innermost(b).allowed

\* What pop_allowance answers: the innermost guard was consumed exactly.
SpentExactly(b) == Innermost(b).used = Innermost(b).allowed

\* Mutant: the allowances outlive the unwind.
ClearBreachOnly(b) == [b EXCEPT !.guard_breach = FALSE]

clear_allowances(b) == [b EXCEPT !.allowances = <<>>, !.guard_breach = FALSE]

latch_alloc_breach(b) == [b EXCEPT !.alloc_breach = TRUE]
-----------------------------------------------------------------------------
(***************************************************************************)
(* What a call to an operator does (opcodes.py), as one record: the        *)
(* charges made on the path taken (cost), the elements built on it         *)
(* (built), the new internal state (ist) and the new state or result (val, *)
(* possibly an error).  An operator that makes all its charges before it   *)
(* builds anything needs one sum: charging it refuses exactly the calls    *)
(* that charging the parts does, and an exhausted budget reads its limit   *)
(* either way.  One that builds between charges (the finish of b, rd)      *)
(* lists the earlier charges as legs, each with what is built after it.    *)
(***************************************************************************)
Path(cost, built, val) ==
    [cost |-> cost, built |-> built, ist |-> <<>>, val |-> val, legs |-> <<>>]
Fails(cost, msg)       == Path(cost, 1, Error(msg))
Builds(cost, atom)     == Path(cost, Fresh(atom), atom)
Borrows(cost, el)      == Path(cost, 0, el)

\* An operator that keeps its state outside of the elements: the state is nil.
IntState(cost, ist)    == [Borrows(cost, Nil) EXCEPT !.ist = ist]

Leg(cost, built) == [cost |-> cost, built |-> built]

\* A path that pays leg by leg, the last leg being its own cost.
InTurn(legs, val) ==
    LET last == legs[Len(legs)]
    IN  [Path(last.cost, last.built, val) EXCEPT !.legs = SubSeq(legs, 1, Len(legs) - 1)]

\* The sum of the first k legs, for every k.
Totals(legs) ==
    LET sum[k \in 0..Len(legs)] ==
            IF k = 0 THEN Leg(0, 0)
            ELSE LET s == sum[k-1]
                 IN  Leg(s.cost + legs[k].cost, s.built + legs[k].built)
    IN  sum

WholeCost(r) == r.cost + Totals(r.legs)[Len(r.legs)].cost

\* Bound of the model: the operators that walk trees see at most so many nodes.
TreeNodes == 64

\* A loop over a list of nodes still to visit, s.todo, until it is empty.
WalkNodes(visit(_), start) ==
    LET walk[k \in 0..TreeNodes] ==
            IF k = 0 THEN start
            ELSE LET s == walk[k-1] IN IF s.todo = <<>> THEN s ELSE visit(s)
    IN  walk[TreeNodes]
=============================================================================
