---------------------------- MODULE SpendVerdict ----------------------------
(***************************************************************************)
(* The spend checker (spend.py, verify_spend): the checks that need no     *)
(* budget, the budget the witness buys, the armed element cap, two         *)
(* canonical decodes, the transaction context, one evaluation, a verdict.  *)
(* It composes CanonicalDecode and BllMachine, which share its budget and  *)
(* its element count.  The shell (bllsh) calls it again and again in one   *)
(* process, between commands that set parts of the context by hand.        *)
(*                                                                         *)
(* A witness item is [bytes, size, ipk, path]: of a control block bytes    *)
(* holds the first byte only and ipk and path the rest, of any other item  *)
(* bytes holds all of it.  Hashes are free terms: two nodes are equal      *)
(* exactly when they commit to the same thing.                             *)
(***************************************************************************)
EXTENDS BllMachine

CONSTANTS
    Spends,             \* [tx, index, inputs, outputs, witnesses, stack, spk]
    Commands,           \* [field, value]: the shell's commands on the context
    ElementCaps,        \* values of ELEMENT_ALLOCATION_LIMIT
    MAX_BLOCK_WEIGHT

ASSUME WitnessAssumption ==
    \A s \in Spends :
        /\ s.stack \in Seq({s.stack[k] : k \in 1..Len(s.stack)})
        /\ \A k \in 1..Len(s.stack) :
              LET item == s.stack[k]
              IN  item.bytes \in Seq(0..255) /\ item.size \in Nat /\ Len(item.bytes) <= item.size
ASSUME ElementCapAssumption == ElementCaps \subseteq Nat
ASSUME BlockWeightAssumption == MAX_BLOCK_WEIGHT \in Nat

VARIABLES
    phase,      \* idle, armed, program, environment, evaluate
    spend,      \* the spend being checked
    armed,      \* ALLOCATOR.cap_budget is not None
    context,    \* the four opcode globals
    verdict,    \* Undecided, or [reason, used, limit]
    data, pos, frames, hand, out      \* of the decode in progress

spendVars == <<phase, spend, armed, context, verdict, data, pos, frames, hand, out, vars>>
decodeLocals == <<data, pos, frames, hand, out>>

D == INSTANCE CanonicalDecode WITH
        cap <- job.cap, Inputs <- {}, Allowances <- {}, Caps <- {}

Undecided == [reason |-> "undecided", used |-> 0, limit |-> 0]
NoContext == [tx |-> <<>>, index |-> -1, script |-> <<>>, utxos |-> <<>>]
NoSpend   == [tx |-> <<>>]

\* The machine before it is given a program: the extensions are its own.
Unevaluated(cap) ==
    [program |-> Nil, env |-> Nil, cap |-> cap, extensions |-> {0}, context |-> NoContext]

-----------------------------------------------------------------------------
(***************************************************************************)
(* The witness, the commitment and the budget.                             *)
(***************************************************************************)
ANNEX_TAG        == 80
LEAF_VERSION_BLL == 194

strip_annex(stack_) ==
    LET last == stack_[Len(stack_)]
    IN  IF Len(stack_) >= 2 /\ last.size > 0 /\ last.bytes[1] = ANNEX_TAG
        THEN SubSeq(stack_, 1, Len(stack_) - 1) ELSE stack_

\* TapLeaf and TapBranch; a branch sorts its children, so it is a set.
TapLeaf(script)   == [script |-> script, children |-> {}]
TapBranch(l, r)   == [script |-> <<>>, children |-> {l, r}]

\* tweak_add_pubkey: the output key of an internal key and a root, and its parity.
OutputKey(ipk, root) == [ipk |-> ipk, root |-> root]
Parity(key)          == Cardinality(key.root.children) % 2

\* The root that the path of a control block leads to from a leaf script.
Root(script, path) ==
    LET up[k \in 0..Len(path)] == IF k = 0 THEN TapLeaf(script) ELSE TapBranch(path[k], up[k-1])
    IN  up[Len(path)]

\* The reason the commitment fails, empty if it holds.
verify_commitment(spk, script, cb) ==
    LET head == cb.bytes[1]
        key  == OutputKey(cb.ipk, Root(script, cb.path))
    IN  IF ~spk.taproot THEN "spent output is not pay-to-taproot"
        ELSE IF cb.size < 33 \/ (cb.size - 33) % 32 # 0 THEN "control block size invalid"
        ELSE IF (cb.size - 33) \div 32 > 128 THEN "control block path too long"
        ELSE IF head - (head % 2) # LEAF_VERSION_BLL THEN "leaf version is not bll"
        ELSE IF cb.ipk = "invalid" THEN "control block internal pubkey invalid"
        ELSE IF key # spk.key \/ Parity(key) # head % 2
        THEN "control block does not match spent output"
        ELSE ""

\* The three items of a witness stack.
env_bytes(s)     == strip_annex(s.stack)[1].bytes
leaf_script(s)   == strip_annex(s.stack)[2].bytes
control_block(s) == strip_annex(s.stack)[3]

\* Why a spend is refused before it has a budget, empty if it is not.
Fault(s) ==
    IF s.index < 0 \/ s.index >= s.inputs THEN "input index out of range"
    ELSE IF s.outputs # s.inputs THEN "one spent output per input required"
    ELSE IF s.index >= s.witnesses THEN "witness missing"
    ELSE IF Len(strip_annex(s.stack)) # 3
    THEN "witness stack must be environment, leaf script, control block"
    ELSE verify_commitment(s.spk, leaf_script(s), control_block(s))

CompactSize(n) == IF n < 253 THEN 1 ELSE IF n < 65536 THEN 3 ELSE 5

\* The serialized witness, every item of it with its length.
WitnessSize(s) ==
    LET sum[k \in 0..Len(s.stack)] ==
            IF k = 0 THEN CompactSize(Len(s.stack))
            ELSE sum[k-1] + CompactSize(s.stack[k].size) + s.stack[k].size
    IN  sum[Len(s.stack)]

Lesser(m, n) == IF m <= n THEN m ELSE n
BUDGET_MAX == budget_for_witness_size(MAX_BLOCK_WEIGHT)
Limit(s)   == Lesser(budget_for_witness_size(WitnessSize(s)), BUDGET_MAX)
-----------------------------------------------------------------------------
(***************************************************************************)
(* The phases of a check.                                                  *)
(***************************************************************************)
SpendInit ==
    /\ phase = "idle" /\ spend = NoSpend /\ armed = FALSE
    /\ context = NoContext /\ verdict = Undecided
    /\ data = <<>> /\ pos = 0 /\ frames = <<>> /\ hand = D!Nothing /\ out = D!Pending
    /\ job = Unevaluated(0)
    /\ stack = <<>> /\ budget = NewBudget(0) /\ made = 0 /\ result = Pending

\* tx, tx_in_idx, tx_script, utxos: a command of the shell sets one global.
SetGlobal ==
    /\ phase = "idle"
    /\ \E c \in Commands : context' = [context EXCEPT ![c.field] = c.value]
    /\ UNCHANGED <<phase, spend, armed, verdict, decodeLocals, vars>>

\* Mutant: the script of an earlier spend or command survives.
ClearedButScript == [NoContext EXCEPT !.script = context.script]

\* The shell's spend command unsets the context before it calls the checker.
Cleared == NoContext

\* A call that is refused before anything is armed.
Reject ==
    /\ phase = "idle"
    /\ spend' \in {s \in Spends : Fault(s) # ""}
    /\ verdict' = [reason |-> Fault(spend'), used |-> 0, limit |-> 0]
    /\ budget' = NewBudget(0) /\ made' = 0
    /\ job' = Unevaluated(0)
    /\ data' = <<>> /\ pos' = 0 /\ frames' = <<>> /\ hand' = D!Nothing
    /\ out' = D!Pending /\ result' = Pending /\ context' = Cleared
    /\ UNCHANGED <<phase, armed, stack>>

\* The span in which constructions are counted.
arm_element_cap(cap) ==
    /\ armed' = TRUE /\ made' = 0
    /\ job' = Unevaluated(cap)
disarm_element_cap == armed' = FALSE

\* A call that gets a budget: the cap is armed around everything that follows.
Arm ==
    /\ phase = "idle"
    /\ spend' \in {s \in Spends : Fault(s) = ""}
    /\ \E cap \in ElementCaps : arm_element_cap(cap)
    /\ phase' = "armed" /\ verdict' = Undecided
    /\ budget' = NewBudget(Limit(spend'))
    /\ data' = <<>> /\ pos' = 0 /\ frames' = <<>> /\ hand' = D!Nothing
    /\ out' = D!Pending /\ result' = Pending /\ context' = Cleared
    /\ UNCHANGED stack

DecodeProgram ==
    /\ phase = "armed" /\ phase' = "program"
    /\ UNCHANGED <<spend, armed, context, verdict, job, stack, result>>
    /\ D!Call(leaf_script(spend))

DecodeStep ==
    /\ phase \in {"program", "environment"}
    /\ UNCHANGED <<phase, spend, armed, context, verdict, job, stack, result>>
    /\ D!DecodeNext

Element(e) == e \notin {D!Pending, D!None} /\ ~IsError(e)

DecodeEnvironment ==
    /\ phase = "program" /\ Element(out) /\ phase' = "environment"
    /\ job' = [job EXCEPT !.program = out]
    /\ UNCHANGED <<spend, armed, context, verdict, stack, result>>
    /\ D!Call(env_bytes(spend))

\* The globals as one unit.
SetContext(s) == [tx |-> s.tx, index |-> s.index, script |-> leaf_script(s), utxos |-> <<s.spk>>]

ASSUME ContextAssumption ==
    {NoContext} \cup {SetContext(s) : s \in {x \in Spends : Fault(x) = ""}} \subseteq DOMAIN Views

\* The context is set and eval begins, in the budget and the span of the spend.
Evaluate ==
    LET c == eval_arg([Now EXCEPT !.stack = <<>>], job.program, out)
    IN  /\ phase = "environment" /\ Element(out) /\ phase' = "evaluate"
        /\ job' = [job EXCEPT !.env = out, !.context = SetContext(spend)]
        /\ context' = SetContext(spend)
        /\ stack' = c.stack /\ budget' = c.budget /\ made' = c.made
        /\ UNCHANGED <<spend, armed, verdict, decodeLocals, result>>

EvalStep ==
    /\ phase = "evaluate"
    /\ Step \/ Return
    /\ UNCHANGED <<phase, spend, armed, context, verdict, decodeLocals>>

\* A latched budget with no result.
BudgetReason == IF budget.alloc_breach THEN "element allocation limit exceeded"
                ELSE "budget exhausted"

\* Mutant: the error in hand is reported, whatever is latched.
ReportedInHand(reason) == reason

\* A breach wins over the error in hand.
Reported(reason) == IF budget.alloc_breach THEN BudgetReason ELSE reason

\* The verdict, and the span disarmed on the way out.
Conclude(reason) ==
    /\ verdict' = [reason |-> reason, used |-> budget.used, limit |-> budget.limit]
    /\ phase' = "idle" /\ disarm_element_cap
    /\ UNCHANGED <<spend, context, vars, decodeLocals>>

DecodeRefused ==
    /\ phase \in {"program", "environment"}
    /\ \/ out = D!None /\ Conclude(BudgetReason)
       \/ /\ IsError(out)
          /\ Conclude(Reported(IF phase = "program" THEN "leaf script" ELSE "environment"))

\* Mutant: nil is taken for consent.
NilConsents == FALSE
NilRefuses == IsNil(result)

EvalRefused ==
    /\ phase = "evaluate" /\ result # Pending
    /\ \/ /\ IsError(result) /\ result # Raises
          /\ Conclude(Reported(result.msg))
       \/ ~IsError(result) /\ NilRefuses /\ Conclude("program result is nil")

\* An exception in an operator leaves eval and the checker; the span is disarmed
\* on the way out, the context stays as it was set, and there is no verdict.
EvalRaises ==
    /\ phase = "evaluate" /\ result = Raises
    /\ phase' = "idle" /\ disarm_element_cap
    /\ UNCHANGED <<spend, context, verdict, vars, decodeLocals>>

Valid == ""

EvalAccepted ==
    /\ phase = "evaluate" /\ result # Pending /\ ~IsError(result) /\ ~NilRefuses
    /\ Conclude(Valid)

Check == \/ DecodeProgram \/ DecodeStep \/ DecodeEnvironment \/ Evaluate \/ EvalStep
         \/ DecodeRefused \/ EvalRefused \/ EvalRaises \/ EvalAccepted

SpendNext == SetGlobal \/ Reject \/ Arm \/ Check

SpendSpec == SpendInit /\ [][SpendNext]_spendVars /\ WF_spendVars(Check)
-----------------------------------------------------------------------------
(***************************************************************************)
(* Properties.                                                             *)
(***************************************************************************)
\* Spends that were granted a budget and have their verdict.
Decided == phase = "idle" /\ verdict # Undecided /\ verdict.limit > 0

\* A spend whose check was left by an exception.
Escaped == phase = "idle" /\ ~armed /\ verdict = Undecided /\ result = Raises

Breached == "element allocation limit exceeded"
Spent    == "budget exhausted"

\* In every phase a latch decides the verdict, whatever message raced it: a
\* breach of the cap is named, exhaustion is named and reported at the full
\* limit, and neither is ever consent.
LatchTells ==
    Decided =>
        /\ budget.alloc_breach => verdict.reason = Breached
        /\ budget.exhausted =>
              /\ verdict.used = verdict.limit
              /\ ~budget.alloc_breach => verdict.reason = Spent

\* And no verdict names a latch that is not set, or more than was granted.
LatchDecides ==
    /\ LatchTells
    /\ Decided =>
          /\ verdict.reason = Breached => budget.alloc_breach
          /\ verdict.reason = Spent => budget.exhausted
          /\ verdict.used <= verdict.limit

\* The context never mixes two spends: until its evaluation a spend runs without
\* one, then with all of its own, whatever earlier spends and commands had left.
OwnContext ==
    phase # "idle" => context = IF phase = "evaluate" THEN SetContext(spend) ELSE NoContext

\* What the help text of the spend command says: after a refused spend the
\* context is unset.  (It is not, if the evaluation refused it.)
RefusedUnset ==
    [][phase # "idle" /\ phase' = "idle" /\ verdict'.reason \notin {Valid, Undecided.reason}
         => context' = NoContext]_spendVars

\* The witness that holds an element has bought its decode: only evaluation can
\* exhaust the budget of a spend that fits a block.
DecodeAffordable ==
    phase \in {"program", "environment"} /\ WitnessSize(spend) <= MAX_BLOCK_WEIGHT
        => ~budget.exhausted

\* The assertion that ties ELEMENT_ALLOCATION_LIMIT to BUDGET_MAX does what it
\* is there for: with it no admissible spend ever crosses the cap.
BackstopNeverFires ==
    job.cap * (STEP \div 2) >= BUDGET_MAX => ~budget.alloc_breach

\* Every check that was begun reaches a verdict, or an operator raises under it;
\* either way the span is disarmed.
EverySpendDecided == armed ~> (~armed /\ (Decided \/ Escaped))

\* No spend that fits a block fails for a reason that is not its program's: its
\* decode is paid by the bytes it is decoded from, and the cap never interferes.
NoHonestSpendRefused == DecodeAffordable /\ BackstopNeverFires
=============================================================================
