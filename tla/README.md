# A verified model of bllsh

bllsh is a shell, an evaluator and a spend checker for *bll*, a Lisp meant as a
Bitcoin script language. What the code promises above all is about **cost**:
every validator must reach the same verdict at the same price, work must be paid
before it is done, a program must not outlive its budget, and a *softfork guard*
must let new validators run code that old ones skip without the two ever
disagreeing on what they both accept. This directory holds TLA+ modules
translated from the Python source, TLC runs over them and TLAPS proofs.

## 1. The system

| Component | Source | State | Operations |
|---|---|---|---|
| cost table and `Budget` | `costs.py` | `limit`, `used`, the stack of guard allowances, three latches (`exhausted`, `guard_breach`, `alloc_breach`) | `charge`, `push_allowance`, `pop_allowance`, `clear_allowances`, `latch_alloc_breach`, `latched` |
| bll evaluator | `bll.py`, `workitem.py` | `WorkItem`: a list of continuations (function object, arguments, environment) and a budget | `begin`, `step`, `feedback`, `unwind`, `get_result`, `eval`; `step`/`feedback` of `fn_fin`, `fn_quote`, `fn_op`, `fn_partial`, `fn_apply`, `fn_softfork`, `fn_exitguard`, `fn_blleval` |
| operators | `opcodes.py` | none of their own; the running state lives in the function object; four globals hold the transaction context | `argument`, `finish` of every operator and of unknown ones |
| elements, allocator | `element.py` | reference-counted trees; construction count with an armed cap | construct, `bumpref`, `deref`, `steal_*`, `arm_element_cap` |
| codec | `element.py` | read position | lenient and canonical decode, encode, all charged |
| spend driver | `spend.py` | one budget, the armed cap, the transaction context | commitment check, two decodes, one evaluation, a verdict |
| symbolic evaluator, compiler | `symbll.py` | a second `WorkItem` with symbol tables and limits of its own | `step`, `feedback`, `symbolic_eval`, `compile_*` |
| S-expression reader | `element.py` | a stack of unfinished lists | `parse`, `parse_many`, printing, `ToBLL` |
| `SerDeserBroken` | `element.py` | none | a shorter encoding, read and written; used by nothing |
| shell, debugger | `bllsh` | at most one work item being stepped, the symbol table, the context | `step`, `next`, `cont`, `trace`, `def`, `undef`, `eval`, `spend` ... |
| verystable | `verystable/core` | transactions, keys | wire form, signature messages, taproot trees, secp256k1, ECDSA, Schnorr |

They interact by calls only, on one thread; there are no processes, messages or
persistent state. What makes the code hard is elsewhere:

* **Continuations.** A handler pushes frames in the reverse order of their
  execution and returns. What a frame receives, and when, is decided many
  iterations later by whoever finishes above it.
* **Latches.** A charge that fails does not raise: it sets a latch, and every
  handler has to notice and return without building anything. The allocator sets
  a latch from outside, in the middle of a handler. The drivers look at two of
  the three latches.
* **Guards.** While a guard is open every charge goes to its allowance. Guards
  nest, overrun, end early, and are abandoned by errors that come from inside.
* **Boundaries.** A budget one unit short must change the verdict, exactly the
  reported cost must not.
* **Ownership.** References are counted by hand; every early return has to
  release exactly what it owns.
* **Left-over context.** Transaction context is process-wide and set piecemeal by
  commands; a spend must be evaluated in its own.
* **Twins.** Many things exist twice and have to agree: two decoders, an encoder
  and its decoders, the symbolic evaluator and the compiler, two operators for one
  signature equation, five recognitions of an annex, the secret and the public
  side of a tweak.

What makes each component correct: the budget never overspends and reports its
limit when exhausted; the evaluator computes what the program means at the price
the meaning has, delivers every value to a frame that can take it, returns for
every program, and keeps guards, allowances and latches consistent; operators
price every call positively and build nothing unpaid; reference counts are exact,
so that nothing is released early and nothing leaks; the codec accepts one
encoding per element; the spend driver's verdict comes from the latches and
leaves nothing behind; the symbolic evaluator and the compiler agree with the
evaluator; a signature binds what its type says, and nothing else.

## 2. Modules

| Module | Models |
|---|---|
| `Elements` | the values: atoms as byte strings, pairs, errors, function objects; signed integer encoding with its non-minimal forms; which constructors allocate |
| `Budget` | `costs.py`: one operator per method, and the prices; how one call of an operator is described: what it charges leg by leg, what it builds, what it answers |
| `ByteOpcodes`, `CurveOpcodes`, `SerDeser`, `BllOpcodes` | the operators on bytes and numbers; on points, scalars, signatures and hashes; the encoder and the lenient decoder behind `wr` and `rd`; all the others, `tx` and `bip342_txmsg` included, and the table |
| `BllMachine` | the evaluator: one action per class of frame that `WorkItem.step` can pop, one for a refused pop and one for the return; its properties |
| `Metered` | the abstract specification: a limited budget is spent, never refunded, and the evaluation ends in one of three ways |
| `BllSemantics` | a recursive semantics of bll with costs: no stack, no frames, no budget |
| `BllReplay` | a second validator evaluating the same program with another limit or other extensions |
| `CanonicalDecode` | the decoder of witness elements: one action per token, and one per turn of the loop that delivers a completed element |
| `SpendVerdict` | the spend checker: refusals, the armed cap, two decodes, the context, one evaluation, a verdict; then the next spend |
| `Shell` | the debugger's commands as drivers of one work item |
| `SymbolIndex`, `SymbolicMachine`, `Compiler` | symbol tables and paths; the symbolic evaluator with its two limits; compilation |
| `Reader` | the S-expression reader token by token; the grammar, the printer |
| `QuickCodec` | `SerDeserBroken` |
| `RefCells`, `RefHeap` | counted cells, the release stack; a client of them whose releases happen in steps |
| `Ownership`, `SymbolOwnership` | every handler of the evaluator, and of the symbolic debugger, as what it does to references, with every charge failing |
| `Transactions`, `TxOpcodes`, `TxContext` | the wire form; what `tx` and `bip342_txmsg` are given of a transaction: its fields, the message to sign; the context that commands and spends set |
| `Scripts`, `SignatureMessages` | scripts, code separators and signature counts; signing before taproot |
| `TapTree` | construction of taproot outputs and the walk of a control block |
| `Secp256k1`, `Keys`, `KeyPair`, `SignatureForms` | the group; DER, ECDSA, Schnorr, tweaks; a pair of secret and public key; one signature equation checked by two operators |
| `Programs` | the programs TLC evaluates, built from a small grammar, and the contexts they are evaluated in |
| `MCBll`, `MCSemantics`, `MCSpend`, `MCDrivers`, `MCTexts`, `MCSigning`, `MCOwnership` | the instances TLC checks |
| `OperatorProofs`, `BllMachineProofs`, `AmountProofs`, `SpendVerdictProofs`, `CanonicalDecodeProofs`, `RefHeapProofs` | the proofs; `AmountProofs` EXTENDS the two before it and `SpendVerdictProofs` EXTENDS all three |

`BllMachine` EXTENDS `BllOpcodes`, which EXTENDS the operator modules, which EXTEND
`Budget` and through it `Elements`. `BllSemantics`, `BllReplay`, `Shell`,
`SymbolicMachine` and `SpendVerdict` EXTEND `BllMachine`. `SpendVerdict` also
INSTANCEs `CanonicalDecode`, so that decoder and evaluator work on one `budget`,
one count of constructions and one cap, as they do in the code. `BllMachine`
INSTANCEs `Metered`, and `CurveOpcodes` INSTANCEs `Keys`. `TxContext` EXTENDS
`TxOpcodes`, which EXTENDS `BllOpcodes` and `Transactions`; `SymbolOwnership`
EXTENDS `Ownership`, which like `RefHeap` EXTENDS `RefCells`. `Programs` and `MCSpend`
INSTANCE `TxOpcodes` to say what a transaction tells the evaluator. The MC modules whose
name is a plural or a gerund hold several machines that do not interact; a
behaviour is of one of them, the others being idle.

### How the machine corresponds to the code

A *configuration* `[stack, budget, made]` is what a handler of the code can
change: the continuations (top last), the budget and the allocator's count. Each
handler is an operator from one configuration to the next and follows the code
call by call; `Spend`, `Build`, `new_continuation`, `fin_value`, `eval_arg`,
`error` and `unwind` are the code's helpers of those names (`Build(c, n)` is `n`
element constructions, each of which may cross the cap and latch the budget). One
action is one iteration of `eval`'s loop: the charge for the pop, the handler,
whatever it delivers, and the check at the end of `WorkItem.step` that turns a
guard breach into an error (`Settle`). Nothing of an iteration is an action of
its own.

Two representations differ from the code's. An operator's
charges are a sum where it makes them before its first construction (the sum fits
exactly when all the parts do, and an exhausted budget reads its limit either
way), and a list of *legs* where it builds between them: at the leg that does not
fit the call stops with what it has built by then. A partially applied operator,
in the code an `fn_partial` around an `fn_op` object, is one function object of
class `partial` that carries the operator's fields; the constructions of both are
counted.

The variable `job` holds what an evaluation is given and does not change while
it runs: program, environment, the allocator's cap, what the four globals of
`opcodes.py` hold, and the set of softfork extensions the validator recognizes. The
code's set is `{0}`; a variable set is how the model speaks about *future*
validators.

`tx` and `bip342_txmsg` read the globals. The constant `Views` says for every
context what they read there (a *view*: each selector's field for each input or
output, the message of each type, and whether looking raises), and
`TxOpcodes!View` makes it from a transaction. Everything the operators decide (which
selector, which index, errors, prices, the accumulator) is in `BllOpcodes`.

A Python exception is the value `Raises`: `Throw` drops the frame that raised, leaves
those below as they are, and puts a frame with this value on top, where the loops
stop (`Thrown`). `eval` and `symbolic_eval` are then over and their work item is lost;
`verify_spend` disarms the cap on the way out (`EvalRaises`); the shell's `handle_exc`
prints it and keeps the work item.

### The decoder and the spend checker

`CanonicalDecode` keeps what the function keeps: the position, the list of
pending pairs (`Open` while the left child is awaited, then that child) and, in
`hand`, the local `el` of the delivery loop. A reading action is one token with
every test and the charge in the code's order: availability, minimality, charge,
construction. `Place`, `Fold` and `Finish` are the turns of the inner loop;
`Fold` builds a pair that its marker paid for long before. `out` is an element,
an Error, or `None` when a charge failed.

`SpendVerdict` has a variable `phase` for the place in `verify_spend`, `armed`
for `ALLOCATOR.cap_budget is not None`, and `context` for the four globals of
`opcodes.py`. `Conclude` is a `return` inside the `try`: the verdict and the
`finally` clause together; `EvalRaises` is the `finally` clause alone. The process
then waits for the shell's next command:
`SetGlobal` is one of the four that set a part of the context by hand, and a
spend command unsets the context (`Cleared`) before it calls the checker. A
witness item is its bytes and its size; of a control block the first byte, the
internal key and the path are kept apart. Hashes are free terms (equal exactly
when they commit to the same thing; a branch is a set, since the code sorts the
two nodes) and the key tweak is injective: what is checked is which data the
commitment binds, not the strength of the hash. Everything else that a verdict
depends on is translated, `strip_annex` and the compact sizes that enter the
witness size included.

### Drivers, references, signing

`Shell` puts a command between every two iterations of the machine: `step`, and
the loops of `next`, `cont` and `trace`, whose condition is a level of the stack. A
command that an operator's exception ends (`handle_exc`) leaves the work item without
the frame that raised, and the next command steps on from there: into the frame below,
which has never received its value, into a guard's exit frame or into nothing.
`PromptSound` says that this happens only to a program whose meaning is an exception;
what is reported after one is not asked about.
`SymbolicMachine` is the same machine with tables, closures and its own end of a
step; a bll program run inside a step is a nested work item (`sub`, `side`).

`RefHeap` lets a client construct, bump, release and steal in any order; a
release is the code's loop, one action per turn of `deref_stack`. `Ownership`
takes every handler of the evaluator through every branch, with a charge failing
at any place, and tracks only references: which cell is held by which frame.
Values are left to `BllMachine`; where a handler depends on an amount both
outcomes are tried (`exact` says whether guards consume what they declare).

`Secp256k1` is the code's arithmetic, unreduced fractions included, over the field
of 43 elements with a curve of order 31; `Keys` and the curve operators are the
code's over that curve. The digest an operator answers with is a sequence of bytes
of the right length, mixed from its input; in Schnorr challenges the mixing takes
the value zero. The commitment of a spend and the messages that `signing` compares
treat a hash as a free term; where a program that is evaluated asks for one, it is
given 32 bytes that some key has signed (`Told` in `Programs`).

## 3. What is checked

| Run | Question | Properties |
|---|---|---|
| `semantics` | Does the stack machine compute the meaning of the program at its price, wherever the budget or the cap strikes, and for every validator? | `ComputesMeaning`, `PendingFramesReceive`, `BudgetSound`, `GuardsPaired`, `LatchesExclusive`, `OuterFrozen`, `AllocationCovered`, `CapEnforced`, `BoundaryReplay`, `ValidatorsAgree` |
| `loops` | Does every evaluation return? | `TailCallsFlat`, `Termination`, `ImplementsMetered` |
| `spend` | Is a verdict what the committed program means, whatever came before, and is there one unless the program raises? | `LatchDecides`, `OwnContext`, `ValidExactly`, `NoHonestSpendRefused`, `EverySpendDecided` |
| `drivers` | Do the debugger and the symbolic evaluator say what a program means? | `PromptSound`, `CompiledAgrees`, `LimitsHold`, `NextStepsOver` |
| `drivers_ends` | Do they always come back? | `ReturnsToPrompt`, `Ends` |
| `texts` | Does every reader agree with every other reader and with what writes? | `PaidAhead`, `LatchesTold`, `DecodersAgree`, `ReaderSound`, `TextsReadBack`, `ScriptsRead` |
| `signing` | What does a signature cover, what is a program told, do two ways to a key or a verdict agree? | `MessageBinds`, `ContextAnswers`, `LeavesLead`, `SignaturesBind`, `KeysSound`, `FormsAgree` |
| `ownership` | Is every reference owned by exactly one place, on every path? | `Counted`, `LiveIsReachable`, `EverythingOwned`, `NothingDisturbed` |
| `unpaid` | Is every construction preceded by a charge? | `EveryConstructionPaid` (violated) |
| `refused_context` | Is the context unset after a refused spend? | `RefusedUnset` (violated) |
| `tx_folds` | Do errors of folds surface as errors of bll? | `FoldsAnswer` (violated) |
| `ownership_apply` | Does `apply` leak nothing? | `NoLeaks` (violated) |

* **`semantics`** holds three families. Every operator on every list of up to two
  operands (three for some) of every shape, every binding of `partial`, every form
  of `apply` and `softfork`, improper lists and invalid operators, and one layer
  of nesting of all of these, with budget to spare: each must return the value and
  report the cost that `BllSemantics` gives by plain recursion. The transaction
  operators among them run in three contexts (of a spend with an annex, set by hand
  in part, not set), with every selector, index in and out of range and type, and in
  folds, guards and bound operators that an exception leaves. Short programs
  under limits and caps such that each charge and each construction of them is at
  some point the one that does not fit. Guards whose declared cost is right, one
  short, one over, zero, negative or in the wrong form, around values, errors,
  function objects and guards, each evaluated a second time by a validator with
  every other set of extensions and with limits around the reported cost.
* **`loops`** runs `(a 1 1)` on itself: flat through `apply`'s tail position,
  deepening under an operator, inside a guard, and through a bound operator.
  `ImplementsMetered` is refinement of `Metered` under the mapping given in
  `BllMachine` (the latch is the status).
* **`spend`** checks spends in any order in one process: programs of every outcome,
  a leaf script or environment broken in each way, one link of the commitment
  broken at a time, annexes that buy budget and annexes that break the layout,
  programs that run themselves for ever, commands that set the context in
  between; under caps that strike in the first decode, in the second, in the
  evaluation, at its last construction and never.
* **`drivers`** gives commands of the debugger at every iteration of nested and
  tail evaluations, guards, errors and exceptions, and on after them; and calls functions of some three hundred
  bodies symbolically and compiled, with tables of three to seventeen names, and
  under step allowances that end at every place of a loop. `drivers_ends` are the
  same drivers over programs that do not end.
* **`texts`** runs the decoder on every string of up to four bytes over an alphabet
  with one byte of each class of marker, on the encodings of small trees, each also
  with a byte missing or one too many, and on payloads on both sides of every
  bound of a length prefix, under budgets and caps that strike at each place; the
  reader on every text of up to seven tokens; the quick codec on every string of
  up to four of its codes, and on atoms and lists at every size where a code
  changes; scripts of up to five bytes. The quick codec is marked broken
  (`element.py:555`): `TextsReadBack` states how far it works.
* **`signing`** holds eight machines: the context and its message under one change at
  a time, the wire form, signing before taproot once and twice, building trees,
  walking the group, a key pair under any sequence of tweaks with every tested
  nonce, and one signature put to the two operators that check it.
* **`ownership`** holds three: a client of five cells and three handles; every
  handler with each of its charges failing; the symbolic debugger while functions
  are redefined under an evaluation. Two handlers forget references they have taken
  over; those are counted as `lost`, and `EverythingOwned` says that they are all.
  The bounds are on cells, charges (`MostCharges
  = 8`, more than any step makes), redefinitions and overruns (one each).

### Disagreements found

Four runs record a disagreement between the code and what it says of itself:

* `unpaid`: the comment on `ELEMENT_ALLOCATION_LIMIT` (`costs.py:206`) says that
  every construction is preceded by a charge of at least `STEP / 2`. The first
  frame (`WorkItem.begin`) and the driver's closing `Error` are not;
  `AllocationCovered` shows that these two are all, and the constant's margin
  absorbs them.
* `refused_context`: the help text of `spend` (`bllsh:375`) says that the context is
  unset after a refused spend; it is not when the evaluation is what refuses.
  `OwnContext` shows that no later spend notices.
* `tx_folds`: a second selector after one that answers with a pair raises an
  `AssertionError` (`opcodes.py:1253`), where `test-fixes.py:103` wants an error of
  bll. A spend whose program does so ends without a verdict: the exception leaves
  `verify_spend`, the cap disarmed and the context still set. `ValidExactly` says
  that this is what happens to exactly the spends whose program means it, and
  `EverySpendDecided` that every other spend has its verdict.
* `ownership_apply`: `apply` on an improper list leaves its state, arguments and
  environment allocated (`bll.py:211`), where `test-apply.py:229` asserts that
  nothing leaks.

Nine more were met while translating and are modelled as the code has them,
without a run of their own:

* `opcodes.py:1106` reads scalars big-endian, the docstring at `:1040` says
  little-endian; and `secp256k1_muladd` reduces modulo the order where
  `bip340_verify` refuses, which `:1044` calls equivalent. `FormsAgree` states the
  scalars for which they are.
* `symbll.py:570` adds an error frame over a finished value while the memory limit
  is exceeded, so that such an evaluation does not end (the comment at `:444`);
  `Ends` is stated of evaluations below the limit.
* `symbll.py:724` compiles a parameter name given twice to one position, which
  the evaluator gives to the later argument, against the agreement of
  `test-apply.py:8`.
* `symbll.py:614`: a local name shadows a built-in one in the compiler, at `:177` it
  does not in the evaluator.
* `verystable/core/script.py:809`: the message gives the annex and the scripts
  their compact sizes; the simulation of `examples/test-tx:2` writes one byte and
  says so (it holds up to 252 bytes).
* `element.py:797`, `:847` and `bllsh:109`: a dot outside of a list yields `None`,
  which reaches an assertion in `ToBLL` (`bll.py:98`).
* `workitem.py:100`: `partial` without arguments does not release its nil state,
  where the neighbouring path does (`:119`); the second of the two ways out that
  forget references.
* `element.py:726`: in the codec marked broken the size of a list of more than 132
  entries is written after a tag that says 69 entries, so such a list does not read
  back; and the branch for atoms of more than 115 bytes (`:702`) uses a name that
  is not defined. `TextsReadBack` holds below these sizes and shows the first.
* `script.py:593`: `GetSigOpCount(True)` calls `decode_op_n` on an integer, an
  `AttributeError` where `:583` promises a count.

### Bounds

Budgets are finite, so every behaviour of the evaluator is; the bounds are on the
programs. They are written in `Programs` as a small grammar and cover every path
of every handler; deeper nesting repeats handlers on a longer stack, and no
handler reads below the frame it pops.

| Bound | Where | In the code |
|---|---|---|
| `MaxIntBytes = 4`: integers an atom may hold (an atom may be wider) | `Elements` | none |
| `TreeNodes = 64`, `CounterBits = 5`: nodes of a tree an operator walks, trees that `b` joins | `Budget`, `ByteOpcodes` | none |
| `Nesting = 64`: depth to which the job's elements are searched for their parts (an ASSUME) | `Elements` | none |
| `SOFTFORK_COST_MAX = 1000000`, `UNKNOWN_OP_RANGE = 4096` or 300 | cfgs | 2^63 - 1 and 2^40; both sides of each are tried |
| `SIZE = 43`, `ORDER = 31`, `ScalarBits = 5`, `TopInteger = 2^22` | `Secp256k1`, `Keys` | 256 bits |
| `MAX_BLOCK_WEIGHT = 200`, `ElementCaps` | `MCSpend.cfg` | 4000000, 187000000; small so that both are reached, as the repository's own tests do |
| `Limits` | cfgs | any; chosen on both sides of what the programs spend |
| `MaxCells = 5`, `MaxHeld = 3`, `MostCharges`, `MostEdits`, `MostOverruns` | `MCOwnership.cfg` | none |
| `MostTokens = 7`, `MostCodeBytes = 4`, `MostScriptBytes = 5` | `MCTexts` | none |
| `MaxItems = 4`, `MaxEdits = 6`: items of a list of leaves and edits that build it | `MCSigning.cfg` | none |
| `LowestLeft`: below it the step allowance is not counted | `SymbolicMachine` | none; only its sign is asked for |

`StepConstructions` and `UnpaidConstructions` are not bounds of the model but part
of what is claimed. `unpaid` shows that the second is not zero. The first is how
far an iteration may build past the cap: the carries of a `b` whose counter has
`CounterBits` bits (a call with n arguments joins at most log2(n) trees at once), and
four more. The run fails with less than 7 of these constructions, and the proof needs
9. The bytes that `rd` decodes add as many again as are pairs in them (`BeingDecoded`,
which is 0 in every other iteration): `rd` charges a pair at its marker and builds it
when its right child is there, so the pairs of a nested list are all built after
the last charge. No constant bounds that: the run fails without the term, on the ten
`NestedPairs` of `Programs` under a cap of 18. The states of a spend are independent of
earlier spends but for `context`, so the closure that TLC explores shows what any
number of spends would. Deadlock is checked in every run but the two `ownership`
runs and the two `signing` runs, whose sessions are finite.

### Fairness

`Spec` assumes weak fairness of `Step \/ Return`: `eval` is a `while` loop on
one thread that does nothing but step until its condition fails and then
returns, so an enabled step is always eventually taken. Nothing is assumed of
which step. `Done` is the stuttering of an evaluation that is over. `SpendSpec`
assumes weak fairness of `Check`, the steps of a check that was begun, and
`ShellSpec` of `Running`, the steps of a command that was given, for the same
reason: each is one function call on one thread. Nothing is assumed of the calls
themselves: the process may never be asked to check another spend, the user may
never give another command. `SymSpec` assumes weak fairness of `SymNext`, the
loop of `symbolic_eval`.

## 4. What is proved

The proofs hold for every value of the constants; the assumptions they rest on are
the ASSUMEs of the modules (`Limits`, `Allowances`, `Caps`, `ElementCaps` are
sets of naturals, `Inputs` are byte strings, `SOFTFORK_COST_MAX`,
`UNKNOWN_OP_RANGE`, `MAX_BLOCK_WEIGHT`, `MaxCells` and `MaxHeld` naturals, a job has
the fields of a job, and its program and environment are made of atoms and pairs,
as everything is that the readers and decoders hand to `eval`; a witness is a list of
items, and an item is a string of bytes no longer than its size; a view answers each
selector and type of message with an atom, selector 9 with a pair of atoms, or raises, and
every context that a job or a spend can have has a view).

| Module | Theorem | Statement |
|---|---|---|
| `BllMachineProofs` | `Structure` | `Spec => []Inv`, the inductive invariant |
| | `FramesReceive` | `Spec => []PendingFramesReceive` |
| | `LatchExclusion` | `Spec => []LatchesExclusive` |
| | `GuardPairing` | `Spec => []GuardsPaired` |
| | `ExhaustionReported` | `Spec => []ExhaustedInFull`, a conjunct of `BudgetSound` |
| | `GuardShields` | `Spec => OuterFrozen` |
| `OperatorProofs` | `OperatorsEnd` | finishing an operator, in any state it can reach, is paid for and answers an element or an error |
| | `OperatorsFold` | so is giving it one more argument, which leaves a state it can reach, or an error |
| `AmountProofs` | `AmountsKept` | `Spec => [](Inv /\ Amounts)`, the inductive invariant |
| | `FieldsTyped` | `Spec => []TypeOK` |
| | `NothingOverspent` | `Spec => []BudgetSound` |
| | `ConstructionsCovered` | `Spec => []AllocationCovered` |
| | `CapNeverMissed` | `Spec => []CapLatched`, which `CapEnforced` also says of both ends of each iteration |
| | `CapHolds` | `Spec => CapEnforced`: nor is the cap overshot by more than one iteration builds |
| | `MeteredSteps` | `Spec => Abstract!MSteps`, the safety part of `ImplementsMetered` |
| `SpendVerdictProofs` | `SpendInvariant` | `SpendSpec => []SpendInv`, the inductive invariant |
| | `ContextIsOwn` | `SpendSpec => []OwnContext` |
| | `LatchIsTold` | `SpendSpec => []LatchTells`, a conjunct of `LatchDecides` |
| | `SpendEvaluates` | inside a spend, too, `PendingFramesReceive`, `GuardsPaired` and `LatchesExclusive` always hold |
| | `SpendFunded` | `SpendSpec => []SpendFunds`, the inductive invariant of the amounts |
| | `HonestSpends` | `SpendSpec => []NoHonestSpendRefused` |
| | `SpendMetered` | inside a spend, too, `BudgetSound`, `AllocationCovered` and `CapLatched` always hold |
| | `VerdictWithin` | no verdict reports more than was granted, a conjunct of `LatchDecides` |
| `CanonicalDecodeProofs` | `DecodeInvariant` | `DecodeSpec => []DecodeInv`, the inductive invariant |
| | `PaidAheadAlways` | `DecodeSpec => []PaidAhead` |
| | `LatchesToldAlways` | `DecodeSpec => []LatchesTold` |
| | `DecodeTypes` | `DecodeSpec => []DecodeTypeOK` |
| `RefHeapProofs` | `HeapInvariant` | `HeapSpec => []HeapInv`, the inductive invariant |
| | `HeapTyped` | `HeapSpec => []HeapTypeOK` |
| | `CountsAreExact` | `HeapSpec => []Counted` |
| | `OnlyReachableLive` | `HeapSpec => []LiveIsReachable` |
| | `ReachableStays` | `HeapSpec => ReachableKept` |

### The evaluator

The theorems of `BllMachineProofs` hold for every program, environment, limit, cap,
set of extensions and *every price and result of the operators*. None of the properties is
inductive. A frame is only safe to wait below another because of what the
iteration that pushed it pushed above it; the latches are exclusive at the end of
an iteration because of what each handler refrains from doing after a failed
charge; allowances and exit frames are equally many although a handler pushes the
one well before the other, with charges that may fail in between; the outer
counter is still because, from the first charge of an iteration to its last,
either a guard is open or nothing is charged any more. `Inv` relates them: stack
and budget have their shape, the frames below the top can receive, an evaluation
that is not latched has a top frame that is not a guard's exit frame, the guard
breach is never seen between iterations, exhaustion excludes both breaches and
means that the limit is spent and every guard left, and (`Ahead(stack, budget, 0)`)
while nothing is latched there are as many allowances as exit frames.

The argument inside an iteration uses predicates on configurations. `Ready(c, b)`:
in the middle of a handler that started from budget `b`; every frame can receive,
and a guard that was open is still open and has shielded the outer counter.
`Closing(c, b)`: the guard may have been closed, so nothing may be charged any
more, but elements may be built. `Over(c, b)`: the iteration may end here.
`Open(c, b)` is `Ready` without the pairing of guards, and `Ahead(s, b, k)` says
that `k` more allowances are open than exit frames wait, unless something is
latched: between the push of an allowance and the push of its exit frame `k` is
1, after the exit frame was popped it is 1 until `pop_allowance` or `unwind`. The
primitives (`SpendReady`, `BuildReady`, `PushReady`, `PushOpen`, `PoppedOpen`,
`FinOver`, ...) move between them, with `Calm` (not exhausted) as the
precondition of every construction; each handler then has one lemma, proved from
the primitives along its own branches.

Elements are never opened: the proofs hold for whatever `argument`, `finish`,
`AsInt` and `ResolveEnv` return. That is also their limit: statements about
amounts need the types of elements and the prices of operators, which are the
subject of the next two modules.

### The operators

Elements are recursive data, and what an operator does with one may go to any
depth. `IsElement(e)` avoids recursion: e is a member of some set that is closed
under taking elements apart (`ClosedSet`), so that its parts are elements again. A
function object is an element only if its operator can have the state it carries.
That is `Held(op, ist, state)`: an atom for most operators; a pair for the folds that
compare with an earlier argument; a list of atoms of known form for those that
collect a fixed number of arguments; for `b` the forest of a binary counter, whose
trees are paired as the bits of its length say; bytes for the hashes.

For every operator of the table, and the unknown ones, `OperatorsEnd` and
`OperatorsFold` then say that the charge is a natural number, that nothing is built
which it does not pay for, at half a `STEP` an element, and that the answer is an
error, an element, or again a state that is `Held`. For an operator that charges
between its constructions this is claimed of every prefix (`Runs`), since that is
where an exhausted budget stops it. The margins are thin in places and the proof
is what shows that they suffice: the call of an operator rests on the charge of
the iteration that makes it, less the frame it has pushed. Loops over bytes,
numbers and trees are recursive functions; `Climb` is induction in the form the
provers can use, over a set of numbers.

### Amounts

`BudgetSound` is not inductive for want of a reason why a guard's allowance fits in
what its context was charged, and `AllocationCovered` is false inside an iteration
and *decreases* when a guard is abandoned, since what it has not yet spent is lost
and what it has built remains. `Amounts` says what is conserved. `Worth` follows the
open guards from the outside in: what is spent, less what each guard may still
spend, less the `STEP` that opened it. At least half a `STEP` of this worth stands
against each element built (`Credit`). A charge raises the worth by its amount
wherever it goes; opening a guard takes back the declared cost that its context
was charged and sets the iteration's `STEP` aside (the guard's frames are paid by
`GUARD`, inside it); leaving a guard of exact cost restores that `STEP`; and abandoning
guards restores one for each of them, which is what pays for the error that
`Settle` then builds. `Kept(c, k)` is a configuration with k more to
spend on constructions than it has used; the charge for the pop makes k a whole
`STEP`, and every handler is shown to come back with at least nothing
(`ApplyStepKept`, `SoftforkStepKept`, `OpStepKept`, ...), through every early return.
There is nothing to spare: a handler with two elements to build has 24 to pay them
with. `Amounts` is `Funded(0)`; `Funded(extra)` is the same of an evaluation that had
`extra` to its credit when it began, which it never loses (`StepAmounts`).

The same invariant has `Within` (every level within its allowance, each allowance
within the amount its context was charged), the types of the frames, and that the
cap's latch is set exactly when the count has crossed it, which `unwind` could lose
and does not. From it `MeteredSteps` follows: each iteration is a step of `Metered` or
stutters, in particular the counter never goes down and a latched evaluation does
nothing but return.

How far the cap can be overshot is the other half of `CapEnforced`. `CapLatched` alone
would allow a handler to build without end once the latch is set. `Near(c, n)` is a
configuration at most n constructions past `HighMark` (the cap, or what was built
when the iteration began), and the argument is that a charge that succeeds begins
anew: by `Fit` what is not latched is below the cap (`OkNear`), so only what follows
the last charge counts. That is at most seven constructions for most handlers
(`PartialBindNear`, `EnterGuardNear`, `BllEvalNear`, ...); a fold builds up to
eight elements and a frame after its charge (`FoldNear`), and the legs of an operator's end no more
than the bytes it decodes and one (`TurnsKept`, `FinishingNear`; `Thin` in
`OperatorsEnd`). `Close` adds what `Settle` needs: an iteration that overruns a guard
builds its error on top, so it must end two short of the bound. It does, because a
handler that builds after its last charge has overrun no guard (`BuildQuiet`), and one
whose last charge overran it has built little since the one before.

### The spend checker

`SpendInv` composes the invariants of the two components. In the decoding phases
it says of the decoder what its latches tell (`out` is `None` exactly when the
budget is latched, and no guard is open); in the evaluating phase it contains
`Inv` of the evaluator, which is shown to hold where `Evaluate` starts, in a
budget that two decodes have charged and with their count of constructions,
although that is not an initial state of `BllMachine`. Over all phases it says
whose the context is: unset or left over before a check, of the spend that is
being checked from the moment it is set to the verdict. `SetGlobal` and another
spend may come between any two checks. An evaluation that an exception left tells
nothing, and has no verdict to be wrong: a check under way has none yet. `LatchTells` (a latched budget is reported as
such, whatever error or result raced the latch) is the half of `LatchDecides` that
a verdict rests on; its converse (no program's own Error reads like a latch's) is
about the texts of messages and stays with TLC.

`SpendFunds` follows the amounts through a check. `Walk(base)` is kept by every
token of a decode: a pair, an atom or a payload costs no more than 336 for each
byte it was read from (`TakeWalks`, `ReadPayloadWalks`), so what is spent is at most
`base` and 336 for each byte before `pos` (`Covered`), provided that the limit covers the
whole item; every construction is paid for before it is made; and a decode that
ends with an element leaves 48 to spare. The second decode starts from a `base` that
covers the first. `WitnessCovers` and `Granted` relate this to what the witness has
bought: the two items are part of the witness, annex or not, and 560 per byte and
28000 are more than 336 per byte and two entries (`DecodePaid`). The evaluation begins
with the spare 48, of which `Funded(24)` keeps enough that all through the check
no construction is unpaid, which `Amounts` alone cannot say; a cap that is
worth the largest budget is therefore never crossed (`BackstopHolds`). Together these
are `NoHonestSpendRefused`, for every witness, price of a block and cap.

### The decoder

`DecodeInv` is the conjunction of the three properties with the types of the input
and the cap, and no part of it is inductive alone: that a construction latches the
cap when the count crosses it needs the count to have agreed before; that a fold
is paid for needs the pending pairs to be counted with the built ones; that the
entry charge covers the Error of a refusal needs a refusal to be the end. There is
one lemma per way a step ends: `FailKeeps` (a refusal), `RefuseKeeps` (a failed
charge), `TakeKeeps` (an element built), `PlaceKeeps`, `FoldKeeps` and
`FinishKeeps`; every token reduces to these in `ReadKeeps`, where the bytes of a
length prefix are shown to exist before they are read.

### Reference counts

The heap proofs are for any number of cells and handles and any sequence of
calls. `HeapInv` strengthens `Counted`, which a release breaks if it is all that
is known: cells refer to older cells only (so a cell is never its own descendant,
and the children of one that is freed are others); a cell on the release stack
has a count of one, stands there once and has no other owner; the two interned
cells exist; a cell whose count is zero has no children. `Counted` is kept turn
by turn: what `bumpref`, `deref_add_to_stack` and `FreeTop` do to the counts is
proved as lemmas on sums over slots (`Times`, `FromCells`), a cell at a time, and
the folds inside of them (recursive functions over a sequence) by induction on
the number of elements treated.

`OnlyReachableLive` has two halves. What can be reached has a count above zero by
induction over the rounds of `Reached`. The other half, that nothing leaks, is an
induction over the age of cells from the youngest: a live cell that no handle
holds and that is not interned has, since its count is exact, a slot that refers
to it; that slot is in a younger live cell, which is reached by the induction
hypothesis. The set form of induction (`NatSetInduction`) is used, which the
provers can instantiate.

### What stays with TLC

* `ComputesMeaning`, `CompiledAgrees`, `PromptSound`, `ValidExactly`, `DecodersAgree`,
  `ReaderSound`, `TextsReadBack`, `ScriptsRead` and the properties of signing:
  what recursive definitions compute, or arithmetic of a concrete group.
* `EverythingOwned` and `NothingDisturbed` for the handlers of the evaluator:
  their modules use recursive operators.
* Two-run statements over the replay (`BoundaryReplay`, `ValidatorsAgree`), which
  need an invariant relating two executions.
* Liveness (`Termination`, `EverySpendDecided`, `ReturnsToPrompt`, `Ends`) and
  anything with ENABLED.

## 5. What is not modelled

verystable's network client, messages, addresses, wallet and RPC; `ripemd160` (a
mixing function, like every hash of an operator); the sample generator; of the shell `import`, the
printing of the stack and the history; printing of `report`; the size cap of
operator variants that are not defined (`Opcode.size_cap` is `None`); the
allocator's unenforced monitoring; a token's characters (a literal is the
reading its regular expression gave it). The text of an Error is kept only where
a verdict repeats it: "leaf script" and "environment" stand for any decode error
of the two items. Python's recursion limit and real memory are outside. After an
evaluation that exhausted its budget returned, the closing `Error` may in the
model be the construction that crosses the cap, so both latches may then be set;
with the code's constants `HonestSpends` excludes it for a spend, and no
driver looks at the latches in that order.

## 6. Plan

1. *Done.* All modules above, their runs, and the theorems of section 4.
2. *Drivers.* `NextStepsOver` from a lemma per handler about the frames below the
   one it pops; `AtHand` of `Shell` from `Inv` and `Amounts` (that the debugger's
   allocator has no cap is a fact about the count).
3. *Ownership.* The handlers' counts from the lemmas of `RefHeapProofs`, once the
   recursive operators of `Ownership` are recursive functions.
