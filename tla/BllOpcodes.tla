----------------------------- MODULE BllOpcodes -----------------------------
(***************************************************************************)
(* The ordinary operators (opcodes.py): how each folds one argument into   *)
(* its state and what it delivers when the arguments run out.              *)
(*                                                                         *)
(* The operators on bytes, encodings and curves have modules of their own; *)
(* here are the table, the other operators and the dispatch.               *)
(***************************************************************************)
EXTENDS ByteOpcodes, SerDeser, CurveOpcodes, TLC

CONSTANT UNKNOWN_OP_RANGE

ASSUME RangeAssumption == UNKNOWN_OP_RANGE \in Nat

\* The opcode table.
Op_FUNCS ==
    [n \in (4..27) \cup {30} \cup (32..42) \cup {255} |->
        CASE n =  4 -> "x"      [] n =  5 -> "i"      [] n =  6 -> "rc"  [] n =  7 -> "h"
          [] n =  8 -> "t"      [] n =  9 -> "l"      [] n = 10 -> "b"
          [] n = 11 -> "notall" [] n = 12 -> "all"    [] n = 13 -> "any" [] n = 14 -> "="
          [] n = 15 -> "<s"     [] n = 16 -> "strlen" [] n = 17 -> "substr"
          [] n = 18 -> "cat"    [] n = 19 -> "~"      [] n = 20 -> "&"   [] n = 21 -> "|"
          [] n = 22 -> "^"      [] n = 23 -> "+"      [] n = 24 -> "-"   [] n = 25 -> "*"
          [] n = 26 -> "%"      [] n = 27 -> "shift"  [] n = 30 -> "<"   [] n = 32 -> "rd"
          [] n = 33 -> "wr"     [] n = 34 -> "sha256" [] n = 35 -> "ripemd160"
          [] n = 36 -> "hash160"          [] n = 37 -> "hash256"
          [] n = 38 -> "bip340_verify"    [] n = 39 -> "ecdsa_verify"
          [] n = 40 -> "secp256k1_muladd" [] n = 41 -> "tx"
          [] n = 42 -> "bip342_txmsg"     [] n = 255 -> "==="]

(***************************************************************************)
(* Fixed arity: the arguments are collected in a counted list, newest      *)
(* first, and the operation runs on all of them at the end.                *)
(***************************************************************************)
FixOpcodes == {"x", "i", "h", "t", "l", "%", "shift", "substr", "rd", "wr",
               "bip340_verify", "ecdsa_verify", "bip342_txmsg"}

MinArgs == [op \in FixOpcodes |->
    CASE op \in {"x", "substr", "bip342_txmsg"}     -> 0
      [] op \in {"i", "h", "t", "l", "rd", "wr"}    -> 1
      [] op \in {"%", "shift"}                      -> 2
      [] op \in {"bip340_verify", "ecdsa_verify"}   -> 3]

MaxArgs == [op \in FixOpcodes |->
    CASE op = "x"                                   -> 10
      [] op \in {"h", "t", "l", "rd", "wr", "bip342_txmsg"} -> 1
      [] op \in {"%", "shift"}                      -> 2
      [] op \in {"i", "substr", "bip340_verify", "ecdsa_verify"} -> 3]

Collected(state) == IF IsNil(state) THEN 0 ELSE AsInt(state.val2)

FixArgument(op, state, arg) ==
    LET n    == Collected(state)
        rest == IF IsNil(state) THEN state ELSE state.val1
    IN  IF n >= MaxArgs[op]
        THEN Fails(FIX_COLLECT, "too many arguments")
        ELSE Path(FIX_COLLECT, 2 + Fresh(IntAtom(n + 1)),
                  Cons(Cons(arg, rest), IntAtom(n + 1)))

\* The collected arguments, oldest first (no operator reads more than three).
FixArgs(state) ==
    LET n == Collected(state)
        l == state.val1
    IN  CASE n = 0 -> <<>>
          [] n = 1 -> <<l.val1>>
          [] n = 2 -> <<l.val2.val1, l.val1>>
          [] n = 3 -> <<l.val2.val2.val1, l.val2.val1, l.val1>>

op_i(a) ==
    IF IsFunc(a[1]) THEN Fails(CONTROL_BASE, "i: condition is a function object")
    ELSE Borrows(CONTROL_BASE,
           CASE IsNil(a[1])  /\ Len(a) = 3 -> a[3]
             [] IsNil(a[1])  /\ Len(a) < 3 -> a[1]
             [] ~IsNil(a[1]) /\ Len(a) > 1 -> a[2]
             [] ~IsNil(a[1]) /\ Len(a) = 1 -> One)

op_h(a) == IF IsCons(a[1]) THEN Borrows(CONTROL_BASE, a[1].val1)
                           ELSE Fails(CONTROL_BASE, "not a list")

op_t(a) == IF IsCons(a[1]) THEN Borrows(CONTROL_BASE, a[1].val2)
                           ELSE Fails(CONTROL_BASE, "not a list")

op_l(a) == IF IsFunc(a[1]) THEN Fails(CONTROL_BASE, "l: argument is a function object")
           ELSE Borrows(CONTROL_BASE, IF IsCons(a[1]) THEN One ELSE Nil)

\* Python's remainder takes the sign of the divisor.
Remainder(n, d) == IF d > 0 THEN n % d ELSE -((-n) % (-d))

op_mod(a) ==
    LET num  == a[1]
        den  == a[2]
        work == MOD_BASE + MOD_PER_BYTE * (num.width + den.width)
                  + MULDIV_LIMB_PER_BYTE * Wider(num.width, den.width)
                  + (num.width * den.width) \div MUL_PRODUCT_DIV
        enc  == IntAtom(Remainder(AsInt(num), AsInt(den)))
    IN  IF ~IsAtom(num) \/ ~IsAtom(den) THEN Fails(MOD_BASE, "mod requires atoms")
        ELSE IF AsInt(den) = 0 THEN Fails(work, "mod: attempted div by 0")
        ELSE Builds(work + MALLOC_PER_BYTE * enc.width, enc)

(***************************************************************************)
(* The transaction being validated, as the operators look at it: a view is *)
(* [tx, index, global, field, complete, size, message], where tx says if a *)
(* transaction is set, index is <<>> or a sequence of the input's index,   *)
(* global and field[code][i + 1] are what the selectors answer, complete   *)
(* says if all four globals are set, size is how many bytes the message is *)
(* priced by and message what is signed, by its type.  Module TxOpcodes    *)
(* makes them from a transaction.                                          *)
(***************************************************************************)
SighashTypes == {0, 1, 2, 3, 129, 130, 131}

\* Stands where a value would when a Python exception is raised instead.
Raises == Error("raised")

\* Each selector is answered with an atom, but for the pair of 9, or raises.
Bytes(e)    == IsAtom(e) /\ e.bytes \in Seq(Nat) /\ e = FromBytes(e.bytes)
Answered(e) == e = Raises \/ Bytes(e)
Answers(view) ==
    /\ DOMAIN view.global = 0..9 /\ DOMAIN view.field = 10..29
    /\ view.size \in Nat
    /\ \A code \in 0..8 : Answered(view.global[code])
    /\ \A code \in 10..29 : \A k \in DOMAIN view.field[code] : Answered(view.field[code][k])
    /\ \A h \in SighashTypes : Answered(view.message[h])
    /\ LET e == view.global[9]
       IN  e = Raises \/ (IsCons(e) /\ Bytes(e.val1) /\ Bytes(e.val2) /\ e = Cons(e.val1, e.val2))

op_bip342_txmsg(view, a) ==
    LET h    == IF a = <<>> THEN 0 ELSE a[1].bytes[1]
        cost == TXMSG_BASE + MALLOC_PER_BYTE * 32 + TXMSG_PER_BYTE * view.size
    IN  IF a # <<>> /\ ~OfWidth(a[1], {1})
        THEN Fails(0, "bip342_txmsg: expects a single sighash byte")
        ELSE IF h \notin SighashTypes THEN Fails(0, "bip342_txmsg: unknown sighash byte")
        ELSE IF ~view.complete THEN Fails(0, "bip342_txmsg: not set")
        ELSE IF view.message[h] = Raises THEN Borrows(cost, Raises)
        ELSE Builds(cost, view.message[h])

\* which is <<>> or a sequence of one index; without one, the input's own is used.
get_tx_info(view, code, which) ==
    LET at == IF which = <<>> THEN view.index ELSE which
    IN  IF code \in 0..9
        THEN IF which # <<>> THEN Error("tx: should be an atom not a pair")
             ELSE view.global[code]
        ELSE IF code \notin 10..29 THEN Error("tx: out of range")
        ELSE IF at = <<>> THEN Raises
        ELSE IF at[1] < 0 THEN Error("tx: invalid index")
        ELSE IF ~view.tx THEN Raises
        ELSE IF at[1] + 1 \notin DOMAIN view.field[code] THEN Error("tx: invalid index")
        ELSE view.field[code][at[1] + 1]

\* A field is an atom, which extends the accumulator, or a pair or an error,
\* which replaces it.
Extended(left, field, cost) ==
    IF field = Raises THEN Borrows(cost, Raises)
    ELSE IF IsAtom(field)
    THEN Builds(cost + CopyRate * (left.width + field.width), Concat(left, field))
    ELSE Path(cost, IF IsCons(field) THEN 1 + Fresh(field.val1) + Fresh(field.val2) ELSE 1, field)

\* The state is asserted to be an atom: no argument follows a pair.
op_tx(view, left, right) ==
    LET pair  == ~IsAtom(right)
        code  == AsInt(IF pair THEN right.val1 ELSE right)
        which == IF pair THEN <<AsInt(right.val2)>> ELSE <<>>
        scans == IF pair THEN atom_scan(right.val1.width) + atom_scan(right.val2.width)
                 ELSE atom_scan(right.width)
        asked == TX_ARG + scans + IF code = 9 /\ ~pair THEN 3 * ELEMENT_ALLOC ELSE 0
    IN  IF ~IsAtom(left) THEN Borrows(TX_ARG, Raises)
        ELSE IF pair /\ (~IsCons(right) \/ ~IsAtom(right.val1) \/ ~IsAtom(right.val2))
        THEN Fails(TX_ARG, "tx: bad argument")
        ELSE Extended(left, get_tx_info(view, code, which), asked)

-----------------------------------------------------------------------------
FixFinish(view, op, state) ==
    LET args == FixArgs(state)
    IN  IF Collected(state) < MinArgs[op] THEN Fails(0, "too few arguments")
        ELSE CASE op = "x" -> Fails(CONTROL_BASE, "Exception")
               [] op = "i" -> op_i(args)
               [] op = "h" -> op_h(args)
               [] op = "t" -> op_t(args)
               [] op = "l" -> op_l(args)
               [] op = "%" -> op_mod(args)
               [] op = "shift"  -> op_shift(args)
               [] op = "substr" -> op_substr(args)
               [] op = "rd" -> op_list_read(args)
               [] op = "wr" -> op_list_write(args)
               [] op = "bip340_verify" -> op_bip340_verify(args)
               [] op = "ecdsa_verify"  -> op_ecdsa_verify(args)
               [] op = "bip342_txmsg"  -> op_bip342_txmsg(view, args)

(***************************************************************************)
(* Folds: each argument is combined with the running state.                *)
(***************************************************************************)
op_add(left, right) ==
    LET enc == IntAtom(AsInt(left) + AsInt(right))
    IN  IF IsAtom(left) /\ IsAtom(right)
        THEN Builds(ARITH_ARG + ARITH_PER_BYTE * (left.width + right.width)
                      + MALLOC_PER_BYTE * enc.width, enc)
        ELSE Fails(ARITH_ARG, "add requires atoms")

\* The state starts as (nil . nil), holds (1 . minuend) after one argument
\* and the running difference after that.
op_sub(left, right) ==
    LET minuend == IF IsCons(left) THEN left.val2 ELSE left
        enc     == IntAtom(AsInt(minuend) - AsInt(right))
    IN  IF ~IsAtom(right) THEN Fails(ARITH_ARG, "sub requires atoms")
        ELSE IF IsCons(left) /\ IsNil(left.val1)
        THEN Path(ARITH_ARG, 1, Cons(One, right))
        ELSE Builds(ARITH_ARG + ARITH_PER_BYTE * (minuend.width + right.width)
                      + MALLOC_PER_BYTE * enc.width, enc)

op_mul(left, right) ==
    LET enc == IntAtom(AsInt(left) * AsInt(right))
    IN  IF IsAtom(left) /\ IsAtom(right)
        THEN Builds(ARITH_ARG + mul_fold_work(left.width, right.width)
                      + MALLOC_PER_BYTE * enc.width, enc)
        ELSE Fails(ARITH_ARG, "mul requires atoms")

op_lt_num(left, right) ==
    LET holds == Path(COMPARE_ARG, 1, Cons(One, right))
        scan  == LT_NUM_PER_BYTE * (left.val2.width + right.width)
    IN  IF IsFunc(right) THEN Fails(COMPARE_ARG, "<: cannot compare a function object")
        ELSE IF IsNil(left) \/ ~IsAtom(right) THEN Borrows(COMPARE_ARG, Nil)
        ELSE IF ~IsCons(left) THEN holds
        ELSE IF AsInt(left.val2) >= AsInt(right) THEN Borrows(COMPARE_ARG + scan, Nil)
        ELSE [holds EXCEPT !.cost = @ + scan]

op_eq(left, right) ==
    LET scan == COMPARE_PER_BYTE * right.width
    IN  IF IsFunc(right) THEN Fails(COMPARE_ARG, "=: cannot compare a function object")
        ELSE IF IsNil(left) \/ ~IsAtom(right) THEN Borrows(COMPARE_ARG, Nil)
        ELSE IF IsAtom(left) THEN Path(COMPARE_ARG, 1, Cons(right, left))
        ELSE Borrows(COMPARE_ARG + scan, IF left.val1 = right THEN left ELSE Nil)

op_rc(left, right) ==
    IF IsCons(left)
    THEN Path(RC_ARG, 2, Cons(left.val1, Cons(right, left.val2)))
    ELSE Path(RC_ARG, 1, Cons(left, right))

Flag(name, left, right, chosen) ==
    IF IsFunc(right) THEN Fails(LOGIC_ARG, name)
    ELSE Borrows(LOGIC_ARG, chosen)

op_nand(left, right) == Flag("notall: argument is a function object", left, right,
                             IF IsNil(right) THEN One ELSE left)
op_and(left, right)  == Flag("all: argument is a function object", left, right,
                             IF IsNil(right) THEN Nil ELSE left)
op_or(left, right)   == Flag("any: argument is a function object", left, right,
                             IF IsNil(right) THEN left ELSE One)

op_strlen(left, right) ==
    IF IsAtom(right) THEN Builds(STRLEN_ARG, IntAtom(AsInt(left) + right.width))
    ELSE Fails(STRLEN_ARG, "strlen: not an atom")

op_cat(left, right) ==
    IF IsAtom(right)
    THEN Builds(CAT_ARG + (COPY_PER_BYTE + MALLOC_PER_BYTE) * (left.width + right.width),
                Concat(left, right))
    ELSE Fails(CAT_ARG, "cat: not an atom")

\* The minuend alone is negated: a fold of its own at the end.
FinishSub(state) ==
    LET stored == state.val2
        enc    == IntAtom(0 - AsInt(stored))
    IN  IF IsCons(state)
        THEN Builds(ARITH_ARG + ELEMENT_ALLOC + ARITH_PER_BYTE * stored.width
                      + MALLOC_PER_BYTE * enc.width, enc)
        ELSE Borrows(ELEMENT_ALLOC, state)

(***************************************************************************)
(* Unknown operators: a multiplier, one of four price shapes, and nil.     *)
(***************************************************************************)
from_opnum(n) == [selector |-> (n \div 64) % 4, multiplier |-> n \div 256,
                  count |-> 0, bytes |-> 0, work |-> 0]

UnknownArgument(ist, arg) ==
    LET folded == IF ist.selector = 2 /\ ist.count > 0
                  THEN ist.work + ARITH_ARG + mul_fold_work(ist.bytes, arg.width)
                  ELSE ist.work
        next   == [ist EXCEPT !.count = @ + 1, !.bytes = @ + arg.width, !.work = folded]
    IN  IF ist.selector = 0 THEN IntState(0, ist)
        ELSE IF ~IsAtom(arg) THEN Fails(0, "unknown op requires an atom")
        ELSE IntState(0, next)

UnknownPrice(total, multiplier) == Wider(total, 1) * (multiplier + 1)

UnknownFinish(ist) ==
    LET total == CASE ist.selector = 0 -> 0
                   [] ist.selector = 1 -> ARITH_ARG * ist.count + ARITH_PER_BYTE * ist.bytes
                   [] ist.selector = 2 -> ist.work
                   [] ist.selector = 3 -> CAT_ARG * ist.count
                                + (COPY_PER_BYTE + MALLOC_PER_BYTE) * ist.bytes
    IN  Borrows(UnknownPrice(total, ist.multiplier), Nil)

(***************************************************************************)
(* Dispatch.                                                               *)
(***************************************************************************)
initial_int_state(op, opnum) == IF op = "unknown" THEN from_opnum(opnum) ELSE <<>>

initial_state(op) == CASE op = "-" -> Cons(Nil, Nil)
                       [] op \in {"all", "=", "*", "<", "<s", "==="} -> One
                       [] OTHER -> Nil

argument(view, op, ist, state, arg) ==
    CASE op \in FixOpcodes -> FixArgument(op, state, arg)
      [] op = "unknown" -> UnknownArgument(ist, arg)
      [] op = "+"       -> op_add(state, arg)
      [] op = "-"       -> op_sub(state, arg)
      [] op = "*"       -> op_mul(state, arg)
      [] op = "<"       -> op_lt_num(state, arg)
      [] op = "="       -> op_eq(state, arg)
      [] op = "rc"      -> op_rc(state, arg)
      [] op = "notall"  -> op_nand(state, arg)
      [] op = "all"     -> op_and(state, arg)
      [] op = "any"     -> op_or(state, arg)
      [] op = "strlen"  -> op_strlen(state, arg)
      [] op = "cat"     -> op_cat(state, arg)
      [] op = "b"       -> op_b(state, arg)
      [] op = "<s"      -> op_lt_str(state, arg)
      [] op = "==="     -> op_bigeq(state, arg)
      [] op = "|"       -> op_or_bytes(state, arg)
      [] op = "^"       -> op_xor_bytes(state, arg)
      [] op = "&"       -> op_and_bytes(state, arg)
      [] op = "~"       -> op_nand_bytes(state, arg)
      [] op \in HashOpcodes -> HashArgument(ist, arg)
      [] op = "secp256k1_muladd" -> op_secp256k1_muladd(state, arg)
      [] op = "tx"      -> op_tx(view, state, arg)

finish(view, op, ist, state) ==
    CASE op \in FixOpcodes -> FixFinish(view, op, state)
      [] op = "unknown" -> UnknownFinish(ist)
      [] op = "-"       -> FinishSub(state)
      [] op \in {"+", "*", "strlen", "cat", "|", "^", "&", "~", "tx"} -> Borrows(ELEMENT_ALLOC, state)
      [] op \in {"<", "<s"} -> Borrows(0, IF IsAtom(state) THEN state ELSE state.val1)
      [] op \in {"=", "===", "rc"} -> Borrows(0, IF IsCons(state) THEN state.val2 ELSE state)
      [] op \in {"notall", "all", "any"} -> Borrows(0, state)
      [] op = "b"  -> FinishB(state)
      [] op \in HashOpcodes -> HashFinish(op, ist)
      [] op = "secp256k1_muladd" -> MuladdFinish(state)

-----------------------------------------------------------------------------
\* Environment edges a reference n walks.
Edges(n) == Cardinality({k \in 1..(8 * MaxIntBytes - 2) : n \div 2^k >= 1})

\* The low bits of n choose the path, each edge charged before it is checked.
ResolveEnv(env, n) ==
    LET walk[k \in 0..Edges(n)] ==
            IF k = 0 THEN env
            ELSE LET node == walk[k-1] IN
                 IF ~IsCons(node) THEN Error("invalid env reference")
                 ELSE IF (n \div 2^(k-1)) % 2 = 0 THEN node.val1 ELSE node.val2
        found  == walk[Edges(n)]
        walked == Cardinality({k \in 0..Edges(n)-1 : IsCons(walk[k])})
    IN  IF walked = Edges(n) THEN Path(ENV_EDGE * walked, 0, found)
        ELSE Path(ENV_EDGE * (walked + 1), 1, found)
=============================================================================
