----------------------------- MODULE QuickCodec -----------------------------
(***************************************************************************)
(* The unused codec of element.py marked "XXX broken" (SerDeserBroken): a  *)
(* first byte says quotation and the kind and size of what follows, with   *)
(* one code each for short atoms and short lists.                          *)
(*                                                                         *)
(* Writing and reading are operators; what is read is exact only together  *)
(* with what is left of the bytes.                                         *)
(***************************************************************************)
EXTENDS Elements

Seqs == INSTANCE SequencesExt

MAX_QUICK_ONEBYTE == 51
MAX_QUICK_MULTIBYTE == 64
MAX_QUICK_LIST == 5
QUICK_LEFTOVER == MAX_QUICK_ONEBYTE + 1
QUICK_MULTIBYTE_OFFSET == MAX_QUICK_ONEBYTE
SLOW_MULTIBYTE == MAX_QUICK_ONEBYTE + MAX_QUICK_MULTIBYTE + 1
QUICK_PROPER_OFFSET == SLOW_MULTIBYTE
QUICK_IMPROPER_OFFSET == QUICK_PROPER_OFFSET + MAX_QUICK_LIST
SLOW_LIST == 127
QUOTED == 128

Raised == [kind |-> "exception"]

-----------------------------------------------------------------------------
(***************************************************************************)
(* Reading: what is read and where reading goes on.  An exception ends it. *)
(***************************************************************************)
Got(el, at) == [el |-> el, at |-> at]
Lost        == Got(Raised, 0)
Ends(r)     == r.at = 0

ReadAtom(b, i, n) == IF i + n - 1 > Len(b) THEN Lost
                     ELSE Got(FromBytes(SubSeq(b, i, i + n - 1)), i + n)

\* A size written as a run of 255s and a last smaller byte.
RunLength(b, i) ==
    LET last == {k \in i..Len(b) : b[k] # 255 /\ \A h \in i..k-1 : b[h] = 255}
        k    == CHOOSE h \in last : TRUE
    IN  IF last = {} THEN [size |-> -1, at |-> i]
        ELSE [size |-> 255 * (k - i) + b[k], at |-> k + 1]

\* How a list goes on after its code: its entries, whether nil ends it, and
\* where the first entry is.
ListHeader(b, i, code) ==
    LET tag == b[i]
        run == RunLength(b, i + 1)
        n   == tag % 128
        header(s, closed, at) == [size |-> s, closed |-> closed, at |-> at]
    IN  CASE code <= QUICK_IMPROPER_OFFSET -> header(code - QUICK_PROPER_OFFSET, TRUE, i)
          [] code > QUICK_IMPROPER_OFFSET /\ code < SLOW_LIST
                -> header(code - QUICK_IMPROPER_OFFSET, FALSE, i)
          [] code = SLOW_LIST
                -> IF i > Len(b) THEN header(-1, TRUE, i)
                   ELSE IF n < 127 THEN header(MAX_QUICK_LIST + 1 + n, tag < QUOTED, i + 1)
                   ELSE IF run.size < 0 THEN header(-1, TRUE, i)
                   ELSE header(MAX_QUICK_LIST + 1 + n + run.size, tag < QUOTED, run.at)

ReadCoded(b, i, code) ==
    LET run == RunLength(b, i)
    IN  CASE code = 0 -> Got(Nil, i)
          [] code \in 1..MAX_QUICK_ONEBYTE -> Got(IntAtom(code), i)
          [] code = QUICK_LEFTOVER ->
                IF i > Len(b) THEN Lost
                ELSE IF b[i] = 0 \/ b[i] > MAX_QUICK_ONEBYTE THEN Got(FromBytes(<<b[i]>>), i + 1)
                ELSE ReadAtom(b, i + 1, b[i] + MAX_QUICK_MULTIBYTE)
          [] code > QUICK_LEFTOVER /\ code < SLOW_MULTIBYTE ->
                ReadAtom(b, i, code - QUICK_MULTIBYTE_OFFSET)
          [] code = SLOW_MULTIBYTE ->
                IF run.size < 0 THEN Lost ELSE ReadAtom(b, run.at, run.size)

RECURSIVE Read(_, _), ReadMany(_, _, _)
\* n elements one after another.
ReadMany(b, i, n) ==
    LET head == Read(b, i)
        rest == ReadMany(b, head.at, n - 1)
    IN  IF n = 0 THEN Got(<<>>, i)
        ELSE IF Ends(head) THEN Lost
        ELSE IF Ends(rest) THEN Lost
        ELSE Got(<<head.el>> \o rest.el, rest.at)

\* The list of these elements with that tail.
Linked(s, tail) ==
    LET from[k \in 1..Len(s)+1] == IF k = Len(s) + 1 THEN tail ELSE Cons(s[k], from[k + 1])
    IN  from[1]

ReadList(b, h) ==
    LET heads == ReadMany(b, h.at, h.size)
        tail  == IF h.closed THEN Got(Nil, heads.at) ELSE Read(b, heads.at)
    IN  IF Ends(heads) THEN Lost
        ELSE IF Ends(tail) THEN Lost
        ELSE Got(Linked(heads.el, tail.el), tail.at)

Read(b, i) ==
    LET code  == b[i] % 128
        h     == ListHeader(b, i + 1, code)
        plain == IF code <= SLOW_MULTIBYTE THEN ReadCoded(b, i + 1, code)
                 ELSE IF h.size < 0 THEN Lost
                 ELSE ReadList(b, h)
    IN  IF i > Len(b) THEN Lost
        ELSE IF Ends(plain) \/ b[i] < QUOTED THEN plain
        ELSE Got(Cons(Nil, plain.el), plain.at)

Deserialize(b) == LET r == Read(b, 1)
                  IN  IF Ends(r) \/ r.at # Len(b) + 1 THEN Raised ELSE r.el

-----------------------------------------------------------------------------
(***************************************************************************)
(* Writing.                                                                *)
(***************************************************************************)
RECURSIVE Entries(_), Tailing(_), Serialize(_), Writable(_)
\* The entries down a list, and what ends it.
Entries(e) == IF IsCons(e) THEN <<e.val1>> \o Entries(e.val2) ELSE <<>>
Tailing(e) == IF IsCons(e) THEN Tailing(e.val2) ELSE e

\* The widest atom the writer manages: the branch for wider ones uses a name
\* that is not defined.
WidestWritten == MAX_QUICK_MULTIBYTE + MAX_QUICK_ONEBYTE

Writable(e) == IF IsCons(e) THEN Writable(e.val1) /\ Writable(e.val2)
               ELSE IsAtom(e) /\ e.width <= WidestWritten

SizeRun(n) == [k \in 1..(n \div 255) |-> 255] \o <<(n % 255)>>

AtomCode(a, v) ==
    CASE a.width = 0 -> <<v>>
      [] a.width = 1 -> IF a.bytes[1] \in 1..MAX_QUICK_ONEBYTE THEN <<v + a.bytes[1]>>
                        ELSE <<v + QUICK_LEFTOVER, a.bytes[1]>>
      [] a.width \in 2..MAX_QUICK_MULTIBYTE -> <<v + QUICK_MULTIBYTE_OFFSET + a.width>> \o a.bytes
      [] OTHER -> <<v + QUICK_LEFTOVER, a.width - MAX_QUICK_MULTIBYTE>> \o a.bytes

\* A long list's size beyond the short ones'; a size that does not fit the tag
\* is written after the tag 63, which the reader takes for the size itself.
ListCode(size, closed, v) ==
    LET over == size - MAX_QUICK_LIST - 1
        tag  == IF closed THEN 0 ELSE 128
    IN  IF size <= MAX_QUICK_LIST
        THEN <<v + size + (IF closed THEN QUICK_PROPER_OFFSET ELSE QUICK_IMPROPER_OFFSET)>>
        ELSE <<v + SLOW_LIST>> \o IF over < 127 THEN <<tag + over>>
                                 ELSE <<tag + 63>> \o SizeRun(over - 127)

Coded(e, v) ==
    LET parts == Entries(e)
        open  == ~IsNil(Tailing(e))
        texts == [k \in DOMAIN parts |-> Serialize(parts[k])]
    IN  IF IsAtom(e) THEN AtomCode(e, v)
        ELSE ListCode(Len(parts), ~open, v)
             \o Seqs!FlattenSeq(texts)
             \o IF open THEN Serialize(Tailing(e)) ELSE <<>>

Serialize(e) == IF IsCons(e) /\ IsNil(e.val1) THEN Coded(e.val2, QUOTED) ELSE Coded(e, 0)

=============================================================================
