------------------------------- MODULE Reader -------------------------------
(***************************************************************************)
(* SExpr.parse (element.py): a text of tokens read left to right onto a    *)
(* stack of unfinished lists.  A dot leaves a hole in its list, a tick     *)
(* opens a list that its one element closes, and every exception the       *)
(* reader raises rejects the text.                                         *)
(*                                                                         *)
(* A literal token is the reading its regular expression gave it, so that  *)
(* the characters of a token do not appear.                                *)
(***************************************************************************)
EXTENDS SymbolIndex

CONSTANTS
    LiteralsAt(_),      \* the literals tried at a place of the text
    MostTokens          \* bound of the model: tokens in a text

ASSUME ReaderAssumption == MostTokens \in Nat

VARIABLES
    text,       \* the tokens so far, read or not
    parstack    \* the lists being read, the innermost last; Rejected after an exception

readerVars == <<text, parstack>>

OpenList  == [token |-> "open"]
CloseList == [token |-> "close"]
Dot       == [token |-> "dot"]
Quote     == [token |-> "tick"]

\* A literal that is raised on: an odd number of digits after 0x, no known form.
Unreadable      == [token |-> "atom", form |-> "unreadable"]
IntegerText(n)  == [token |-> "atom", form |-> "integer", value |-> n]
HexText(b)      == [token |-> "atom", form |-> "bytes", value |-> b]
NilText         == [token |-> "atom", form |-> "nil"]
SymbolText(s)   == [token |-> "atom", form |-> "symbol", value |-> s]

LiteralElement(t) == CASE t.form = "integer" -> IntAtom(t.value)
                       [] t.form = "bytes"   -> FromBytes(t.value)
                       [] t.form = "nil"     -> Nil
                       [] t.form = "symbol"  -> Symbol(t.value)

\* Entries of an unfinished list that are not elements.
Hole     == [kind |-> "None"]
TickMark == [kind |-> "tick"]

Rejected == <<>>
Start    == << <<>> >>

InnerList(p) == p[Len(p)]
Outer(p)     == SubSeq(p, 1, Len(p) - 1)
Put(p, x)    == [p EXCEPT ![Len(p)] = Append(@, x)]
TickOpen(l)  == l # <<>> /\ l[1] = TickMark

Seqs == INSTANCE SequencesExt

\* list_to_element: with a hole last but one, the last is the tail.
ListElement(l) ==
    LET dotted == Len(l) >= 3 /\ l[Len(l) - 1] = Hole
        heads  == IF dotted THEN SubSeq(l, 1, Len(l) - 2) ELSE l
    IN  Seqs!FoldRight(Cons, heads, IF dotted THEN l[Len(l)] ELSE Nil)

\* Its assertion: no hole among the entries it joins.
JoinsHole(l) ==
    \E k \in DOMAIN l : l[k] = Hole /\ ~(Len(l) >= 3 /\ k = Len(l) - 1)

Closed(p) ==
    LET l == InnerList(p)
    IN  IF Len(p) = 1 \/ TickOpen(l) \/ (l # <<>> /\ l[Len(l)] = Hole) \/ JoinsHole(l)
        THEN Rejected
        ELSE Put(Outer(p), ListElement(l))

Dotted(p) == IF InnerList(p) = <<>> THEN Rejected ELSE Put(p, Hole)

Taken(p, t) == IF t = Unreadable THEN Rejected ELSE Put(p, LiteralElement(t))

\* Mutant: only the innermost tick takes its element.
OneTick(p) ==
    IF p # Rejected /\ TickOpen(InnerList(p)) /\ Len(InnerList(p)) > 1
    THEN Put(Outer(p), Cons(Symbol("q"), InnerList(p)[2])) ELSE p

\* Every tick waiting for the element just read takes it; a hole is no element.
TakeTicks(p) ==
    LET taken[k \in 0..Len(p)] ==
            IF k = 0 THEN p
            ELSE LET q == taken[k-1]
                     l == InnerList(q)
                 IN  IF q = Rejected \/ ~TickOpen(l) \/ Len(l) = 1 THEN q
                     ELSE IF l[2] = Hole THEN Rejected
                     ELSE Put(Outer(q), Cons(Symbol("q"), l[2]))
    IN  taken[Len(p)]

AfterTail(p) == LET l == InnerList(p) IN Len(l) > 3 /\ l[Len(l) - 2] = Hole

\* The end of the loop's body.
SettleRead(p) ==
    LET q == TakeTicks(p)
    IN  IF q = Rejected THEN Rejected ELSE IF AfterTail(q) THEN Rejected ELSE q

Feed(p, t) ==
    IF p = Rejected THEN Rejected
    ELSE SettleRead(CASE t = OpenList  -> Append(p, <<>>)
                      [] t = CloseList -> Closed(p)
                      [] t = Dot       -> Dotted(p)
                      [] t = Quote     -> Append(p, <<TickMark>>)
                      [] OTHER         -> Taken(p, t))

\* A tick without its element, a list without its end.
Unfinished(p) == TickOpen(InnerList(p)) \/ Len(p) > 1

NotRead == [kind |-> "exception"]

\* What parse returns of the whole text: one expression, the list of all of
\* them as an element (many), and as a Python list (manypy).
parse(p) == IF p = Rejected \/ Unfinished(p) \/ Len(p[1]) # 1 THEN NotRead ELSE p[1][1]
parse_many(p) == IF p = Rejected \/ Unfinished(p) \/ JoinsHole(p[1]) THEN NotRead
                 ELSE ListElement(p[1])
ReadsPy(p)      == p # Rejected /\ ~Unfinished(p)
parse_manypy(p) == p[1]

-----------------------------------------------------------------------------
ReaderInit == text = <<>> /\ parstack = Start

ReadToken(t) ==
    /\ Len(text) < MostTokens
    /\ text' = Append(text, t)
    /\ parstack' = Feed(parstack, t)

ReadOpen    == ReadToken(OpenList)
ReadClose   == ReadToken(CloseList)
ReadDot     == ReadToken(Dot)
ReadTick    == ReadToken(Quote)
ReadLiteral == \E t \in LiteralsAt(Len(text) + 1) : ReadToken(t)

ReaderNext == ReadOpen \/ ReadClose \/ ReadDot \/ ReadTick \/ ReadLiteral

ReaderSpec == ReaderInit /\ [][ReaderNext]_readerVars
-----------------------------------------------------------------------------
(***************************************************************************)
(* What the reader is for: the grammar its stack implements, the printer   *)
(* (element.py) whose output it reads back, and ToBLL (bll.py), which      *)
(* gives the operators' names in what was read their numbers.              *)
(***************************************************************************)
\* The elements a token sequence denotes, by the grammar
\*     Expr ::= literal | ' Expr | ( List )      Rest ::= List | . Expr
\*     List ::= empty | Expr Rest
RECURSIVE Expressions(_), Lists(_)

Rests(t) == Lists(t) \cup IF t # <<>> /\ t[1] = Dot THEN Expressions(Tail(t)) ELSE {}

Lists(t) ==
    IF t = <<>> THEN {Nil}
    ELSE UNION {{Cons(head, rest) : head \in Expressions(SubSeq(t, 1, k)),
                                    rest \in Rests(SubSeq(t, k + 1, Len(t)))} : k \in DOMAIN t}

Expressions(t) ==
    IF t = <<>> THEN {}
    ELSE CASE t[1].token = "atom" -> IF Len(t) = 1 /\ t[1] # Unreadable
                                     THEN {LiteralElement(t[1])} ELSE {}
           [] t[1] = Quote        -> {Cons(Symbol("q"), e) : e \in Expressions(Tail(t))}
           [] t[1] = OpenList     -> IF Len(t) > 1 /\ t[Len(t)] = CloseList
                                     THEN Lists(SubSeq(t, 2, Len(t) - 1)) ELSE {}
           [] OTHER               -> {}

-----------------------------------------------------------------------------
(***************************************************************************)
(* Printing: __str__ of Atom and Cons, on bll elements.                    *)
(***************************************************************************)
\* At most four bytes that are the minimal encoding of their number.
simplenum(a) ==
    LET b == a.bytes
        n == a.width
    IN  /\ n <= 4
        /\ ~(n = 1 /\ b[1] \in {0, 128})
        /\ ~(n >= 2 /\ b[n] \in {0, 128} /\ b[n - 1] < 128)

AtomText(a) == IF IsNil(a) THEN NilText
               ELSE IF simplenum(a) THEN IntegerText(AsInt(a)) ELSE HexText(a.bytes)

RECURSIVE Printed(_), PrintedRest(_)
\* Mutant: the tail is printed as one more entry.
PrintedAsEntry(e) ==
    IF IsCons(e) THEN Printed(e.val1) \o PrintedRest(e.val2)
    ELSE IF IsNil(e) THEN <<>> ELSE Printed(e)

\* The entries of a list and, when it does not end in nil, its tail after a dot.
PrintedRest(e) ==
    IF IsCons(e) THEN Printed(e.val1) \o PrintedRest(e.val2)
    ELSE IF IsNil(e) THEN <<>> ELSE <<Dot>> \o Printed(e)

Printed(e) == IF IsCons(e) THEN <<OpenList>> \o PrintedRest(e) \o <<CloseList>> ELSE <<AtomText(e)>>

ReadAll(tokens) == parse(Seqs!FoldLeft(Feed, Start, tokens))

-----------------------------------------------------------------------------
OpNames == DOMAIN (SExpr_FUNCS @@ SpecialBLLOps)

RECURSIVE ToBLL(_)
ToBLL(e) ==
    IF IsSymbol(e) THEN IF e.name \in OpNames THEN OpAtom(e.name) ELSE Error("unknown symbol")
    ELSE IF ~IsCons(e) \/ IsBll(e) THEN e
    ELSE LET l == ToBLL(e.val1)
             r == ToBLL(e.val2)
         IN  IF IsError(l) THEN l ELSE IF IsError(r) THEN r ELSE Cons(l, r)

-----------------------------------------------------------------------------
(***************************************************************************)
(* Properties.                                                             *)
(***************************************************************************)
\* The stack between two tokens: only the innermost lists wait for a tick's
\* element, no list goes on after its tail, no list starts with a hole, and
\* the text's own list never waits for a tick.
ReadingTypeOK ==
    parstack # Rejected =>
        /\ ~TickOpen(parstack[1])
        /\ \A i \in DOMAIN parstack :
              LET l == parstack[i]
              IN  /\ \A k \in DOMAIN l : l[k] = TickMark => k = 1 /\ Len(l) = 1
                  /\ l # <<>> => l[1] # Hole
                  /\ ~\E k \in DOMAIN l : l[k] = Hole /\ k + 1 < Len(l)

\* The reader accepts exactly the texts of the grammar and reads each as the
\* one element it denotes, a rejected text having no continuation that the
\* grammar accepts: a single expression (parse), or a list's entries (many).
ReadsTheGrammar ==
    /\ Expressions(text) = {parse(parstack)} \ {NotRead}
    /\ Lists(text) = {parse_many(parstack)} \ {NotRead}

\* What is read, its operators numbered, prints as a text that reads as the
\* same element: no atom, list, tail or quotation is lost in the printing.
ReadsBack ==
    LET e == parse(parstack)
    IN  e # NotRead /\ IsBll(ToBLL(e)) => ReadAll(Printed(ToBLL(e))) = ToBLL(e)
=============================================================================
