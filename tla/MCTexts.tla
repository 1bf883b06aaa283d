------------------------------ MODULE MCTexts ------------------------------
(***************************************************************************)
(* Everything that is read from bytes or text, beside what writes it: the  *)
(* witness decoder, the shell's reader of expressions, the quick codec and *)
(* the scripts of an output.  A behaviour is of one of them (reading): the *)
(* witness decoder over its inputs, or a text written piece by piece that  *)
(* is read at every length.                                                *)
(***************************************************************************)
EXTENDS CanonicalDecode, SerDeser, Reader

CONSTANTS
    MostCodeBytes,      \* bounds of the model: bytes for the quick codec to read
    MostScriptBytes     \* and bytes of a script

VARIABLES
    reading,    \* witness, expression, quick, script
    bytes       \* of the quick codec or the script

textsVars == <<decodeVars, readerVars, reading, bytes>>

Q == INSTANCE QuickCodec
S == INSTANCE Scripts WITH Raised <- [kind |-> "raised"]

\* Code bytes of each kind, plain and quoted, and the bytes around them; opcodes
\* that push, that count and that do neither.
CodeBytes   == {0, 1, 51, 52, 53, 54, 116, 117, 118, 121, 122, 123, 127, 128, 180, 181, 244, 245,
                250, 255}
ScriptBytes == {0, 1, 2, 40, 41, 76, 78, 81, 171, 174}

WriteByte ==
    \/ /\ reading = "quick" /\ Len(bytes) < MostCodeBytes
       /\ \E b \in CodeBytes : bytes' = Append(bytes, b)
    \/ /\ reading = "script" /\ Len(bytes) < MostScriptBytes
       /\ \E b \in ScriptBytes : bytes' = Append(bytes, b)

\* The decoder before its first byte, when it is not the one that reads.
DecodeIdle ==
    /\ data = <<>> /\ pos = 0 /\ frames = <<>> /\ hand = Nothing /\ made = 0 /\ cap = 0
    /\ budget = charge(NewBudget(RD_BASE), RD_BASE) /\ out = Pending

TextsInit ==
    /\ ReaderInit /\ bytes = <<>>
    /\ \/ reading = "witness" /\ DecodeInit
       \/ reading \in {"expression", "quick", "script"} /\ DecodeIdle

TextsNext ==
    \/ reading = "witness" /\ (DecodeNext \/ Decoded) /\ UNCHANGED <<readerVars, reading, bytes>>
    \/ reading = "expression" /\ ReaderNext /\ UNCHANGED <<decodeVars, reading, bytes>>
    \/ WriteByte /\ UNCHANGED <<decodeVars, readerVars, reading>>
    \/ reading # "witness" /\ UNCHANGED textsVars

TextsSpec == TextsInit /\ [][TextsNext]_textsVars

-----------------------------------------------------------------------------
(***************************************************************************)
(* The witness decoder: every short string over one byte of each class,    *)
(* the encodings of small trees, and payloads on both sides of every       *)
(* bound of the length prefix in every prefix that can say their length.   *)
(***************************************************************************)
Alphabet == {1, 5, 128, 129, 130, 192, 224, 240, 255}
Strings  == UNION {[1..n -> Alphabet] : n \in 0..4}

\* ---- trees, and their encodings with a byte missing or one too many -----
Leaves == {Nil, One, Atom(0, 1), Atom(127, 1), Atom(128, 1), Atom(700, 2)}
Pairs  == {Cons(l, r) : l \in Leaves, r \in Leaves}
Few    == {Atom(128, 1), Cons(One, Nil), Cons(Nil, Atom(9, 3))}
Trees  == Leaves \cup Pairs \cup {Cons(l, r) : l \in Few, r \in Few}
            \cup {Cons(Cons(l, r), Cons(r, l)) : l \in Few, r \in Few}

Encodings == {Serialize(e) : e \in Trees}
Damaged   == {SubSeq(s, 1, Len(s) - 1) : s \in Encodings} \cup {Append(s, 128) : s \in Encodings}

\* ---- payloads at the bounds of the prefixes -------------------------------
Zeros(n) == [k \in 1..n |-> 0]
Short(n) == <<128 + n>> \o Zeros(n)
Mid(n)   == <<192 + n \div 256, n % 256>> \o Zeros(n)
Long(n)  == <<224 + n \div 65536, (n \div 256) % 256, n % 256>> \o Zeros(n)

Prefixed == {Short(n) : n \in 62..63} \cup {Mid(n) : n \in {0, 1, 62, 63, 64, 8191}}
              \cup {Long(n) : n \in {0, 1, 63, 64, 8190, 8191, 8192}}
Clipped  == {SubSeq(s, 1, Len(s) - 1) : s \in Prefixed} \cup {Append(s, 128) : s \in Prefixed}

DecodeInputs == Strings \cup Encodings \cup Damaged \cup Prefixed \cup Clipped

Codes == {<<Serialize(e), e>> : e \in Trees \cup {Atom(0, n) : n \in {62, 63, 64, 8191, 8192}}}

Accepted == out \notin {Pending, None} /\ ~IsError(out)
Refused  == IsError(out)

\* An application of rd to the same bytes.
Rd == op_list_read(<<FromBytes(data)>>)

\* A witness element has exactly one encoding, the encoder's: an accepted input
\* is what Serialize makes of the element, and a refused one is not well-formed
\* or is another encoding of an element that has a shorter one.
AcceptsExactlyCanonical ==
    /\ Accepted => Serialize(out) = data
    /\ Refused  => IsError(Rd.val) \/ Serialize(Rd.val) # data

\* Witness structure is priced like structure a program decodes at run time:
\* the same element for the same charges, and where the decode exhausts its
\* budget rd exhausts it too.
ChargedAsRd ==
    /\ Accepted => Rd.val = out /\ WholeCost(Rd) = budget.used
    /\ budget.exhausted => WholeCost(Rd) > budget.limit

\* Nothing a program can be is refused: the encoding of every tree decodes to
\* that tree if the budget and the cap allow it.
RoundTrip ==
    out # Pending /\ ~Latched(budget) => \A c \in Codes : data = c[1] => out = c[2]

-----------------------------------------------------------------------------
(***************************************************************************)
(* The reader of expressions: every short text over all tokens, and every  *)
(* atom of boundary bytes printed and read.                                *)
(***************************************************************************)
\* Literals that tell their places apart, an operator's name among them and a
\* name that is no operator's.
LiteralsByPlace(k) ==
    IF k = 2 THEN {IntegerText(-200), SymbolText("l")}
    ELSE IF k = 4 THEN {IntegerText(400), SymbolText("f")}
    ELSE IF k = 5 THEN {NilText, Unreadable}
    ELSE {IntegerText(100 * k)}

\* The bytes at the boundaries of sign and minimality, in atoms around the
\* width a number is printed up to (negative numbers of four bytes are beyond
\* TLC's integers).
EdgeBytes == {0, 1, 127, 128, 129, 255}
Checkable(b) == Len(b) = 4 /\ b[4] >= 128 => b[4] = 128 /\ b[3] < 128
EdgeAtoms == {HexText(b) : b \in {b \in UNION {[1..n -> EdgeBytes] : n \in 0..5} :
                                          Checkable(b)}}

\* What is printed of an atom, a number where it is the number's shortest form
\* and its bytes otherwise, reads as the atom.
AtomsReadBack ==
    reading = "expression" /\ text = <<>> =>
        \A t \in EdgeAtoms : ReadAll(Printed(LiteralElement(t))) = LiteralElement(t)

-----------------------------------------------------------------------------
(***************************************************************************)
(* The quick codec: short texts of code bytes, and the atoms and lists at  *)
(* the sizes where the codes change.                                       *)
(***************************************************************************)
ListOf(n, entry, end) ==
    LET from[k \in 0..n] == IF k = 0 THEN end ELSE Cons(entry, from[k - 1])
    IN  from[n]

ListsOf(sizes, entries) == {ListOf(n, entry, end) : n \in sizes, entry \in entries,
                                                     end \in {Nil, IntAtom(9)}}

WideAtoms == {Atom(n, w) : n \in {1, 52, 200}, w \in {1, 2, 3, 63, 64, 65, 66, 114, 115}}

\* The longest list whose size fits the tag.  (A list that begins with nil is
\* written as a quoted one with an entry less.)
LongestTagged == Q!MAX_QUICK_LIST + 1 + 126
Entries       == {IntAtom(7), Cons(Nil, IntAtom(300))}
ShortLists    == ListsOf({1, 4, 5, 6, 7, LongestTagged - 1, LongestTagged}, Entries \cup {Nil})
OverlongLists == ListsOf({LongestTagged + 1, LongestTagged + 2}, Entries)

\* Plain, quoted and as an entry.
Around(e) == {e, Cons(Nil, e), Cons(e, Nil)}
ReadBack(e) == Q!Deserialize(Q!Serialize(e)) = e

\* At every size where the code changes what is written reads as the same
\* element up to the longest list whose size fits the tag, and no longer list
\* does: its tag is written as closed_tag|63, which says 69 entries
\* (element.py:726; the class is marked "XXX broken").
BoundariesReadBack ==
    reading = "quick" /\ bytes = <<>> =>
        /\ \A e \in WideAtoms \cup ShortLists : \A w \in Around(e) : ReadBack(w)
        /\ \A e \in OverlongLists : \A w \in Around(e) : ~ReadBack(w)

\* Whatever is read of a short text, in whichever of its forms, is written as a
\* text that reads as the same element.
WrittenReadsBack ==
    LET e == Q!Deserialize(bytes)
    IN  reading = "quick" /\ e # Q!Raised /\ Q!Writable(e) => ReadBack(e)

\* No encoding begins another: of a text and its beginnings at most one reads.
PrefixFree ==
    reading = "quick" /\ Q!Deserialize(bytes) # Q!Raised =>
        \A k \in 0..Len(bytes) - 1 : Q!Deserialize(SubSeq(bytes, 1, k)) = Q!Raised

-----------------------------------------------------------------------------
(***************************************************************************)
(* Scripts: every short one, some lengthened to the sizes of witness       *)
(* programs, and the items at the sizes where what they are written as     *)
(* changes.                                                                *)
(***************************************************************************)
Fill(b, n) == [k \in 1..n |-> b]
Items(kind, vals) == {[kind |-> kind, val |-> v] : v \in vals}

Magnitudes == {0, 1, 2, 15, 16, 17, 127, 128, 129, 255, 256, 32767, 32768, 8388607, 8388608,
               2147483647}
Numbers == Magnitudes \cup {-n : n \in Magnitudes}
Data    == {<<>>, <<1>>, <<79>>, <<128>>} \cup {Fill(7, n) : n \in {74, 75, 76, 77, 255, 256, 257}}
WideData == {Fill(7, n) : n \in {65535, 65536}}

NumberItems == Items("int", Numbers) \cup Items("num", Numbers)
AllItems == NumberItems \cup Items("data", Data) \cup Items("op", {0, 79, 80, 81, 96, 97, 171, 255})

\* The number that is read, in any of the forms a number is written in.
NumberRead(r) == IF r.kind = "int" THEN r.val
                 ELSE IF r.kind = "op" THEN S!OP_1NEGATE - r.val - 1
                 ELSE S!CScriptNumDecode(<<Len(r.val)>> \o r.val)

\* An opcode that pushes a small number is read as the number.
ReadFor(item, r) ==
    CASE item.kind = "data" -> r = item
      [] item.kind = "op"   -> \/ r = item
                               \/ /\ item.val \in {S!OP_0} \cup S!OP_1..S!OP_16
                                  /\ r.kind # "op"
                                  /\ S!encode_op_n(NumberRead(r)) = item.val
      [] OTHER -> /\ r.kind = "op" => r.val = S!OP_1NEGATE
                  /\ NumberRead(r) = item.val

\* What a script is built from is read back from it, item by item: opcodes, data
\* of every length, and numbers of both signs whichever of the two encoders
\* wrote them (script.py:39-94, 386-551).
BuiltReadsBack ==
    reading = "script" /\ bytes = <<>> =>
    /\ \A a \in AllItems : \A b \in AllItems :
            LET read == S!Iterated(S!CScript(<<a, b>>))
            IN  Len(read) = 2 /\ ReadFor(a, read[1]) /\ ReadFor(b, read[2])
    /\ \A d \in Items("data", WideData) : S!Iterated(S!CScript(<<d>>)) = <<d>>

\* The docstring of IsWitnessProgram, over the script and the script lengthened:
\* it holds of exactly the scripts that read as a small number's opcode and one
\* direct push of 2 to 40 bytes (script.py:600-605).
WitnessProgramsRead ==
    reading = "script" => \A n \in {0, 38, 39, 40, 41} :
        LET s   == bytes \o Fill(7, n)
            ops == S!raw_iter(s)
        IN  (Len(s) > 1 /\ S!IsWitnessProgram(s)) <=>
                /\ S!Readable(s)
                /\ Len(ops) = 2
                /\ ops[1].op \in {S!OP_0} \cup S!OP_1..S!OP_16
                /\ ops[2].op \in 2..40

\* FindAndDelete takes out the code separators that are opcodes, each whole and
\* nothing else: data that holds the byte stays, and what is left reads as the
\* remaining opcodes (script.py:614-629).
DeletesOpcodes ==
    reading = "script" /\ S!Readable(bytes) =>
        LET left == S!FindAndDelete(bytes, <<S!OP_CODESEPARATOR>>)
        IN  /\ S!Readable(left)
            /\ S!Iterated(left) = SelectSeq(S!Iterated(bytes),
                                  LAMBDA i : i # [kind |-> "op", val |-> S!OP_CODESEPARATOR])

\* The count of signature checks is that of the opcodes read, and of none of
\* the data pushed; a script cut short inside a push is not counted.
CountsOpcodes ==
    LET read == S!Iterated(bytes)
        hits(codes) == {k \in DOMAIN read : read[k].kind = "op" /\ read[k].val \in codes}
    IN  reading = "script" /\ S!Readable(bytes) => S!GetSigOpCount(bytes, FALSE) =
            Cardinality(hits(S!OP_CHECKSIGS)) + 20 * Cardinality(hits(S!OP_CHECKMULTISIGS))

\* The three readers of an encoded element agree: the witness decoder accepts
\* what the encoder writes and nothing else, as the element rd reads and at the
\* charges rd makes.
DecodersAgree == AcceptsExactlyCanonical /\ ChargedAsRd /\ RoundTrip

\* The stack of the reader has a shape that every way of ending a list expects,
\* and the reader accepts the texts of the grammar and no others.
ReaderSound == ReadingTypeOK /\ ReadsTheGrammar

\* What is printed of an element reads as the element again, so does what the
\* quick codec writes of it as long as every list in it has at most 132 entries,
\* and no text of the codec begins another.
TextsReadBack ==
    /\ ReadsBack /\ AtomsReadBack
    /\ WrittenReadsBack /\ BoundariesReadBack /\ PrefixFree

\* What is asked of a script is answered from its opcodes, as they are read.
ScriptsRead == BuiltReadsBack /\ WitnessProgramsRead /\ DeletesOpcodes /\ CountsOpcodes
=============================================================================
