------------------------------ MODULE RefCells ------------------------------
(***************************************************************************)
(* Elements as counted cells (element.py: Element, Pair, Store, Atom.nil   *)
(* and Atom.one).  A heap is the sequence of the cells ever allocated; an  *)
(* element is its place in it.  A released cell keeps its place with no    *)
(* children and a count of 0, and a count below 0 is what an assertion of  *)
(* the code would have stopped.                                            *)
(***************************************************************************)
EXTENDS Integers, Sequences, FiniteSets

Cell(kind, n, kids) == [rc |-> 1, kind |-> kind, n |-> n, kids |-> kids]

Atom(n)     == Cell("atom", n, <<>>)
Cons(l, r)  == Cell("cons", 0, <<l, r>>)

\* The interned atoms, each held once by its class.
Nil      == 1
One      == 2
Interned == <<Atom(0), Atom(1)>>

alloc(h, cell) == Append(h, cell)

Times(els, el) == Cardinality({k \in DOMAIN els : els[k] = el})
bumpref(h, els) ==
    LET bumped[k \in 0..Len(els)] ==
            IF k = 0 THEN h ELSE [bumped[k-1] EXCEPT ![els[k]].rc = @ + 1]
    IN  bumped[Len(els)]

\* The last reference pushes the element, any other only leaves the count.
AddToStack(s, el) ==
    IF s.heap[el].rc = 1 THEN [s EXCEPT !.stk = Append(@, el)]
    ELSE [s EXCEPT !.heap[el].rc = @ - 1]

deref_add_to_stack(h, stk, els) ==
    LET added[k \in 0..Len(els)] ==
            IF k = 0 THEN [heap |-> h, stk |-> stk] ELSE AddToStack(added[k-1], els[k])
    IN  added[Len(els)]

\* One turn of deref_stack: the element on top is released, its children first.
FreeTop(s) ==
    LET el == s.stk[Len(s.stk)]
        s1 == deref_add_to_stack(s.heap, SubSeq(s.stk, 1, Len(s.stk) - 1), s.heap[el].kids)
    IN  [s1 EXCEPT !.heap[el].rc = @ - 1, !.heap[el].kids = <<>>]

\* No turn is needed for a cell twice.
deref_stack(s) ==
    LET turns[k \in 0..Len(s.heap)] ==
            IF k = 0 THEN s
            ELSE LET before == turns[k-1]
                 IN  IF before.stk = <<>> THEN before ELSE FreeTop(before)
    IN  turns[Len(s.heap)].heap

deref_all(h, els) == deref_stack(deref_add_to_stack(h, <<>>, els))

\* The references to an element from the cells, the class and elsewhere.
Slots(h) == UNION {{<<c, k>> : k \in DOMAIN h[c].kids} : c \in DOMAIN h}
FromCells(h, el) == Cardinality({s \in Slots(h) : h[s[1]].kids[s[2]] = el})
FromClass(el) == IF el \in {Nil, One} THEN 1 ELSE 0

\* What can be reached from some elements; no cell refers to a later one.
Reached(h, roots) ==
    LET reach[k \in 0..Len(h)] ==
            IF k = 0 THEN roots
            ELSE LET before == reach[k-1]
                 IN  before \cup UNION {{h[el].kids[i] : i \in DOMAIN h[el].kids} : el \in before}
    IN  reach[Len(h)]
=============================================================================
