------------------------------- MODULE RefHeap -------------------------------
(***************************************************************************)
(* The discipline of owned references (element.py): a client that holds    *)
(* references builds elements, shares, takes apart and releases what it    *)
(* holds.  A release goes on, cell by cell, until its stack is empty       *)
(* (deref_stack).                                                          *)
(***************************************************************************)
EXTENDS RefCells

CONSTANTS MaxCells, MaxHeld     \* bounds on allocations and on the references held

ASSUME HeapAssumption == MaxCells \in Nat /\ MaxHeld \in Nat

VARIABLES
    cells,      \* the heap
    releasing,        \* what deref_stack has yet to release
    held        \* the references the client owns

heapVars == <<cells, releasing, held>>

HeapInit == cells = Interned /\ releasing = <<>> /\ held = <<>>

\* A sequence with one occurrence of an element taken out.
Without(els, el) == LET k == CHOOSE j \in DOMAIN els : els[j] = el
                    IN  SubSeq(els, 1, k - 1) \o SubSeq(els, k + 1, Len(els))
Owned      == {held[k] : k \in DOMAIN held}
Room       == Len(held) < MaxHeld
RoomToMake == Len(cells) < MaxCells

Idle == releasing = <<>>

\* Atom() of an empty or a one-byte string is the interned element.
MakeAtom ==
    /\ Room
    /\ \/ \E el \in {Nil, One} : cells' = bumpref(cells, <<el>>) /\ held' = Append(held, el)
       \/ /\ RoomToMake
          /\ cells' = alloc(cells, Atom(2)) /\ held' = Append(held, Len(cells) + 1)
    /\ UNCHANGED releasing

\* The pair takes the two references over.
MakeCons ==
    /\ RoomToMake
    /\ \E i, j \in DOMAIN held :
          /\ i # j
          /\ cells' = alloc(cells, Cons(held[i], held[j]))
          /\ held' = Append(Without(Without(held, held[i]), held[j]), Len(cells) + 1)
    /\ UNCHANGED releasing

\* bumpref of an element held, or of a child of one.
Share ==
    /\ Room
    /\ \E el \in Owned \cup UNION {{cells[o].kids[k] : k \in DOMAIN cells[o].kids} : o \in Owned} :
          cells' = bumpref(cells, <<el>>) /\ held' = Append(held, el)
    /\ UNCHANGED releasing

Releasing(h, els) ==
    LET s == deref_add_to_stack(h, <<>>, els) IN cells' = s.heap /\ releasing' = s.stk

Deref == \E el \in Owned : Releasing(cells, <<el>>) /\ held' = Without(held, el)

\* Mutant: the children are moved, not shared.
StolenMoved(h, el) == h

\* steal_children bumps what the released pair refers to.
Stolen(h, el) == bumpref(h, h[el].kids)

StealChildren ==
    /\ Room
    /\ \E el \in Owned :
          /\ cells[el].kind = "cons"
          /\ Releasing(Stolen(cells, el), <<el>>)
          /\ held' = Without(held, el) \o cells[el].kids

DerefStack ==
    /\ ~Idle
    /\ LET s == FreeTop([heap |-> cells, stk |-> releasing]) IN cells' = s.heap /\ releasing' = s.stk
    /\ UNCHANGED held

HeapNext == DerefStack \/ (Idle /\ (MakeAtom \/ MakeCons \/ Share \/ Deref \/ StealChildren))

HeapSpec == HeapInit /\ [][HeapNext]_heapVars

-----------------------------------------------------------------------------
HeapTypeOK ==
    /\ \A el \in DOMAIN cells :
          cells[el].rc \in Nat /\ \A k \in DOMAIN cells[el].kids : cells[el].kids[k] \in 1..el-1
    /\ \A k \in DOMAIN held : held[k] \in DOMAIN cells
    /\ \A k \in DOMAIN releasing : releasing[k] \in DOMAIN cells

\* An element's count is the number of references to it: from other elements,
\* from the client, from the class of an interned atom, and, while it waits to
\* be released, the one that was given up.
Counted ==
    \A el \in DOMAIN cells :
        cells[el].rc = FromCells(cells, el) + FromClass(el) + Times(held, el) + Times(releasing, el)

\* Between two operations of the client an element is allocated exactly if the
\* client can still reach it (or it is interned): no release comes too early,
\* and none is forgotten, however much is shared.
LiveIsReachable ==
    Idle => {el \in DOMAIN cells : cells[el].rc > 0} = Reached(cells, Owned) \cup {Nil, One}

\* No step, not even in the middle of a release, takes apart what can be reached.
KeepsReachable ==
    \A el \in Reached(cells, Owned) \cap Reached(cells', {held'[k] : k \in DOMAIN held'}) :
        cells'[el].kids = cells[el].kids
ReachableKept == [][KeepsReachable]_heapVars
=============================================================================
