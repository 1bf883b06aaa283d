------------------------------ MODULE TapTree ------------------------------
(***************************************************************************)
(* Taproot outputs as the tests and examples construct them                *)
(* (verystable/core/script.py, taproot_construct), and the path of a       *)
(* control block walked from its leaf as the spend checker walks it.       *)
(*                                                                         *)
(* The scripts are a list; an item is a leaf, another list, or, in second  *)
(* and last place, a function that makes up a partner for the first.       *)
(* Hashes are free terms; a branch sorts its children, so it is a set.     *)
(***************************************************************************)
EXTENDS Integers, Sequences

CONSTANTS Names, Versions,
          MaxItems, MaxEdits      \* bounds on a list and on the edits that build it

VARIABLES scripts, edits

LeafItem(name, version) == [kind |-> "leaf", name |-> name, version |-> version, items |-> <<>>]
ListItem(items) == [kind |-> "list", name |-> "", version |-> 0, items |-> items]
Partner         == [kind |-> "function", name |-> "", version |-> 0, items |-> <<>>]
Unnamed         == "unnamed"

\* A list that is built from the front, or put inside another.
AddLeaf ==
    /\ Len(scripts) < MaxItems
    /\ \E name \in Names \cup {Unnamed}, v \in Versions : scripts' = Append(scripts, LeafItem(name, v))
Wrap       == scripts # <<>> /\ scripts[1].kind # "list" /\ scripts' = <<ListItem(scripts)>>
Pair       == Len(scripts) \in 2..MaxItems-1 /\ scripts[1].kind = "list"
                /\ scripts' = <<ListItem(Tail(scripts)), scripts[1]>>
AddPartner == Len(scripts) = 1 /\ scripts' = Append(scripts, Partner)

\* A function stays in second place.
Unpartnered == \A k \in DOMAIN scripts : scripts[k].kind # "function"

TreeInit == scripts = <<>> /\ edits = 0
TreeNext == edits < MaxEdits /\ edits' = edits + 1
                /\ (AddPartner \/ (Unpartnered /\ (AddLeaf \/ Pair)) \/ Wrap)
TreeSpec == TreeInit /\ [][TreeNext]_<<scripts, edits>>

-----------------------------------------------------------------------------
\* The code of a leaf is told by its name.
TapLeaf(version, name) == [leaf |-> <<version, name>>, of |-> {}]
TapBranch(l, r)        == [leaf |-> <<>>, of |-> {l, r}]
MadeUp(h)              == [leaf |-> <<"partner of">>, of |-> {h}]
NoHash                 == [leaf |-> <<>>, of |-> {}]

\* Leaves whose paths continue with h.
Continued(leaves, h) == [k \in DOMAIN leaves |-> [leaves[k] EXCEPT !.path = Append(@, h)]]

\* Mutant: each half continues with its own hash.
HalvesOwn(left, right) ==
    [leaves |-> Continued(left.leaves, left.h) \o Continued(right.leaves, right.h),
     h |-> TapBranch(left.h, right.h)]

JoinedHalves(left, right) ==
    [leaves |-> Continued(left.leaves, right.h) \o Continued(right.leaves, left.h),
     h |-> TapBranch(left.h, right.h)]

RECURSIVE taproot_tree_helper(_)
taproot_tree_helper(items) ==
    LET n    == Len(items)
        leaf == TapLeaf(items[1].version, items[1].name)
        half == n \div 2
        left == taproot_tree_helper(SubSeq(items, 1, 1))
    IN  IF n = 0 THEN [leaves |-> <<>>, h |-> NoHash]
        ELSE IF n = 1 /\ items[1].kind = "list" THEN taproot_tree_helper(items[1].items)
        ELSE IF n = 1
        THEN [h |-> leaf,
              leaves |-> IF items[1].name = Unnamed THEN <<>>
                         ELSE <<[name |-> items[1].name, version |-> items[1].version,
                                 path |-> <<>>]>>]
        ELSE IF n = 2 /\ items[2].kind = "function"
        THEN JoinedHalves(left, [leaves |-> <<>>, h |-> MadeUp(left.h)])
        ELSE JoinedHalves(taproot_tree_helper(SubSeq(items, 1, half)),
                    taproot_tree_helper(SubSeq(items, half + 1, n)))

\* The known leaves by name, the last of a name being kept, and the root.
taproot_construct(items) ==
    LET t    == taproot_tree_helper(items)
        of(name) == {k \in DOMAIN t.leaves : t.leaves[k].name = name}
        last(name) == CHOOSE k \in of(name) : \A j \in of(name) : j <= k
        known == {t.leaves[k].name : k \in DOMAIN t.leaves}
    IN  [root |-> t.h, leaves |-> [name \in known |-> t.leaves[last(name)]]]

\* The spend checker's walk (spend.py, verify_commitment).
WalkUp(version, name, path) ==
    LET up[k \in 0..Len(path)] ==
            IF k = 0 THEN TapLeaf(version, name) ELSE TapBranch(path[k], up[k-1])
    IN  up[Len(path)]

\* Every leaf an output is constructed with can be spent by its path: the walk
\* from it leads to the root, and from another leaf, or under another version,
\* the same path leads elsewhere.
LeavesLead ==
    LET t == taproot_construct(scripts)
    IN  \A known \in DOMAIN t.leaves, name \in Names, v \in Versions :
            LET path == t.leaves[known].path
            IN  WalkUp(v, name, path) = t.root
                    <=> name = known /\ v = t.leaves[known].version
=============================================================================
