---------------------------- MODULE AmountProofs ----------------------------
(***************************************************************************)
(* Proofs about the amounts of BllMachine, for every program, environment, *)
(* limit and cap: the budget is never overspent, every allowance is        *)
(* prepaid, every construction is covered by a charge, the element cap is  *)
(* latched exactly when it is crossed and overshot by no more than one     *)
(* iteration builds, and the machine implements the steps of the metered   *)
(* evaluation.                                                             *)
(*                                                                         *)
(* A configuration keeps a credit: what has been charged so far, guards    *)
(* counted with what they have spent and what they still owe, less half a  *)
(* STEP for every construction.  Each handler is followed with the credit  *)
(* it starts and ends with; what an operator charges and builds comes from *)
(* OperatorProofs.                                                         *)
(***************************************************************************)
EXTENDS BllMachineProofs, OperatorProofs

\* A guard's allowance.
Allowance == [allowed : Nat, used : Nat]

\* What the context outside the guard above allowance i has spent; i = 0 is the
\* budget itself.
SpentAt(b, i) == IF i = 0 THEN b.used ELSE b.allowances[i].used

\* A budget within its bounds: nothing is overspent, every allowance was paid
\* for by its context, and only an open guard can be overrun.
Within(b) ==
    /\ b \in [limit : {b.limit}, used : {b.used}, allowances : {b.allowances},
              exhausted : BOOLEAN, guard_breach : BOOLEAN, alloc_breach : BOOLEAN]
    /\ b.limit \in Nat /\ b.used \in 0..b.limit
    /\ b.allowances \in Seq(Allowance)
    /\ \A i \in 1..Len(b.allowances) : /\ b.allowances[i].used <= b.allowances[i].allowed
                                       /\ b.allowances[i].allowed <= SpentAt(b, i - 1)
    /\ b.guard_breach => Guarded(b)

\* What the charges are worth level by level: outside all guards what is spent
\* and half a STEP, inside each one less what it may still spend and the STEP
\* that opened it.
Ledger(b, D) ==
    /\ D \in [0..Len(b.allowances) -> Int] /\ D[0] = b.used + 12
    /\ \A i \in 1..Len(b.allowances) : D[i] = D[i-1] - Room(b.allowances[i]) - 24
Worth(b, w) == \E D : Ledger(b, D) /\ D[Len(b.allowances)] = w

\* What the innermost context has spent.
Latest(b) == SpentAt(b, Len(b.allowances))

\* The numbers of a budget.
LEMMA WithinNumbers ==
    ASSUME NEW b, Within(b)
    PROVE  /\ b.limit \in Nat /\ b.used \in Nat /\ b.used <= b.limit
           /\ Len(b.allowances) \in Nat
           /\ \A i \in 1..Len(b.allowances) :
                 /\ b.allowances[i] \in Allowance
                 /\ b.allowances[i].used \in Nat /\ b.allowances[i].allowed \in Nat
                 /\ Room(b.allowances[i]) \in Nat
           /\ \A i \in 0..Len(b.allowances) : SpentAt(b, i) \in Nat
           /\ Latest(b) \in Nat
           /\ Guarded(b) => Len(b.allowances) # 0
           /\ ~Guarded(b) => Len(b.allowances) = 0
<1>1. Len(b.allowances) \in Nat /\ b.limit \in Nat /\ b.used \in Nat /\ b.used <= b.limit
  BY DEF Within
<1>2. \A i \in 1..Len(b.allowances) : b.allowances[i] \in Allowance
  BY DEF Within
<1>3. \A i \in 1..Len(b.allowances) :
          /\ b.allowances[i].used \in Nat /\ b.allowances[i].allowed \in Nat
          /\ Room(b.allowances[i]) \in Nat
  BY <1>2, SMTT(30) DEF Allowance, Within, Room
<1>4. \A i \in 0..Len(b.allowances) : SpentAt(b, i) \in Nat
  BY <1>1, <1>3 DEF SpentAt
<1>5. Latest(b) \in Nat
  BY <1>1, <1>4 DEF Latest
<1>6. (Guarded(b) => Len(b.allowances) # 0) /\ (~Guarded(b) => Len(b.allowances) = 0)
  BY DEF Within, Guarded
<1> QED
  BY <1>1, <1>2, <1>3, <1>4, <1>5, <1>6

\* With no guard open the worth is what is spent.
LEMMA WorthOutside ==
    ASSUME NEW b, Within(b), ~Guarded(b)
    PROVE  /\ Worth(b, b.used + 12)
           /\ \A w : Worth(b, w) => w = b.used + 12
<1>1. Len(b.allowances) = 0 /\ b.used \in Nat
  BY WithinNumbers
<1>2. Ledger(b, [i \in 0..0 |-> b.used + 12])
  BY <1>1 DEF Ledger
<1> QED
  BY <1>1, <1>2 DEF Worth, Ledger

\* The worth is a number, and every guard open takes at least its STEP off it.
LEMMA WorthBelow ==
    ASSUME NEW b, Within(b), NEW w, Worth(b, w)
    PROVE  w \in Int /\ w <= b.used + 12 /\ (Guarded(b) => w <= b.used - 12)
<1> DEFINE m == Len(b.allowances)
<1>1. PICK D : Ledger(b, D) /\ D[m] = w
  BY DEF Worth
<1>2. /\ m \in Nat /\ b.used \in Nat /\ \A i \in 1..m : Room(b.allowances[i]) \in Nat
      /\ Guarded(b) => m # 0
  BY WithinNumbers
<1>3. /\ D \in [0..m -> Int] /\ D[0] = b.used + 12
      /\ \A i \in 1..m : D[i] = D[i-1] - Room(b.allowances[i]) - 24
  BY <1>1 DEF Ledger
<1> HIDE DEF m
<1> DEFINE T == {k \in 0..m : D[k] <= b.used + 12 /\ (k # 0 => D[k] <= b.used - 12)}
<1>4. \A k \in 0..m : k \in T
  <2>1. 0 \in T
    BY <1>2, <1>3
  <2>2. ASSUME NEW k \in 0..m, k # m, k \in T
        PROVE  k + 1 \in T
    <3>1. k + 1 \in 1..m /\ (k + 1) - 1 = k
      BY <1>2, <2>2
    <3>2. D[k + 1] = D[k] - Room(b.allowances[k + 1]) - 24 /\ Room(b.allowances[k + 1]) \in Nat
      BY <1>2, <1>3, <3>1
    <3>3. D[k] \in Int /\ D[k + 1] \in Int
      BY <1>3, <3>1
    <3> QED
      BY <1>2, <2>2, <3>1, <3>2, <3>3
  <2> HIDE DEF T
  <2> QED
    BY <1>2, <2>1, <2>2, Climb
<1>5. m \in 0..m
  BY <1>2
<1> QED
  BY <1>1, <1>2, <1>3, <1>4, <1>5

\* A budget has one worth.
LEMMA WorthOne ==
    ASSUME NEW b, Within(b), NEW v, Worth(b, v), NEW w, Worth(b, w)
    PROVE  v = w
<1> DEFINE m == Len(b.allowances)
<1>1. PICK D : Ledger(b, D) /\ D[m] = v
  BY DEF Worth
<1>2. PICK E : Ledger(b, E) /\ E[m] = w
  BY DEF Worth
<1>3. m \in Nat
  BY WithinNumbers
<1>4. D[0] = E[0] /\ \A i \in 1..m : D[i] - D[i-1] = E[i] - E[i-1] /\ D \in [0..m -> Int]
                                    /\ E \in [0..m -> Int]
  <2>1. /\ D \in [0..m -> Int] /\ E \in [0..m -> Int] /\ D[0] = E[0]
        /\ \A i \in 1..m : D[i] = D[i-1] - Room(b.allowances[i]) - 24
        /\ \A i \in 1..m : E[i] = E[i-1] - Room(b.allowances[i]) - 24
    BY <1>1, <1>2 DEF Ledger
  <2>2. \A i \in 1..m : Room(b.allowances[i]) \in Nat
    BY WithinNumbers
  <2> HIDE DEF m
  <2>3. ASSUME NEW i \in 1..m
        PROVE  D[i] - D[i-1] = E[i] - E[i-1]
    <3>1. i \in 0..m /\ i - 1 \in 0..m
      BY <1>3
    <3>2. D[i] \in Int /\ D[i-1] \in Int /\ E[i] \in Int /\ E[i-1] \in Int
      BY <2>1, <3>1
    <3> QED
      BY <2>1, <2>2, <3>2, SMTT(30)
  <2> QED
    BY <2>1, <2>3
<1>5. D \in [0..m -> Int] /\ E \in [0..m -> Int]
  BY <1>1, <1>2 DEF Ledger
<1> HIDE DEF m
<1> DEFINE T == {k \in 0..m : D[k] = E[k]}
<1>6. \A k \in 0..m : k \in T
  <2>1. 0 \in T
    BY <1>3, <1>4
  <2>2. ASSUME NEW k \in 0..m, k # m, k \in T
        PROVE  k + 1 \in T
    <3>1. k + 1 \in 1..m /\ (k + 1) - 1 = k /\ k + 1 \in 0..m
      BY <1>3, <2>2
    <3>2. D[k + 1] - D[k] = E[k + 1] - E[k] /\ D[k] = E[k]
      BY <1>4, <2>2, <3>1
    <3>3. D[k] \in Int /\ D[k + 1] \in Int /\ E[k] \in Int /\ E[k + 1] \in Int
      BY <1>5, <3>1
    <3> QED
      BY <3>1, <3>2, <3>3
  <2> HIDE DEF T
  <2> QED
    BY <1>3, <2>1, <2>2, Climb
<1>7. m \in 0..m
  BY <1>3
<1> QED
  BY <1>1, <1>2, <1>6, <1>7

\* Changing the last entry of a sequence.
LEMMA LastReplaced ==
    ASSUME NEW S, NEW a \in Seq(S), a # <<>>, NEW e \in S
    PROVE  LET c == [a EXCEPT ![Len(a)] = e]
           IN  /\ c \in Seq(S) /\ Len(c) = Len(a) /\ Len(a) \in Nat \ {0} /\ c # <<>>
               /\ c[Len(a)] = e /\ \A i \in 1..Len(a)-1 : c[i] = a[i]
<1>1. Len(a) \in Nat \ {0}
  OBVIOUS
<1> QED
  BY <1>1

\* An allowance with more of it spent.
LEMMA AllowanceSpent ==
    ASSUME NEW x \in Allowance, NEW n \in Nat
    PROVE  [x EXCEPT !.used = @ + n] = [allowed |-> x.allowed, used |-> x.used + n]
BY DEF Allowance

\* A charge to the budget itself.
LEMMA ChargeOutside ==
    ASSUME NEW b, Within(b), ~Latched(b), ~Guarded(b), NEW n \in Nat
    PROVE  LET c == charge(b, n)
           IN  /\ Within(c) /\ ~Guarded(c) /\ c.limit = b.limit /\ c.used >= b.used
               /\ c.alloc_breach = b.alloc_breach
               /\ ~Latched(c) <=> n <= b.limit - b.used
               /\ ~Latched(c) => c.used = b.used + n
<1> DEFINE c == charge(b, n)
<1>1. /\ b.limit \in Nat /\ b.used \in Nat /\ b.used <= b.limit /\ Len(b.allowances) = 0
      /\ b.allowances \in Seq(Allowance) /\ b.allowances = <<>>
  BY WithinNumbers DEF Within, Guarded
<1>2. ~b.exhausted /\ ~b.guard_breach /\ ~b.alloc_breach
  BY DEF Latched
<1>3. CASE n > b.limit - b.used
  <2>1. c = [b EXCEPT !.exhausted = TRUE, !.used = b.limit]
    BY <1>3 DEF charge, ChargeOuter
  <2> HIDE DEF c
  <2>2. /\ c \in [limit : {b.limit}, used : {b.limit}, allowances : {b.allowances},
                  exhausted : BOOLEAN, guard_breach : BOOLEAN, alloc_breach : BOOLEAN]
        /\ c.limit = b.limit /\ c.used = b.limit /\ c.allowances = b.allowances /\ c.exhausted
        /\ c.alloc_breach = b.alloc_breach /\ c.guard_breach = b.guard_breach
    BY <2>1 DEF Within
  <2>3. Within(c)
    BY <1>1, <1>2, <2>2 DEF Within, Guarded
  <2> QED
    BY <1>1, <1>3, <2>2, <2>3 DEF c, Guarded, Latched
<1>4. CASE ~(n > b.limit - b.used)
  <2>1. c = [b EXCEPT !.used = b.used + n]
    BY <1>4 DEF charge, ChargeOuter
  <2> HIDE DEF c
  <2>2. /\ c \in [limit : {b.limit}, used : {b.used + n}, allowances : {b.allowances},
                  exhausted : BOOLEAN, guard_breach : BOOLEAN, alloc_breach : BOOLEAN]
        /\ c.limit = b.limit /\ c.used = b.used + n /\ c.allowances = b.allowances
        /\ c.alloc_breach = b.alloc_breach /\ c.guard_breach = b.guard_breach
        /\ c.exhausted = b.exhausted
    BY <2>1 DEF Within
  <2>3. b.used + n \in 0..b.limit
    BY <1>1, <1>4
  <2>4. Within(c)
    BY <1>1, <1>2, <2>2, <2>3 DEF Within, Guarded
  <2> QED
    BY <1>1, <1>2, <1>4, <2>2, <2>4 DEF c, Guarded, Latched
<1> QED
  BY <1>3, <1>4

\* A charge to the innermost guard.
LEMMA ChargeInside ==
    ASSUME NEW b, Within(b), ~Latched(b), Guarded(b), NEW n \in Nat
    PROVE  LET c == charge(b, n)
               m == Len(b.allowances)
           IN  /\ Within(c) /\ Guarded(c) /\ c.limit = b.limit /\ c.used = b.used
               /\ c.alloc_breach = b.alloc_breach
               /\ ~Latched(c) <=> n <= Room(b.allowances[m])
               /\ Latched(c) => c.allowances = b.allowances
               /\ ~Latched(c) => /\ Len(c.allowances) = m
                                 /\ \A i \in 1..m-1 : c.allowances[i] = b.allowances[i]
                                 /\ c.allowances[m].used = b.allowances[m].used + n
                                 /\ c.allowances[m].allowed = b.allowances[m].allowed
<1> DEFINE c == charge(b, n)
           a == b.allowances
           m == Len(a)
           e == [allowed |-> a[m].allowed, used |-> a[m].used + n]
           s == [a EXCEPT ![m] = e]
<1>1. /\ b.limit \in Nat /\ b.used \in Nat /\ b.used <= b.limit /\ m \in Nat \ {0}
      /\ a \in Seq(Allowance) /\ a # <<>>
      /\ \A i \in 1..m : /\ a[i].used \in Nat /\ a[i].allowed \in Nat /\ a[i] \in Allowance
                         /\ a[i].used <= a[i].allowed /\ a[i].allowed <= SpentAt(b, i - 1)
  BY WithinNumbers DEF Within, Guarded
<1>2. ~b.exhausted /\ ~b.guard_breach /\ ~b.alloc_breach
  BY DEF Latched
<1>3. Innermost(b) = a[m] /\ m \in 1..m
  BY <1>1 DEF Innermost
<1>4. CASE n > Room(a[m])
  <2>1. c = [b EXCEPT !.guard_breach = TRUE]
    BY <1>3, <1>4 DEF charge, ChargeAllowance
  <2> HIDE DEF c
  <2>2. /\ c \in [limit : {b.limit}, used : {b.used}, allowances : {b.allowances},
                  exhausted : BOOLEAN, guard_breach : BOOLEAN, alloc_breach : BOOLEAN]
        /\ c.limit = b.limit /\ c.used = b.used /\ c.allowances = b.allowances /\ c.guard_breach
        /\ c.alloc_breach = b.alloc_breach
    BY <2>1 DEF Within
  <2>3. Within(c)
    BY <1>1, <1>2, <2>2 DEF Within, Guarded, SpentAt
  <2>4. Guarded(c) /\ Latched(c)
    BY <1>1, <2>2 DEF Guarded, Latched
  <2>5. ~(n <= Room(a[m]))
    BY <1>1, <1>3, <1>4, SMTT(30) DEF Room
  <2> QED
    BY <2>2, <2>3, <2>4, <2>5 DEF c
<1>5. CASE ~(n > Room(a[m]))
  <2>1. c = [b EXCEPT !.allowances = s]
    <3>1. c = [b EXCEPT !.allowances = [a EXCEPT ![m].used = @ + n]]
      BY <1>3, <1>5 DEF charge, ChargeAllowance
    <3>2. [a[m] EXCEPT !.used = @ + n] = e
      BY <1>1, <1>3, AllowanceSpent
    <3>3. [a EXCEPT ![m].used = @ + n] = s
      BY <3>2
    <3> QED
      BY <3>1, <3>3
  <2>2. e \in Allowance /\ e.used = a[m].used + n /\ e.allowed = a[m].allowed
    <3>1. a[m].used + n \in Nat /\ a[m].allowed \in Nat
      BY <1>1, <1>3, SMTT(30)
    <3> QED
      BY <3>1 DEF Allowance
  <2>3. e.used <= e.allowed
    <3>1. a[m].used \in Nat /\ a[m].allowed \in Nat /\ ~(n > a[m].allowed - a[m].used)
      BY <1>1, <1>3, <1>5 DEF Room
    <3> HIDE DEF e
    <3> QED
      BY <2>2, <3>1
  <2>4. /\ s \in Seq(Allowance) /\ Len(s) = m /\ s # <<>> /\ s[m] = e
        /\ \A i \in 1..m-1 : s[i] = a[i]
    <3> HIDE DEF e
    <3> QED
      BY <1>1, <2>2, LastReplaced
  <2> HIDE DEF c, s, e
  <2>5. /\ c \in [limit : {b.limit}, used : {b.used}, allowances : {s},
                  exhausted : BOOLEAN, guard_breach : BOOLEAN, alloc_breach : BOOLEAN]
        /\ c.limit = b.limit /\ c.used = b.used /\ c.allowances = s
        /\ c.alloc_breach = b.alloc_breach /\ c.guard_breach = b.guard_breach
        /\ c.exhausted = b.exhausted
    BY <2>1 DEF Within
  <2>6. \A i \in 1..m : s[i].used <= s[i].allowed /\ s[i].allowed <= SpentAt(c, i - 1)
    <3> SUFFICES ASSUME NEW i \in 1..m
                 PROVE  s[i].used <= s[i].allowed /\ s[i].allowed <= SpentAt(c, i - 1)
      OBVIOUS
    <3>1. s[i].allowed = a[i].allowed /\ s[i].used <= s[i].allowed
      <4>1. CASE i = m
        BY <4>1, <2>2, <2>3, <2>4
      <4>2. CASE i # m
        <5>1. i \in 1..m-1
          BY <4>2, <1>1
        <5>2. s[i] = a[i]
          BY <5>1, <2>4
        <5> QED
          BY <5>2, <1>1
      <4> QED
        BY <4>1, <4>2
    <3>2. SpentAt(c, i - 1) = SpentAt(b, i - 1)
      <4>1. CASE i = 1
        BY <4>1, <2>5 DEF SpentAt
      <4>2. CASE i # 1
        <5>1. i - 1 \in 1..m-1 /\ i - 1 # 0
          BY <4>2, <1>1
        <5> QED
          BY <5>1, <2>4, <2>5 DEF SpentAt
      <4> QED
        BY <4>1, <4>2
    <3> QED
      BY <1>1, <3>1, <3>2
  <2>7. Within(c)
    BY <1>1, <1>2, <2>4, <2>5, <2>6 DEF Within, Guarded
  <2>8. ~Latched(c)
    BY <1>2, <2>5 DEF Latched
  <2>9. n <= Room(a[m])
    BY <1>1, <1>3, <1>5, SMTT(30) DEF Room
  <2> QED
    BY <1>1, <2>2, <2>4, <2>5, <2>7, <2>8, <2>9 DEF c, Guarded
<1> QED
  BY <1>4, <1>5

\* Every charge keeps the budget within its bounds, never lowers the worth and,
\* if it succeeds, raises it by the amount.
LEMMA ChargeWithin ==
    ASSUME NEW b, Within(b), NEW n \in Nat
    PROVE  LET c == charge(b, n)
           IN  /\ Within(c) /\ c.limit = b.limit /\ c.used >= b.used
               /\ c.alloc_breach = b.alloc_breach
               /\ Latched(b) => Latched(c)
               /\ ~Latched(c) => Latest(c) = Latest(b) + n
               /\ \A w : Worth(b, w) =>
                     \E v \in Int : Worth(c, v) /\ v >= w /\ (~Latched(c) => v = w + n)
<1> DEFINE c == charge(b, n)
<1>1. CASE Latched(b)
  <2>1. c = b
    BY <1>1 DEF charge
  <2>2. b.used \in Nat /\ \A w : Worth(b, w) => w \in Int
    BY WithinNumbers, WorthBelow
  <2> QED
    BY <1>1, <2>1, <2>2
<1>2. CASE ~Latched(b) /\ ~Guarded(b)
  <2>1. /\ Within(c) /\ ~Guarded(c) /\ c.limit = b.limit /\ c.used >= b.used
        /\ c.alloc_breach = b.alloc_breach /\ (~Latched(c) => c.used = b.used + n)
    BY <1>2, ChargeOutside
  <2> HIDE DEF c
  <2>2. Latest(b) = b.used /\ Latest(c) = c.used /\ b.used \in Nat /\ c.used \in Nat
    BY <1>2, <2>1, WithinNumbers DEF Latest, SpentAt
  <2>3. ASSUME NEW w, Worth(b, w)
        PROVE  \E v \in Int : Worth(c, v) /\ v >= w /\ (~Latched(c) => v = w + n)
    <3>1. w = b.used + 12 /\ Worth(c, c.used + 12) /\ c.used + 12 \in Int
      BY <1>2, <2>1, <2>2, <2>3, WorthOutside
    <3> QED
      BY <3>1, <2>1, <2>2
  <2> QED
    BY <1>2, <2>1, <2>2, <2>3 DEF c
<1>3. CASE ~Latched(b) /\ Guarded(b)
  <2> DEFINE m == Len(b.allowances)
  <2>1. /\ Within(c) /\ Guarded(c) /\ c.limit = b.limit /\ c.used = b.used
        /\ c.alloc_breach = b.alloc_breach
        /\ Latched(c) => c.allowances = b.allowances
        /\ ~Latched(c) => /\ Len(c.allowances) = m
                          /\ \A i \in 1..m-1 : c.allowances[i] = b.allowances[i]
                          /\ c.allowances[m].used = b.allowances[m].used + n
                          /\ c.allowances[m].allowed = b.allowances[m].allowed
    BY <1>3, ChargeInside
  <2>2. /\ b.used \in Nat /\ m \in Nat \ {0} /\ m \in 1..m
        /\ b.allowances[m].used \in Nat /\ b.allowances[m].allowed \in Nat
    BY <1>3, WithinNumbers
  <2> HIDE DEF c
  <2>3. CASE Latched(c)
    <3>1. \A w : Worth(b, w) => Worth(c, w) /\ w \in Int
      BY <2>1, <2>3, WorthBelow, ZenonT(40) DEF Worth, Ledger
    <3> QED
      BY <1>3, <2>1, <2>2, <2>3, <3>1 DEF c
  <2>4. CASE ~Latched(c)
    <3>1. Latest(c) = Latest(b) + n
      BY <2>1, <2>2, <2>4 DEF Latest, SpentAt
    <3>2. ASSUME NEW w, Worth(b, w)
          PROVE  w \in Int /\ Worth(c, w + n)
      <4>1. PICK D : Ledger(b, D) /\ D[m] = w
        BY <3>2 DEF Worth
      <4>2. /\ D \in [0..m -> Int] /\ D[0] = b.used + 12
            /\ \A i \in 1..m : D[i] = D[i-1] - Room(b.allowances[i]) - 24
        BY <4>1 DEF Ledger
      <4> DEFINE F == [D EXCEPT ![m] = w + n]
      <4>3. w \in Int /\ F \in [0..m -> Int] /\ F[m] = w + n /\ F[0] = b.used + 12
            /\ \A i \in 0..m-1 : F[i] = D[i]
        <5>1. m \in 0..m /\ 0 \in 0..m /\ m # 0
          BY <2>2
        <5>2. \A i \in 0..m-1 : i \in 0..m /\ i # m
          BY <2>2
        <5>3. D[m] \in Int /\ D[m] = w
          BY <4>1, <4>2, <5>1
        <5>4. w \in Int /\ w + n \in Int
          BY <5>3
        <5> HIDE DEF m
        <5> QED
          BY <4>2, <5>1, <5>2, <5>4
      <4> HIDE DEF F
      <4>4. \A i \in 1..m : F[i] = F[i-1] - Room(c.allowances[i]) - 24
        <5> SUFFICES ASSUME NEW i \in 1..m
                     PROVE  F[i] = F[i-1] - Room(c.allowances[i]) - 24
          OBVIOUS
        <5>1. D[i] = D[i-1] - Room(b.allowances[i]) - 24 /\ F[i-1] = D[i-1] /\ D[i-1] \in Int
          <6>1. i - 1 \in 0..m-1 /\ i - 1 \in 0..m
            BY <2>2
          <6> QED
            BY <4>2, <4>3, <6>1
        <5>2. CASE i # m
          <6>1. i \in 1..m-1 /\ i \in 0..m-1
            BY <2>2, <5>2
          <6> HIDE DEF m
          <6>2. F[i] = D[i] /\ c.allowances[i] = b.allowances[i]
            BY <2>1, <2>4, <4>3, <6>1
          <6> QED
            BY <5>1, <6>2
        <5>3. CASE i = m
          <6> HIDE DEF m
          <6>0. /\ c.allowances[m].used = b.allowances[m].used + n
                /\ c.allowances[m].allowed = b.allowances[m].allowed
            BY <2>1, <2>4
          <6>1. Room(c.allowances[m]) = Room(b.allowances[m]) - n /\ Room(b.allowances[m]) \in Int
            BY <2>2, <6>0 DEF Room
          <6>2. F[m] = w + n /\ D[m] = w /\ D[m] = D[m-1] - Room(b.allowances[m]) - 24
                /\ F[m-1] = D[m-1] /\ D[m-1] \in Int
            BY <4>1, <4>3, <5>1, <5>3
          <6> QED
            BY <5>3, <6>1, <6>2
        <5> QED
          BY <5>2, <5>3
      <4>5. Ledger(c, F) /\ F[Len(c.allowances)] = w + n
        BY <2>1, <2>4, <4>3, <4>4 DEF Ledger
      <4> QED
        BY <4>3, <4>5 DEF Worth
    <3>3. \A w \in Int : w + n \in Int /\ w + n >= w
      OBVIOUS
    <3>4. ASSUME NEW w, Worth(b, w)
          PROVE  \E v \in Int : Worth(c, v) /\ v >= w /\ (~Latched(c) => v = w + n)
      BY <3>2, <3>3, <3>4
    <3>5. c.used >= b.used
      BY <2>1, <2>2
    <3> QED
      BY <1>3, <2>1, <2>4, <3>1, <3>4, <3>5 DEF c
  <2> QED
    BY <2>3, <2>4
<1> QED
  BY <1>1, <1>2, <1>3

\* Budget.push_allowance, of an amount the context has spent on it before.
LEMMA PushWithin ==
    ASSUME NEW b, Within(b), ~b.guard_breach, NEW d \in Nat, d <= Latest(b)
    PROVE  LET c == push_allowance(b, d)
           IN  /\ Within(c) /\ Guarded(c) /\ c.limit = b.limit /\ c.used = b.used
               /\ c.alloc_breach = b.alloc_breach
               /\ \A w : Worth(b, w) => Worth(c, w - d - 24)
<1> DEFINE c == push_allowance(b, d)
           a == b.allowances
           m == Len(a)
           e == [allowed |-> d, used |-> 0]
           s == Append(a, e)
<1>1. /\ b.limit \in Nat /\ b.used \in Nat /\ b.used <= b.limit /\ m \in Nat
      /\ a \in Seq(Allowance)
      /\ \A i \in 1..m : a[i].used <= a[i].allowed /\ a[i].allowed <= SpentAt(b, i - 1)
  BY WithinNumbers DEF Within
<1>2. e \in Allowance /\ e.used = 0 /\ e.allowed = d /\ Room(e) = d
  BY DEF Allowance, Room
<1>3. /\ s \in Seq(Allowance) /\ Len(s) = m + 1 /\ s # <<>> /\ s[m + 1] = e
      /\ \A i \in 1..m : s[i] = a[i]
  <2> HIDE DEF e
  <2> QED
    BY <1>1, <1>2
<1>4. c = [b EXCEPT !.allowances = s]
  BY DEF push_allowance
<1> HIDE DEF c, s, e
<1>5. /\ c \in [limit : {b.limit}, used : {b.used}, allowances : {s},
                exhausted : BOOLEAN, guard_breach : BOOLEAN, alloc_breach : BOOLEAN]
      /\ c.limit = b.limit /\ c.used = b.used /\ c.allowances = s
      /\ c.alloc_breach = b.alloc_breach /\ c.guard_breach = b.guard_breach
  BY <1>4 DEF Within
<1>6. \A i \in 0..m : SpentAt(c, i) = SpentAt(b, i)
  BY <1>3, <1>5 DEF SpentAt
<1>7. \A i \in 1..m+1 : s[i].used <= s[i].allowed /\ s[i].allowed <= SpentAt(c, i - 1)
  <2> SUFFICES ASSUME NEW i \in 1..m+1
               PROVE  s[i].used <= s[i].allowed /\ s[i].allowed <= SpentAt(c, i - 1)
    OBVIOUS
  <2>1. i - 1 \in 0..m
    BY <1>1
  <2>2. CASE i \in 1..m
    BY <1>1, <1>3, <1>6, <2>1, <2>2
  <2>3. CASE i = m + 1
    <3>1. SpentAt(c, m) = Latest(b) /\ i - 1 = m
      BY <1>1, <1>6, <2>3 DEF Latest
    <3> QED
      BY <1>2, <1>3, <2>3, <3>1
  <2> QED
    BY <1>1, <2>2, <2>3
<1>8. Within(c)
  BY <1>1, <1>3, <1>5, <1>7 DEF Within, Guarded
<1>9. ASSUME NEW w, Worth(b, w)
      PROVE  Worth(c, w - d - 24)
  <2>1. PICK D : Ledger(b, D) /\ D[m] = w
    BY <1>9 DEF Worth
  <2>2. /\ D \in [0..m -> Int] /\ D[0] = b.used + 12
        /\ \A i \in 1..m : D[i] = D[i-1] - Room(a[i]) - 24
    BY <2>1 DEF Ledger
  <2>3. w \in Int
    <3>1. m \in 0..m
      BY <1>1
    <3> HIDE DEF m
    <3> QED
      BY <2>1, <2>2, <3>1
  <2> DEFINE F == [i \in 0..m+1 |-> IF i = m + 1 THEN w - d - 24 ELSE D[i]]
  <2>4. F \in [0..m+1 -> Int] /\ F[m+1] = w - d - 24 /\ F[0] = b.used + 12
        /\ \A i \in 0..m : F[i] = D[i]
    <3> HIDE DEF m
    <3> QED
      BY <1>1, <2>2, <2>3
  <2> HIDE DEF F
  <2>5. \A i \in 1..m+1 : F[i] = F[i-1] - Room(s[i]) - 24
    <3> SUFFICES ASSUME NEW i \in 1..m+1
                 PROVE  F[i] = F[i-1] - Room(s[i]) - 24
      OBVIOUS
    <3>1. i - 1 \in 0..m
      BY <1>1
    <3>2. CASE i \in 1..m
      <4>1. i \in 0..m
        BY <3>2
      <4> HIDE DEF m
      <4>2. F[i] = D[i] /\ F[i-1] = D[i-1] /\ s[i] = a[i]
        BY <1>3, <2>4, <3>1, <3>2, <4>1
      <4> QED
        BY <2>2, <3>2, <4>2
    <3>3. CASE i = m + 1
      <4>1. F[i-1] = w
        BY <1>1, <2>1, <2>4, <3>1, <3>3, SMTT(30)
      <4> QED
        BY <1>2, <1>3, <2>4, <3>3, <4>1
    <3> QED
      BY <1>1, <3>2, <3>3
  <2> QED
    BY <1>3, <1>5, <2>4, <2>5 DEF Worth, Ledger
<1> QED
  BY <1>3, <1>5, <1>8, <1>9 DEF c, Guarded

\* Budget.pop_allowance gives back at least the STEP that opened the guard.
LEMMA PopWithin ==
    ASSUME NEW b, Within(b), Guarded(b), ~b.guard_breach
    PROVE  LET c == pop_allowance(b)
           IN  /\ Within(c) /\ c.limit = b.limit /\ c.used = b.used
               /\ c.alloc_breach = b.alloc_breach
               /\ \A w : Worth(b, w) => \E v \in Int : Worth(c, v) /\ v >= w + 24
<1> DEFINE c == pop_allowance(b)
           a == b.allowances
           m == Len(a)
           s == SubSeq(a, 1, m - 1)
<1>1. /\ b.limit \in Nat /\ b.used \in Nat /\ b.used <= b.limit /\ m \in Nat \ {0}
      /\ a \in Seq(Allowance) /\ \A i \in 1..m : Room(a[i]) \in Nat
      /\ \A i \in 1..m : a[i].used <= a[i].allowed /\ a[i].allowed <= SpentAt(b, i - 1)
  BY WithinNumbers DEF Within
<1>2. s \in Seq(Allowance) /\ Len(s) = m - 1 /\ \A i \in 1..m-1 : s[i] = a[i]
  BY <1>1
<1>3. c = [b EXCEPT !.allowances = s]
  BY DEF pop_allowance
<1> HIDE DEF c, s
<1>4. /\ c \in [limit : {b.limit}, used : {b.used}, allowances : {s},
                exhausted : BOOLEAN, guard_breach : BOOLEAN, alloc_breach : BOOLEAN]
      /\ c.limit = b.limit /\ c.used = b.used /\ c.allowances = s
      /\ c.alloc_breach = b.alloc_breach /\ c.guard_breach = b.guard_breach
  BY <1>3 DEF Within
<1>5. \A i \in 0..m-1 : SpentAt(c, i) = SpentAt(b, i)
  BY <1>1, <1>2, <1>4 DEF SpentAt
<1>6. \A i \in 1..m-1 : i - 1 \in 0..m-1 /\ i \in 1..m /\ i \in 0..m-1 /\ i - 1 \in 0..m
  BY <1>1
<1>7. Within(c)
  BY <1>1, <1>2, <1>4, <1>5, <1>6 DEF Within
<1>8. ASSUME NEW w, Worth(b, w)
      PROVE  \E v \in Int : Worth(c, v) /\ v >= w + 24
  <2>1. PICK D : Ledger(b, D) /\ D[m] = w
    BY <1>8 DEF Worth
  <2>2. /\ D \in [0..m -> Int] /\ D[0] = b.used + 12
        /\ \A i \in 1..m : D[i] = D[i-1] - Room(a[i]) - 24
    BY <2>1 DEF Ledger
  <2> DEFINE F == [i \in 0..m-1 |-> D[i]]
  <2>3. F \in [0..m-1 -> Int] /\ F[0] = b.used + 12 /\ \A i \in 0..m-1 : F[i] = D[i]
    <3>1. 0 \in 0..m-1 /\ \A i \in 0..m-1 : i \in 0..m
      BY <1>1
    <3> HIDE DEF m
    <3>2. \A i \in 0..m-1 : D[i] \in Int
      BY <2>2, <3>1
    <3> QED
      BY <2>2, <3>1, <3>2
  <2> HIDE DEF F
  <2>4. \A i \in 1..m-1 : F[i] = F[i-1] - Room(s[i]) - 24
    BY <1>2, <1>6, <2>2, <2>3
  <2>5. F[m-1] \in Int /\ F[m-1] >= w + 24
    <3>1. m \in 1..m /\ m - 1 \in 0..m-1 /\ m - 1 \in 0..m
      BY <1>1
    <3>2. D[m] = D[m-1] - Room(a[m]) - 24 /\ F[m-1] = D[m-1] /\ Room(a[m]) \in Nat /\ D[m-1] \in Int
      BY <1>1, <2>2, <2>3, <3>1
    <3> HIDE DEF m, a
    <3> QED
      BY <2>1, <3>2
  <2> QED
    BY <1>2, <1>4, <2>3, <2>4, <2>5 DEF Worth, Ledger
<1> QED
  BY <1>4, <1>7, <1>8 DEF c

\* Budget.clear_allowances.
LEMMA ClearWithin ==
    ASSUME NEW b, Within(b)
    PROVE  LET c == clear_allowances(b)
           IN  /\ Within(c) /\ ~Guarded(c) /\ ~c.guard_breach /\ c.limit = b.limit
               /\ c.used = b.used /\ c.alloc_breach = b.alloc_breach
               /\ c.exhausted = b.exhausted /\ Worth(c, b.used + 12)
<1> DEFINE c == clear_allowances(b)
<1>1. b.limit \in Nat /\ b.used \in Nat /\ b.used <= b.limit
  BY WithinNumbers
<1>2. c = [b EXCEPT !.allowances = <<>>, !.guard_breach = FALSE]
  BY DEF clear_allowances
<1> HIDE DEF c
<1>3. /\ c \in [limit : {b.limit}, used : {b.used}, allowances : {<<>>},
                exhausted : BOOLEAN, guard_breach : BOOLEAN, alloc_breach : BOOLEAN]
      /\ c.limit = b.limit /\ c.used = b.used /\ c.allowances = <<>>
      /\ c.alloc_breach = b.alloc_breach /\ ~c.guard_breach /\ c.exhausted = b.exhausted
  BY <1>2 DEF Within
<1>4. Within(c) /\ ~Guarded(c)
  BY <1>1, <1>3 DEF Within, Guarded
<1> QED
  BY <1>3, <1>4, WorthOutside DEF c

\* Budget.latch_alloc_breach.
LEMMA LatchWithin ==
    ASSUME NEW b, Within(b)
    PROVE  LET c == latch_alloc_breach(b)
           IN  /\ Within(c) /\ c.alloc_breach = TRUE /\ c.limit = b.limit /\ c.used = b.used
               /\ c.allowances = b.allowances /\ c.guard_breach = b.guard_breach
               /\ c.exhausted = b.exhausted
               /\ \A w : Worth(b, w) => Worth(c, w)
<1> DEFINE c == latch_alloc_breach(b)
<1>1. c = [b EXCEPT !.alloc_breach = TRUE]
  BY DEF latch_alloc_breach
<1> HIDE DEF c
<1>2. /\ c \in [limit : {b.limit}, used : {b.used}, allowances : {b.allowances},
                exhausted : BOOLEAN, guard_breach : BOOLEAN, alloc_breach : BOOLEAN]
      /\ c.limit = b.limit /\ c.used = b.used /\ c.allowances = b.allowances
      /\ c.alloc_breach = TRUE /\ c.guard_breach = b.guard_breach /\ c.exhausted = b.exhausted
  BY <1>1 DEF Within
<1>3. Within(c)
  BY <1>2 DEF Within, Guarded, SpentAt
<1> QED
  BY <1>2, <1>3 DEF c, Worth, Ledger

\* How much more fits.
Headroom(b) == IF Guarded(b) THEN Room(b.allowances[Len(b.allowances)]) ELSE b.limit - b.used

\* A charge succeeds exactly when it fits, and leaves that much less room.
LEMMA ChargeFits ==
    ASSUME NEW b, Within(b), ~Latched(b), NEW n \in Nat
    PROVE  LET c == charge(b, n)
           IN  /\ Headroom(b) \in Nat
               /\ ~Latched(c) <=> n <= Headroom(b)
               /\ ~Latched(c) => Headroom(c) = Headroom(b) - n
<1> DEFINE c == charge(b, n)
           m == Len(b.allowances)
<1>1. CASE ~Guarded(b)
  <2>1. /\ ~Guarded(c) /\ c.limit = b.limit /\ (~Latched(c) <=> n <= b.limit - b.used)
        /\ (~Latched(c) => c.used = b.used + n)
    BY <1>1, ChargeOutside
  <2>2. b.limit \in Nat /\ b.used \in Nat /\ b.used <= b.limit
    BY WithinNumbers
  <2> HIDE DEF c
  <2> QED
    BY <1>1, <2>1, <2>2 DEF Headroom, c
<1>2. CASE Guarded(b)
  <2>1. /\ Guarded(c) /\ (~Latched(c) <=> n <= Room(b.allowances[m]))
        /\ ~Latched(c) => /\ Len(c.allowances) = m
                          /\ c.allowances[m].used = b.allowances[m].used + n
                          /\ c.allowances[m].allowed = b.allowances[m].allowed
    BY <1>2, ChargeInside
  <2>2. /\ b.allowances[m].used \in Nat /\ b.allowances[m].allowed \in Nat
        /\ Room(b.allowances[m]) \in Nat
    <3>1. m \in 1..m
      BY <1>2, WithinNumbers
    <3> QED
      BY <3>1, WithinNumbers
  <2> HIDE DEF c, m
  <2>3. Headroom(b) = Room(b.allowances[m])
    BY <1>2 DEF Headroom, m
  <2>4. ~Latched(c) => Headroom(c) = Room(c.allowances[m])
    BY <2>1 DEF Headroom, m
  <2>5. ~Latched(c) => Room(c.allowances[m]) = Room(b.allowances[m]) - n
    <3> SUFFICES ASSUME ~Latched(c)
                 PROVE  Room(c.allowances[m]) = Room(b.allowances[m]) - n
      OBVIOUS
    <3> DEFINE x == b.allowances[m]
               y == c.allowances[m]
    <3>1. y.used = x.used + n /\ y.allowed = x.allowed /\ x.used \in Nat /\ x.allowed \in Nat
      BY <2>1, <2>2
    <3> HIDE DEF x, y
    <3>2. Room(y) = Room(x) - n
      BY <3>1 DEF Room
    <3> QED
      BY <3>2 DEF x, y
  <2> QED
    BY <2>1, <2>2, <2>3, <2>4, <2>5 DEF c
<1> QED
  BY <1>1, <1>2

-----------------------------------------------------------------------------
(***************************************************************************)
(* What the frames hold, and what a configuration keeps.                   *)
(***************************************************************************)
\* The state of fn_apply: a second value is paired with the first.
ApplyHeld(st) == IsCons(st) => IsNil(st.val1) \/ IsCons(st.val2)

\* The function object of a frame.
FuncOk(fn) ==
    /\ fn = Func(fn.fn, fn.op, fn.ist, fn.state)
    /\ fn.fn \in FrameClasses /\ IsElement(fn.state)
    /\ fn.fn \in {"op", "partial"} =>
          fn = Unbound \/ (fn.op \in Operators /\ Held(fn.op, fn.ist, fn.state))
    /\ fn.fn = "apply" => ApplyHeld(fn.state)

\* A frame: only a value may be an error.
FrameOk(f) ==
    /\ f = Frame(f.fn, f.args, f.env) /\ FuncOk(f.fn) /\ IsElement(f.env)
    /\ IsElement(f.args) \/ (f.fn.fn = "fin" /\ IsErr(f.args))

StackOk(s) == IsSeq(s) /\ \A i \in 1..Len(s) : FrameOk(s[i])

\* A configuration whose amounts are in bounds; the cap is latched exactly when
\* it is crossed.
Fit(c) ==
    /\ c \in [stack : {c.stack}, budget : {c.budget}, made : {c.made}]
    /\ StackOk(c.stack) /\ Within(c.budget) /\ c.made \in Nat
    /\ job.cap \in Nat /\ (c.budget.alloc_breach <=> c.made > job.cap)
    /\ job.context \in DOMAIN Views

\* What the operators are told of a transaction is typed.
LEMMA ViewAnswers ==
    ASSUME NEW c, Fit(c)
    PROVE  Answers(View)
BY ViewAssumption DEF Fit, View

\* What stands to the credit of the evaluation where an iteration begins.
Slack == CHOOSE s \in Int : Worth(budget, 12 * made + s)

\* Since then the charges cover the constructions and k more.
Credit(c, k) ==
    Slack \in Int /\ \E w \in Int : Worth(c.budget, w) /\ 12 * c.made + k + Slack <= w

\* In the middle of an iteration: nothing is refunded, and no credit is lost.
Kept(c, k) ==
    /\ Fit(c) /\ Credit(c, k)
    /\ c.budget.limit = budget.limit /\ budget.used \in Nat /\ budget.used <= c.budget.used

\* Less credit will do.
LEMMA KeptLess ==
    ASSUME NEW c, NEW k \in Int, NEW j \in Int, j <= k, Kept(c, k)
    PROVE  Kept(c, j)
<1>0. Slack \in Int
  BY DEF Kept, Credit
<1>1. PICK w \in Int : Worth(c.budget, w) /\ 12 * c.made + k + Slack <= w
  BY DEF Kept, Credit
<1>2. c.made \in Nat
  BY DEF Kept, Fit
<1>3. 12 * c.made + j + Slack <= w
  BY <1>0, <1>1, <1>2
<1> QED
  BY <1>0, <1>1, <1>3 DEF Kept, Credit

\* A charge never costs credit, and adds to it if it succeeds.
LEMMA SpendKept ==
    ASSUME NEW c, NEW k \in Int, Kept(c, k), NEW n \in Nat
    PROVE  /\ Kept(Spend(c, n), k) /\ Spend(c, n).stack = c.stack /\ Spend(c, n).made = c.made
           /\ Spend(c, n).budget = charge(c.budget, n)
           /\ Ok(Spend(c, n)) => /\ Kept(Spend(c, n), k + n) /\ Ok(c)
                                 /\ Latest(Spend(c, n).budget) = Latest(c.budget) + n
<1> DEFINE d == Spend(c, n)
<1>1. /\ c \in [stack : {c.stack}, budget : {c.budget}, made : {c.made}]
      /\ StackOk(c.stack) /\ Within(c.budget) /\ c.made \in Nat
      /\ job.cap \in Nat /\ (c.budget.alloc_breach <=> c.made > job.cap)
      /\ job.context \in DOMAIN Views
      /\ c.budget.limit = budget.limit /\ budget.used \in Nat /\ budget.used <= c.budget.used
  BY DEF Kept, Fit
<1>0. Slack \in Int
  BY DEF Kept, Credit
<1>2. PICK w \in Int : Worth(c.budget, w) /\ 12 * c.made + k + Slack <= w
  BY DEF Kept, Credit
<1>3. /\ d.stack = c.stack /\ d.budget = charge(c.budget, n) /\ d.made = c.made
      /\ d \in [stack : {d.stack}, budget : {d.budget}, made : {d.made}]
  BY <1>1 DEF Spend
<1> HIDE DEF d
<1>4. /\ Within(d.budget) /\ d.budget.limit = c.budget.limit /\ d.budget.used >= c.budget.used
      /\ d.budget.alloc_breach = c.budget.alloc_breach
      /\ Latched(c.budget) => Latched(d.budget)
      /\ ~Latched(d.budget) => Latest(d.budget) = Latest(c.budget) + n
  <2> DEFINE e == charge(c.budget, n)
  <2>1. /\ Within(e) /\ e.limit = c.budget.limit /\ e.used >= c.budget.used
        /\ e.alloc_breach = c.budget.alloc_breach
        /\ Latched(c.budget) => Latched(e)
        /\ ~Latched(e) => Latest(e) = Latest(c.budget) + n
    BY <1>1, ChargeWithin
  <2>2. d.budget = e
    BY <1>3
  <2> HIDE DEF e
  <2> QED
    BY <2>1, <2>2
<1>5. PICK v \in Int : Worth(d.budget, v) /\ v >= w /\ (~Latched(d.budget) => v = w + n)
  BY <1>1, <1>2, <1>3, ChargeWithin
<1>6. c.budget.used \in Int /\ d.budget.used \in Int
  BY <1>1, <1>4, WithinNumbers
<1>7. Fit(d) /\ d.budget.limit = budget.limit
  BY <1>1, <1>3, <1>4 DEF Fit
<1>8. budget.used <= d.budget.used
  BY <1>1, <1>4, <1>6
<1>9. Credit(d, k) /\ (~Latched(d.budget) => Credit(d, k + n))
  <2>1. /\ 12 * d.made + k + Slack <= v
        /\ ~Latched(d.budget) => 12 * d.made + (k + n) + Slack <= v
    BY <1>0, <1>1, <1>2, <1>3, <1>5
  <2> QED
    BY <1>0, <1>5, <2>1 DEF Credit
<1> QED
  BY <1>1, <1>3, <1>4, <1>7, <1>8, <1>9 DEF d, Kept, Ok

\* A construction takes half a STEP of the credit, and nothing else but the
\* count and the allocation latch.
LEMMA BuildKept ==
    ASSUME NEW c, NEW k \in Int, Kept(c, k), NEW n \in Nat, NEW j \in Int, j + 12 * n <= k
    PROVE  LET d == Build(c, n)
           IN  /\ Kept(d, j) /\ d.stack = c.stack /\ d.made = c.made + n
               /\ d.budget.allowances = c.budget.allowances /\ d.budget.used = c.budget.used
               /\ d.budget.limit = c.budget.limit
               /\ d.budget.guard_breach = c.budget.guard_breach
               /\ Ok(d) <=> Ok(c) /\ c.made + n <= job.cap
<1> DEFINE b == c.budget
           e == IF c.made + n > job.cap THEN latch_alloc_breach(b) ELSE b
           d == Build(c, n)
<1>1. /\ c \in [stack : {c.stack}, budget : {c.budget}, made : {c.made}]
      /\ StackOk(c.stack) /\ Within(b) /\ c.made \in Nat
      /\ job.cap \in Nat /\ (b.alloc_breach <=> c.made > job.cap)
      /\ b.limit = budget.limit /\ budget.used \in Nat /\ budget.used <= b.used
  BY DEF Kept, Fit
<1>0. Slack \in Int
  BY DEF Kept, Credit
<1>2. PICK w \in Int : Worth(b, w) /\ 12 * c.made + k + Slack <= w
  BY DEF Kept, Credit
<1>3. /\ Within(latch_alloc_breach(b)) /\ latch_alloc_breach(b).alloc_breach
      /\ latch_alloc_breach(b).limit = b.limit /\ latch_alloc_breach(b).used = b.used
      /\ latch_alloc_breach(b).allowances = b.allowances
      /\ latch_alloc_breach(b).guard_breach = b.guard_breach
      /\ latch_alloc_breach(b).exhausted = b.exhausted
      /\ Worth(latch_alloc_breach(b), w)
  BY <1>1, <1>2, LatchWithin
<1> HIDE DEF b
<1>4. /\ Within(e) /\ Worth(e, w) /\ e.limit = b.limit /\ e.used = b.used
      /\ e.allowances = b.allowances /\ e.guard_breach = b.guard_breach
      /\ e.exhausted = b.exhausted /\ (e.alloc_breach <=> c.made + n > job.cap)
  BY <1>1, <1>2, <1>3
<1>5. d = [stack |-> c.stack, budget |-> e, made |-> c.made + n]
  <2>1. d = [c EXCEPT !.made = c.made + n, !.budget = e]
    BY DEF Build, b
  <2> HIDE DEF d, e
  <2> QED
    BY <1>1, <2>1 DEF b
<1> HIDE DEF d, e
<1>6. /\ d.stack = c.stack /\ d.budget = e /\ d.made = c.made + n
      /\ d \in [stack : {d.stack}, budget : {d.budget}, made : {d.made}]
  BY <1>5
<1>7. 12 * d.made + j + Slack <= w /\ d.made \in Nat
  BY <1>0, <1>1, <1>2, <1>6
<1>8. Kept(d, j)
  BY <1>0, <1>1, <1>2, <1>4, <1>6, <1>7 DEF Kept, Fit, Credit
<1>9. Ok(d) <=> Ok(c) /\ c.made + n <= job.cap
  BY <1>1, <1>4, <1>6 DEF Ok, Latched, b
<1> QED
  BY <1>4, <1>6, <1>8, <1>9 DEF d, b

\* Changing the frames only.
LEMMA StackKept ==
    ASSUME NEW c, NEW k \in Int, Kept(c, k), NEW s, StackOk(s), NEW d,
           d = [c EXCEPT !.stack = s]
    PROVE  Kept(d, k) /\ d.stack = s /\ d.budget = c.budget /\ d.made = c.made
<1>1. c \in [stack : {c.stack}, budget : {c.budget}, made : {c.made}]
  BY DEF Kept, Fit
<1>2. d = [stack |-> s, budget |-> c.budget, made |-> c.made]
  BY <1>1
<1>3. /\ d.stack = s /\ d.budget = c.budget /\ d.made = c.made
      /\ d \in [stack : {d.stack}, budget : {d.budget}, made : {d.made}]
  BY <1>2
<1> QED
  BY <1>3 DEF Kept, Fit, Credit

\* Pushing a frame.
LEMMA PushKept ==
    ASSUME NEW c, NEW k \in Int, Kept(c, k), NEW fn, NEW args, NEW env,
           FuncOk(fn), IsElement(env), IsElement(args) \/ (fn.fn = "fin" /\ IsErr(args))
    PROVE  Kept(new_continuation(c, fn, args, env), k)
<1> DEFINE x == Frame(fn, args, env)
           s == Append(c.stack, x)
<1>1. FrameOk(x)
  BY DEF FrameOk, Frame
<1> HIDE DEF x
<1>2. StackOk(c.stack)
  BY DEF Kept, Fit
<1>3. /\ IsSeq(s) /\ Len(s) = Len(c.stack) + 1 /\ Len(c.stack) \in Nat
      /\ \A i \in 1..Len(c.stack) : s[i] = c.stack[i]
      /\ s[Len(c.stack) + 1] = x
  BY <1>2, AppendEntries, Zenon DEF StackOk
<1>4. new_continuation(c, fn, args, env) = [c EXCEPT !.stack = s]
  BY DEF new_continuation, x
<1> HIDE DEF s
<1>5. StackOk(s)
  BY <1>1, <1>2, <1>3 DEF StackOk
<1> QED
  BY <1>4, <1>5, StackKept

\* The function object of a frame that is no operator's.
LEMMA SpecialOk ==
    ASSUME NEW fn \in FrameClasses, fn # "op", NEW st, IsElement(st),
           fn = "partial" => IsNil(st), fn = "apply" => ApplyHeld(st)
    PROVE  FuncOk(SpecialFunc(fn, st)) /\ SpecialFunc(fn, st).fn = fn
<1>1. LET x == SpecialFunc(fn, st)
      IN  IsFunc(x) /\ x.fn = fn /\ x.op = "" /\ x.ist = <<>> /\ x.state = st
  BY DEF SpecialFunc, Func, IsFunc
<1>2. fn = "partial" => SpecialFunc(fn, st) = Unbound
  BY DEF Unbound, IsNil
<1> QED
  BY <1>1, <1>2 DEF FuncOk, SpecialFunc

\* The function object of an operator's frame.
LEMMA BoundOk ==
    ASSUME NEW fn \in {"op", "partial"}, NEW op \in Operators, NEW ist, NEW st,
           IsElement(st), Held(op, ist, st)
    PROVE  /\ FuncOk(Func(fn, op, ist, st)) /\ Func(fn, op, ist, st).fn = fn
           /\ IsElement(Func(fn, op, ist, st)) /\ IsFunc(Func(fn, op, ist, st))
<1>1. LET x == Func(fn, op, ist, st)
      IN  IsFunc(x) /\ x.fn = fn /\ x.op = op /\ x.ist = ist /\ x.state = st
  BY FuncKind
<1>2. fn \in FrameClasses /\ fn # "apply"
  BY DEF FrameClasses, Receivers
<1> QED
  BY <1>1, <1>2, ElementFunc DEF FuncOk

\* The interned atoms are elements, and no pairs.
LEMMA NilElement ==
    /\ IsElement(Nil) /\ ~IsCons(Nil) /\ ~IsFunc(Nil) /\ IsAtom(Nil) /\ IsNil(Nil)
    /\ IsElement(One) /\ ~IsNil(One) /\ ApplyHeld(Nil)
BY Interned, ElementAtom, WholeAtom DEF ApplyHeld

\* WorkItem.fin_value.
LEMMA FinKept ==
    ASSUME NEW c, NEW k \in Int, Kept(c, k), NEW v, Deliverable(v), NEW j \in Int, j + 12 <= k
    PROVE  Kept(fin_value(c, v), j)
<1>1. Kept(Build(c, 1), j)
  BY BuildKept
<1>2. FuncOk(SpecialFunc("fin", Nil)) /\ SpecialFunc("fin", Nil).fn = "fin"
  BY SpecialOk, NilElement DEF FrameClasses
<1> QED
  BY <1>1, <1>2, PushKept, NilElement DEF fin_value, Deliverable

\* What an operator delivers: an exception builds nothing.
LEMMA DeliverKept ==
    ASSUME NEW c, NEW k \in Int, Kept(c, k), NEW v, Deliverable(v), NEW j \in Int, j + 12 <= k
    PROVE  Kept(Deliver(c, v), j)
<1>1. Kept(fin_value(c, v), j)
  BY FinKept
<1>2. Kept(c, j)
  <2>1. j <= k
    OBVIOUS
  <2> QED
    BY <2>1, KeptLess
<1>3. FuncOk(SpecialFunc("fin", Nil)) /\ SpecialFunc("fin", Nil).fn = "fin"
  BY SpecialOk, NilElement DEF FrameClasses
<1>4. IsErr(Raises)
  BY ErrorIsErr DEF Raises
<1>5. Kept(Throw(c), j)
  BY <1>2, <1>3, <1>4, PushKept, NilElement DEF Throw
<1> QED
  BY <1>1, <1>5 DEF Deliver

\* WorkItem.error.
LEMMA ErrorKept ==
    ASSUME NEW c, NEW k \in Int, Kept(c, k), NEW msg, NEW j \in Int, j + 24 <= k
    PROVE  Kept(error(c, msg), j)
<1>1. Kept(Build(c, 1), j + 12)
  BY BuildKept
<1> QED
  BY <1>1, FinKept, ErrorIsErr DEF error

\* WorkItem.eval_arg.
LEMMA EvalKept ==
    ASSUME NEW c, NEW k \in Int, Kept(c, k), NEW expr, IsElement(expr),
           NEW env, IsElement(env), NEW j \in Int, j + 12 <= k
    PROVE  Kept(eval_arg(c, expr, env), j)
<1>1. Kept(Build(c, 1), j)
  BY BuildKept
<1>2. FuncOk(SpecialFunc("blleval", Nil))
  BY SpecialOk, NilElement DEF FrameClasses
<1> QED
  BY <1>1, <1>2, PushKept DEF eval_arg

\* The parts of a frame.
LEMMA FrameParts ==
    ASSUME NEW f, FrameOk(f)
    PROVE  /\ FuncOk(f.fn) /\ IsElement(f.env) /\ IsElement(f.fn.state)
           /\ f.fn = Func(f.fn.fn, f.fn.op, f.fn.ist, f.fn.state)
           /\ f.fn.fn # "fin" => IsElement(f.args)
           /\ IsElement(f.args) => Deliverable(f.args)
           /\ IsErr(f.args) => Deliverable(f.args)
           /\ Deliverable(f.args)
BY DEF FrameOk, FuncOk, Deliverable

\* The next argument is evaluated with the frame waiting below.
LEMMA NextArgKept ==
    ASSUME NEW c, Kept(c, 24), NEW f, FrameOk(f), f.fn.fn # "fin", IsCons(f.args)
    PROVE  Kept(EvalNextArg(c, f), 0)
<1>1. FuncOk(f.fn) /\ IsElement(f.env) /\ IsElement(f.args)
  BY FrameParts
<1>2. IsElement(f.args.val1) /\ IsElement(f.args.val2)
  BY <1>1, ElementKinds
<1>3. Kept(Build(c, 1), 12)
  BY BuildKept
<1>4. Kept(new_continuation(Build(c, 1), f.fn, f.args.val2, f.env), 12)
  BY <1>1, <1>2, <1>3, PushKept
<1> QED
  BY <1>1, <1>2, <1>4, EvalKept DEF EvalNextArg

-----------------------------------------------------------------------------
(***************************************************************************)
(* Paying leg by leg.                                                      *)
(***************************************************************************)
TotalTurn(legs, g, i) == IF i = 0 THEN Leg(0, 0)
                         ELSE Leg(g[i-1].cost + legs[i].cost, g[i-1].built + legs[i].built)
TotalTurns(legs, n, g) == g = [i \in 0..n |-> TotalTurn(legs, g, i)]

\* The totals have their turns.
LEMMA TotalTurnsExist ==
    ASSUME NEW legs, NEW n \in Nat
    PROVE  \E g : TotalTurns(legs, n, g)
<1> DEFINE T == {m \in 0..n : \E g : TotalTurns(legs, m, g)}
<1>1. 0 \in T
  <2>1. TotalTurns(legs, 0, [i \in 0..0 |-> Leg(0, 0)])
    BY DEF TotalTurns, TotalTurn
  <2> QED
    BY <2>1
<1>2. ASSUME NEW m \in 0..n, m # n, m \in T
      PROVE  m + 1 \in T
  <2>1. PICK g : TotalTurns(legs, m, g)
    BY <1>2
  <2> DEFINE f == [i \in 0..m+1 |-> IF i = m + 1 THEN TotalTurn(legs, g, i) ELSE g[i]]
  <2>2. \A i \in 0..m+1 : f[i] = TotalTurn(legs, g, i)
    BY <2>1 DEF TotalTurns
  <2>3. \A i \in 0..m : f[i] = g[i]
    OBVIOUS
  <2>4. \A i \in 0..m+1 : i # 0 => i - 1 \in 0..m
    OBVIOUS
  <2> HIDE DEF f
  <2>5. \A i \in 0..m+1 : TotalTurn(legs, f, i) = TotalTurn(legs, g, i)
    BY <2>3, <2>4 DEF TotalTurn
  <2>6. f = [i \in 0..m+1 |-> f[i]]
    BY DEF f
  <2>7. TotalTurns(legs, m + 1, f)
    BY <2>2, <2>5, <2>6 DEF TotalTurns
  <2> QED
    BY <1>2, <2>7
<1> HIDE DEF T
<1>3. n \in T
  BY <1>1, <1>2, Climb
<1> QED
  BY <1>3 DEF T

\* The sums of the first legs, and what is left of their charges.
LEMMA TotalsRun ==
    ASSUME NEW legs, NEW p, Runs(legs, p)
    PROVE  LET u == Totals(legs)
           IN  /\ u[0] = Leg(0, 0)
               /\ \A k \in 0..Len(legs) : /\ u[k].cost \in Nat /\ u[k].built \in Nat
                                         /\ u[k].cost - 12 * u[k].built = p[k]
               /\ \A k \in 1..Len(legs) : /\ u[k].cost = u[k-1].cost + legs[k].cost
                                         /\ u[k].built = u[k-1].built + legs[k].built
<1> DEFINE n == Len(legs)
           u == CHOOSE f : TotalTurns(legs, n, f)
<1>1. /\ n \in Nat /\ p[0] = 0 /\ \A k \in 0..n : p[k] \in Nat
      /\ \A k \in 1..n : /\ legs[k].cost \in Nat /\ legs[k].built \in Nat
                         /\ p[k] = p[k-1] + legs[k].cost - 12 * legs[k].built
  BY RunsOf
<1>2. Totals(legs) = u
  BY DEF Totals, TotalTurns, TotalTurn
<1>3. \E f : TotalTurns(legs, n, f)
  <2> HIDE DEF n
  <2> QED
    BY <1>1, TotalTurnsExist
<1>4. TotalTurns(legs, n, u)
  BY <1>3
<1> HIDE DEF u, n
<1>5. \A k \in 0..n : u[k] = TotalTurn(legs, u, k)
  BY <1>4 DEF TotalTurns
<1>6. u[0] = Leg(0, 0)
  <2>1. 0 \in 0..n
    BY <1>1
  <2> QED
    BY <1>5, <2>1 DEF TotalTurn
<1>7. \A k \in 1..n : u[k] = Leg(u[k-1].cost + legs[k].cost, u[k-1].built + legs[k].built)
  <2>1. \A k \in 1..n : k \in 0..n /\ k # 0
    BY <1>1
  <2> QED
    BY <1>5, <2>1 DEF TotalTurn
<1>8. \A k \in 1..n : /\ u[k].cost = u[k-1].cost + legs[k].cost
                      /\ u[k].built = u[k-1].built + legs[k].built
  <2> TAKE k \in 1..n
  <2> DEFINE x == u[k-1].cost + legs[k].cost
             y == u[k-1].built + legs[k].built
  <2>1. u[k] = Leg(x, y)
    BY <1>7
  <2> HIDE DEF x, y
  <2>2. u[k].cost = x /\ u[k].built = y
    BY <2>1 DEF Leg
  <2> QED
    BY <2>2 DEF x, y
<1> DEFINE Good(k) == /\ u[k].cost \in Nat /\ u[k].built \in Nat
                      /\ u[k].cost - 12 * u[k].built = p[k]
           T == {k \in 0..n : Good(k)}
<1>9. \A k \in 0..n : k \in T
  <2>1. 0 \in T
    <3>1. 0 \in 0..n /\ u[0].cost = 0 /\ u[0].built = 0
      BY <1>1, <1>6 DEF Leg
    <3> QED
      BY <1>1, <3>1
  <2>2. ASSUME NEW k \in 0..n, k # n, k \in T
        PROVE  k + 1 \in T
    <3>1. k + 1 \in 1..n /\ k + 1 \in 0..n /\ (k + 1) - 1 = k
      BY <1>1, <2>2
    <3>2. /\ u[k+1].cost = u[k].cost + legs[k+1].cost
          /\ u[k+1].built = u[k].built + legs[k+1].built
          /\ p[k+1] = p[k] + legs[k+1].cost - 12 * legs[k+1].built
          /\ legs[k+1].cost \in Nat /\ legs[k+1].built \in Nat /\ p[k] \in Nat
      BY <1>1, <1>8, <2>2, <3>1
    <3>3. u[k].cost \in Nat /\ u[k].built \in Nat /\ u[k].cost - 12 * u[k].built = p[k]
      BY <2>2
    <3>4. u[k+1].cost - 12 * u[k+1].built = p[k+1]
      BY <3>2, <3>3
    <3>5. Good(k+1)
      BY <3>2, <3>3, <3>4
    <3> HIDE DEF Good
    <3> QED
      BY <3>1, <3>5
  <2> HIDE DEF T
  <2> QED
    BY <1>1, <2>1, <2>2, Climb
<1> QED
  BY <1>2, <1>6, <1>8, <1>9 DEF n

\* A leg paid in full, or refused at its charge, and when it is Ok.
LEMMA PaidKept ==
    ASSUME NEW c, NEW k \in Int, Kept(c, k), NEW leg, leg.cost \in Nat, leg.built \in Nat
    PROVE  LET d == Paid(c, leg)
           IN  /\ \A j \in Int : j <= k /\ j <= k + leg.cost - 12 * leg.built => Kept(d, j)
               /\ Ok(d) => Kept(d, k + leg.cost - 12 * leg.built)
               /\ Ok(d) <=> /\ Ok(c) /\ leg.cost <= Headroom(c.budget)
                            /\ c.made + leg.built <= job.cap
               /\ Ok(d) => /\ Headroom(d.budget) = Headroom(c.budget) - leg.cost
                           /\ d.made = c.made + leg.built
<1> DEFINE d == Paid(c, leg)
           s == Spend(c, leg.cost)
           t == Build(s, leg.built)
           h == k + leg.cost - 12 * leg.built
<1>1. d = IF Ok(s) THEN t ELSE s
  BY DEF Paid
<1>2. /\ Kept(s, k) /\ s.made = c.made /\ s.budget = charge(c.budget, leg.cost)
      /\ Ok(s) => Kept(s, k + leg.cost) /\ Ok(c)
  BY SpendKept
<1>3. h \in Int /\ h + 12 * leg.built <= k + leg.cost /\ k + leg.cost \in Int
  OBVIOUS
<1>4. Ok(s) => /\ Kept(t, h) /\ t.made = c.made + leg.built
               /\ t.budget.allowances = s.budget.allowances /\ t.budget.used = s.budget.used
               /\ t.budget.limit = s.budget.limit
               /\ (Ok(t) <=> Ok(s) /\ c.made + leg.built <= job.cap)
  <2> HIDE DEF d, s, h
  <2> QED
    BY <1>2, <1>3, BuildKept
<1>5. Within(c.budget) /\ (Latched(c.budget) => Latched(s.budget))
  BY <1>2, ChargeWithin DEF Kept, Fit
<1>6. Ok(c) => /\ Ok(s) <=> leg.cost <= Headroom(c.budget)
               /\ Ok(s) => Headroom(s.budget) = Headroom(c.budget) - leg.cost
  BY <1>2, <1>5, ChargeFits DEF Ok
<1>7. Ok(s) => Headroom(t.budget) = Headroom(s.budget)
  BY <1>4 DEF Headroom, Guarded
<1>8. \A j \in Int : j <= k /\ j <= h => Kept(d, j)
  <2> HIDE DEF d, s, t, h
  <2> QED
    BY <1>1, <1>2, <1>3, <1>4, KeptLess
<1>9. Ok(d) => Ok(s) /\ d = t
  BY <1>1
<1> HIDE DEF d, s, t, h
<1>10. Ok(d) <=> /\ Ok(c) /\ leg.cost <= Headroom(c.budget)
                 /\ c.made + leg.built <= job.cap
  BY <1>1, <1>2, <1>4, <1>6, <1>9
<1>11. Ok(d) => /\ Kept(d, h) /\ d.made = c.made + leg.built
                /\ Headroom(d.budget) = Headroom(c.budget) - leg.cost
  BY <1>2, <1>4, <1>6, <1>7, <1>9
<1> QED
  BY <1>8, <1>10, <1>11 DEF d, h

\* A leg that is refused builds nothing, and one that is paid overruns no guard.
LEMMA PaidNear ==
    ASSUME NEW c, NEW k \in Int, Kept(c, k), Ok(c), NEW leg, leg.cost \in Nat, leg.built \in Nat
    PROVE  LET d == Paid(c, leg)
           IN  d.made <= job.cap + leg.built /\ (d.budget.guard_breach => d.made <= job.cap)
<1> DEFINE s == Spend(c, leg.cost)
           n == leg.built
           t == Build(s, n)
           j == k + leg.cost - 12 * n
<1>1. Paid(c, leg) = IF Ok(s) THEN t ELSE s
  BY DEF Paid
<1>2. c.made \in Nat /\ job.cap \in Nat /\ c.made <= job.cap
  BY DEF Kept, Fit, Ok, Latched
<1>3. s.made = c.made /\ (Ok(s) => Kept(s, k + leg.cost))
  BY SpendKept
<1>4. k + leg.cost \in Int /\ j \in Int /\ j + 12 * n <= k + leg.cost
  OBVIOUS
<1>5. Ok(s) => t.made = s.made + n /\ t.budget.guard_breach = s.budget.guard_breach
  <2> HIDE DEF s, j
  <2> QED
    BY <1>3, <1>4, BuildKept
<1>6. Ok(s) => ~s.budget.guard_breach
  BY DEF Ok, Latched
<1> HIDE DEF s, t
<1>7. CASE Ok(s)
  BY <1>1, <1>2, <1>3, <1>5, <1>6, <1>7
<1>8. CASE ~Ok(s)
  <2>1. s.made <= job.cap + n
    BY <1>2, <1>3
  <2> QED
    BY <1>1, <1>2, <1>3, <1>8, <2>1
<1> QED
  BY <1>7, <1>8

\* The legs are paid up to the first that latches: an operator that pays its
\* sums at once and one that pays leg by leg stop at the same construction.
LEMMA TurnsKept ==
    ASSUME NEW c, NEW n \in Int, Kept(c, n), Ok(c), NEW legs, NEW p, Runs(legs, p)
    PROVE  LET d == PayInTurn(c, legs)
           IN  /\ Kept(d, n)
               /\ Ok(d) => Kept(d, n + p[Len(legs)])
               /\ \E k \in Nat : /\ k = 0 \/ \E i \in 1..Len(legs) : k = legs[i].built
                                 /\ d.made <= job.cap + k
               /\ d.budget.guard_breach => d.made <= job.cap
<1> DEFINE m == Len(legs)
           u == Totals(legs)
           fit == {k \in 0..m : Ok(Paid(c, u[k]))}
           first == CHOOSE k \in fit : k + 1 \notin fit
           P == Paid(c, u[first])
           Q == Paid(P, legs[first + 1])
           d == PayInTurn(c, legs)
<1>1. /\ m \in Nat /\ p[0] = 0 /\ \A k \in 0..m : p[k] \in Nat
      /\ \A k \in 1..m : /\ legs[k].cost \in Nat /\ legs[k].built \in Nat
                         /\ p[k] = p[k-1] + legs[k].cost - 12 * legs[k].built
      /\ legs # <<>> => m # 0
      /\ legs = <<>> => m = 0
  BY RunsOf
<1>2. /\ u[0].cost = 0 /\ u[0].built = 0
      /\ \A k \in 0..m : /\ u[k].cost \in Nat /\ u[k].built \in Nat
                         /\ u[k].cost - 12 * u[k].built = p[k]
      /\ \A k \in 1..m : /\ u[k].cost = u[k-1].cost + legs[k].cost
                         /\ u[k].built = u[k-1].built + legs[k].built
  BY TotalsRun DEF Leg
<1>3. d = IF legs = <<>> \/ fit = {} THEN c ELSE IF first = m THEN P ELSE Q
  BY DEF PayInTurn
<1> HIDE DEF u, d, m
<1>4. /\ c.made \in Nat /\ job.cap \in Nat /\ c.made <= job.cap
      /\ Headroom(c.budget) \in Nat
  <2>1. Within(c.budget) /\ ~Latched(c.budget) /\ c.made \in Nat /\ job.cap \in Nat
        /\ ~(c.made > job.cap)
    BY DEF Kept, Fit, Ok, Latched
  <2>2. 0 \in Nat
    OBVIOUS
  <2> QED
    BY <2>1, <2>2, ChargeFits
<1>5. 0 \in fit
  <2>1. 0 \in 0..m
    BY <1>1
  <2>2. Ok(Paid(c, u[0])) <=> /\ Ok(c) /\ 0 <= Headroom(c.budget)
                              /\ c.made + 0 <= job.cap
    <3> DEFINE leg == u[0]
    <3>1. leg.cost = 0 /\ leg.built = 0 /\ leg.cost \in Nat /\ leg.built \in Nat
      BY <1>2
    <3> HIDE DEF leg
    <3>2. Ok(Paid(c, leg)) <=> /\ Ok(c) /\ leg.cost <= Headroom(c.budget)
                               /\ c.made + leg.built <= job.cap
      BY <3>1, PaidKept
    <3> QED
      BY <3>1, <3>2 DEF leg
  <2> QED
    BY <1>4, <2>1, <2>2
<1>6. first \in fit /\ first + 1 \notin fit
  <2>1. \E k \in fit : k + 1 \notin fit
    <3> SUFFICES ASSUME \A k \in fit : k + 1 \in fit PROVE FALSE
      OBVIOUS
    <3> HIDE DEF fit
    <3>1. \A k \in 0..m+1 : k \in fit
      <4>1. \A k \in 0..m+1 : k # m + 1 /\ k \in fit => k + 1 \in fit
        OBVIOUS
      <4>2. m + 1 \in Nat
        BY <1>1
      <4> HIDE DEF fit
      <4> QED
        BY <1>5, <4>1, <4>2, Climb
    <3>2. m + 1 \in 0..m+1
      BY <1>1
    <3>3. m + 1 \notin fit
      BY <1>1 DEF fit
    <3> QED
      BY <3>1, <3>2, <3>3
  <2> HIDE DEF fit
  <2> QED
    BY <2>1
<1> HIDE DEF first
<1>7. /\ first \in 0..m /\ Ok(P)
      /\ u[first].cost \in Nat /\ u[first].built \in Nat /\ p[first] \in Nat
      /\ u[first].cost - 12 * u[first].built = p[first]
  BY <1>1, <1>2, <1>6
<1>8. Kept(P, n + p[first])
  <2>1. n + u[first].cost - 12 * u[first].built = n + p[first]
    BY <1>7
  <2> QED
    BY <1>7, <2>1, PaidKept
<1>9. /\ u[first].cost <= Headroom(c.budget) /\ c.made + u[first].built <= job.cap
      /\ Headroom(P.budget) = Headroom(c.budget) - u[first].cost
      /\ P.made = c.made + u[first].built
  BY <1>7, PaidKept
<1> HIDE DEF P
<1>10. CASE legs = <<>>
  <2>1. d = c /\ p[m] = 0
    BY <1>1, <1>3, <1>10
  <2>2. n + p[m] = n
    BY <2>1
  <2>3. d.made <= job.cap /\ \E k \in Nat : k = 0 /\ d.made <= job.cap + k
    BY <1>4, <2>1
  <2> QED
    BY <2>1, <2>2, <2>3 DEF d, m
<1>11. CASE legs # <<>> /\ first = m
  <2>1. d = P
    BY <1>3, <1>5, <1>11
  <2>2. Kept(P, n)
    <3>1. n <= n + p[first] /\ n + p[first] \in Int
      BY <1>7
    <3> QED
      BY <1>8, <3>1, KeptLess
  <2>3. d.made <= job.cap /\ \E k \in Nat : k = 0 /\ d.made <= job.cap + k
    BY <1>4, <1>9, <2>1
  <2> QED
    BY <1>8, <1>11, <2>1, <2>2, <2>3 DEF d, m
<1>12. CASE legs # <<>> /\ first # m
  <2> DEFINE l == legs[first + 1]
             q == first + 1
  <2>1. d = Q
    BY <1>3, <1>5, <1>12
  <2>2. q \in 1..m /\ q \in 0..m /\ q - 1 = first
    BY <1>1, <1>7, <1>12
  <2>3. /\ l.cost \in Nat /\ l.built \in Nat
        /\ p[q] = p[first] + l.cost - 12 * l.built /\ p[q] \in Nat
        /\ u[q].cost = u[first].cost + l.cost /\ u[q].built = u[first].built + l.built
        /\ u[q].cost \in Nat /\ u[q].built \in Nat
    BY <1>1, <1>2, <2>2
  <2> HIDE DEF l, q
  <2>4. Kept(Paid(P, l), n)
    <3> DEFINE k == n + p[first]
    <3>1. n <= k /\ n <= k + l.cost - 12 * l.built /\ k \in Int
      BY <1>7, <2>3
    <3> HIDE DEF k
    <3>2. Kept(P, k)
      BY <1>8 DEF k
    <3> QED
      BY <2>3, <3>1, <3>2, PaidKept
  <2>5. ASSUME Ok(Paid(P, l)) PROVE FALSE
    <3>1. l.cost <= Headroom(P.budget) /\ P.made + l.built <= job.cap
      <4>1. n + p[first] \in Int
        BY <1>7
      <4> QED
        BY <1>8, <2>3, <2>5, <4>1, PaidKept
    <3>2. u[q].cost <= Headroom(c.budget) /\ c.made + u[q].built <= job.cap
      BY <1>4, <1>7, <1>9, <2>3, <3>1
    <3>3. Ok(Paid(c, u[q]))
      BY <2>3, <3>2, PaidKept
    <3>4. q \in fit
      BY <2>2, <3>3
    <3> QED
      BY <1>6, <3>4 DEF q
  <2>6. /\ Paid(P, l).made <= job.cap + l.built
        /\ Paid(P, l).budget.guard_breach => Paid(P, l).made <= job.cap
    <3>1. n + p[first] \in Int
      BY <1>7
    <3> QED
      BY <1>7, <1>8, <2>3, <3>1, PaidNear
  <2>7. \E k \in Nat : (\E i \in 1..m : k = legs[i].built) /\ d.made <= job.cap + k
    BY <2>1, <2>2, <2>3, <2>6 DEF l, q
  <2> QED
    BY <2>1, <2>4, <2>5, <2>6, <2>7 DEF d, l, m
<1> QED
  BY <1>10, <1>11, <1>12

\* What an operator makes of its arguments is paid for and handed over.
LEMMA FinishingKept ==
    ASSUME NEW c, Kept(c, 24), Ok(c), NEW most, NEW r, EndsWell(most, r)
    PROVE  Kept(Finishing(c, r), 0)
<1>1. /\ r.cost \in Nat /\ r.built \in Nat /\ Deliverable(r.val)
      /\ \E p : Runs(r.legs, p) /\ 12 * r.built <= r.cost + 12 + p[Len(r.legs)]
  BY DEF EndsWell
<1>2. PICK p : Runs(r.legs, p) /\ 12 * r.built <= r.cost + 12 + p[Len(r.legs)]
  BY <1>1
<1> DEFINE t == PayInTurn(c, r.legs)
           x == p[Len(r.legs)]
           s == Spend(t, r.cost)
<1>3. x \in Nat /\ 12 * r.built <= r.cost + 12 + x
  <2>1. Len(r.legs) \in 0..Len(r.legs)
    BY <1>2, RunsOf
  <2> QED
    BY <1>2, <2>1, RunsOf
<1>4. Kept(t, 24) /\ (Ok(t) => Kept(t, 24 + x))
  <2>1. 24 \in Int
    OBVIOUS
  <2> QED
    BY <1>2, <2>1, TurnsKept
<1> HIDE DEF t, x
<1>5. Kept(s, 24) /\ (Ok(s) => Ok(t))
  <2>1. 24 \in Int
    OBVIOUS
  <2> QED
    BY <1>1, <1>4, <2>1, SpendKept
<1>6. Ok(s) => Kept(s, 24 + x + r.cost)
  <2>1. 24 + x \in Int
    BY <1>3
  <2> QED
    BY <1>1, <1>4, <1>5, <2>1, SpendKept
<1>7. Finishing(c, r) = IF Ok(s) THEN Deliver(Build(s, r.built), r.val) ELSE s
  BY DEF Finishing, t
<1> HIDE DEF s
<1>8. Kept(s, 0)
  <2>1. 0 \in Int /\ 24 \in Int /\ 0 <= 24
    OBVIOUS
  <2> QED
    BY <1>5, <2>1, KeptLess
<1>9. Ok(s) => Kept(Deliver(Build(s, r.built), r.val), 0)
  <2> DEFINE h == 24 + x + r.cost
  <2>1. h \in Int /\ 12 + 12 * r.built <= h
    BY <1>1, <1>3, SMTT(30)
  <2>2. Ok(s) => Kept(s, h)
    BY <1>6
  <2> HIDE DEF h
  <2>3. Ok(s) => Kept(Build(s, r.built), 12)
    <3>1. 12 \in Int
      OBVIOUS
    <3> QED
      BY <1>1, <2>1, <2>2, <3>1, BuildKept
  <2>4. 12 \in Int /\ 0 \in Int /\ 0 + 12 <= 12
    OBVIOUS
  <2> QED
    BY <1>1, <2>3, <2>4, DeliverKept
<1> QED
  BY <1>7, <1>8, <1>9

\* Some credit left is no debt.
LEMMA KeptNone ==
    ASSUME NEW c, NEW k \in Nat, Kept(c, k)
    PROVE  Kept(c, 0)
BY KeptLess

-----------------------------------------------------------------------------
(***************************************************************************)
(* The handlers: a step starts with the STEP charged for the pop, a        *)
(* delivery with two.                                                      *)
(***************************************************************************)
\* The function object of an fn_partial that names no operator yet.
LEMMA UnboundClass ==
    Unbound.fn = "partial"
BY DEF Unbound, SpecialFunc, Func

\* fn_op.step.
LEMMA OpStepKept ==
    ASSUME NEW c, Kept(c, 24), Ok(c), NEW f, FrameOk(f), f.fn.fn = "op"
    PROVE  Kept(OpStep(c, f), 0)
<1>1. f.fn # Unbound
  BY UnboundClass
<1>2. /\ f.fn.op \in Operators /\ IsElement(f.fn.state)
      /\ Held(f.fn.op, f.fn.ist, f.fn.state)
  BY <1>1 DEF FrameOk, FuncOk
<1>3. EndsWell(1 + Decoded(f.fn.op, f.fn.state), finish(View, f.fn.op, f.fn.ist, f.fn.state))
  BY <1>2, OperatorsEnd, ViewAnswers DEF Kept
<1>4. Kept(Finishing(c, finish(View, f.fn.op, f.fn.ist, f.fn.state)), 0)
  BY <1>3, FinishingKept
<1>5. IsCons(f.args) => Kept(EvalNextArg(c, f), 0)
  BY NextArgKept
<1>6. \A msg : Kept(error(c, msg), 0)
  BY ErrorKept
<1> QED
  BY <1>4, <1>5, <1>6 DEF OpStep

\* fn_op.feedback.
LEMMA OpFeedbackKept ==
    ASSUME NEW c, Kept(c, 48), NEW f, FrameOk(f), f.fn.fn = "op", NEW value, IsElement(value)
    PROVE  Kept(OpFeedback(c, f, value), 0)
<1> DEFINE r == argument(View, f.fn.op, f.fn.ist, f.fn.state, value)
           p == Spend(c, r.cost)
<1>1. f.fn # Unbound
  BY UnboundClass
<1>2. /\ f.fn.op \in Operators /\ IsElement(f.fn.state)
      /\ Held(f.fn.op, f.fn.ist, f.fn.state)
  BY <1>1 DEF FrameOk, FuncOk
<1>3. FoldsTo(f.fn.op, r)
  BY <1>2, OperatorsFold, ViewAnswers DEF Kept
<1> HIDE DEF r
<1>4. /\ r.cost \in Nat /\ r.built \in Nat /\ 12 * r.built <= r.cost + 36
      /\ IsErr(r.val) \/ (IsElement(r.val) /\ Held(f.fn.op, r.ist, r.val))
  BY <1>3 DEF FoldsTo
<1>5. Kept(p, 0) /\ (Ok(p) => Kept(p, 48 + r.cost))
  <2>1. Kept(p, 48) /\ (Ok(p) => Kept(p, 48 + r.cost))
    <3>1. 48 \in Int
      OBVIOUS
    <3> QED
      BY <1>4, <3>1, SpendKept
  <2> QED
    BY <2>1, KeptNone
<1>6. OpFeedback(c, f, value) =
          IF ~Ok(p) THEN p
          ELSE IF IsError(r.val) THEN Deliver(Build(p, r.built), r.val)
          ELSE new_continuation(Build(p, r.built + 1), Refed(f.fn, r), f.args, f.env)
  BY DEF OpFeedback, Folded, r
<1> HIDE DEF p
<1> DEFINE h == 48 + r.cost
<1>7. h \in Int /\ 12 + 12 * r.built <= h /\ 0 + 12 * (r.built + 1) <= h
      /\ r.built + 1 \in Nat /\ 12 \in Int /\ 0 \in Int /\ 0 + 12 <= 12
  BY <1>4
<1>8. Ok(p) => Kept(p, h)
  BY <1>5
<1> HIDE DEF h
<1>9. CASE Ok(p) /\ IsError(r.val)
  <2>1. IsErr(r.val)
    BY <1>4, <1>9, ElementKinds
  <2>2. Kept(Build(p, r.built), 12)
    BY <1>4, <1>7, <1>8, <1>9, BuildKept
  <2> QED
    BY <1>6, <1>7, <1>9, <2>1, <2>2, DeliverKept DEF Deliverable
<1>10. CASE Ok(p) /\ ~IsError(r.val)
  <2>1. IsElement(r.val) /\ Held(f.fn.op, r.ist, r.val)
    BY <1>4, <1>10, ErrKind
  <2>2. FuncOk(Refed(f.fn, r))
    BY <1>2, <2>1, BoundOk DEF Refed
  <2>3. Kept(Build(p, r.built + 1), 0)
    BY <1>7, <1>8, <1>10, BuildKept
  <2>4. IsElement(f.args) /\ IsElement(f.env)
    BY FrameParts
  <2> QED
    BY <1>6, <1>7, <1>10, <2>2, <2>3, <2>4, PushKept
<1> QED
  BY <1>5, <1>6, <1>9, <1>10

\* fn_partial.step.
LEMMA PartialStepKept ==
    ASSUME NEW c, Kept(c, 24), NEW f, FrameOk(f), f.fn.fn = "partial"
    PROVE  Kept(PartialStep(c, f), 0)
<1>1. CASE IsNil(f.args) /\ f.fn # Unbound
  <2>1. IsElement(f.fn)
    <3>1. f.fn.op \in Operators /\ Held(f.fn.op, f.fn.ist, f.fn.state)
      BY <1>1 DEF FrameOk, FuncOk
    <3> QED
      BY <3>1, FrameParts, BoundOk
  <2>2. Kept(Build(c, 1), 12)
    BY BuildKept
  <2> QED
    BY <1>1, <2>1, <2>2, FinKept DEF PartialStep, Deliverable
<1>2. \A msg : Kept(error(c, msg), 0)
  BY ErrorKept
<1>3. IsCons(f.args) => Kept(EvalNextArg(c, f), 0)
  BY NextArgKept
<1> QED
  BY <1>1, <1>2, <1>3 DEF PartialStep

\* How many elements an operator's function object takes.
LEMMA InitialCount ==
    ASSUME NEW op
    PROVE  InitialOpBuilt(op) \in 1..2
BY DEF InitialOpBuilt

\* fn_partial.get_partial_func: the function object found, if any, is one to
\* bind, and what was built for it was paid for.
LEMMA PartialFuncKept ==
    ASSUME NEW c, Kept(c, 48), NEW value, IsElement(value)
    PROVE  LET g == get_partial_func(c, value)
           IN  /\ Kept(g.c, 48)
               /\ IsFunc(g.func) => /\ g.func.fn \in {"op", "partial"} /\ IsElement(g.func)
                                    /\ g.func.op \in Operators /\ IsElement(g.func.state)
                                    /\ Held(g.func.op, g.func.ist, g.func.state)
<1> DEFINE s == Spend(c, atom_scan(value.width))
           n == AsInt(value)
           t == Spend(s, ELEMENT_ALLOC)
           op == Op_FUNCS[n]
           g == get_partial_func(c, value)
           none(d) == [c |-> d, func |-> Nil]
           x == [c |-> Build(t, InitialOpBuilt(op)), func |-> InitialOp(op, n)]
           y == [c |-> c, func |-> value]
<1>1. CASE IsAtom(value)
  <2>1. IsWhole(value) /\ value.width \in Nat /\ atom_scan(value.width) \in Nat
    <3>1. IsWhole(value)
      BY <1>1, ElementKinds
    <3>2. value.width \in Nat
      BY <3>1, WholeAtom
    <3> QED
      BY <3>1, <3>2 DEF atom_scan
  <2>2. Kept(s, 48)
    BY <2>1, SpendKept
  <2> HIDE DEF s
  <2>3. Kept(t, 48) /\ (Ok(t) => Kept(t, 368))
    BY <2>2, SpendKept DEF ELEMENT_ALLOC
  <2> HIDE DEF t
  <2>4. g \in {none(s), none(t)} \/ (Ok(t) /\ n \in DOMAIN Op_FUNCS /\ g = x)
    BY <1>1 DEF get_partial_func, s, t
  <2>5. \A d : none(d).c = d /\ ~IsFunc(none(d).func)
    BY NilElement
  <2>6. CASE Ok(t) /\ n \in DOMAIN Op_FUNCS /\ g = x
    <3>1. op \in Operators /\ n \in Nat
      BY <2>6, TableOperators
    <3> HIDE DEF op, n
    <3>2. Kept(Build(t, InitialOpBuilt(op)), 48)
      <4> DEFINE m == InitialOpBuilt(op)
      <4>1. m \in Nat /\ 48 + 12 * m <= 368
        BY InitialCount
      <4> HIDE DEF m
      <4>2. Kept(Build(t, m), 48)
        BY <2>3, <2>6, <4>1, BuildKept
      <4> QED
        BY <4>2 DEF m
    <3> DEFINE i == initial_int_state(op, n)
               st == initial_state(op)
    <3>3. IsElement(st) /\ Held(op, i, st)
      BY <3>1, InitialHeld
    <3> HIDE DEF i, st
    <3>4. LET z == Func("op", op, i, st)
          IN  IsElement(z) /\ z.fn = "op" /\ z.op = op /\ z.ist = i /\ z.state = st
      BY <3>1, <3>3, BoundOk, FuncKind
    <3>5. g.c = Build(t, InitialOpBuilt(op)) /\ g.func = Func("op", op, i, st)
      BY <2>6 DEF InitialOp, i, st
    <3> QED
      BY <3>1, <3>2, <3>3, <3>4, <3>5
  <2> HIDE DEF none, x
  <2> QED
    BY <2>2, <2>3, <2>4, <2>5, <2>6
<1>2. CASE ~IsAtom(value)
  <2>1. g = none(c) \/ (g = y /\ IsFunc(value))
    BY <1>2 DEF get_partial_func
  <2>2. none(c).c = c /\ ~IsFunc(none(c).func) /\ y.c = c /\ y.func = value
    BY NilElement
  <2>3. IsFunc(value) => /\ value.fn \in {"op", "partial"} /\ value.op \in Operators
                         /\ IsElement(value.state) /\ Held(value.op, value.ist, value.state)
    BY ElementKinds
  <2> HIDE DEF g, none, y
  <2> QED
    BY <2>1, <2>2, <2>3 DEF g
<1> QED
  BY <1>1, <1>2

\* fn_partial.feedback, the first value.
LEMMA PartialBindKept ==
    ASSUME NEW c, Kept(c, 48), NEW f, FrameOk(f), f.fn.fn = "partial",
           NEW value, IsElement(value)
    PROVE  Kept(PartialBind(c, f, value), 0)
<1> DEFINE g == get_partial_func(c, value)
<1>1. /\ Kept(g.c, 48)
      /\ IsFunc(g.func) => /\ g.func.op \in Operators /\ IsElement(g.func.state)
                           /\ Held(g.func.op, g.func.ist, g.func.state)
  BY PartialFuncKept
<1>2. PartialBind(c, f, value) =
          IF ~IsFunc(g.func)
          THEN IF Ok(g.c) THEN error(g.c, "partial: requires a normal opcode") ELSE g.c
          ELSE IF g.func.fn = "partial" /\ IsNil(f.args)
          THEN new_continuation(g.c, BoundOp(g.func), f.args, f.env)
          ELSE new_continuation(Build(g.c, 1), Binding(g.func), f.args, f.env)
  BY DEF PartialBind
<1> HIDE DEF g
<1>3. Kept(g.c, 0) /\ Kept(Build(g.c, 1), 0)
  BY <1>1, KeptNone, BuildKept
<1>4. \A msg : Kept(error(g.c, msg), 0)
  BY <1>1, ErrorKept
<1>5. IsElement(f.args) /\ IsElement(f.env)
  BY FrameParts
<1>6. IsFunc(g.func) => FuncOk(BoundOp(g.func)) /\ FuncOk(Binding(g.func))
  BY <1>1, BoundOk DEF BoundOp, Binding
<1>7. IsFunc(g.func) => /\ Kept(new_continuation(g.c, BoundOp(g.func), f.args, f.env), 0)
                        /\ Kept(new_continuation(Build(g.c, 1), Binding(g.func), f.args, f.env), 0)
  BY <1>3, <1>5, <1>6, PushKept
<1> QED
  BY <1>2, <1>3, <1>4, <1>7

\* fn_partial.feedback, the values after it.
LEMMA PartialFeedbackKept ==
    ASSUME NEW c, Kept(c, 48), NEW f, FrameOk(f), f.fn.fn = "partial",
           NEW value, IsElement(value)
    PROVE  Kept(PartialFeedback(c, f, value), 0)
<1>1. CASE f.fn = Unbound
  BY <1>1, PartialBindKept DEF PartialFeedback
<1>2. CASE f.fn # Unbound
  <2> DEFINE r == argument(View, f.fn.op, f.fn.ist, f.fn.state, value)
             p == Spend(c, r.cost)
             q == Build(p, r.built + 1)
             t == Spend(q, ELEMENT_ALLOC)
  <2>2. /\ f.fn.op \in Operators /\ IsElement(f.fn.state)
        /\ Held(f.fn.op, f.fn.ist, f.fn.state)
    BY <1>2 DEF FrameOk, FuncOk
  <2>3. FoldsTo(f.fn.op, r)
    BY <2>2, OperatorsFold, ViewAnswers DEF Kept
  <2>4. /\ r.cost \in Nat /\ r.built \in Nat /\ 12 * r.built <= r.cost + 36
        /\ IsErr(r.val) \/ (IsElement(r.val) /\ Held(f.fn.op, r.ist, r.val))
    <3> HIDE DEF r
    <3> QED
      BY <2>3 DEF FoldsTo
  <2>6. PartialFeedback(c, f, value) =
            IF ~Ok(p) THEN p
            ELSE IF IsError(r.val) THEN Deliver(Build(p, r.built), r.val)
            ELSE IF ~Ok(t) THEN t
            ELSE new_continuation(Build(t, 1), Binding(Refed(f.fn, r)), f.args, f.env)
    BY <1>2 DEF PartialFeedback, PartialFolded
  <2> HIDE DEF r
  <2>5. Kept(p, 0) /\ (Ok(p) => Kept(p, 48 + r.cost))
    <3>1. Kept(p, 48) /\ (Ok(p) => Kept(p, 48 + r.cost))
      <4>1. 48 \in Int
        OBVIOUS
      <4> QED
        BY <2>4, <4>1, SpendKept
    <3> QED
      BY <3>1, KeptNone
  <2> HIDE DEF p
  <2> DEFINE h == 48 + r.cost
  <2>7. h \in Int /\ 12 + 12 * r.built <= h /\ 0 + 12 * (r.built + 1) <= h
        /\ r.built + 1 \in Nat /\ 12 \in Int /\ 0 \in Int /\ 0 + 12 <= 12
    BY <2>4
  <2>8. Ok(p) => Kept(p, h)
    BY <2>5
  <2> HIDE DEF h
  <2>9. CASE Ok(p) /\ IsError(r.val)
    <3>1. IsErr(r.val)
      BY <2>4, <2>9, ElementKinds
    <3>2. Kept(Build(p, r.built), 12)
      BY <2>4, <2>7, <2>8, <2>9, BuildKept
    <3> QED
      BY <2>6, <2>7, <2>9, <3>1, <3>2, DeliverKept DEF Deliverable
  <2>10. CASE Ok(p) /\ ~IsError(r.val)
    <3>1. IsElement(r.val) /\ Held(f.fn.op, r.ist, r.val)
      BY <2>4, <2>10, ErrKind
    <3>2. FuncOk(Binding(Refed(f.fn, r)))
      <4>1. /\ Refed(f.fn, r).op = f.fn.op /\ Refed(f.fn, r).ist = r.ist
            /\ Refed(f.fn, r).state = r.val
        BY FuncKind DEF Refed
      <4> QED
        BY <2>2, <3>1, <4>1, BoundOk DEF Binding
    <3>3. Kept(q, 0)
      BY <2>7, <2>8, <2>10, BuildKept
    <3> HIDE DEF q
    <3>4. Kept(t, 0) /\ (Ok(t) => Kept(t, 320))
      BY <3>3, SpendKept DEF ELEMENT_ALLOC
    <3> HIDE DEF t
    <3>5. Ok(t) => Kept(Build(t, 1), 0)
      BY <3>4, BuildKept
    <3>6. IsElement(f.args) /\ IsElement(f.env)
      BY FrameParts
    <3>7. Ok(t) => Kept(new_continuation(Build(t, 1), Binding(Refed(f.fn, r)), f.args, f.env), 0)
      BY <3>2, <3>5, <3>6, PushKept
    <3> QED
      BY <2>6, <2>10, <3>4, <3>7
  <2> QED
    BY <2>5, <2>6, <2>9, <2>10
<1> QED
  BY <1>1, <1>2

\* A feedback that leaves its frame waiting with a new function object.
LEMMA AgainKept ==
    ASSUME NEW c, Kept(c, 48), NEW m \in 0..3, NEW f, FrameOk(f), f.fn.fn # "fin",
           NEW fn, FuncOk(fn)
    PROVE  Kept(new_continuation(Build(c, m), fn, f.args, f.env), 0)
<1>1. Kept(Build(c, m), 0)
  <2>1. m \in Nat /\ 0 + 12 * m <= 48 /\ 48 \in Int /\ 0 \in Int
    OBVIOUS
  <2> QED
    BY <2>1, BuildKept
<1>2. IsElement(f.args) /\ IsElement(f.env)
  BY FrameParts
<1> QED
  BY <1>1, <1>2, PushKept

\* fn_apply.step.
LEMMA ApplyStepKept ==
    ASSUME NEW c, Kept(c, 24), NEW f, FrameOk(f), f.fn.fn = "apply"
    PROVE  Kept(ApplyStep(c, f), 0)
<1> DEFINE state == f.fn.state
<1>1. IsElement(state) /\ ApplyHeld(state) /\ IsElement(f.env)
  BY DEF FrameOk, FuncOk
<1>2. \A msg : Kept(error(c, msg), 0)
  BY ErrorKept
<1>3. IsCons(f.args) => Kept(EvalNextArg(c, f), 0)
  BY NextArgKept
<1>4. \A x, y : IsElement(x) /\ IsElement(y) => Kept(TailEval(c, x, y), 0)
  BY EvalKept DEF TailEval
<1>5. IsCons(state) => IsElement(state.val1) /\ IsElement(state.val2)
  BY <1>1, ElementKinds
<1>6. IsCons(state) /\ ~IsNil(state.val1) =>
          IsElement(state.val2.val1) /\ IsElement(state.val2.val2)
  BY <1>1, <1>5, ElementKinds DEF ApplyHeld
<1>7. \/ ApplyStep(c, f) = EvalNextArg(c, f) /\ IsCons(f.args)
      \/ \E msg : ApplyStep(c, f) = error(c, msg)
      \/ ~IsCons(state) /\ ApplyStep(c, f) = TailEval(c, state, f.env)
      \/ IsCons(state) /\ ApplyStep(c, f) = TailEval(c, state.val2, f.env)
      \/ /\ IsCons(state) /\ ~IsNil(state.val1)
         /\ ApplyStep(c, f) = TailEval(c, state.val2.val2, state.val2.val1)
  BY DEF ApplyStep
<1> HIDE DEF state
<1> QED
  BY <1>1, <1>2, <1>3, <1>4, <1>5, <1>6, <1>7

\* fn_apply.feedback.
LEMMA ApplyFeedbackKept ==
    ASSUME NEW c, Kept(c, 48), NEW f, FrameOk(f), f.fn.fn = "apply", NEW value, IsElement(value)
    PROVE  Kept(ApplyFeedback(c, f, value), 0)
<1> DEFINE state == f.fn.state
           s1 == Cons(Nil, value)
           s2 == Cons(One, Cons(value, state.val2))
           again(m, st) == new_continuation(Build(c, m), SpecialFunc("apply", st), f.args, f.env)
<1>1. IsElement(state)
  BY FrameParts
<1>2. \A msg : Kept(error(c, msg), 0)
  BY ErrorKept
<1>3. IsElement(s1) /\ ApplyHeld(s1)
  BY NilElement, ElementPair, PairKind DEF ApplyHeld
<1>4. IsCons(state) => IsElement(s2) /\ ApplyHeld(s2)
  <2>1. IsCons(state) => IsElement(Cons(value, state.val2)) /\ IsCons(Cons(value, state.val2))
    BY <1>1, ElementKinds, ElementPair, PairKind
  <2> QED
    BY <2>1, NilElement, ElementPair, PairKind DEF ApplyHeld
<1>5. \/ \E msg : ApplyFeedback(c, f, value) = error(c, msg)
      \/ ApplyFeedback(c, f, value) = again(1 + 1, s1)
      \/ IsCons(state) /\ ApplyFeedback(c, f, value) = again(2 + 1, s2)
  BY DEF ApplyFeedback
<1> HIDE DEF s1, s2
<1>6. \A st : IsElement(st) /\ ApplyHeld(st) => FuncOk(SpecialFunc("apply", st))
  BY SpecialOk DEF FrameClasses, Receivers
<1>7. \A m \in 0..3 : \A st : IsElement(st) /\ ApplyHeld(st) => Kept(again(m, st), 0)
  BY <1>6, AgainKept
<1>8. 1 + 1 \in 0..3 /\ 2 + 1 \in 0..3
  OBVIOUS
<1> HIDE DEF again, state
<1> QED
  BY <1>2, <1>3, <1>4, <1>5, <1>7, <1>8

-----------------------------------------------------------------------------
(***************************************************************************)
(* fn_softfork and the guards.                                             *)
(***************************************************************************)
AfterTurn(list, g, i) == IF i = 0 THEN list ELSE IF IsCons(g[i-1]) THEN g[i-1].val2 ELSE Nil
AfterTurns(list, n, g) == g = [i \in 0..n |-> AfterTurn(list, g, i)]

\* The walk along a list has its turns.
LEMMA AfterTurnsExist ==
    ASSUME NEW list, NEW n \in Nat
    PROVE  \E g : AfterTurns(list, n, g)
<1> DEFINE T == {m \in 0..n : \E g : AfterTurns(list, m, g)}
<1>1. 0 \in T
  <2>1. AfterTurns(list, 0, [i \in 0..0 |-> list])
    BY DEF AfterTurns, AfterTurn
  <2> QED
    BY <2>1
<1>2. ASSUME NEW m \in 0..n, m # n, m \in T
      PROVE  m + 1 \in T
  <2>1. PICK g : AfterTurns(list, m, g)
    BY <1>2
  <2> DEFINE f == [i \in 0..m+1 |-> IF i = m + 1 THEN AfterTurn(list, g, i) ELSE g[i]]
  <2>2. \A i \in 0..m+1 : f[i] = AfterTurn(list, g, i)
    BY <2>1 DEF AfterTurns
  <2>3. \A i \in 0..m : f[i] = g[i]
    OBVIOUS
  <2>4. \A i \in 0..m+1 : i # 0 => i - 1 \in 0..m
    OBVIOUS
  <2> HIDE DEF f
  <2>5. \A i \in 0..m+1 : AfterTurn(list, f, i) = AfterTurn(list, g, i)
    BY <2>3, <2>4 DEF AfterTurn
  <2>6. f = [i \in 0..m+1 |-> f[i]]
    BY DEF f
  <2>7. AfterTurns(list, m + 1, f)
    BY <2>2, <2>5, <2>6 DEF AfterTurns
  <2> QED
    BY <1>2, <2>7
<1> HIDE DEF T
<1>3. n \in T
  BY <1>1, <1>2, Climb
<1> QED
  BY <1>3 DEF T

\* One link on, nil past the end.
Onward(x) == IF IsCons(x) THEN x.val2 ELSE Nil

\* The walk, turn by turn.
LEMMA AfterUnrolled ==
    ASSUME NEW list
    PROVE  /\ After(list, 0) = list
           /\ After(list, 1) = Onward(list)
           /\ After(list, 2) = Onward(Onward(list))
           /\ After(list, 3) = Onward(Onward(Onward(list)))
           /\ After(list, 4) = Onward(Onward(Onward(Onward(list))))
<1>1. ASSUME NEW k \in Nat
      PROVE  \E g : /\ After(list, k) = g[k] /\ g[0] = list
                    /\ \A i \in 1..k : g[i] = Onward(g[i-1])
  <2> DEFINE g == CHOOSE f : AfterTurns(list, k, f)
  <2>1. After(list, k) = g[k]
    BY DEF After, AfterTurns, AfterTurn
  <2>2. AfterTurns(list, k, g)
    BY AfterTurnsExist
  <2> HIDE DEF g
  <2>3. \A i \in 0..k : g[i] = AfterTurn(list, g, i)
    BY <2>2 DEF AfterTurns
  <2>4. 0 \in 0..k /\ \A i \in 1..k : i \in 0..k /\ i # 0
    OBVIOUS
  <2>5. g[0] = list /\ \A i \in 1..k : g[i] = Onward(g[i-1])
    BY <2>3, <2>4 DEF AfterTurn, Onward
  <2> QED
    BY <2>1, <2>5
<1>2. After(list, 0) = list
  BY <1>1
<1>3. After(list, 1) = Onward(list)
  <2>1. PICK g : After(list, 1) = g[1] /\ g[0] = list /\ \A i \in 1..1 : g[i] = Onward(g[i-1])
    BY <1>1
  <2> QED
    BY <2>1
<1>4. After(list, 2) = Onward(Onward(list))
  <2>1. PICK g : After(list, 2) = g[2] /\ g[0] = list /\ \A i \in 1..2 : g[i] = Onward(g[i-1])
    BY <1>1
  <2>2. g[1] = Onward(g[0]) /\ g[2] = Onward(g[1])
    BY <2>1
  <2> QED
    BY <2>1, <2>2
<1>5. After(list, 3) = Onward(Onward(Onward(list)))
  <2>1. PICK g : After(list, 3) = g[3] /\ g[0] = list /\ \A i \in 1..3 : g[i] = Onward(g[i-1])
    BY <1>1
  <2>2. g[1] = Onward(g[0]) /\ g[2] = Onward(g[1]) /\ g[3] = Onward(g[2])
    BY <2>1
  <2> QED
    BY <2>1, <2>2
<1>6. After(list, 4) = Onward(Onward(Onward(Onward(list))))
  <2>1. PICK g : After(list, 4) = g[4] /\ g[0] = list /\ \A i \in 1..4 : g[i] = Onward(g[i-1])
    BY <1>1
  <2>2. g[1] = Onward(g[0]) /\ g[2] = Onward(g[1]) /\ g[3] = Onward(g[2]) /\ g[4] = Onward(g[3])
    BY <2>1
  <2> QED
    BY <2>1, <2>2
<1> QED
  BY <1>2, <1>3, <1>4, <1>5, <1>6

\* The values stored are those of the first links.
LEMMA StoredValues ==
    ASSUME NEW list, IsElement(list)
    PROVE  /\ Stored(list) \in 0..5
           /\ \A k \in 0..Stored(list)-1 : IsElement(After(list, k).val1)
<1> DEFINE a(k) == After(list, k)
           S == {k \in 0..ListEntries-1 : IsCons(a(k))}
           n == Stored(list)
<1>1. \A x : IsElement(x) => IsElement(Onward(x)) /\ (IsCons(Onward(x)) => IsCons(x))
  BY ElementKinds, NilElement DEF Onward
<1>2. /\ IsElement(a(0)) /\ IsElement(a(1)) /\ IsElement(a(2)) /\ IsElement(a(3)) /\ IsElement(a(4))
      /\ IsCons(a(1)) => IsCons(a(0))
      /\ IsCons(a(2)) => IsCons(a(1))
      /\ IsCons(a(3)) => IsCons(a(2))
      /\ IsCons(a(4)) => IsCons(a(3))
  BY <1>1, AfterUnrolled
<1>3. n = Cardinality(S)
  BY DEF Stored
<1> HIDE DEF a, n
<1>4. \A k \in 0..4 : IsElement(a(k))
  BY <1>2
<1>5. \E j \in 0..5 : S = 0..j-1
  <2>1. ASSUME NEW k
        PROVE  k \in S <=> k \in 0..4 /\ IsCons(a(k))
    BY DEF ListEntries
  <2> HIDE DEF S
  <2>2. CASE ~IsCons(a(0))
    <3>1. S = 0..0-1
      BY <1>2, <2>1, <2>2
    <3> QED
      BY <3>1
  <2>3. CASE IsCons(a(0)) /\ ~IsCons(a(1))
    <3>1. S = 0..1-1
      BY <1>2, <2>1, <2>3
    <3> QED
      BY <3>1
  <2>4. CASE IsCons(a(1)) /\ ~IsCons(a(2))
    <3>1. S = 0..2-1
      BY <1>2, <2>1, <2>4
    <3> QED
      BY <3>1
  <2>5. CASE IsCons(a(2)) /\ ~IsCons(a(3))
    <3>1. S = 0..3-1
      BY <1>2, <2>1, <2>5
    <3> QED
      BY <3>1
  <2>6. CASE IsCons(a(3)) /\ ~IsCons(a(4))
    <3>1. S = 0..4-1
      BY <1>2, <2>1, <2>6
    <3> QED
      BY <3>1
  <2>7. CASE IsCons(a(4))
    <3>1. S = 0..5-1
      BY <1>2, <2>1, <2>7
    <3> QED
      BY <3>1
  <2> QED
    BY <1>2, <2>2, <2>3, <2>4, <2>5, <2>6, <2>7
<1>6. PICK j \in 0..5 : S = 0..j-1
  BY <1>5
<1>7. n = j
  <2>1. j - 1 \in Int
    OBVIOUS
  <2>2. Cardinality(0..j-1) = IF 0 > j - 1 THEN 0 ELSE j - 1 - 0 + 1
    BY <2>1, SpanSize, Zenon
  <2> HIDE DEF S
  <2>3. n = Cardinality(0..j-1)
    BY <1>3, <1>6, Zenon
  <2> DEFINE h == Cardinality(0..j-1)
  <2>4. n = h /\ h = IF 0 > j - 1 THEN 0 ELSE j - 1 - 0 + 1
    BY <2>2, <2>3
  <2> HIDE DEF h
  <2> QED
    BY <2>4
<1>8. \A k \in 0..j-1 : IsElement(a(k).val1)
  <2> TAKE k \in 0..j-1
  <2>1. IsCons(a(k)) /\ k \in 0..4
    BY <1>6 DEF ListEntries
  <2> HIDE DEF S
  <2> QED
    BY <1>4, <2>1, ElementKinds
<1> QED
  BY <1>7, <1>8 DEF a, n

\* A budget e that is worth what b is, and j for k more.
Revalued(b, k, e, j) == \A w : Worth(b, w) => \E v \in Int : Worth(e, v) /\ v + k >= w + j

\* Changing the budget only.
LEMMA BudgetKept ==
    ASSUME NEW c, NEW k \in Int, Kept(c, k), NEW e, Within(e),
           e.limit = c.budget.limit, e.used = c.budget.used,
           e.alloc_breach = c.budget.alloc_breach, NEW j \in Int,
           Revalued(c.budget, k, e, j),
           NEW s, StackOk(s), NEW d, d = [stack |-> s, budget |-> e, made |-> c.made]
    PROVE  Kept(d, j) /\ d.budget = e /\ d.stack = s
<1>1. c.made \in Nat
  BY DEF Kept, Fit
<1>3. /\ d.stack = s /\ d.budget = e /\ d.made = c.made
      /\ d \in [stack : {d.stack}, budget : {d.budget}, made : {d.made}]
  OBVIOUS
<1>2. Slack \in Int
  BY DEF Kept, Credit
<1>4. PICK w \in Int : Worth(c.budget, w) /\ 12 * c.made + k + Slack <= w
  BY DEF Kept, Credit
<1>5. PICK v \in Int : Worth(e, v) /\ v + k >= w + j
  BY <1>4 DEF Revalued
<1>6. 12 * d.made + j + Slack <= v
  BY <1>1, <1>2, <1>3, <1>4, <1>5
<1>7. Credit(d, j)
  BY <1>2, <1>3, <1>5, <1>6 DEF Credit
<1> QED
  BY <1>3, <1>7 DEF Kept, Fit

\* WorkItem.unwind gives back the STEP of a guard it abandons.
LEMMA UnwindKept ==
    ASSUME NEW c, NEW k \in Int, Kept(c, k)
    PROVE  /\ Kept(unwind(c), k) /\ unwind(c).stack = <<>> /\ ~unwind(c).budget.guard_breach
           /\ unwind(c).budget.used = c.budget.used
           /\ Guarded(c.budget) => Kept(unwind(c), k + 24)
<1> DEFINE b == c.budget
           e == clear_allowances(b)
           d == unwind(c)
<1>1. Within(b) /\ c \in [stack : {c.stack}, budget : {c.budget}, made : {c.made}]
  BY DEF Kept, Fit
<1>2. /\ Within(e) /\ ~e.guard_breach /\ e.limit = b.limit /\ e.used = b.used
      /\ e.alloc_breach = b.alloc_breach /\ Worth(e, b.used + 12) /\ b.used \in Nat
  BY <1>1, ClearWithin, WithinNumbers
<1>3. d = [stack |-> <<>>, budget |-> e, made |-> c.made]
  <2>1. d = [c EXCEPT !.stack = <<>>, !.budget = e]
    BY DEF unwind
  <2> HIDE DEF d, e
  <2> QED
    BY <1>1, <2>1
<1>4. StackOk(<<>>)
  <2>1. <<>> \in Seq({}) /\ Len(<<>>) = 0
    OBVIOUS
  <2> QED
    BY <2>1 DEF StackOk, IsSeq
<1> HIDE DEF d, e
<1>5. ASSUME NEW j \in Int, j = k \/ (Guarded(b) /\ j = k + 24)
      PROVE  Kept(d, j) /\ d.budget = e /\ d.stack = <<>>
  <2>1. Revalued(b, k, e, j)
    <3> SUFFICES ASSUME NEW w, Worth(b, w)
                 PROVE  \E v \in Int : Worth(e, v) /\ v + k >= w + j
      BY DEF Revalued
    <3>1. w \in Int /\ w <= b.used + 12 /\ (Guarded(b) => w <= b.used - 12)
      BY <1>1, WorthBelow
    <3>2. b.used + 12 \in Int /\ b.used + 12 + k >= w + j
      BY <1>2, <1>5, <3>1
    <3> QED
      BY <1>2, <3>2
  <2> QED
    BY <1>2, <1>3, <1>4, <1>5, <2>1, BudgetKept
<1>6. k + 24 \in Int
  OBVIOUS
<1> QED
  BY <1>2, <1>5, <1>6 DEF d, b

\* A guard whose declared cost its context has been charged.
LEMMA EnterGuardKept ==
    ASSUME NEW c, NEW declared \in Nat, Kept(c, 24 + declared), ~c.budget.guard_breach,
           declared <= Latest(c.budget), NEW program, IsElement(program),
           NEW guardenv, IsElement(guardenv)
    PROVE  Kept(EnterGuard(c, declared, program, guardenv), 0)
<1> DEFINE b == c.budget
           e == push_allowance(b, declared)
           d == [c EXCEPT !.budget = push_allowance(@, declared)]
           g == Spend(d, GUARD)
           exit == SpecialFunc("exitguard", Nil)
<1>1. Within(b) /\ StackOk(c.stack)
      /\ c \in [stack : {c.stack}, budget : {c.budget}, made : {c.made}]
  BY DEF Kept, Fit
<1>2. /\ Within(e) /\ e.limit = b.limit /\ e.used = b.used /\ e.alloc_breach = b.alloc_breach
      /\ \A w : Worth(b, w) => Worth(e, w - declared - 24)
  BY <1>1, PushWithin
<1> HIDE DEF e
<1>3. d = [stack |-> c.stack, budget |-> e, made |-> c.made]
  <2>1. d = [c EXCEPT !.budget = e]
    BY DEF e
  <2> HIDE DEF d
  <2> QED
    BY <1>1, <2>1
<1> HIDE DEF d
<1>4. Kept(d, 0)
  <2> DEFINE k == 24 + declared
  <2>1. k \in Int
    OBVIOUS
  <2>2. Revalued(b, k, e, 0)
    <3> SUFFICES ASSUME NEW w, Worth(b, w)
                 PROVE  \E v \in Int : Worth(e, v) /\ v + k >= w + 0
      BY DEF Revalued
    <3>1. w \in Int
      BY <1>1, WorthBelow
    <3>2. w - declared - 24 \in Int /\ w - declared - 24 + k >= w + 0
      BY <3>1
    <3> QED
      BY <1>2, <3>2
  <2>3. Kept(c, k)
    OBVIOUS
  <2> HIDE DEF k
  <2> DEFINE j == 0
  <2>4. j \in Int /\ Revalued(b, k, e, j)
    BY <2>2
  <2> HIDE DEF j
  <2>5. /\ Within(e) /\ e.limit = b.limit /\ e.used = b.used
        /\ e.alloc_breach = b.alloc_breach
    BY <1>2
  <2>6. Kept(d, j)
    BY <1>1, <1>3, <2>1, <2>3, <2>4, <2>5, BudgetKept
  <2> QED
    BY <2>6 DEF j
<1>5. Kept(g, 0) /\ (Ok(g) => Kept(g, 56))
  <2>1. 56 \in Nat /\ 0 \in Int /\ 0 + 56 = 56
    OBVIOUS
  <2> QED
    BY <1>4, <2>1, SpendKept DEF GUARD
<1>6. EnterGuard(c, declared, program, guardenv) =
          IF ~Ok(g) THEN g
          ELSE eval_arg(new_continuation(Build(g, 1), exit, Nil, Nil), program, guardenv)
  BY DEF EnterGuard, d
<1> HIDE DEF g
<1>7. Ok(g) => Kept(Build(g, 1), 44)
  BY <1>5, BuildKept
<1>8. FuncOk(exit)
  BY SpecialOk, NilElement DEF FrameClasses, Receivers
<1> HIDE DEF exit
<1>9. Ok(g) => Kept(new_continuation(Build(g, 1), exit, Nil, Nil), 44)
  BY <1>7, <1>8, PushKept, NilElement
<1>10. Ok(g) => Kept(eval_arg(new_continuation(Build(g, 1), exit, Nil, Nil), program, guardenv), 0)
  BY <1>9, EvalKept
<1> QED
  BY <1>5, <1>6, <1>10

\* fn_exitguard.feedback.
LEMMA ExitGuardKept ==
    ASSUME NEW c, Kept(c, 48), Ok(c), NEW f, NEW value
    PROVE  Kept(ExitGuardFeedback(c, f, value), 0)
<1> DEFINE b == c.budget
           e == pop_allowance(b)
           d == [c EXCEPT !.budget = pop_allowance(@)]
<1>1. Within(b) /\ StackOk(c.stack) /\ ~b.guard_breach
      /\ c \in [stack : {c.stack}, budget : {c.budget}, made : {c.made}]
  BY DEF Kept, Fit, Ok, Latched
<1>2. /\ Within(e) /\ e.limit = b.limit /\ e.used = b.used /\ e.alloc_breach = b.alloc_breach
      /\ \A w : Worth(b, w) => \E v \in Int : Worth(e, v) /\ v >= w
  <2>1. CASE Guarded(b)
    <3>1. /\ Within(e) /\ e.limit = b.limit /\ e.used = b.used
          /\ e.alloc_breach = b.alloc_breach
          /\ \A w : Worth(b, w) => \E v \in Int : Worth(e, v) /\ v >= w + 24
      BY <1>1, <2>1, PopWithin
    <3> HIDE DEF e
    <3>2. ASSUME NEW w, Worth(b, w) PROVE \E v \in Int : Worth(e, v) /\ v >= w
      <4>1. w \in Int
        BY <1>1, <3>2, WorthBelow
      <4>2. PICK v \in Int : Worth(e, v) /\ v >= w + 24
        BY <3>1, <3>2
      <4>3. v >= w
        BY <4>1, <4>2
      <4> QED
        BY <4>2, <4>3
    <3> QED
      BY <3>1, <3>2
  <2>2. CASE ~Guarded(b)
    <3>1. e = b
      <4>1. b.allowances = <<>> /\ SubSeq(<<>>, 1, Len(<<>>) - 1) = <<>>
        BY <2>2 DEF Guarded
      <4>2. e = [b EXCEPT !.allowances = <<>>]
        BY <4>1 DEF pop_allowance
      <4> HIDE DEF e
      <4> QED
        BY <1>1, <4>1, <4>2 DEF Within
    <3>2. \A w : Worth(b, w) => w \in Int
      BY <1>1, WorthBelow
    <3>3. \A w \in Int : w >= w
      OBVIOUS
    <3> HIDE DEF e
    <3> QED
      BY <1>1, <3>1, <3>2, <3>3
  <2> QED
    BY <2>1, <2>2
<1> HIDE DEF e
<1>3. d = [stack |-> c.stack, budget |-> e, made |-> c.made]
  <2>1. d = [c EXCEPT !.budget = e]
    BY DEF e
  <2> HIDE DEF d
  <2> QED
    BY <1>1, <2>1
<1>4. \/ \E msg : ExitGuardFeedback(c, f, value) = error(d, msg)
      \/ ExitGuardFeedback(c, f, value) = fin_value(d, Nil)
  BY DEF ExitGuardFeedback
<1> HIDE DEF d
<1>5. Kept(d, 48)
  <2>1. Revalued(b, 48, e, 48)
    <3> SUFFICES ASSUME NEW w, Worth(b, w)
                 PROVE  \E v \in Int : Worth(e, v) /\ v + 48 >= w + 48
      BY DEF Revalued
    <3>1. w \in Int
      BY <1>1, WorthBelow
    <3>2. PICK v \in Int : Worth(e, v) /\ v >= w
      BY <1>2
    <3>3. v + 48 >= w + 48
      BY <3>1, <3>2
    <3> QED
      BY <3>2, <3>3
  <2>2. 48 \in Int
    OBVIOUS
  <2> QED
    BY <1>1, <1>2, <1>3, <2>1, <2>2, BudgetKept
<1>6. Kept(fin_value(d, Nil), 0)
  BY <1>5, FinKept, NilElement DEF Deliverable
<1>7. \A msg : Kept(error(d, msg), 0)
  BY <1>5, ErrorKept
<1> QED
  BY <1>4, <1>6, <1>7

\* fn_softfork.feedback.
LEMMA SoftforkFeedbackKept ==
    ASSUME NEW c, Kept(c, 48), NEW f, FrameOk(f), f.fn.fn = "softfork",
           NEW value, IsElement(value)
    PROVE  Kept(SoftforkFeedback(c, f, value), 0)
<1> DEFINE state == f.fn.state
           again(m, st) == new_continuation(Build(c, m), SpecialFunc("softfork", st), f.args, f.env)
<1>1. IsElement(state)
  BY FrameParts
<1>2. IsElement(Cons(value, state)) /\ IsElement(Cons(Nil, state))
  BY <1>1, NilElement, ElementPair
<1>3. \E m \in {0, 1} : \E st \in {state, Cons(value, state), Cons(Nil, state)} :
          SoftforkFeedback(c, f, value) = again(m + 1, st)
  BY DEF SoftforkFeedback
<1>4. \A st : IsElement(st) => FuncOk(SpecialFunc("softfork", st))
  BY SpecialOk DEF FrameClasses, Receivers
<1>5. \A m \in 0..3 : \A st : IsElement(st) => Kept(again(m, st), 0)
  BY <1>4, AgainKept
<1>6. \A m \in {0, 1} : m + 1 \in 0..3
  OBVIOUS
<1> HIDE DEF again, state
<1> QED
  BY <1>1, <1>2, <1>3, <1>5, <1>6

\* fn_softfork.finish: the declared cost is charged in full before the guard opens.
LEMMA SoftforkFinishKept ==
    ASSUME NEW c, Kept(c, 24), NEW state, IsElement(state)
    PROVE  Kept(SoftforkFinish(c, state), 0)
<1> DEFINE count    == Stored(state)
           val(k)   == After(state, count - k).val1
           v1       == val(1)
           v2       == val(2)
           declared == AsInt(v1)
           scanned  == IF IsAtom(v1) THEN Spend(c, atom_scan(v1.width)) ELSE c
           lump     == Spend(scanned, declared)
           shaped   == count = 4 /\ IsAtom(v2)
           read     == IF shaped THEN Spend(lump, atom_scan(v2.width)) ELSE lump
           x        == SoftforkFinish(c, state)
<1>1. x = IF count = 0 THEN error(c, "softfork requires positive cost")
          ELSE IF ~Ok(scanned) THEN scanned
          ELSE IF ~IsAtom(v1) THEN error(scanned, "softfork requires positive cost")
          ELSE IF declared < 1 \/ declared > SOFTFORK_COST_MAX
          THEN error(scanned, "softfork requires positive cost")
          ELSE IF ~Ok(read) THEN read
          ELSE IF shaped /\ AsInt(v2) \in job.extensions
          THEN EnterGuard(read, declared, val(3), val(4))
          ELSE fin_value(read, Nil)
  BY DEF SoftforkFinish
<1>2. count \in 0..5 /\ \A k \in 0..count-1 : IsElement(After(state, k).val1)
  BY StoredValues
<1> HIDE DEF count
<1>3. count # 0 => IsElement(val(1))
  <2>1. count # 0 => count - 1 \in 0..count-1
    BY <1>2
  <2> QED
    BY <1>2, <2>1
<1>4. count = 4 => IsElement(val(2)) /\ IsElement(val(3)) /\ IsElement(val(4))
  <2>1. count = 4 => count - 2 \in 0..count-1 /\ count - 3 \in 0..count-1 /\ count - 4 \in 0..count-1
    BY <1>2
  <2> QED
    BY <1>2, <2>1
<1> HIDE DEF val, v1, v2
<1>5. \A v : IsElement(v) /\ IsAtom(v) => atom_scan(v.width) \in Nat /\ AsInt(v) \in Int
  <2> SUFFICES ASSUME NEW v, IsElement(v), IsAtom(v)
               PROVE  atom_scan(v.width) \in Nat /\ AsInt(v) \in Int
    OBVIOUS
  <2>1. IsWhole(v)
    BY ElementKinds
  <2>2. v.width \in Nat /\ AsInt(v) \in Int
    BY <2>1, WholeAtom, IntegerOf
  <2> QED
    BY <2>2 DEF atom_scan
<1> HIDE DEF declared, scanned, lump, shaped, read, x
<1>6. ASSUME count # 0 PROVE Kept(scanned, 24)
  <2>1. IsAtom(v1) => atom_scan(v1.width) \in Nat
    BY <1>3, <1>5, <1>6 DEF v1
  <2>2. IsAtom(v1) => Kept(Spend(c, atom_scan(v1.width)), 24)
    <3>1. 24 \in Int
      OBVIOUS
    <3> QED
      BY <2>1, <3>1, SpendKept
  <2> QED
    BY <2>2 DEF scanned
<1>7. \A d : Kept(d, 24) => /\ Kept(d, 0) /\ Kept(fin_value(d, Nil), 0)
                            /\ \A msg : Kept(error(d, msg), 0)
  BY KeptNone, FinKept, ErrorKept, NilElement DEF Deliverable
<1>8. ASSUME count # 0, IsAtom(v1), ~(declared < 1)
      PROVE  /\ declared \in Nat /\ Kept(read, 24)
             /\ Ok(read) => Kept(read, 24 + declared) /\ declared <= Latest(read.budget)
  <2>1. declared \in Nat
    <3>1. declared \in Int
      BY <1>3, <1>5, <1>8 DEF v1, declared
    <3> QED
      BY <1>8, <3>1
  <2>2. Kept(scanned, 24)
    BY <1>6, <1>8
  <2>3. Latest(scanned.budget) \in Nat
    BY <2>2, WithinNumbers DEF Kept, Fit
  <2>4. /\ Kept(lump, 24)
        /\ Ok(lump) => /\ Kept(lump, 24 + declared)
                       /\ Latest(lump.budget) = Latest(scanned.budget) + declared
    <3>1. 24 \in Int
      OBVIOUS
    <3> QED
      BY <2>1, <2>2, <3>1, SpendKept DEF lump
  <2>5. CASE ~shaped
    <3>1. read = lump
      BY <2>5 DEF read
    <3> QED
      BY <2>1, <2>3, <2>4, <3>1
  <2>6. CASE shaped
    <3> DEFINE m == atom_scan(v2.width)
               h == 24 + declared
    <3>1. m \in Nat
      BY <1>4, <1>5, <2>6 DEF shaped, v2
    <3>2. read = Spend(lump, m)
      BY <2>6 DEF read
    <3> HIDE DEF m
    <3>3. /\ Kept(read, 24)
          /\ Ok(read) => Ok(lump) /\ Latest(read.budget) = Latest(lump.budget) + m
      <4>1. 24 \in Int
        OBVIOUS
      <4> QED
        BY <2>4, <3>1, <3>2, <4>1, SpendKept
    <3>4. Ok(read) => Kept(read, h)
      <4>1. h \in Int
        BY <2>1
      <4>2. Ok(read) => Kept(lump, h)
        BY <2>4, <3>3
      <4> HIDE DEF h
      <4> QED
        BY <3>1, <3>2, <4>1, <4>2, SpendKept
    <3>5. Ok(read) => declared <= Latest(read.budget)
      BY <2>1, <2>3, <2>4, <3>1, <3>3
    <3> QED
      BY <2>1, <3>3, <3>4, <3>5
  <2> QED
    BY <2>5, <2>6
<1>9. ASSUME count # 0, IsAtom(v1), ~(declared < 1), Ok(read), shaped
      PROVE  Kept(EnterGuard(read, declared, val(3), val(4)), 0)
  <2>1. IsElement(val(3)) /\ IsElement(val(4))
    BY <1>4, <1>9 DEF shaped
  <2>2. ~read.budget.guard_breach
    BY <1>9 DEF Ok, Latched
  <2> DEFINE y == val(3)
             z == val(4)
  <2>3. IsElement(y) /\ IsElement(z)
    BY <2>1
  <2> HIDE DEF y, z
  <2>4. Kept(EnterGuard(read, declared, y, z), 0)
    BY <1>8, <1>9, <2>2, <2>3, EnterGuardKept
  <2> QED
    BY <2>4 DEF y, z
<1> SUFFICES Kept(x, 0)
  BY DEF x
<1>10. CASE count = 0
  BY <1>1, <1>7, <1>10
<1>11. CASE count # 0 /\ (~Ok(scanned) \/ ~IsAtom(v1) \/ declared < 1)
  BY <1>1, <1>6, <1>7, <1>11
<1>12. CASE count # 0 /\ Ok(scanned) /\ IsAtom(v1) /\ ~(declared < 1)
  <2>1. Kept(scanned, 24) /\ Kept(read, 24)
    BY <1>6, <1>8, <1>12
  <2> QED
    BY <1>1, <1>7, <1>9, <1>12, <2>1
<1> QED
  BY <1>10, <1>11, <1>12

\* fn_softfork.step.
LEMMA SoftforkStepKept ==
    ASSUME NEW c, Kept(c, 24), NEW f, FrameOk(f), f.fn.fn = "softfork"
    PROVE  Kept(SoftforkStep(c, f), 0)
<1>1. Kept(SoftforkFinish(c, f.fn.state), 0)
  BY FrameParts, SoftforkFinishKept
<1>2. \A msg : Kept(error(c, msg), 0)
  BY ErrorKept
<1>3. IsCons(f.args) => Kept(EvalNextArg(c, f), 0)
  BY NextArgKept
<1> QED
  BY <1>1, <1>2, <1>3 DEF SoftforkStep

-----------------------------------------------------------------------------
(***************************************************************************)
(* Delivery and evaluation.                                                *)
(***************************************************************************)
\* WorkItem.feedback's dispatch, to a frame that can receive.
LEMMA ReceiveKept ==
    ASSUME NEW c, Kept(c, 48), Ok(c), NEW f, FrameOk(f), f.fn.fn \in Receivers,
           NEW value, IsElement(value)
    PROVE  Kept(Receive(c, f, value), 0)
<1>1. CASE f.fn.fn = "op"
  BY <1>1, OpFeedbackKept DEF Receive
<1>2. CASE f.fn.fn = "partial"
  BY <1>2, PartialFeedbackKept DEF Receive
<1>3. CASE f.fn.fn = "apply"
  BY <1>3, ApplyFeedbackKept DEF Receive
<1>4. CASE f.fn.fn = "softfork"
  BY <1>4, SoftforkFeedbackKept DEF Receive
<1>5. CASE f.fn.fn = "exitguard"
  BY <1>5, ExitGuardKept DEF Receive
<1> QED
  BY <1>1, <1>2, <1>3, <1>4, <1>5 DEF Receivers

\* Taking the top frame off.
LEMMA PoppedKept ==
    ASSUME NEW c, NEW k \in Int, Kept(c, k), c.stack # <<>>
    PROVE  /\ Kept(Popped(c), k) /\ Popped(c).budget = c.budget
           /\ Popped(c).stack = Below(c.stack) /\ FrameOk(Top(c.stack))
<1>1. StackOk(c.stack)
  BY DEF Kept, Fit
<1>2. /\ IsSeq(Below(c.stack)) /\ Len(c.stack) \in Nat \ {0}
      /\ Len(Below(c.stack)) = Len(c.stack) - 1
      /\ \A i \in 1..Len(c.stack)-1 : Below(c.stack)[i] = c.stack[i]
  BY <1>1, BelowEntries DEF StackOk
<1>3. StackOk(Below(c.stack))
  BY <1>1, <1>2 DEF StackOk
<1>4. FrameOk(Top(c.stack))
  BY <1>1, <1>2 DEF StackOk, Top
<1>5. Popped(c) = [c EXCEPT !.stack = Below(c.stack)]
  BY DEF Popped
<1> QED
  BY <1>3, <1>4, <1>5, StackKept

\* WorkItem.feedback: a second STEP is charged, then the value delivered.
LEMMA DeliveryKept ==
    ASSUME NEW c, Kept(c, 24), Receiving(c.stack), NEW value, Deliverable(value)
    PROVE  Kept(feedback(c, value), 0)
<1> DEFINE p == Spend(c, STEP)
<1>1. feedback(c, value) =
          IF IsError(value) THEN fin_value(unwind(c), value)
          ELSE IF c.stack = <<>> THEN fin_value(c, value)
          ELSE IF ~Ok(p) THEN p
          ELSE Receive(Popped(p), Top(p.stack), value)
  BY DEF feedback
<1>2. /\ Kept(p, 24) /\ p.stack = c.stack
      /\ Ok(p) => Kept(p, 48)
  <2>1. 24 \in Int /\ 24 + 24 = 48 /\ 24 \in Nat
    OBVIOUS
  <2> QED
    BY <2>1, SpendKept DEF STEP
<1> HIDE DEF p
<1>3. Kept(fin_value(unwind(c), value), 0)
  <2>1. Kept(unwind(c), 24)
    <3>1. 24 \in Int
      OBVIOUS
    <3> QED
      BY <3>1, UnwindKept
  <2> QED
    BY <2>1, FinKept
<1>4. Kept(fin_value(c, value), 0) /\ Kept(p, 0)
  BY <1>2, FinKept, KeptNone
<1>5. ASSUME ~IsError(value), c.stack # <<>>, Ok(p)
      PROVE  Kept(Receive(Popped(p), Top(p.stack), value), 0)
  <2>1. IsElement(value)
    BY <1>5, ErrKind DEF Deliverable
  <2>2. /\ Kept(Popped(p), 48) /\ Ok(Popped(p)) /\ FrameOk(Top(p.stack))
    <3>1. 48 \in Int
      OBVIOUS
    <3> QED
      BY <1>2, <1>5, <3>1, PoppedKept DEF Ok
  <2>3. Top(p.stack).fn.fn \in Receivers
    <3>1. Len(c.stack) \in Nat \ {0}
      BY <1>5, BelowEntries DEF Kept, Fit, StackOk
    <3> QED
      BY <1>2, <3>1 DEF Receiving, Top
  <2> QED
    BY <2>1, <2>2, <2>3, ReceiveKept
<1> QED
  BY <1>1, <1>3, <1>4, <1>5

\* A reference is looked up in one piece.
LEMMA EnvironmentWhole ==
    ASSUME NEW env, NEW n
    PROVE  ResolveEnv(env, n).legs = <<>>
<1> DEFINE w == Edges(n)
           g == CHOOSE f : EdgeTurns(env, n, w, f)
           walked == Cardinality({k \in 0..w-1 : IsCons(g[k])})
<1>1. ResolveEnv(env, n) = IF walked = w THEN Path(ENV_EDGE * walked, 0, g[w])
                           ELSE Path(ENV_EDGE * (walked + 1), 1, g[w])
  BY DEF ResolveEnv, EdgeTurns, EdgeTurn
<1> HIDE DEF w, g, walked
<1> QED
  BY <1>1, PathFields

\* fn_blleval of an atom.
LEMMA EvalAtomKept ==
    ASSUME NEW c, Kept(c, 24), NEW a, IsElement(a), IsAtom(a), NEW env, IsElement(env)
    PROVE  Kept(EvalAtom(c, a, env), 0)
<1> DEFINE s == Spend(c, atom_scan(a.width))
           n == AsInt(a)
           r == ResolveEnv(env, n)
           p == Spend(s, r.cost)
<1>1. IsWhole(a) /\ atom_scan(a.width) \in Nat /\ n \in Int
  <2>1. IsWhole(a)
    BY ElementKinds
  <2>2. a.width \in Nat /\ n \in Int
    BY <2>1, WholeAtom, IntegerOf
  <2> QED
    BY <2>1, <2>2 DEF atom_scan
<1>2. EvalAtom(c, a, env) =
          IF ~Ok(s) THEN s
          ELSE IF n < 1 THEN fin_value(s, a)
          ELSE IF ~Ok(p) THEN p
          ELSE fin_value(Build(p, r.built), r.val)
  BY DEF EvalAtom
<1>3. EndsWell(1, r) /\ r.legs = <<>>
  BY <1>1, EnvironmentEnds, EnvironmentWhole
<1> HIDE DEF r
<1>4. /\ r.cost \in Nat /\ r.built \in Nat /\ Deliverable(r.val)
      /\ 12 * r.built <= r.cost + 12
  <2>1. /\ r.cost \in Nat /\ r.built \in Nat /\ Deliverable(r.val)
        /\ \E q : Runs(r.legs, q) /\ 12 * r.built <= r.cost + 12 + q[Len(r.legs)]
    BY <1>3 DEF EndsWell
  <2>2. PICK q : Runs(r.legs, q) /\ 12 * r.built <= r.cost + 12 + q[Len(r.legs)]
    BY <2>1
  <2>3. q[Len(r.legs)] = 0
    <3>1. Len(r.legs) = 0
      BY <1>3
    <3>2. q[0] = 0
      BY <2>2, RunsOf
    <3> QED
      BY <3>1, <3>2
  <2> QED
    BY <2>1, <2>2, <2>3
<1>5. Kept(s, 24)
  <2>1. 24 \in Int
    OBVIOUS
  <2> QED
    BY <1>1, <2>1, SpendKept
<1> HIDE DEF s
<1>6. Kept(p, 24) /\ (Ok(p) => Kept(p, 24 + r.cost))
  <2>1. 24 \in Int
    OBVIOUS
  <2> QED
    BY <1>4, <1>5, <2>1, SpendKept
<1> HIDE DEF p
<1>7. Kept(s, 0) /\ Kept(p, 0) /\ Kept(fin_value(s, a), 0)
  BY <1>5, <1>6, KeptNone, FinKept DEF Deliverable
<1>8. Ok(p) => Kept(fin_value(Build(p, r.built), r.val), 0)
  <2> DEFINE h == 24 + r.cost
  <2>1. h \in Int /\ 12 + 12 * r.built <= h /\ 12 \in Int /\ 0 \in Int /\ 0 + 12 <= 12
    BY <1>4
  <2>2. Ok(p) => Kept(p, h)
    BY <1>6
  <2> HIDE DEF h
  <2>3. Ok(p) => Kept(Build(p, r.built), 12)
    BY <1>4, <2>1, <2>2, BuildKept
  <2> QED
    BY <1>4, <2>1, <2>3, FinKept
<1> QED
  BY <1>2, <1>7, <1>8

\* The function object an operator number names.
LEMMA OpcodeOk ==
    ASSUME NEW n \in Int, IsFunc(OpcodeFunc(n))
    PROVE  FuncOk(OpcodeFunc(n))
<1>1. \A op \in Operators, i \in Nat : FuncOk(InitialOp(op, i))
  <2> TAKE op \in Operators, i \in Nat
  <2> DEFINE ist == initial_int_state(op, i)
             st == initial_state(op)
  <2>1. IsElement(st) /\ Held(op, ist, st)
    BY InitialHeld
  <2> HIDE DEF ist, st
  <2>2. FuncOk(Func("op", op, ist, st))
    BY <2>1, BoundOk
  <2> QED
    BY <2>2 DEF InitialOp, ist, st
<1>2. CASE n \in DOMAIN SpecialOps
  <2>1. n \in 0..3 /\ SpecialOps[n] \in {"quote", "apply", "softfork", "partial"}
    BY <1>2 DEF SpecialOps
  <2>2. OpcodeFunc(n) = SpecialFunc(SpecialOps[n], Nil)
    BY <1>2 DEF OpcodeFunc
  <2> DEFINE fn == SpecialOps[n]
  <2> HIDE DEF fn
  <2>3. fn \in FrameClasses /\ fn # "op"
    BY <2>1 DEF FrameClasses, Receivers, fn
  <2>4. FuncOk(SpecialFunc(fn, Nil))
    BY <2>3, SpecialOk, NilElement
  <2> QED
    BY <2>2, <2>4 DEF fn
<1>3. CASE n \notin DOMAIN SpecialOps /\ n \in DOMAIN Op_FUNCS
  <2>1. OpcodeFunc(n) = InitialOp(Op_FUNCS[n], n)
    BY <1>3 DEF OpcodeFunc
  <2> QED
    BY <1>1, <1>3, <2>1, TableOperators
<1>4. CASE n \notin DOMAIN SpecialOps /\ n \notin DOMAIN Op_FUNCS
  <2>1. OpcodeFunc(n) = InitialOp("unknown", n) /\ n \in Nat
    <3>1. ~IsFunc(Nil)
      BY NilElement
    <3> QED
      BY <1>4, <3>1 DEF OpcodeFunc
  <2>2. "unknown" \in Operators
    BY DEF Operators
  <2> QED
    BY <1>1, <2>1, <2>2
<1> QED
  BY <1>2, <1>3, <1>4

\* fn_blleval of a pair.
LEMMA EvalConsKept ==
    ASSUME NEW c, Kept(c, 24), NEW expr, IsElement(expr), IsCons(expr),
           NEW env, IsElement(env)
    PROVE  Kept(EvalCons(c, expr, env), 0)
<1> DEFINE op == expr.val1
           s == Spend(c, atom_scan(op.width))
           func == OpcodeFunc(AsInt(op))
           m == InitialOpBuilt(func.op)
           r == ResolveOpcode(c, op)
<1>1. IsElement(op) /\ IsElement(expr.val2)
  BY ElementKinds
<1> HIDE DEF op
<1>2. IsAtom(op) => atom_scan(op.width) \in Nat /\ AsInt(op) \in Int
  <2> SUFFICES ASSUME IsAtom(op) PROVE atom_scan(op.width) \in Nat /\ AsInt(op) \in Int
    OBVIOUS
  <2>1. IsWhole(op)
    BY <1>1, ElementKinds
  <2>2. op.width \in Nat /\ AsInt(op) \in Int
    BY <2>1, WholeAtom, IntegerOf
  <2> QED
    BY <2>2 DEF atom_scan
<1>3. IsAtom(op) => Kept(s, 24)
  <2>1. 24 \in Int
    OBVIOUS
  <2> QED
    BY <1>2, <2>1, SpendKept
<1>4. IsAtom(op) /\ IsFunc(func) => FuncOk(func)
  BY <1>2, OpcodeOk
<1>5. r = IF ~IsAtom(op) THEN [c |-> c, func |-> Nil]
          ELSE IF ~Ok(s) \/ ~IsFunc(func) THEN [c |-> s, func |-> Nil]
          ELSE [c |-> Build(s, m), func |-> func]
  BY DEF ResolveOpcode
<1>6. m \in 1..2
  BY InitialCount
<1> HIDE DEF s, func, m
<1>7. IsAtom(op) => Kept(Build(s, m), 0)
  <2>1. m \in Nat /\ 0 + 12 * m <= 24 /\ 24 \in Int /\ 0 \in Int
    BY <1>6
  <2> QED
    BY <1>3, <2>1, BuildKept
<1>8. \/ r.func = Nil /\ Kept(r.c, 24)
      \/ FuncOk(r.func) /\ Kept(r.c, 0)
  BY <1>3, <1>4, <1>5, <1>7
<1>9. EvalCons(c, expr, env) =
          IF IsFunc(r.func) THEN new_continuation(r.c, r.func, expr.val2, env)
          ELSE IF Ok(r.c) THEN error(r.c, "invalid opcode")
          ELSE r.c
  BY DEF EvalCons, op
<1> HIDE DEF r
<1>10. CASE r.func = Nil /\ Kept(r.c, 24)
  <2>1. \A msg : Kept(error(r.c, msg), 0)
    BY <1>10, ErrorKept
  <2>2. Kept(r.c, 0) /\ ~IsFunc(r.func)
    BY <1>10, KeptNone, NilElement
  <2> QED
    BY <1>9, <2>1, <2>2
<1>11. CASE FuncOk(r.func) /\ Kept(r.c, 0)
  <2>1. IsFunc(r.func)
    BY <1>11, FuncKind DEF FuncOk
  <2>2. Kept(new_continuation(r.c, r.func, expr.val2, env), 0)
    BY <1>1, <1>11, PushKept
  <2> QED
    BY <1>9, <2>1, <2>2
<1> QED
  BY <1>8, <1>10, <1>11

\* What fn_blleval makes of an expression.
LEMMA BllEvalWays ==
    ASSUME NEW c, NEW f, IsElement(f.args)
    PROVE  \/ BllEvalStep(c, f) = fin_value(c, f.args)
           \/ \E msg : BllEvalStep(c, f) = error(c, msg)
           \/ IsAtom(f.args) /\ BllEvalStep(c, f) = EvalAtom(c, f.args, f.env)
           \/ IsCons(f.args) /\ BllEvalStep(c, f) = EvalCons(c, f.args, f.env)
<1> DEFINE x == BllEvalStep(c, f)
           e == f.args
<1>1. ~IsError(e) /\ (IsAtom(e) => IsBll(e) /\ ~IsCons(e))
      /\ (IsAtom(e) \/ IsCons(e) \/ (IsFunc(e) /\ ~IsBll(e)))
  <2>1. IsElement(e)
    OBVIOUS
  <2> HIDE DEF e
  <2>2. (IsAtom(e) => IsBll(e)) /\ (IsFunc(e) => ~IsBll(e))
    BY DEF IsAtom, IsBll, IsFunc
  <2> QED
    BY <2>1, <2>2, ElementKinds
<1>2. CASE IsAtom(e)
  BY <1>1, <1>2 DEF BllEvalStep
<1>3. CASE ~IsBll(e)
  <2>1. x = error(c, "cannot evaluate a function object")
    BY <1>1, <1>3 DEF BllEvalStep
  <2> QED
    BY <2>1
<1>4. CASE IsBll(e) /\ IsCons(e) /\ ~IsAtom(e)
  BY <1>1, <1>4 DEF BllEvalStep
<1> QED
  BY <1>1, <1>2, <1>3, <1>4

\* fn_blleval.step.
LEMMA BllEvalKept ==
    ASSUME NEW c, Kept(c, 24), NEW f, FrameOk(f), f.fn.fn = "blleval"
    PROVE  Kept(BllEvalStep(c, f), 0)
<1>1. IsElement(f.args) /\ IsElement(f.env)
  BY FrameParts
<1>2. \A msg : Kept(error(c, msg), 0)
  BY ErrorKept
<1>3. IsAtom(f.args) => Kept(EvalAtom(c, f.args, f.env), 0)
  BY <1>1, EvalAtomKept
<1>4. IsCons(f.args) => Kept(EvalCons(c, f.args, f.env), 0)
  BY <1>1, EvalConsKept
<1>5. Kept(fin_value(c, f.args), 0)
  BY <1>1, FinKept DEF Deliverable
<1>6. \/ BllEvalStep(c, f) = fin_value(c, f.args)
      \/ \E msg : BllEvalStep(c, f) = error(c, msg)
      \/ IsAtom(f.args) /\ BllEvalStep(c, f) = EvalAtom(c, f.args, f.env)
      \/ IsCons(f.args) /\ BllEvalStep(c, f) = EvalCons(c, f.args, f.env)
  BY <1>1, BllEvalWays
<1> QED
  BY <1>2, <1>3, <1>4, <1>5, <1>6

-----------------------------------------------------------------------------
(***************************************************************************)
(* The machine.                                                            *)
(***************************************************************************)
\* The inductive invariant: the amounts are in bounds, the charges of a running
\* evaluation cover its constructions, and those of one that is over all but two.
\* An evaluation may begin with some more to its credit, as one inside a spend
\* does, and then keeps it.
Funded(extra) ==
    /\ Fit(Now)
    /\ result = Pending => \E w \in Int : Worth(budget, w) /\ 12 * made + extra <= w
    /\ 12 * made + extra <= budget.used + 24

Amounts == Funded(0)

\* The end of WorkItem.step: what a guard that is abandoned gives back pays for
\* the error.
LEMMA SettleKept ==
    ASSUME NEW d, Kept(d, 0)
    PROVE  Kept(Settle(d), 0)
<1>1. CASE ~d.budget.guard_breach
  BY <1>1 DEF Settle
<1>2. CASE d.budget.guard_breach
  <2>1. Guarded(d.budget)
    BY <1>2 DEF Kept, Fit, Within
  <2>2. Kept(unwind(d), 24)
    <3>1. 0 \in Int /\ 0 + 24 = 24
      OBVIOUS
    <3> QED
      BY <2>1, <3>1, UnwindKept
  <2>3. \A msg : Kept(error(unwind(d), msg), 0)
    BY <2>2, ErrorKept
  <2> QED
    BY <1>2, <2>3 DEF Settle
<1> QED
  BY <1>1, <1>2

\* The variables of a running evaluation.
LEMMA NowKept ==
    ASSUME NEW extra \in Int, Funded(extra), result = Pending
    PROVE  /\ Kept(Now, 0) /\ Now.stack = stack /\ Now.budget = budget /\ Now.made = made
           /\ Slack \in Int /\ extra <= Slack
<1>1. Now.stack = stack /\ Now.budget = budget /\ Now.made = made
  BY DEF Now
<1>2. Within(budget) /\ made \in Nat
  BY <1>1 DEF Funded, Fit
<1>3. budget.used \in Nat
  BY <1>2, WithinNumbers
<1>4. PICK w \in Int : Worth(budget, w) /\ 12 * made + extra <= w
  BY DEF Funded
<1>5. Slack \in Int /\ Worth(budget, 12 * made + Slack)
  <2>1. w - 12 * made \in Int /\ 12 * made + (w - 12 * made) = w
    BY <1>2, <1>4
  <2>2. \E s \in Int : Worth(budget, 12 * made + s)
    BY <1>4, <2>1
  <2> QED
    BY <2>2 DEF Slack
<1>6. 12 * made + Slack = w
  BY <1>2, <1>4, <1>5, WorthOne
<1>7. extra <= Slack
  BY <1>2, <1>4, <1>5, <1>6
<1>8. Credit(Now, 0)
  <2>1. 12 * made + 0 + Slack <= w
    BY <1>2, <1>4, <1>5, <1>6
  <2> QED
    BY <1>1, <1>4, <1>5, <2>1 DEF Credit
<1> QED
  BY <1>1, <1>3, <1>5, <1>7, <1>8 DEF Funded, Kept

\* What an iteration does to the counter.
Metering == budget'.limit = budget.limit /\ budget'.used \in budget.used..budget.limit

\* What an iteration commits keeps them in bounds.
LEMMA CommitKept ==
    ASSUME NEW d, Kept(d, 0), Commit(d), result = Pending,
           NEW extra \in Int, extra <= Slack
    PROVE  Funded(extra)' /\ Metering
<1> DEFINE e == Settle(d)
<1>1. Kept(e, 0)
  BY SettleKept
<1>2. stack' = e.stack /\ budget' = e.budget /\ made' = e.made /\ job' = job /\ result' = result
  BY DEF Commit
<1> HIDE DEF e
<1>3. /\ e \in [stack : {e.stack}, budget : {e.budget}, made : {e.made}]
      /\ StackOk(e.stack) /\ Within(e.budget) /\ e.made \in Nat
      /\ job.cap \in Nat /\ (e.budget.alloc_breach <=> e.made > job.cap)
      /\ job.context \in DOMAIN Views
      /\ e.budget.limit = budget.limit /\ budget.used \in Nat /\ budget.used <= e.budget.used
  BY <1>1 DEF Kept, Fit
<1>4. PICK w \in Int : Worth(e.budget, w) /\ Slack \in Int /\ 12 * e.made + 0 + Slack <= w
  BY <1>1 DEF Kept, Credit
<1>5. Now' = [stack |-> e.stack, budget |-> e.budget, made |-> e.made]
  BY <1>2 DEF Now
<1>6. Fit(Now)'
  BY <1>2, <1>3, <1>5 DEF Fit
<1>7. 12 * e.made + extra <= w
  BY <1>3, <1>4
<1>8. w <= e.budget.used + 12 /\ e.budget.used \in Nat /\ e.budget.used <= e.budget.limit
  BY <1>3, <1>4, WorthBelow, WithinNumbers
<1>9. 12 * made' + extra <= budget'.used + 24
  BY <1>2, <1>3, <1>4, <1>7, <1>8
<1>10. Metering
  BY <1>2, <1>3, <1>8 DEF Metering
<1>11. \E v \in Int : Worth(budget', v) /\ 12 * made' + extra <= v
  BY <1>2, <1>4, <1>7
<1> QED
  BY <1>6, <1>9, <1>10, <1>11 DEF Funded

\* What every stepping action starts its handler from.
LEMMA SteppingKept ==
    ASSUME Inv, NEW extra \in Int, Funded(extra), Looping
    PROVE  /\ Kept(Charged, 0) /\ extra <= Slack
           /\ Ok(Charged) => /\ Kept(Popped(Charged), 24) /\ Ok(Popped(Charged))
                             /\ Receiving(Popped(Charged).stack) /\ FrameOk(Top(stack))
<1>1. result = Pending /\ stack # <<>>
  BY DEF Looping, Inv
<1>2. Kept(Now, 0) /\ Now.stack = stack /\ extra <= Slack
  BY <1>1, NowKept
<1>3. /\ Kept(Charged, 0) /\ Charged.stack = stack
      /\ Ok(Charged) => Kept(Charged, 24)
  <2>1. 0 \in Int /\ 24 \in Nat /\ 0 + 24 = 24
    OBVIOUS
  <2> QED
    BY <1>2, <2>1, SpendKept DEF Charged, STEP
<1>4. ASSUME Ok(Charged)
      PROVE  /\ Kept(Popped(Charged), 24) /\ Ok(Popped(Charged))
             /\ Receiving(Popped(Charged).stack) /\ FrameOk(Top(stack))
  <2>1. Receiving(Popped(Charged).stack)
    BY <1>4, SteppingReady DEF Ready, Open
  <2>2. 24 \in Int
    OBVIOUS
  <2>3. Kept(Popped(Charged), 24) /\ Popped(Charged).budget = Charged.budget /\ FrameOk(Top(stack))
    BY <1>1, <1>3, <1>4, <2>2, PoppedKept
  <2> QED
    BY <1>4, <2>1, <2>3 DEF Ok
<1> QED
  BY <1>2, <1>3, <1>4

\* Every iteration of eval's loop keeps the amounts in bounds.
LEMMA StepAmounts ==
    ASSUME Inv, NEW extra \in Int, Funded(extra), Step
    PROVE  Funded(extra)' /\ Metering
<1>0. result = Pending
  BY DEF Step, StepRefused, StepValue, StepOp, StepPartial, StepApply, StepSoftfork,
         StepBllEval, Stepping, Looping
<1> DEFINE c == Popped(Charged)
           f == Top(stack)
<1>1. CASE StepRefused
  <2>1. Kept(Charged, 0) /\ extra <= Slack /\ Commit(Charged)
    BY <1>1, SteppingKept DEF StepRefused
  <2> QED
    BY <1>0, <2>1, CommitKept
<1>2. CASE StepValue
  <2>1. extra <= Slack /\ Kept(c, 24) /\ Receiving(c.stack) /\ FrameOk(f) /\ Commit(feedback(c, f.args))
    BY <1>2, SteppingKept DEF StepValue, Stepping
  <2>2. Kept(feedback(c, f.args), 0)
    BY <2>1, FrameParts, DeliveryKept
  <2> QED
    BY <1>0, <2>1, <2>2, CommitKept
<1>3. CASE StepOp
  <2>1. extra <= Slack /\ Kept(c, 24) /\ Ok(c) /\ FrameOk(f) /\ f.fn.fn = "op" /\ Commit(OpStep(c, f))
    BY <1>3, SteppingKept DEF StepOp, Stepping
  <2> QED
    BY <1>0, <2>1, OpStepKept, CommitKept
<1>4. CASE StepPartial
  <2>1. extra <= Slack /\ Kept(c, 24) /\ FrameOk(f) /\ f.fn.fn = "partial" /\ Commit(PartialStep(c, f))
    BY <1>4, SteppingKept DEF StepPartial, Stepping
  <2> QED
    BY <1>0, <2>1, PartialStepKept, CommitKept
<1>5. CASE StepApply
  <2>1. extra <= Slack /\ Kept(c, 24) /\ FrameOk(f) /\ f.fn.fn = "apply" /\ Commit(ApplyStep(c, f))
    BY <1>5, SteppingKept DEF StepApply, Stepping
  <2> QED
    BY <1>0, <2>1, ApplyStepKept, CommitKept
<1>6. CASE StepSoftfork
  <2>1. extra <= Slack /\ Kept(c, 24) /\ FrameOk(f) /\ f.fn.fn = "softfork" /\ Commit(SoftforkStep(c, f))
    BY <1>6, SteppingKept DEF StepSoftfork, Stepping
  <2> QED
    BY <1>0, <2>1, SoftforkStepKept, CommitKept
<1>7. CASE StepBllEval
  <2>1. extra <= Slack /\ Kept(c, 24) /\ FrameOk(f) /\ f.fn.fn = "blleval" /\ Commit(BllEvalStep(c, f))
    BY <1>7, SteppingKept DEF StepBllEval, Stepping
  <2> QED
    BY <1>0, <2>1, BllEvalKept, CommitKept
<1> QED
  BY <1>1, <1>2, <1>3, <1>4, <1>5, <1>6, <1>7 DEF Step

\* An answer with at most one element more keeps the frames and the numbers
\* that a configuration is fit by.
LEMMA AnswerFit ==
    ASSUME NEW c, Fit(c), NEW v
    PROVE  /\ Fit(Answer(c, v).c) /\ Answer(c, v).c.stack = <<>>
           /\ Answer(c, v).c.budget = c.budget /\ Answer(c, v).c.made = c.made
<1> DEFINE d == Answer(c, v).c
<1>1. d = [c EXCEPT !.stack = <<>>]
  BY DEF Answer
<1> HIDE DEF d
<1>2. c \in [stack : {c.stack}, budget : {c.budget}, made : {c.made}]
  BY DEF Fit
<1>3. /\ d.stack = <<>> /\ d.budget = c.budget /\ d.made = c.made
      /\ d \in [stack : {d.stack}, budget : {d.budget}, made : {d.made}]
  BY <1>1, <1>2
<1>4. StackOk(<<>>)
  <2>1. <<>> \in Seq({}) /\ Len(<<>>) = 0
    OBVIOUS
  <2> QED
    BY <2>1 DEF StackOk, IsSeq
<1> QED
  BY <1>3, <1>4 DEF d, Fit

\* The verdict costs nothing, and at most the driver's own error is built.
LEMMA ReturnAmounts ==
    ASSUME NEW extra \in Int, Funded(extra), Return
    PROVE  /\ Funded(extra)' /\ budget'.limit = budget.limit /\ budget'.used = budget.used
           /\ made' \in {made, made + 1}
<1>1. Kept(Now, 0) /\ Now.budget = budget /\ Now.made = made
  BY NowKept DEF Return
<1>2. Within(budget) /\ made \in Nat /\ Fit(Now)
  BY <1>1 DEF Kept, Fit
<1>3. PICK w \in Int : Worth(budget, w) /\ 12 * made + extra <= w
  BY DEF Return, Funded
<1>4. budget.used \in Nat /\ 12 * made + extra <= budget.used + 12
  <2>1. w <= budget.used + 12 /\ budget.used \in Nat
    BY <1>2, <1>3, WorthBelow, WithinNumbers
  <2> QED
    BY <1>2, <1>3, <2>1
<1>5. ASSUME NEW d, Kept(d, 0), d.made = made, d.budget.used = budget.used
      PROVE  /\ Fit(Build(d, 1)) /\ Build(d, 1).budget.limit = budget.limit
             /\ Build(d, 1).budget.used = budget.used /\ Build(d, 1).made = made + 1
  <2>1. 0 \in Int /\ -12 \in Int /\ 1 \in Nat /\ -12 + 12 * 1 <= 0
    OBVIOUS
  <2> DEFINE j == -12
  <2> HIDE DEF j
  <2>2. /\ Kept(Build(d, 1), j) /\ Build(d, 1).made = d.made + 1
        /\ Build(d, 1).budget.used = d.budget.used
    <3>1. j \in Int /\ j + 12 * 1 <= 0
      BY <2>1 DEF j
    <3> QED
      BY <1>5, <2>1, <3>1, BuildKept
  <2> QED
    BY <1>5, <2>2 DEF Kept
<1>6. /\ Kept(unwind(Now), 0) /\ unwind(Now).made = made
      /\ unwind(Now).budget.used = budget.used
  <2>1. 0 \in Int
    OBVIOUS
  <2> QED
    BY <1>1, <2>1, UnwindKept DEF unwind, Now
<1>7. \E d : /\ Fit(d) /\ d.budget.limit = budget.limit /\ d.budget.used = budget.used
             /\ d.made \in {made, made + 1}
             /\ \E v : Outcome = Answer(d, v)
  <2>0. CASE Thrown(stack)
    <3>1. Outcome = Answer(unwind(Now), Raises)
      BY <2>0 DEF Outcome
    <3> QED
      BY <1>6, <3>1 DEF Kept
  <2>1. CASE ~Thrown(stack) /\ (budget.alloc_breach \/ budget.exhausted)
    <3>1. \E msg : Outcome = Answer(Build(unwind(Now), 1), Error(msg))
      BY <2>1 DEF Outcome, Refusal
    <3> QED
      BY <1>5, <1>6, <3>1
  <2>2. CASE ~Thrown(stack) /\ ~budget.alloc_breach /\ ~budget.exhausted
    <3>1. \E v : Outcome \in {Answer(Now, v), Answer(Build(Now, 1), v)}
      BY <2>2 DEF Outcome
    <3> QED
      BY <1>1, <1>2, <1>5, <3>1
  <2> QED
    BY <2>0, <2>1, <2>2
<1>8. PICK d : /\ Fit(d) /\ d.budget.limit = budget.limit /\ d.budget.used = budget.used
               /\ d.made \in {made, made + 1}
               /\ \E v : Outcome = Answer(d, v)
  BY <1>7
<1>9. Fit(Outcome.c) /\ Outcome.c.budget = d.budget /\ Outcome.c.made = d.made
  BY <1>8, AnswerFit
<1>10. /\ stack' = Outcome.c.stack /\ budget' = Outcome.c.budget /\ made' = Outcome.c.made
       /\ job' = job /\ result' = Outcome.value
  BY DEF Return
<1>11. result' # Pending
  <2>1. \A e : IsBll(e) \/ IsError(e) => e # Pending
    BY DEF IsBll, IsError, Pending
  <2>2. \A msg : Error(msg) # Pending
    BY DEF Error, Pending
  <2> QED
    BY <1>10, <2>1, <2>2 DEF Outcome, Refusal, Answer, Raises
<1>12. Fit(Now)'
  <2>1. Now' = Outcome.c
    BY <1>9, <1>10 DEF Now, Fit
  <2> HIDE DEF Outcome
  <2> QED
    BY <1>9, <1>10, <2>1 DEF Fit
<1>13. 12 * made' + extra <= budget'.used + 24
  BY <1>2, <1>4, <1>8, <1>9, <1>10
<1> QED
  BY <1>8, <1>9, <1>10, <1>11, <1>12, <1>13 DEF Funded

\* What a program is written with is an element.
LEMMA MadeElement ==
    ASSUME NEW S, MadeOfAtoms(S), NEW e \in S
    PROVE  IsElement(e)
<1>1. ClosedSet(S)
  <2> SUFFICES ASSUME NEW x \in S PROVE IsWhole(x) \/ PairIn(x, S)
    BY DEF ClosedSet
  <2> QED
    BY DEF MadeOfAtoms, IsWhole, PairIn
<1> QED
  BY <1>1 DEF IsElement

\* WorkItem.begin: nothing is spent, and one construction is not yet paid for.
LEMMA InitAmounts ==
    Init => Amounts
<1> SUFFICES ASSUME Init PROVE Amounts
  OBVIOUS
<1>1. PICK limit \in Limits :
          /\ stack = begin(job, limit).stack /\ budget = begin(job, limit).budget
          /\ made = begin(job, limit).made
  BY DEF Init
<1>2. job \in Jobs /\ job.cap \in Nat /\ job.context \in DOMAIN Views /\ limit \in Nat
  BY JobAssumption, LimitAssumption DEF Init
<1> DEFINE x == Frame(SpecialFunc("blleval", Nil), job.program, job.env)
           n == NewBudget(limit)
<1>3. /\ stack = <<x>> /\ made = 1
      /\ budget = IF 1 > job.cap THEN latch_alloc_breach(n) ELSE n
  BY <1>1 DEF begin
<1>4. FrameOk(x)
  <2>1. IsElement(job.program) /\ IsElement(job.env)
    BY <1>2, ProgramAssumption, MadeElement
  <2>2. FuncOk(SpecialFunc("blleval", Nil))
    BY SpecialOk, NilElement DEF FrameClasses
  <2> QED
    BY <2>1, <2>2 DEF FrameOk, Frame
<1> HIDE DEF x
<1>5. StackOk(stack)
  <2>1. stack \in Seq({x}) /\ Len(stack) = 1 /\ stack[1] = x
    BY <1>3
  <2> QED
    BY <1>4, <2>1 DEF StackOk, IsSeq
<1>6. /\ Within(n) /\ ~n.alloc_breach /\ n.used = 0 /\ ~Guarded(n)
      /\ Worth(n, 12)
  <2>1. /\ n \in [limit : {n.limit}, used : {n.used}, allowances : {n.allowances},
                  exhausted : BOOLEAN, guard_breach : BOOLEAN, alloc_breach : BOOLEAN]
        /\ n.limit = limit /\ n.used = 0 /\ n.allowances = <<>> /\ ~n.guard_breach
        /\ ~n.alloc_breach
    BY DEF NewBudget
  <2> HIDE DEF n
  <2>2. <<>> \in Seq(Allowance) /\ Len(<<>>) = 0
    OBVIOUS
  <2>3. Within(n) /\ ~Guarded(n)
    BY <1>2, <2>1, <2>2 DEF Within, Guarded
  <2>4. Worth(n, n.used + 12)
    BY <2>3, WorthOutside
  <2> QED
    BY <2>1, <2>3, <2>4
<1> HIDE DEF n
<1>7. /\ Within(budget) /\ (budget.alloc_breach <=> 1 > job.cap) /\ budget.used = 0
      /\ Worth(budget, 12)
  BY <1>3, <1>6, LatchWithin
<1>8. Now = [stack |-> stack, budget |-> budget, made |-> 1]
  BY <1>3 DEF Now
<1>9. Fit(Now)
  BY <1>2, <1>3, <1>5, <1>7, <1>8 DEF Fit
<1>10. Worth(budget, 12) /\ 12 \in Int /\ 12 * made + 0 <= 12 /\ 12 * made + 0 <= budget.used + 24
  BY <1>3, <1>7
<1> QED
  BY <1>9, <1>10 DEF Amounts, Funded

\* The amounts stay in bounds.
LEMMA NextAmounts ==
    ASSUME Inv, NEW extra \in Int, Funded(extra), [Next]_vars
    PROVE  Funded(extra)'
<1>1. CASE Step
  BY <1>1, StepAmounts
<1>2. CASE Return
  BY <1>2, ReturnAmounts
<1>3. CASE Done \/ UNCHANGED vars
  BY <1>3 DEF Done, vars, Funded, Now, Fit, StackOk
<1> QED
  BY <1>1, <1>2, <1>3 DEF Next

\* The amounts of every evaluation are in bounds: see Amounts.
THEOREM AmountsKept ==
    Spec => [](Inv /\ Amounts)
<1>1. Init => Inv /\ Amounts
  BY InitInv, InitAmounts
<1>2. Inv /\ Amounts /\ [Next]_vars => (Inv /\ Amounts)'
  <2>1. 0 \in Int
    OBVIOUS
  <2> QED
    BY <2>1, NextInv, NextAmounts DEF Amounts
<1> QED
  BY <1>1, <1>2, PTL DEF Spec

\* What the invariant says of the amounts.
LEMMA AmountsSound ==
    Inv /\ Amounts => BudgetSound
<1> SUFFICES ASSUME Inv, Amounts PROVE BudgetSound
  OBVIOUS
<1>1. Within(budget)
  BY DEF Amounts, Funded, Fit, Now
<1>2. ExhaustedInFull
  BY InvSpent
<1>3. budget.used <= budget.limit
  BY <1>1, WithinNumbers
<1>4. \A i \in 1..Len(budget.allowances) :
          /\ budget.allowances[i].used <= budget.allowances[i].allowed
          /\ budget.allowances[i].allowed <=
                IF i = 1 THEN budget.used ELSE budget.allowances[i-1].used
  <2> SUFFICES ASSUME NEW i \in 1..Len(budget.allowances)
               PROVE  /\ budget.allowances[i].used <= budget.allowances[i].allowed
                      /\ budget.allowances[i].allowed <=
                            IF i = 1 THEN budget.used ELSE budget.allowances[i-1].used
    OBVIOUS
  <2>1. /\ budget.allowances[i].used <= budget.allowances[i].allowed
        /\ budget.allowances[i].allowed <= SpentAt(budget, i - 1)
    BY <1>1 DEF Within
  <2>2. i \in Int /\ (i - 1 = 0 <=> i = 1)
    BY <1>1, WithinNumbers
  <2> QED
    BY <2>1, <2>2 DEF SpentAt
<1> QED
  BY <1>2, <1>3, <1>4 DEF BudgetSound

\* Every construction but two was charged for.
LEMMA AmountsCover ==
    Amounts => AllocationCovered
<1> SUFFICES ASSUME Amounts PROVE AllocationCovered
  OBVIOUS
<1>1. STEP \div 2 = 12 /\ (STEP \div 2) * UnpaidConstructions = 24
  BY DEF STEP, UnpaidConstructions
<1> QED
  BY <1>1 DEF Amounts, Funded, AllocationCovered, Fit, Now

\* The latch says whether the cap is crossed.
LEMMA AmountsLatch ==
    Amounts => CapLatched
BY DEF Amounts, Funded, Fit, Now, CapLatched

\* The variables hold what the fields hold.
LEMMA AmountsTyped ==
    Amounts => TypeOK
<1> SUFFICES ASSUME Amounts PROVE TypeOK
  OBVIOUS
<1>1. Within(budget) /\ StackOk(stack) /\ made \in Nat
  BY DEF Amounts, Funded, Fit, Now
<1>2. budget.limit \in Nat /\ budget.used \in Nat
  BY <1>1, WithinNumbers
<1>3. DOMAIN budget = {"limit", "used", "exhausted", "allowances", "guard_breach", "alloc_breach"}
      /\ {budget.exhausted, budget.guard_breach, budget.alloc_breach} \subseteq BOOLEAN
  BY <1>1 DEF Within
<1>4. \A i \in 1..Len(budget.allowances) :
          budget.allowances[i] \in [allowed : Nat, used : Nat]
  BY <1>1, WithinNumbers DEF Allowance
<1>5. \A i \in 1..Len(stack) :
          /\ DOMAIN stack[i] = {"fn", "args", "env"}
          /\ IsFunc(stack[i].fn) /\ stack[i].fn.fn \in FrameClasses
  <2> SUFFICES ASSUME NEW f, FrameOk(f)
               PROVE  /\ DOMAIN f = {"fn", "args", "env"}
                      /\ IsFunc(f.fn) /\ f.fn.fn \in FrameClasses
    BY <1>1 DEF StackOk
  <2>1. f = Frame(f.fn, f.args, f.env) /\ f.fn = Func(f.fn.fn, f.fn.op, f.fn.ist, f.fn.state)
        /\ f.fn.fn \in FrameClasses
    BY DEF FrameOk, FuncOk
  <2>2. DOMAIN Frame(f.fn, f.args, f.env) = {"fn", "args", "env"}
    BY DEF Frame
  <2>3. IsFunc(f.fn)
    BY <2>1, FuncKind
  <2> QED
    BY <2>1, <2>2, <2>3
<1> QED
  BY <1>1, <1>2, <1>3, <1>4, <1>5 DEF TypeOK

\* The variables hold what the code's fields hold, through every evaluation.
THEOREM FieldsTyped ==
    Spec => []TypeOK
BY AmountsTyped, AmountsKept, PTL

\* The budget is never overspent, an exhausted one reports its limit, and what a
\* guard may spend was charged to its context before: a softfork cannot mint
\* budget, however guards nest, overrun or are abandoned.
THEOREM NothingOverspent ==
    Spec => []BudgetSound
BY AmountsSound, AmountsKept, PTL

\* The elements an evaluation builds are covered by what it has spent, half a
\* STEP each, up to two: the budget bounds the allocator's work.
THEOREM ConstructionsCovered ==
    Spec => []AllocationCovered
BY AmountsCover, AmountsKept, PTL

\* The element cap is latched exactly when it is crossed, wherever in a handler
\* that happens, and no guard that unwinds forgets it.
THEOREM CapNeverMissed ==
    Spec => []CapLatched
BY AmountsLatch, AmountsKept, PTL

\* An evaluation starts as a metered one.
LEMMA InitMetered ==
    Init => Abstract!MInit
<1> SUFFICES ASSUME Init PROVE Abstract!MInit
  OBVIOUS
<1>1. PICK limit \in Limits : budget = begin(job, limit).budget
  BY DEF Init
<1>2. budget \in {NewBudget(limit), latch_alloc_breach(NewBudget(limit))}
  BY <1>1 DEF begin
<1>3. budget.limit = limit /\ budget.used = 0 /\ ~budget.exhausted
  BY <1>2 DEF NewBudget, latch_alloc_breach
<1>4. Status \in {"running", "capped"}
  BY <1>3 DEF Init, Status
<1> QED
  BY <1>3, <1>4 DEF Abstract!MInit

\* An iteration is some work or exhausts the budget, the return ends it, and
\* nothing else moves the meter.
LEMMA NextMetered ==
    ASSUME Inv, Amounts, [Next]_vars
    PROVE  [Abstract!MNext]_(Abstract!mvars)
<1>1. CASE Step
  <2>1. result = Pending /\ ~budget.exhausted /\ ~budget.alloc_breach
    BY <1>1 DEF Step, StepRefused, StepValue, StepOp, StepPartial, StepApply, StepSoftfork,
                StepBllEval, Stepping, Looping
  <2>2. Metering /\ Inv'
    <3>1. 0 \in Int /\ Funded(0)
      BY DEF Amounts
    <3> QED
      BY <1>1, <3>1, StepAmounts, NextInv
  <2>3. result' = result
    BY <1>1 DEF Step, StepRefused, StepValue, StepOp, StepPartial, StepApply, StepSoftfork,
                StepBllEval, Commit
  <2>4. Status = "running"
    BY <2>1 DEF Status
  <2>5. CASE budget'.exhausted /\ ~budget'.alloc_breach
    <3>1. Status' = "exhausted"
      BY <2>1, <2>3, <2>5 DEF Status
    <3>2. budget'.used = budget'.limit
      BY <2>2, <2>5 DEF Inv, IsBudget, SpentInFull
    <3> QED
      BY <2>2, <2>4, <3>1, <3>2 DEF Metering, Abstract!MNext, Abstract!Exhaust
  <2>6. CASE ~(budget'.exhausted /\ ~budget'.alloc_breach)
    <3>1. Status' \in {"running", "capped"}
      BY <2>1, <2>3, <2>6 DEF Status
    <3> QED
      BY <2>2, <2>4, <3>1 DEF Metering, Abstract!MNext, Abstract!Work
  <2> QED
    BY <2>5, <2>6
<1>2. CASE Return
  <2>1. budget'.limit = budget.limit /\ budget'.used = budget.used
    <3>1. 0 \in Int /\ Funded(0)
      BY DEF Amounts
    <3> QED
      BY <1>2, <3>1, ReturnAmounts
  <2>2. Status \in {"running", "exhausted", "capped"}
    BY <1>2 DEF Return, Status
  <2>3. result' # Pending
    <3>1. \A e : IsBll(e) \/ IsError(e) => e # Pending
      BY DEF IsBll, IsError, Pending
    <3>2. \A msg : Error(msg) # Pending
      BY DEF Error, Pending
    <3> QED
      BY <1>2, <3>1, <3>2 DEF Return, Outcome, Refusal, Answer, Raises
  <2>4. Status' = "over"
    BY <2>3 DEF Status
  <2> QED
    BY <2>1, <2>2, <2>4 DEF Abstract!MNext, Abstract!Over
<1>3. CASE Done \/ UNCHANGED vars
  BY <1>3 DEF Done, vars, Abstract!mvars, Status
<1> QED
  BY <1>1, <1>2, <1>3 DEF Next

\* The machine takes the steps of the metered evaluation and no others: nothing
\* is refunded, nothing overspent, exhaustion reads the limit, and a latched
\* evaluation does nothing but return.
THEOREM MeteredSteps ==
    Spec => Abstract!MSteps
<1>1. Init => Abstract!MInit
  BY InitMetered
<1>2. Inv /\ Amounts /\ [Next]_vars => [Abstract!MNext]_(Abstract!mvars)
  BY NextMetered
<1> QED
  BY <1>1, <1>2, AmountsKept, PTL DEF Spec, Abstract!MSteps

-----------------------------------------------------------------------------
(***************************************************************************)
(* How far an iteration builds past the cap.  What happens after a charge  *)
(* that succeeds starts below the cap; the rest is counted from where the  *)
(* iteration begins.                                                       *)
(***************************************************************************)
HighMark == Wider(made, job.cap)

\* A configuration at most so many constructions past the mark.
Near(c, n) ==
    /\ c \in [stack : {c.stack}, budget : {c.budget}, made : {c.made}]
    /\ c.made \in Nat /\ HighMark \in Nat /\ c.made <= HighMark + n

\* Where an iteration may end: an overrun guard leaves room for its error.
Close(c, w) ==
    /\ Near(c, StepConstructions + w)
    /\ c.budget.guard_breach => Near(c, StepConstructions - 2)

\* More room will do.
LEMMA NearMore ==
    ASSUME NEW c, NEW n \in Int, Near(c, n), NEW k \in Int, n <= k
    PROVE  Near(c, k)
<1>1. c.made \in Nat /\ HighMark \in Nat /\ c.made <= HighMark + n
  BY DEF Near
<1>2. c.made <= HighMark + k
  BY <1>1
<1> QED
  BY <1>1, <1>2 DEF Near

\* What an iteration may build, spelled out.
LEMMA StepBound ==
    StepConstructions = 9
BY DEF StepConstructions, CounterBits

\* A handler that stays two short of the bound may end in an abandoned guard.
LEMMA NearClose ==
    ASSUME NEW c, Near(c, 7), NEW w \in Nat
    PROVE  Close(c, w)
<1> DEFINE n == StepConstructions + w
           m == StepConstructions - 2
<1>1. n \in Int /\ 7 <= n /\ m = 7 /\ 7 \in Int
  BY StepBound
<1> HIDE DEF n, m
<1>2. Near(c, n)
  BY <1>1, NearMore
<1> QED
  BY <1>1, <1>2 DEF Close, n, m

\* Other frames, another budget: the same count.
LEMMA NearMoved ==
    ASSUME NEW c, NEW n, Near(c, n), NEW s, NEW b
    PROVE  Near([c EXCEPT !.stack = s], n) /\ Near([c EXCEPT !.budget = b], n)
<1>1. \A d : /\ d \in [stack : {d.stack}, budget : {d.budget}, made : {d.made}]
             /\ d.made = c.made
             => Near(d, n)
  BY DEF Near
<1>2. c = [stack |-> c.stack, budget |-> c.budget, made |-> c.made]
  BY DEF Near
<1>3. Near([stack |-> s, budget |-> c.budget, made |-> c.made], n)
  BY <1>1
<1>4. Near([stack |-> c.stack, budget |-> b, made |-> c.made], n)
  BY <1>1
<1>5. [c EXCEPT !.stack = s] = [stack |-> s, budget |-> c.budget, made |-> c.made]
  BY <1>2
<1>6. [c EXCEPT !.budget = b] = [stack |-> c.stack, budget |-> b, made |-> c.made]
  BY <1>2
<1> QED
  BY <1>3, <1>4, <1>5, <1>6

\* Charges, frames pushed and popped, and an unwind build nothing.
LEMMA NearFree ==
    ASSUME NEW c, NEW n, Near(c, n)
    PROVE  /\ \A k : Near(Spend(c, k), n)
           /\ \A fn, args, env : Near(new_continuation(c, fn, args, env), n)
           /\ Near(Popped(c), n) /\ Near(unwind(c), n)
<1>1. \A k : Near(Spend(c, k), n)
  BY NearMoved DEF Spend
<1>2. \A fn, args, env : Near(new_continuation(c, fn, args, env), n)
  BY NearMoved DEF new_continuation
<1>3. Near(Popped(c), n)
  BY NearMoved DEF Popped
<1>4. Near(unwind(c), n)
  <2> DEFINE d == [c EXCEPT !.stack = <<>>]
             e == clear_allowances(c.budget)
  <2>1. Near(d, n)
    BY NearMoved
  <2>2. unwind(c) = [d EXCEPT !.budget = e]
    BY DEF unwind
  <2> HIDE DEF d, e
  <2>3. Near([d EXCEPT !.budget = e], n)
    BY <2>1, NearMoved
  <2> QED
    BY <2>2, <2>3
<1> QED
  BY <1>1, <1>2, <1>3, <1>4

\* Constructions come one by one.
LEMMA NearBuild ==
    ASSUME NEW c, NEW n \in Int, Near(c, n), NEW m \in Nat, NEW k \in Int, n + m <= k
    PROVE  Near(Build(c, m), k)
<1> DEFINE e == IF c.made + m > job.cap THEN latch_alloc_breach(c.budget) ELSE c.budget
           d == Build(c, m)
<1>1. /\ c = [stack |-> c.stack, budget |-> c.budget, made |-> c.made]
      /\ c.made \in Nat /\ HighMark \in Nat /\ c.made <= HighMark + n
  BY DEF Near
<1>2. d = [stack |-> c.stack, budget |-> e, made |-> c.made + m]
  <2>1. d = [c EXCEPT !.made = c.made + m, !.budget = e]
    BY DEF Build
  <2> HIDE DEF d, e
  <2> QED
    BY <1>1, <2>1
<1> HIDE DEF d, e
<1>3. /\ d \in [stack : {d.stack}, budget : {d.budget}, made : {d.made}]
      /\ d.made = c.made + m
  BY <1>2
<1>4. d.made \in Nat /\ d.made <= HighMark + k
  BY <1>1, <1>3
<1>5. Near(d, k)
  BY <1>1, <1>3, <1>4 DEF Near
<1> QED
  BY <1>5 DEF d

\* What ends a handler: a value, an error, an evaluation, the next argument.
LEMMA NearEnds ==
    ASSUME NEW c, NEW n \in Nat, Near(c, n), NEW k \in Int
    PROVE  /\ n + 1 <= k => /\ \A v : Near(fin_value(c, v), k)
                            /\ \A x, env : Near(eval_arg(c, x, env), k)
           /\ n + 1 <= k => \A v : Near(Deliver(c, v), k)
           /\ n + 2 <= k => /\ \A msg : Near(error(c, msg), k)
                            /\ \A f : Near(EvalNextArg(c, f), k)
<1>1. \A j \in Int : n + 1 <= j => Near(Build(c, 1), j)
  <2>1. n \in Int /\ 1 \in Nat
    OBVIOUS
  <2> QED
    BY <2>1, NearBuild
<1>2. ASSUME NEW d, NEW m \in Int, Near(d, m), NEW j \in Int, m + 1 <= j
      PROVE  /\ \A v : Near(fin_value(d, v), j)
             /\ \A x, env : Near(eval_arg(d, x, env), j)
  <2>1. 1 \in Nat
    OBVIOUS
  <2>2. Near(Build(d, 1), j)
    BY <1>2, <2>1, NearBuild
  <2> QED
    BY <2>2, NearFree DEF fin_value, eval_arg
<1>3. n + 1 <= k => /\ \A v : Near(fin_value(c, v), k)
                    /\ \A x, env : Near(eval_arg(c, x, env), k)
  <2>1. n \in Int
    OBVIOUS
  <2> QED
    BY <1>2, <2>1
<1>5. n + 1 <= k => \A v : Near(Deliver(c, v), k)
  <2>1. n + 1 <= k => Near(c, k)
    <3>1. n \in Int /\ (n + 1 <= k => n <= k)
      OBVIOUS
    <3> QED
      BY <3>1, NearMore
  <2>2. n + 1 <= k => Near(Throw(c), k)
    BY <2>1, NearFree DEF Throw
  <2> QED
    BY <1>3, <2>2 DEF Deliver
<1>4. ASSUME n + 2 <= k
      PROVE  /\ \A msg : Near(error(c, msg), k)
             /\ \A f : Near(EvalNextArg(c, f), k)
  <2> DEFINE j == n + 1
             b == Build(c, 1)
  <2>1. j \in Int /\ n + 1 <= j /\ j + 1 <= k
    BY <1>4
  <2>2. Near(b, j)
    BY <1>1, <2>1
  <2> HIDE DEF j
  <2>3. \A msg : Near(error(c, msg), k)
    BY <1>2, <2>1, <2>2 DEF error
  <2>4. \A fn, args, env : Near(new_continuation(b, fn, args, env), j)
    BY <2>2, NearFree
  <2>5. \A f : Near(EvalNextArg(c, f), k)
    <3> TAKE f
    <3>1. Near(new_continuation(b, f.fn, f.args.val2, f.env), j)
      BY <2>4
    <3> QED
      BY <1>2, <2>1, <3>1 DEF EvalNextArg
  <2> QED
    BY <2>3, <2>5
<1> QED
  BY <1>3, <1>4, <1>5

\* What may follow a few constructions.
LEMMA NearSmall ==
    ASSUME NEW c, NEW n \in 0..5, Near(c, n)
    PROVE  /\ Near(c, 7)
           /\ \A v : Near(fin_value(c, v), 7)
           /\ \A x, env : Near(eval_arg(c, x, env), 7)
           /\ \A msg : Near(error(c, msg), 7)
           /\ \A f : Near(EvalNextArg(c, f), 7)
<1>1. n \in Nat /\ n \in Int /\ 7 \in Int /\ n <= 7 /\ n + 1 <= 7 /\ n + 2 <= 7
  OBVIOUS
<1> QED
  BY <1>1, NearMore, NearEnds

\* fn_partial.step.
LEMMA PartialStepNear ==
    ASSUME NEW c, Near(c, 0), NEW f
    PROVE  Near(PartialStep(c, f), 7)
<1>1. Near(Build(c, 1), 1)
  BY NearBuild
<1>2. \A v : Near(fin_value(Build(c, 1), v), 7)
  BY <1>1, NearSmall
<1>3. (\A msg : Near(error(c, msg), 7)) /\ Near(EvalNextArg(c, f), 7)
  BY NearSmall
<1> QED
  BY <1>2, <1>3 DEF PartialStep

\* fn_apply.step.
LEMMA ApplyStepNear ==
    ASSUME NEW c, Near(c, 0), NEW f
    PROVE  Near(ApplyStep(c, f), 7)
<1>1. /\ \A x, env : Near(TailEval(c, x, env), 7)
      /\ \A msg : Near(error(c, msg), 7)
      /\ Near(EvalNextArg(c, f), 7)
  BY NearSmall DEF TailEval
<1> QED
  BY <1>1 DEF ApplyStep

\* A feedback that leaves its frame waiting with a new function object.
LEMMA AgainNear ==
    ASSUME NEW c, Near(c, 0), NEW m \in 0..3
    PROVE  \A fn, args, env : Near(new_continuation(Build(c, m), fn, args, env), 7)
<1>1. m \in Nat /\ 0 + m <= 7 /\ 0 \in Int /\ 7 \in Int
  OBVIOUS
<1>2. Near(Build(c, m), 7)
  BY <1>1, NearBuild
<1> QED
  BY <1>2, NearFree

\* fn_apply.feedback.
LEMMA ApplyFeedbackNear ==
    ASSUME NEW c, Near(c, 0), NEW f, NEW value
    PROVE  Near(ApplyFeedback(c, f, value), 7)
<1> DEFINE state == f.fn.state
           again(m, st) == new_continuation(Build(c, m), SpecialFunc("apply", st), f.args, f.env)
<1>1. \/ \E msg : ApplyFeedback(c, f, value) = error(c, msg)
      \/ \E st : ApplyFeedback(c, f, value) = again(1 + 1, st)
      \/ \E st : ApplyFeedback(c, f, value) = again(2 + 1, st)
  BY DEF ApplyFeedback
<1>2. \A m \in 0..3 : \A st : Near(again(m, st), 7)
  BY AgainNear
<1>3. 1 + 1 \in 0..3 /\ 2 + 1 \in 0..3
  OBVIOUS
<1> HIDE DEF again
<1>4. \A msg : Near(error(c, msg), 7)
  BY NearSmall
<1> QED
  BY <1>1, <1>2, <1>3, <1>4

\* fn_softfork.feedback.
LEMMA SoftforkFeedbackNear ==
    ASSUME NEW c, Near(c, 0), NEW f, NEW value
    PROVE  Near(SoftforkFeedback(c, f, value), 7)
<1> DEFINE again(m, st) ==
               new_continuation(Build(c, m), SpecialFunc("softfork", st), f.args, f.env)
<1>1. \E m \in {0, 1} : \E st : SoftforkFeedback(c, f, value) = again(m + 1, st)
  BY DEF SoftforkFeedback
<1>2. \A m \in 0..3 : \A st : Near(again(m, st), 7)
  BY AgainNear
<1>3. \A m \in {0, 1} : m + 1 \in 0..3
  OBVIOUS
<1> HIDE DEF again
<1> QED
  BY <1>1, <1>2, <1>3

\* A guard is opened with its exit frame and the guarded evaluation.
LEMMA EnterGuardNear ==
    ASSUME NEW c, Near(c, 0), NEW declared, NEW program, NEW guardenv
    PROVE  Near(EnterGuard(c, declared, program, guardenv), 7)
<1> DEFINE d == [c EXCEPT !.budget = push_allowance(@, declared)]
           g == Spend(d, GUARD)
           exit == SpecialFunc("exitguard", Nil)
           h == new_continuation(Build(g, 1), exit, Nil, Nil)
<1>1. Near(d, 0)
  BY NearMoved
<1>2. EnterGuard(c, declared, program, guardenv) =
          IF ~Ok(g) THEN g ELSE eval_arg(h, program, guardenv)
  BY DEF EnterGuard
<1> HIDE DEF d
<1>3. Near(g, 0)
  BY <1>1, NearFree
<1> HIDE DEF g
<1>4. Near(Build(g, 1), 1)
  BY <1>3, NearBuild
<1>5. Near(h, 1)
  BY <1>4, NearFree
<1> HIDE DEF h
<1>6. Near(g, 7) /\ Near(eval_arg(h, program, guardenv), 7)
  BY <1>3, <1>5, NearSmall
<1> QED
  BY <1>2, <1>6

\* fn_exitguard.feedback.
LEMMA ExitGuardNear ==
    ASSUME NEW c, Near(c, 0), NEW f, NEW value
    PROVE  Near(ExitGuardFeedback(c, f, value), 7)
<1> DEFINE d == [c EXCEPT !.budget = pop_allowance(@)]
<1>1. Near(d, 0)
  BY NearMoved
<1>2. \/ \E msg : ExitGuardFeedback(c, f, value) = error(d, msg)
      \/ ExitGuardFeedback(c, f, value) = fin_value(d, Nil)
  BY DEF ExitGuardFeedback
<1> HIDE DEF d
<1> QED
  BY <1>1, <1>2, NearSmall

\* fn_softfork.step.
LEMMA SoftforkStepNear ==
    ASSUME NEW c, Near(c, 0), NEW f
    PROVE  Near(SoftforkStep(c, f), 7)
<1> DEFINE state    == f.fn.state
           count    == Stored(state)
           val(k)   == After(state, count - k).val1
           v1       == val(1)
           v2       == val(2)
           declared == AsInt(v1)
           scanned  == IF IsAtom(v1) THEN Spend(c, atom_scan(v1.width)) ELSE c
           lump     == Spend(scanned, declared)
           shaped   == count = 4 /\ IsAtom(v2)
           read     == IF shaped THEN Spend(lump, atom_scan(v2.width)) ELSE lump
           x        == SoftforkFinish(c, state)
<1>1. \/ \E msg : x \in {error(c, msg), error(scanned, msg)}
      \/ x \in {scanned, read, fin_value(read, Nil)}
      \/ x = EnterGuard(read, declared, val(3), val(4))
  BY DEF SoftforkFinish
<1> HIDE DEF val, v1, v2, declared, x
<1>2. Near(scanned, 0)
  BY NearFree
<1> HIDE DEF scanned
<1>3. Near(lump, 0)
  BY <1>2, NearFree
<1> HIDE DEF lump
<1>4. Near(read, 0)
  BY <1>3, NearFree
<1> HIDE DEF read
<1>5. Near(EnterGuard(read, declared, val(3), val(4)), 7)
  BY <1>4, EnterGuardNear
<1>6. /\ \A msg : Near(error(c, msg), 7) /\ Near(error(scanned, msg), 7)
      /\ Near(scanned, 7) /\ Near(read, 7) /\ Near(fin_value(read, Nil), 7)
      /\ Near(EvalNextArg(c, f), 7)
  BY <1>2, <1>4, NearSmall
<1>7. Near(x, 7)
  BY <1>1, <1>5, <1>6
<1> QED
  BY <1>6, <1>7 DEF SoftforkStep, x

\* fn_partial.feedback, the first value.
LEMMA PartialBindNear ==
    ASSUME NEW c, Near(c, 0), NEW f, NEW value
    PROVE  Near(PartialBind(c, f, value), 7)
<1> DEFINE s == Spend(c, atom_scan(value.width))
           n == AsInt(value)
           t == Spend(s, ELEMENT_ALLOC)
           m == InitialOpBuilt(Op_FUNCS[n])
           g == get_partial_func(c, value)
<1>1. g.c \in {c, s, t, Build(t, m)}
  BY DEF get_partial_func
<1>2. m \in Nat /\ 0 + m <= 2 /\ 0 \in Int /\ 2 \in Int
  BY InitialCount
<1>3. PartialBind(c, f, value) =
          IF ~IsFunc(g.func)
          THEN IF Ok(g.c) THEN error(g.c, "partial: requires a normal opcode") ELSE g.c
          ELSE IF g.func.fn = "partial" /\ IsNil(f.args)
          THEN new_continuation(g.c, BoundOp(g.func), f.args, f.env)
          ELSE new_continuation(Build(g.c, 1), Binding(g.func), f.args, f.env)
  BY DEF PartialBind
<1> HIDE DEF g, m
<1>4. Near(s, 0)
  BY NearFree
<1> HIDE DEF s
<1>5. Near(t, 0)
  BY <1>4, NearFree
<1> HIDE DEF t
<1>6. Near(Build(t, m), 2)
  BY <1>2, <1>5, NearBuild
<1>7. \A d : Near(d, 0) => Near(d, 2)
  BY NearMore
<1>8. Near(g.c, 2)
  BY <1>1, <1>4, <1>5, <1>6, <1>7
<1>9. Near(g.c, 7) /\ \A msg : Near(error(g.c, msg), 7)
  BY <1>8, NearSmall
<1>10. Near(Build(g.c, 1), 7)
  BY <1>8, NearBuild
<1>11. /\ \A fn : Near(new_continuation(g.c, fn, f.args, f.env), 7)
       /\ \A fn : Near(new_continuation(Build(g.c, 1), fn, f.args, f.env), 7)
  BY <1>9, <1>10, NearFree
<1> QED
  BY <1>3, <1>9, <1>11

\* fn_blleval of an atom.
LEMMA EvalAtomNear ==
    ASSUME NEW c, Near(c, 0), NEW a, IsElement(a), IsAtom(a), NEW env, IsElement(env)
    PROVE  Near(EvalAtom(c, a, env), 7)
<1> DEFINE s == Spend(c, atom_scan(a.width))
           n == AsInt(a)
           r == ResolveEnv(env, n)
           p == Spend(s, r.cost)
<1>1. n \in Int
  BY ElementKinds, IntegerOf
<1>2. EvalAtom(c, a, env) =
          IF ~Ok(s) THEN s
          ELSE IF n < 1 THEN fin_value(s, a)
          ELSE IF ~Ok(p) THEN p
          ELSE fin_value(Build(p, r.built), r.val)
  BY DEF EvalAtom
<1>3. EndsWell(1, r)
  BY <1>1, EnvironmentEnds
<1> HIDE DEF r
<1>4. r.built \in Nat /\ 0 + r.built <= 1 /\ 0 \in Int /\ 1 \in Int
  BY <1>3 DEF EndsWell
<1>5. Near(s, 0)
  BY NearFree
<1> HIDE DEF s
<1>6. Near(p, 0)
  BY <1>5, NearFree
<1> HIDE DEF p
<1>7. Near(Build(p, r.built), 1)
  BY <1>4, <1>6, NearBuild
<1>8. Near(s, 7) /\ Near(p, 7) /\ Near(fin_value(s, a), 7)
  BY <1>5, <1>6, NearSmall
<1>9. Near(fin_value(Build(p, r.built), r.val), 7)
  BY <1>7, NearSmall
<1> QED
  BY <1>2, <1>8, <1>9

\* fn_blleval of a pair.
LEMMA EvalConsNear ==
    ASSUME NEW c, Near(c, 0), NEW expr, NEW env
    PROVE  Near(EvalCons(c, expr, env), 7)
<1> DEFINE op == expr.val1
           s == Spend(c, atom_scan(op.width))
           func == OpcodeFunc(AsInt(op))
           m == InitialOpBuilt(func.op)
           r == ResolveOpcode(c, op)
<1>1. r.c \in {c, s, Build(s, m)}
  BY DEF ResolveOpcode
<1>2. EvalCons(c, expr, env) =
          IF IsFunc(r.func) THEN new_continuation(r.c, r.func, expr.val2, env)
          ELSE IF Ok(r.c) THEN error(r.c, "invalid opcode")
          ELSE r.c
  BY DEF EvalCons
<1>3. m \in Nat /\ 0 + m <= 2 /\ 0 \in Int /\ 2 \in Int
  BY InitialCount
<1> HIDE DEF m, r
<1>4. Near(s, 0)
  BY NearFree
<1> HIDE DEF s
<1>5. Near(Build(s, m), 2)
  BY <1>3, <1>4, NearBuild
<1>6. \A d : Near(d, 0) => Near(d, 2)
  BY NearMore
<1>7. Near(r.c, 2)
  BY <1>1, <1>4, <1>5, <1>6
<1>8. Near(r.c, 7) /\ \A msg : Near(error(r.c, msg), 7)
  BY <1>7, NearSmall
<1>9. Near(new_continuation(r.c, r.func, expr.val2, env), 7)
  BY <1>8, NearFree
<1> QED
  BY <1>2, <1>8, <1>9

\* fn_blleval.step.
LEMMA BllEvalNear ==
    ASSUME NEW c, Near(c, 0), NEW f, FrameOk(f), f.fn.fn = "blleval"
    PROVE  Near(BllEvalStep(c, f), 7)
<1>1. IsElement(f.args) /\ IsElement(f.env)
  BY FrameParts
<1>2. Near(fin_value(c, f.args), 7) /\ \A msg : Near(error(c, msg), 7)
  BY NearSmall
<1>3. IsAtom(f.args) => Near(EvalAtom(c, f.args, f.env), 7)
  BY <1>1, EvalAtomNear
<1>4. IsCons(f.args) => Near(EvalCons(c, f.args, f.env), 7)
  BY EvalConsNear
<1>5. \/ BllEvalStep(c, f) = fin_value(c, f.args)
      \/ \E msg : BllEvalStep(c, f) = error(c, msg)
      \/ IsAtom(f.args) /\ BllEvalStep(c, f) = EvalAtom(c, f.args, f.env)
      \/ IsCons(f.args) /\ BllEvalStep(c, f) = EvalCons(c, f.args, f.env)
  BY <1>1, BllEvalWays
<1> QED
  BY <1>2, <1>3, <1>4, <1>5

\* A construction, and a frame pushed, overrun no guard.
LEMMA BuildQuiet ==
    ASSUME NEW c, NEW k \in Int, Kept(c, k), ~c.budget.guard_breach, NEW n \in Nat
    PROVE  /\ \E j \in Int : Kept(Build(c, n), j)
           /\ ~Build(c, n).budget.guard_breach
           /\ \A fn, args, env : ~new_continuation(Build(c, n), fn, args, env).budget.guard_breach
<1> DEFINE j == k - 12 * n
           d == Build(c, n)
<1>1. j \in Int /\ j + 12 * n <= k
  OBVIOUS
<1> HIDE DEF j
<1>2. Kept(d, j) /\ d.budget.guard_breach = c.budget.guard_breach
  BY <1>1, BuildKept
<1> HIDE DEF d
<1>3. d \in [stack : {d.stack}, budget : {d.budget}, made : {d.made}]
  BY <1>2 DEF Kept, Fit
<1>4. ASSUME NEW fn, NEW args, NEW env
      PROVE  new_continuation(d, fn, args, env).budget = d.budget
  <2> DEFINE s == Append(d.stack, Frame(fn, args, env))
  <2>1. new_continuation(d, fn, args, env) = [d EXCEPT !.stack = s]
    BY DEF new_continuation
  <2> HIDE DEF s
  <2> QED
    BY <1>3, <2>1
<1> QED
  BY <1>1, <1>2, <1>4 DEF d

\* The value delivered overruns no guard.
LEMMA FinQuiet ==
    ASSUME NEW c, NEW k \in Int, Kept(c, k), ~c.budget.guard_breach, NEW v
    PROVE  ~Deliver(c, v).budget.guard_breach
<1>1. ~fin_value(c, v).budget.guard_breach
  BY BuildQuiet DEF fin_value
<1>2. Throw(c).budget = c.budget
  <2>1. c \in [stack : {c.stack}, budget : {c.budget}, made : {c.made}]
    BY DEF Kept, Fit
  <2> QED
    BY <2>1 DEF Throw, new_continuation
<1> QED
  BY <1>1, <1>2 DEF Deliver

\* A handler that ends without an overrun may build up to the bound.
LEMMA QuietClose ==
    ASSUME NEW c, NEW w \in Nat, NEW n \in Int, Near(c, n), n <= 9 + w, ~c.budget.guard_breach
    PROVE  Close(c, w)
<1> DEFINE m == StepConstructions + w
<1>1. m \in Int /\ n <= m
  BY StepBound
<1> HIDE DEF m
<1>2. Near(c, m)
  BY <1>1, NearMore
<1> QED
  BY <1>2 DEF Close, m

\* A charge that succeeds finds the count below the cap.
LEMMA OkNear ==
    ASSUME NEW c, NEW k \in Int, Kept(c, k), c.made <= job.cap \/ Ok(c), made \in Nat
    PROVE  Near(c, 0) /\ job.cap \in Nat /\ HighMark \in Nat /\ job.cap <= HighMark
<1>1. /\ c \in [stack : {c.stack}, budget : {c.budget}, made : {c.made}]
      /\ c.made \in Nat /\ job.cap \in Nat /\ (c.budget.alloc_breach <=> c.made > job.cap)
  BY DEF Kept, Fit
<1>2. c.made <= job.cap
  BY <1>1 DEF Ok, Latched
<1>3. HighMark \in Nat /\ job.cap <= HighMark
  BY <1>1 DEF HighMark, Wider
<1>4. c.made <= HighMark + 0
  BY <1>1, <1>2, <1>3
<1> QED
  BY <1>1, <1>3, <1>4 DEF Near

\* A fold is built after its charge: at most eight elements and a frame.
LEMMA FoldNear ==
    ASSUME NEW p, NEW k \in Int, Kept(p, k), Ok(p), Near(p, 0), NEW n \in Nat, n <= 8
    PROVE  /\ \A v : Close(Deliver(Build(p, n), v), 0)
           /\ \A fn, args, env : Close(new_continuation(Build(p, n + 1), fn, args, env), 0)
<1>1. ~p.budget.guard_breach
  BY DEF Ok, Latched
<1>2. n \in Int /\ n + 1 \in Int /\ n + 1 \in Nat /\ 0 \in Int /\ 0 \in Nat
      /\ 0 + n <= n /\ 0 + (n + 1) <= n + 1 /\ n + 1 <= n + 1 /\ n + 1 <= 9 + 0
  OBVIOUS
<1> DEFINE m == n + 1
           b == Build(p, n)
           d == Build(p, m)
<1>3. Near(b, n) /\ (\E j \in Int : Kept(b, j)) /\ ~b.budget.guard_breach
  <2> HIDE DEF m
  <2> QED
    BY <1>1, <1>2, NearBuild, BuildQuiet
<1>4. Near(d, m) /\ \A fn, args, env : ~new_continuation(d, fn, args, env).budget.guard_breach
  <2>1. m \in Int /\ m \in Nat /\ 0 + m <= m /\ 0 \in Int
    BY <1>2
  <2> HIDE DEF m
  <2> QED
    BY <1>1, <2>1, NearBuild, BuildQuiet
<1> HIDE DEF b, d, m
<1>5. \A v : Near(Deliver(b, v), m) /\ ~Deliver(b, v).budget.guard_breach
  <2>1. \A v : Near(Deliver(b, v), m)
    <3>1. m \in Int /\ n + 1 <= m
      BY <1>2 DEF m
    <3> QED
      BY <1>3, <3>1, NearEnds
  <2>2. \A v : ~Deliver(b, v).budget.guard_breach
    BY <1>3, FinQuiet
  <2> QED
    BY <2>1, <2>2
<1>6. \A fn, args, env : Near(new_continuation(d, fn, args, env), m)
  BY <1>4, NearFree
<1>7. m \in Int /\ m <= 9 + 0 /\ 0 \in Nat
  BY <1>2 DEF m
<1>8. \A x : Near(x, m) /\ ~x.budget.guard_breach => Close(x, 0)
  BY <1>7, QuietClose
<1> QED
  BY <1>4, <1>5, <1>6, <1>8 DEF b, d, m

\* fn_op.feedback.
LEMMA OpFeedbackNear ==
    ASSUME NEW c, Kept(c, 48), Near(c, 0), NEW f, FrameOk(f), f.fn.fn = "op",
           NEW value, IsElement(value)
    PROVE  Close(OpFeedback(c, f, value), 0)
<1> DEFINE r == argument(View, f.fn.op, f.fn.ist, f.fn.state, value)
           p == Spend(c, r.cost)
<1>1. f.fn # Unbound
  BY UnboundClass
<1>2. /\ f.fn.op \in Operators /\ IsElement(f.fn.state)
      /\ Held(f.fn.op, f.fn.ist, f.fn.state)
  BY <1>1 DEF FrameOk, FuncOk
<1>3. FoldsTo(f.fn.op, r)
  BY <1>2, OperatorsFold, ViewAnswers DEF Kept
<1> HIDE DEF r
<1>4. r.cost \in Nat /\ r.built \in Nat /\ r.built <= 8
  BY <1>3 DEF FoldsTo
<1>5. 48 \in Int /\ 0 \in Nat /\ 0 \in 0..5
  OBVIOUS
<1>6. Kept(p, 48) /\ Near(p, 0)
  BY <1>4, <1>5, SpendKept, NearFree
<1>7. OpFeedback(c, f, value) =
          IF ~Ok(p) THEN p
          ELSE IF IsError(r.val) THEN Deliver(Build(p, r.built), r.val)
          ELSE new_continuation(Build(p, r.built + 1), Refed(f.fn, r), f.args, f.env)
  BY DEF OpFeedback, Folded, r
<1> HIDE DEF p
<1>8. Close(p, 0)
  BY <1>5, <1>6, NearSmall, NearClose
<1>9. Ok(p) => /\ \A v : Close(Deliver(Build(p, r.built), v), 0)
               /\ \A fn, args, env :
                      Close(new_continuation(Build(p, r.built + 1), fn, args, env), 0)
  BY <1>4, <1>5, <1>6, FoldNear
<1> QED
  BY <1>7, <1>8, <1>9

\* fn_partial.feedback: the frame kept for the binding is charged on its own, by
\* then after the fold.
LEMMA PartialFeedbackNear ==
    ASSUME NEW c, Kept(c, 48), Near(c, 0), made \in Nat, NEW f, FrameOk(f),
           f.fn.fn = "partial", NEW value, IsElement(value)
    PROVE  Close(PartialFeedback(c, f, value), 0)
<1>1. CASE f.fn = Unbound
  <2>1. Near(PartialBind(c, f, value), 7) /\ 0 \in Nat
    BY PartialBindNear
  <2> QED
    BY <1>1, <2>1, NearClose DEF PartialFeedback
<1>2. CASE f.fn # Unbound
  <2> DEFINE r == argument(View, f.fn.op, f.fn.ist, f.fn.state, value)
             p == Spend(c, r.cost)
             n == r.built + 1
             q == Build(p, n)
             t == Spend(q, ELEMENT_ALLOC)
  <2>1. /\ f.fn.op \in Operators /\ IsElement(f.fn.state)
        /\ Held(f.fn.op, f.fn.ist, f.fn.state)
    BY <1>2 DEF FrameOk, FuncOk
  <2>2. FoldsTo(f.fn.op, r)
    BY <2>1, OperatorsFold, ViewAnswers DEF Kept
  <2>3. PartialFeedback(c, f, value) =
            IF ~Ok(p) THEN p
            ELSE IF IsError(r.val) THEN Deliver(Build(p, r.built), r.val)
            ELSE IF ~Ok(t) THEN t
            ELSE new_continuation(Build(t, 1), Binding(Refed(f.fn, r)), f.args, f.env)
    BY <1>2 DEF PartialFeedback, PartialFolded
  <2> HIDE DEF r
  <2>4. r.cost \in Nat /\ r.built \in Nat /\ r.built <= 8
    BY <2>2 DEF FoldsTo
  <2>5. /\ 48 \in Int /\ 0 \in Nat /\ 0 \in 0..5 /\ 1 \in 0..5 /\ 0 \in Int /\ 1 \in Nat
        /\ n \in Nat /\ n \in Int /\ 0 + n <= n /\ n <= 9 + 0
    BY <2>4
  <2> HIDE DEF n
  <2>6. Kept(p, 48) /\ Near(p, 0)
    BY <2>4, <2>5, SpendKept, NearFree
  <2> HIDE DEF p
  <2>7. Close(p, 0)
    BY <2>5, <2>6, NearSmall, NearClose
  <2>8. Ok(p) => \A v : Close(Deliver(Build(p, r.built), v), 0)
    BY <2>4, <2>5, <2>6, FoldNear
  <2>9. ASSUME Ok(p)
        PROVE  /\ Close(t, 0)
               /\ Ok(t) => \A fn, args, env : Close(new_continuation(Build(t, 1), fn, args, env), 0)
    <3>1. ~p.budget.guard_breach
      BY <2>9 DEF Ok, Latched
    <3>2. Near(q, n) /\ ~q.budget.guard_breach
      BY <2>5, <2>6, <3>1, NearBuild, BuildQuiet
    <3>3. PICK j \in Int : Kept(q, j)
      BY <2>5, <2>6, <3>1, BuildQuiet
    <3> HIDE DEF q
    <3>4. ELEMENT_ALLOC \in Nat
      BY DEF ELEMENT_ALLOC
    <3>5. /\ Kept(t, j) /\ t.budget = charge(q.budget, ELEMENT_ALLOC) /\ (Ok(t) => Ok(q))
          /\ Near(t, n)
      BY <3>2, <3>3, <3>4, SpendKept, NearFree
    <3>6. Ok(q) => Near(t, 0)
      <4>1. Ok(q) => Near(q, 0)
        BY <3>3, OkNear
      <4> QED
        BY <4>1, NearFree
    <3>7. ~Ok(q) => t.budget = q.budget
      BY <3>5 DEF Ok, charge
    <3> HIDE DEF t
    <3>8. CASE Ok(q)
      <4>1. Near(t, 0)
        BY <3>6, <3>8
      <4>2. Close(t, 0)
        BY <2>5, <4>1, NearSmall, NearClose
      <4>3. Near(Build(t, 1), 1)
        BY <2>5, <4>1, NearBuild
      <4>4. \A fn, args, env : Near(new_continuation(Build(t, 1), fn, args, env), 1)
        BY <4>3, NearFree
      <4>5. \A fn, args, env : Close(new_continuation(Build(t, 1), fn, args, env), 0)
        BY <2>5, <4>4, NearSmall, NearClose
      <4> QED
        BY <4>2, <4>5
    <3>9. CASE ~Ok(q)
      <4>1. ~t.budget.guard_breach
        BY <3>2, <3>7, <3>9
      <4>2. Close(t, 0)
        BY <2>5, <3>5, <4>1, QuietClose
      <4> QED
        BY <3>5, <3>9, <4>2
    <3> QED
      BY <3>8, <3>9
  <2> QED
    BY <2>3, <2>7, <2>8, <2>9
<1> QED
  BY <1>1, <1>2

\* The legs of an operator's end, its last charge and what it delivers.
LEMMA FinishingNear ==
    ASSUME NEW c, Kept(c, 24), Ok(c), made \in Nat, NEW w \in Nat, NEW r, EndsWell(1 + w, r)
    PROVE  Close(Finishing(c, r), w)
<1> DEFINE most == 1 + w
           t == PayInTurn(c, r.legs)
           s == Spend(t, r.cost)
           n == r.built
<1>1. /\ r.cost \in Nat /\ n \in Nat /\ n <= most /\ Thin(most, r.legs)
      /\ \E p : Runs(r.legs, p)
  BY DEF EndsWell
<1>2. PICK p : Runs(r.legs, p)
  BY <1>1
<1>3. 24 \in Int /\ most \in Nat /\ most \in Int /\ 0 \in Nat /\ 0 \in Int
      /\ 0 + n <= n /\ n \in Int /\ n + 1 \in Int /\ n + 1 <= n + 1 /\ n + 1 <= 9 + w
      /\ most <= 9 + w
  BY <1>1
<1>4. PICK k \in Nat : /\ k = 0 \/ \E i \in 1..Len(r.legs) : k = r.legs[i].built
                       /\ t.made <= job.cap + k
  BY <1>2, <1>3, TurnsKept
<1>5. Kept(t, 24) /\ (t.budget.guard_breach => t.made <= job.cap)
  BY <1>2, <1>3, TurnsKept
<1>6. k <= most
  BY <1>1, <1>3, <1>4 DEF Thin
<1> HIDE DEF t, most
<1>7. t.made \in Nat /\ job.cap \in Nat
  BY <1>5 DEF Kept, Fit
<1>8. HighMark \in Nat /\ job.cap <= HighMark
  BY <1>7 DEF HighMark, Wider
<1>9. Near(t, most)
  <2>1. t.made <= HighMark + most
    BY <1>3, <1>4, <1>6, <1>7, <1>8, SMTT(30)
  <2> QED
    BY <1>5, <1>7, <1>8, <2>1 DEF Near, Kept, Fit
<1>10. /\ Kept(s, 24) /\ s.made = t.made /\ s.budget = charge(t.budget, r.cost)
       /\ Ok(s) => Ok(t)
  BY <1>1, <1>3, <1>5, SpendKept, ZenonT(40)
<1>11. Near(s, most)
  BY <1>9, NearFree
<1>12. Finishing(c, r) = IF Ok(s) THEN Deliver(Build(s, n), r.val) ELSE s
  BY DEF Finishing, t
<1>13. ~Ok(t) => s.budget = t.budget
  BY <1>10 DEF Ok, charge
<1> HIDE DEF s
<1>14. CASE Ok(s)
  <2> DEFINE b == Build(s, n)
             d == Deliver(b, r.val)
             m == n + 1
  <2>1. ~s.budget.guard_breach /\ Near(s, 0)
    BY <1>3, <1>10, <1>14, OkNear DEF Ok, Latched
  <2>2. Near(b, n) /\ ~b.budget.guard_breach /\ \E j \in Int : Kept(b, j)
    BY <1>1, <1>3, <1>10, <2>1, NearBuild, BuildQuiet
  <2> HIDE DEF b
  <2>3. Near(d, m)
    <3>1. m \in Int /\ n + 1 <= m
      BY <1>3
    <3> HIDE DEF m
    <3> QED
      BY <1>1, <2>2, <3>1, NearEnds
  <2>4. ~d.budget.guard_breach
    BY <2>2, FinQuiet
  <2>5. m \in Int /\ m <= 9 + w
    BY <1>3
  <2> HIDE DEF d, m
  <2>6. Close(d, w)
    BY <2>3, <2>4, <2>5, QuietClose
  <2> QED
    BY <1>12, <1>14, <2>6 DEF b, d
<1>15. CASE ~Ok(s)
  <2>1. CASE s.budget.guard_breach
    <3>1. s.made <= job.cap
      <4>1. Ok(t) => t.made <= job.cap
        BY <1>5, <1>7 DEF Kept, Fit, Ok, Latched
      <4> QED
        BY <1>5, <1>10, <1>13, <2>1, <4>1
    <3>2. Near(s, 0)
      BY <1>3, <1>10, <3>1, OkNear
    <3>3. 0 \in 0..5
      OBVIOUS
    <3>4. Close(s, w)
      BY <3>2, <3>3, NearSmall, NearClose
    <3> QED
      BY <1>12, <1>15, <3>4
  <2>2. CASE ~s.budget.guard_breach
    BY <1>3, <1>11, <1>12, <1>15, <2>2, QuietClose
  <2> QED
    BY <2>1, <2>2
<1> QED
  BY <1>14, <1>15

\* fn_op.step.
LEMMA OpStepNear ==
    ASSUME NEW c, Kept(c, 24), Ok(c), Near(c, 0), made \in Nat, NEW f, FrameOk(f),
           f.fn.fn = "op"
    PROVE  Close(OpStep(c, f), Decoded(f.fn.op, f.fn.state)) /\ Decoded(f.fn.op, f.fn.state) \in Nat
<1> DEFINE w == Decoded(f.fn.op, f.fn.state)
           r == finish(View, f.fn.op, f.fn.ist, f.fn.state)
<1>1. f.fn # Unbound
  BY UnboundClass
<1>2. /\ f.fn.op \in Operators /\ IsElement(f.fn.state)
      /\ Held(f.fn.op, f.fn.ist, f.fn.state)
  BY <1>1 DEF FrameOk, FuncOk
<1>3. EndsWell(1 + w, r)
  BY <1>2, OperatorsEnd, ViewAnswers DEF Kept
<1>4. w \in Nat
  BY <1>2, DecodedNatural
<1>5. \/ OpStep(c, f) = Finishing(c, r)
      \/ OpStep(c, f) = EvalNextArg(c, f)
      \/ \E msg : OpStep(c, f) = error(c, msg)
  BY DEF OpStep
<1> HIDE DEF w, r
<1>6. Close(Finishing(c, r), w)
  BY <1>3, <1>4, FinishingNear
<1>7. 0 \in 0..5
  OBVIOUS
<1>8. Near(EvalNextArg(c, f), 7) /\ \A msg : Near(error(c, msg), 7)
  BY <1>7, NearSmall
<1>9. Close(EvalNextArg(c, f), w) /\ \A msg : Close(error(c, msg), w)
  BY <1>4, <1>8, NearClose
<1> QED
  BY <1>4, <1>5, <1>6, <1>9 DEF w

\* WorkItem.feedback's dispatch.
LEMMA ReceiveNear ==
    ASSUME NEW c, Kept(c, 48), Near(c, 0), made \in Nat, NEW f, FrameOk(f),
           f.fn.fn \in Receivers, NEW value, IsElement(value)
    PROVE  Close(Receive(c, f, value), 0)
<1>0. 0 \in Nat
  OBVIOUS
<1>1. CASE f.fn.fn = "op"
  BY <1>1, OpFeedbackNear DEF Receive
<1>2. CASE f.fn.fn = "partial"
  BY <1>2, PartialFeedbackNear DEF Receive
<1>3. CASE f.fn.fn = "apply"
  <2>1. Close(ApplyFeedback(c, f, value), 0)
    BY <1>0, ApplyFeedbackNear, NearClose
  <2> QED
    BY <1>3, <2>1 DEF Receive
<1>4. CASE f.fn.fn = "softfork"
  <2>1. Close(SoftforkFeedback(c, f, value), 0)
    BY <1>0, SoftforkFeedbackNear, NearClose
  <2> QED
    BY <1>4, <2>1 DEF Receive
<1>5. CASE f.fn.fn = "exitguard"
  <2>1. Close(ExitGuardFeedback(c, f, value), 0)
    BY <1>0, ExitGuardNear, NearClose
  <2> QED
    BY <1>5, <2>1 DEF Receive
<1> QED
  BY <1>1, <1>2, <1>3, <1>4, <1>5 DEF Receivers

\* WorkItem.feedback.
LEMMA DeliveryNear ==
    ASSUME NEW c, Kept(c, 24), Near(c, 0), made \in Nat, Receiving(c.stack),
           NEW value, Deliverable(value)
    PROVE  Close(feedback(c, value), 0)
<1> DEFINE p == Spend(c, STEP)
<1>1. feedback(c, value) =
          IF IsError(value) THEN fin_value(unwind(c), value)
          ELSE IF c.stack = <<>> THEN fin_value(c, value)
          ELSE IF ~Ok(p) THEN p
          ELSE Receive(Popped(p), Top(p.stack), value)
  BY DEF feedback
<1>2. p.stack = c.stack /\ (Ok(p) => Kept(p, 48))
  <2>1. 24 \in Int /\ 24 + 24 = 48 /\ 24 \in Nat
    OBVIOUS
  <2> QED
    BY <2>1, SpendKept DEF STEP
<1>3. Near(p, 0)
  BY NearFree
<1> HIDE DEF p
<1>4. Near(unwind(c), 0) /\ Near(Popped(p), 0)
  BY <1>3, NearFree
<1>5. 0 \in 0..5 /\ 0 \in Nat
  OBVIOUS
<1>6. /\ Near(fin_value(unwind(c), value), 7) /\ Near(fin_value(c, value), 7)
      /\ Near(p, 7)
  BY <1>3, <1>4, <1>5, NearSmall
<1>7. /\ Close(fin_value(unwind(c), value), 0) /\ Close(fin_value(c, value), 0)
      /\ Close(p, 0)
  BY <1>5, <1>6, NearClose
<1>8. ASSUME ~IsError(value), c.stack # <<>>, Ok(p)
      PROVE  Close(Receive(Popped(p), Top(p.stack), value), 0)
  <2>1. IsElement(value)
    BY <1>8, ErrKind DEF Deliverable
  <2>2. Kept(Popped(p), 48) /\ FrameOk(Top(p.stack))
    <3>1. 48 \in Int
      OBVIOUS
    <3> QED
      BY <1>2, <1>8, <3>1, PoppedKept
  <2>3. Top(p.stack).fn.fn \in Receivers
    <3>1. Len(c.stack) \in Nat \ {0}
      BY <1>8, BelowEntries DEF Kept, Fit, StackOk
    <3> QED
      BY <1>2, <3>1 DEF Receiving, Top
  <2> QED
    BY <1>4, <2>1, <2>2, <2>3, ReceiveNear
<1> QED
  BY <1>1, <1>7, <1>8

\* What an iteration commits: an overrun guard adds its error.
LEMMA CommitNear ==
    ASSUME NEW d, NEW w \in Nat, Close(d, w), Commit(d)
    PROVE  made' <= HighMark + StepConstructions + w
<1> DEFINE e == Settle(d)
           n == StepConstructions + w
           m == StepConstructions - 2
<1>1. n \in Int /\ m \in Nat /\ m + 2 <= n /\ HighMark + StepConstructions + w = HighMark + n
      /\ HighMark \in Nat
  BY StepBound DEF Close, Near
<1>2. Near(d, n) /\ (d.budget.guard_breach => Near(d, m))
  BY DEF Close
<1> HIDE DEF n, m
<1>3. ASSUME d.budget.guard_breach
      PROVE  Near(e, n)
  <2>1. Near(unwind(d), m)
    BY <1>2, <1>3, NearFree
  <2>2. \A msg : Near(error(unwind(d), msg), n)
    BY <1>1, <2>1, NearEnds
  <2> QED
    BY <1>3, <2>2 DEF Settle
<1>4. Near(e, n)
  BY <1>2, <1>3 DEF Settle
<1>5. made' = e.made
  BY DEF Commit
<1> HIDE DEF e
<1>6. made' <= HighMark + n
  BY <1>4, <1>5 DEF Near
<1> QED
  BY <1>1, <1>6

\* What is left to decode is what the operator on top has been given.
LEMMA BeingDecodedNatural ==
    ASSUME Amounts
    PROVE  /\ BeingDecoded \in Nat
           /\ stack # <<>> => BeingDecoded = Decoded(Top(stack).fn.op, Top(stack).fn.state)
<1> DEFINE f == Top(stack)
<1>1. StackOk(stack)
  BY DEF Amounts, Funded, Fit, Now
<1>2. CASE stack = <<>>
  BY <1>2 DEF BeingDecoded
<1>3. CASE stack # <<>>
  <2>1. Len(stack) \in Nat \ {0}
    BY <1>1, <1>3, BelowEntries DEF StackOk
  <2>2. FrameOk(f)
    BY <1>1, <2>1 DEF StackOk, Top
  <2>3. IsElement(f.fn.state)
    BY <2>2, FrameParts
  <2>4. BeingDecoded = Decoded(f.fn.op, f.fn.state)
    BY <1>3 DEF BeingDecoded, Decoded
  <2> QED
    BY <2>3, <2>4, DecodedNatural
<1> QED
  BY <1>2, <1>3

\* What every iteration starts from.
LEMMA SteppingNear ==
    ASSUME Amounts
    PROVE  /\ made \in Nat /\ HighMark \in Nat /\ made <= HighMark
           /\ Near(Charged, 0) /\ Near(Popped(Charged), 0)
<1>1. Fit(Now) /\ Now.made = made
  BY DEF Amounts, Funded, Now
<1>2. made \in Nat /\ job.cap \in Nat
  BY <1>1 DEF Fit
<1>3. HighMark \in Nat /\ made <= HighMark /\ made <= HighMark + 0
  BY <1>2 DEF HighMark, Wider
<1>4. Near(Now, 0)
  BY <1>1, <1>2, <1>3 DEF Near, Fit
<1>5. Near(Charged, 0)
  BY <1>4, NearFree DEF Charged
<1> QED
  BY <1>2, <1>3, <1>5, NearFree

\* An iteration builds at most so much past the mark.
LEMMA StepNear ==
    ASSUME Inv, Amounts, Step
    PROVE  made' <= HighMark + StepConstructions + BeingDecoded
<1> DEFINE c == Popped(Charged)
           f == Top(stack)
<1>0. Looping
  BY DEF Step, StepRefused, StepValue, StepOp, StepPartial, StepApply, StepSoftfork,
         StepBllEval, Stepping
<1>1. /\ Near(Charged, 0) /\ Near(c, 0) /\ made \in Nat /\ HighMark \in Nat
      /\ BeingDecoded \in Nat
  BY SteppingNear, BeingDecodedNatural
<1>2. Ok(Charged) => /\ Kept(c, 24) /\ Ok(c) /\ Receiving(c.stack) /\ FrameOk(f)
  <2>1. 0 \in Int /\ Funded(0)
    BY DEF Amounts
  <2> QED
    BY <1>0, <2>1, SteppingKept
<1> SUFFICES \E d : Commit(d) /\ (Close(d, BeingDecoded) \/ Close(d, 0))
  <2>1. ASSUME NEW d, Commit(d), Close(d, 0)
        PROVE  made' <= HighMark + StepConstructions + BeingDecoded
    <3>1. 0 \in Nat
      OBVIOUS
    <3>2. made' <= HighMark + StepConstructions + 0
      BY <2>1, <3>1, CommitNear
    <3>3. StepConstructions \in Nat
      BY StepBound
    <3>4. made' \in Nat
      <4>1. Amounts'
        <5>1. 0 \in Int /\ Funded(0)
          BY DEF Amounts
        <5> QED
          BY <5>1, StepAmounts DEF Amounts
      <4> QED
        BY <4>1 DEF Amounts, Funded, Fit, Now
    <3> QED
      BY <1>1, <3>2, <3>3, <3>4
  <2> QED
    BY <1>1, <2>1, CommitNear
<1>3. \A d : Near(d, 0) => Close(d, 0)
  <2>1. 0 \in 0..5 /\ 0 \in Nat
    OBVIOUS
  <2> QED
    BY <2>1, NearSmall, NearClose
<1>4. \A d : Near(d, 7) => Close(d, 0)
  <2>1. 0 \in Nat
    OBVIOUS
  <2> QED
    BY <2>1, NearClose
<1>5. CASE StepRefused
  BY <1>1, <1>3, <1>5 DEF StepRefused
<1>6. CASE StepValue
  <2>1. Ok(Charged) /\ Commit(feedback(c, f.args))
    BY <1>6 DEF StepValue, Stepping
  <2>2. Close(feedback(c, f.args), 0)
    BY <1>1, <1>2, <2>1, FrameParts, DeliveryNear
  <2> QED
    BY <2>1, <2>2
<1>7. CASE StepOp
  <2>1. Ok(Charged) /\ f.fn.fn = "op" /\ Commit(OpStep(c, f))
    BY <1>7 DEF StepOp, Stepping
  <2>2. BeingDecoded = Decoded(f.fn.op, f.fn.state)
    <3>1. stack # <<>>
      BY <1>0 DEF Looping, Inv
    <3> QED
      BY <3>1, BeingDecodedNatural
  <2>3. Close(OpStep(c, f), BeingDecoded)
    BY <1>1, <1>2, <2>1, <2>2, OpStepNear
  <2> QED
    BY <2>1, <2>3
<1>8. CASE StepPartial
  <2>1. Commit(PartialStep(c, f))
    BY <1>8 DEF StepPartial
  <2> QED
    BY <1>1, <1>4, <2>1, PartialStepNear
<1>9. CASE StepApply
  <2>1. Commit(ApplyStep(c, f))
    BY <1>9 DEF StepApply
  <2> QED
    BY <1>1, <1>4, <2>1, ApplyStepNear
<1>10. CASE StepSoftfork
  <2>1. Commit(SoftforkStep(c, f))
    BY <1>10 DEF StepSoftfork
  <2> QED
    BY <1>1, <1>4, <2>1, SoftforkStepNear
<1>11. CASE StepBllEval
  <2>1. Ok(Charged) /\ f.fn.fn = "blleval" /\ Commit(BllEvalStep(c, f))
    BY <1>11 DEF StepBllEval, Stepping
  <2>2. Near(BllEvalStep(c, f), 7)
    BY <1>1, <1>2, <2>1, BllEvalNear
  <2> QED
    BY <1>4, <2>1, <2>2
<1> QED
  BY <1>5, <1>6, <1>7, <1>8, <1>9, <1>10, <1>11 DEF Step

\* Nothing else builds, but the driver's own error.
LEMMA NextNear ==
    ASSUME Inv, Amounts, [Next]_vars
    PROVE  made' <= HighMark + StepConstructions + BeingDecoded
<1>1. /\ made \in Nat /\ HighMark \in Nat /\ made <= HighMark /\ BeingDecoded \in Nat
      /\ StepConstructions = 9
  BY SteppingNear, BeingDecodedNatural, StepBound
<1>2. made' \in {made, made + 1} => made' <= HighMark + StepConstructions + BeingDecoded
  BY <1>1
<1>3. CASE Step
  BY <1>3, StepNear
<1>4. CASE Return
  <2>1. 0 \in Int /\ Funded(0)
    BY DEF Amounts
  <2> QED
    BY <1>2, <1>4, <2>1, ReturnAmounts
<1>5. CASE Done \/ UNCHANGED vars
  BY <1>2, <1>5 DEF Done, vars
<1> QED
  BY <1>3, <1>4, <1>5 DEF Next

\* The element cap is enforced: its latch agrees with the count, and no iteration
\* runs further past it than the constructions it has paid for by then, which only
\* the carries of b and the bytes given to rd can make many.
THEOREM CapHolds ==
    Spec => CapEnforced
<1>1. Inv /\ Amounts /\ [Next]_vars
          => [made' <= Wider(made, job.cap) + StepConstructions + BeingDecoded]_vars
  BY NextNear DEF HighMark
<1>2. Amounts => CapLatched
  BY AmountsLatch
<1>3. Amounts' => CapLatched'
  BY <1>2, PTL
<1>4. Inv /\ Amounts /\ Amounts' /\ [Next]_vars
          => [/\ CapLatched /\ CapLatched'
              /\ made' <= Wider(made, job.cap) + StepConstructions + BeingDecoded]_vars
  BY <1>1, <1>2, <1>3
<1> QED
  BY <1>4, AmountsKept, PTL DEF Spec, CapEnforced
=============================================================================
