--------------------------- MODULE InductionProofs ---------------------------
(***************************************************************************)
(* Induction and recursion over the natural numbers, for the proofs about  *)
(* the loops of the code: from the least number that would refute it.      *)
(***************************************************************************)
EXTENDS Integers, WellFoundedInduction, TLAPS

\* The order of the natural numbers as a set of pairs: no operator is needed.
Less == {ss \in Nat \X Nat : ss[1] < ss[2]}

\* Every set of natural numbers that is not empty has a least element.
LEMMA LessWellFounded == IsWellFoundedOn(Less, Nat)
    BY NatLessThanWellFounded DEF OpToRel, Less

\* A set with 0 and the successors of its elements has all natural numbers.
LEMMA Induction ==
    ASSUME NEW S \in SUBSET Nat, 0 \in S, \A n \in S : n + 1 \in S
    PROVE  S = Nat
<1>1. SUFFICES ASSUME Nat \ S # {} PROVE FALSE
    OBVIOUS
<1>2. PICK m \in Nat \ S : \A n \in Nat \ S : ~(<<n, m>> \in Less)
    BY <1>1, WFMin, LessWellFounded, Zenon
<1>3. m # 0 /\ m - 1 \in Nat /\ <<m - 1, m>> \in Less
    BY DEF Less
<1>4. m - 1 \in S
    BY <1>2, <1>3
<1> QED
    BY <1>3, <1>4

\* One step for each number, on values of D.
Steps(n, D) == [1..n -> [D -> D]]

\* A function on 0..n can be defined from its first value and the step to the next.
LEMMA Recursion ==
    ASSUME NEW D, NEW n \in Nat, NEW start \in D, NEW g \in Steps(n, D)
    PROVE  \E p \in [0..n -> D] :
              \A k \in 0..n : p[k] = IF k = 0 THEN start ELSE g[k][p[k - 1]]
<1> DEFINE Def(m) == \E p \in [0..m -> D] :
              \A k \in 0..m : p[k] = IF k = 0 THEN start ELSE g[k][p[k - 1]]
           S == {m \in Nat : m <= n => Def(m)}
<1>1. 0 \in S
    <2>1. Def(0)
        <3> WITNESS [k \in 0..0 |-> start] \in [0..0 -> D]
        <3> QED
            OBVIOUS
    <2> QED
        BY <2>1
<1>2. \A m \in S : m + 1 \in S
    <2> SUFFICES ASSUME NEW m \in S, m + 1 <= n PROVE Def(m + 1)
        OBVIOUS
    <2>1. PICK p \in [0..m -> D] :
              \A k \in 0..m : p[k] = IF k = 0 THEN start ELSE g[k][p[k - 1]]
        OBVIOUS
    <2> DEFINE q == [k \in 0..(m + 1) |-> IF k = m + 1 THEN g[m + 1][p[m]] ELSE p[k]]
    <2>2. g[m + 1][p[m]] \in D
        BY <2>1 DEF Steps
    <2>3. q \in [0..(m + 1) -> D]
        BY <2>1, <2>2
    <2>4. \A k \in 0..m : q[k] = p[k]
        OBVIOUS
    <2>5. q[m + 1] = g[m + 1][q[m]]
        <3>1. q[m + 1] = g[m + 1][p[m]]
            OBVIOUS
        <3> QED
            BY <2>4, <3>1
    <2> HIDE DEF q
    <2>6. \A k \in 0..(m + 1) : q[k] = IF k = 0 THEN start ELSE g[k][q[k - 1]]
        <3> TAKE k \in 0..(m + 1)
        <3>1. CASE k = m + 1
            <4>1. k # 0 /\ k - 1 = m
                BY <3>1
            <4> QED
                BY <2>5, <3>1, <4>1
        <3>2. CASE k \in 0..m
            BY <2>1, <2>4, <3>2
        <3> QED
            BY <3>1, <3>2
    <2> QED
        BY <2>3, <2>6
<1>3. Def(n)
    <2> HIDE DEF Def
    <2>1. S = Nat
        BY <1>1, <1>2, Induction
    <2> QED
        BY <2>1
<1> QED
    BY <1>3

\* A set that holds the first of 0..n, and with each but the last the next one.
LEMMA UpTo ==
    ASSUME NEW n \in Nat, NEW S, 0 \in S, \A k \in 0..(n - 1) : k \in S => k + 1 \in S
    PROVE  \A k \in 0..n : k \in S
<1> DEFINE T == {k \in Nat : k <= n => k \in S}
<1>1. 0 \in T /\ T \in SUBSET Nat
    OBVIOUS
<1>2. \A k \in T : k + 1 \in T
    OBVIOUS
<1> HIDE DEF T
<1>3. T = Nat
    BY <1>1, <1>2, Induction
<1> QED
    BY <1>3 DEF T
=============================================================================
