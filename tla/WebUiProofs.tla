---------------------------- MODULE WebUiProofs ----------------------------
(***************************************************************************)
(* Proofs about WebUi: a page sent to its end is whole, and a saved form    *)
(* does what its user asked for, for every set of fields, values, time      *)
(* zones and pieces.                                                        *)
(***************************************************************************)
EXTENDS WebConsoleProofs, WebUi

\* ------------------------- Sequences and fields -------------------------
\* out holds the elements of seq[1..k] that are in S, in their order.
Picks(S, seq, k, out) ==
    \E g \in [1..Len(out) -> 1..k] :
       /\ \A i \in 1..Len(out) : out[i] = seq[g[i]] /\ seq[g[i]] \in S
       /\ \A i, j \in 1..Len(out) : i < j => g[i] < g[j]
       /\ \A m \in 1..k : seq[m] \in S => \E i \in 1..Len(out) : g[i] = m

LEMMA PickNext ==
    ASSUME NEW D, NEW S, NEW seq \in Seq(D), NEW k \in 0..(Len(seq) - 1), NEW out \in Seq(D),
           Picks(S, seq, k, out)
    PROVE  LET next == IF seq[k + 1] \in S THEN Append(out, seq[k + 1]) ELSE out
           IN  next \in Seq(D) /\ Picks(S, seq, k + 1, next)
<1> DEFINE n == Len(out)
<1>1. n \in Nat /\ Len(seq) \in Nat /\ k + 1 \in 1..Len(seq) /\ seq[k + 1] \in D
    OBVIOUS
<1>2. PICK g \in [1..n -> 1..k] :
         /\ \A i \in 1..n : out[i] = seq[g[i]] /\ seq[g[i]] \in S
         /\ \A i, j \in 1..n : i < j => g[i] < g[j]
         /\ \A m \in 1..k : seq[m] \in S => \E i \in 1..n : g[i] = m
    BY DEF Picks
<1>3. CASE seq[k + 1] \notin S
    <2>1. g \in [1..n -> 1..(k + 1)]
        BY <1>1, <1>2
    <2>2. \A m \in 1..(k + 1) : seq[m] \in S => \E i \in 1..n : g[i] = m
        BY <1>1, <1>2, <1>3
    <2>3. Picks(S, seq, k + 1, out)
        BY <1>2, <2>1, <2>2, Zenon DEF Picks
    <2> QED
        BY <1>3, <2>3
<1>4. CASE seq[k + 1] \in S
    <2> DEFINE next == Append(out, seq[k + 1])
               h == [i \in 1..(n + 1) |-> IF i = n + 1 THEN k + 1 ELSE g[i]]
    <2>1. /\ next \in Seq(D) /\ Len(next) = n + 1 /\ next[n + 1] = seq[k + 1]
          /\ \A i \in 1..n : next[i] = out[i]
        BY <1>1, AppendProperties
    <2>2. h \in [1..(n + 1) -> 1..(k + 1)] /\ h[n + 1] = k + 1 /\ \A i \in 1..n : h[i] = g[i]
        BY <1>1, <1>2
    <2> HIDE DEF h, next
    <2>3. \A i \in 1..(n + 1) : next[i] = seq[h[i]] /\ seq[h[i]] \in S
        <3> TAKE i \in 1..(n + 1)
        <3>1. i = n + 1 \/ i \in 1..n
            BY <1>1
        <3> QED
            BY <1>2, <1>4, <2>1, <2>2, <3>1
    <2>4. \A i, j \in 1..(n + 1) : i < j => h[i] < h[j]
        <3> SUFFICES ASSUME NEW i \in 1..(n + 1), NEW j \in 1..(n + 1), i < j PROVE h[i] < h[j]
            OBVIOUS
        <3>3. \A m \in Nat : \A a, b \in 1..(m + 1) : a < b => a \in 1..m /\ (b = m + 1 \/ b \in 1..m)
            OBVIOUS
        <3>1. i \in 1..n /\ (j = n + 1 \/ j \in 1..n)
            BY <1>1, <3>3, Zenon
        <3>2. g[i] \in 1..k
            BY <1>2, <3>1
        <3> QED
            BY <1>1, <1>2, <2>2, <3>1, <3>2
    <2>5. \A m \in 1..(k + 1) : seq[m] \in S => \E i \in 1..(n + 1) : h[i] = m
        <3> SUFFICES ASSUME NEW m \in 1..(k + 1), seq[m] \in S
                     PROVE  \E i \in 1..(n + 1) : h[i] = m
            OBVIOUS
        <3>1. CASE m = k + 1
            BY <1>1, <2>2, <3>1
        <3>2. CASE m # k + 1
            <4>1. PICK i \in 1..n : g[i] = m
                BY <1>1, <1>2, <3>2
            <4> QED
                BY <1>1, <2>2, <4>1
        <3> QED
            BY <3>1, <3>2
    <2>7. /\ h \in [1..Len(next) -> 1..(k + 1)]
          /\ \A i \in 1..Len(next) : next[i] = seq[h[i]] /\ seq[h[i]] \in S
          /\ \A i, j \in 1..Len(next) : i < j => h[i] < h[j]
          /\ \A m \in 1..(k + 1) : seq[m] \in S => \E i \in 1..Len(next) : h[i] = m
        BY <2>1, <2>2, <2>3, <2>4, <2>5
    <2>6. Picks(S, seq, k + 1, next)
        BY <2>7, Zenon DEF Picks
    <2> QED
        BY <1>4, <2>1, <2>6 DEF next
<1> QED
    BY <1>3, <1>4

LEMMA PickNone == ASSUME NEW S, NEW seq PROVE Picks(S, seq, 0, <<>>)
<1> DEFINE g == [i \in {} |-> 0]
<1>1. 1..0 = {} /\ Len(<<>>) = 0
    OBVIOUS
<1>2. g \in [1..Len(<<>>) -> 1..0]
    BY <1>1
<1> QED
    BY <1>1, <1>2 DEF Picks

LEMMA OnlyPicks ==
    ASSUME NEW D, NEW S, NEW seq \in Seq(D)
    PROVE  Only(S, seq) \in Seq(D) /\ Picks(S, seq, Len(seq), Only(S, seq))
<1> DEFINE n == Len(seq)
           body(q) == [i \in 0..n |->
                         IF i = 0 THEN <<>>
                         ELSE IF seq[i] \in S THEN Append(q[i - 1], seq[i]) ELSE q[i - 1]]
           only == CHOOSE q : q = body(q)
           L == Seq(D)
           g == [k \in 1..n |-> [d \in L |-> IF seq[k] \in S THEN Append(d, seq[k]) ELSE d]]
<1>1. n \in Nat /\ \A k \in 1..n : seq[k] \in D
    OBVIOUS
<1>2. \E q \in [0..n -> L] : q = body(q)
    <2>1. <<>> \in L /\ g \in Steps(n, L)
        BY <1>1 DEF Steps
    <2>2. \A k \in 1..n : \A d \in L : g[k][d] = IF seq[k] \in S THEN Append(d, seq[k]) ELSE d
        OBVIOUS
    <2> DEFINE start == <<>>
    <2>5. start \in L
        BY <2>1
    <2> HIDE DEF g, L, start
    <2>3. PICK q \in [0..n -> L] :
              \A k \in 0..n : q[k] = IF k = 0 THEN start ELSE g[k][q[k - 1]]
        BY <1>1, <2>1, <2>5, Recursion
    <2> USE DEF start
    <2>4. \A k \in 0..n : q[k] = IF k = 0 THEN <<>>
                                 ELSE IF seq[k] \in S THEN Append(q[k - 1], seq[k]) ELSE q[k - 1]
        <3> TAKE k \in 0..n
        <3>1. k # 0 => k \in 1..n /\ k - 1 \in 0..n
            BY <1>1
        <3>2. k # 0 => q[k - 1] \in L
            BY <3>1
        <3> QED
            BY <2>2, <2>3, <3>1, <3>2
    <2> QED
        BY <2>4
<1>3. only = body(only)
    BY <1>2, Zenon
<1>4. Only(S, seq) = only[n]
    BY DEF Only
<1> HIDE DEF only
<1>5. only[0] = <<>> /\ \A k \in 0..(n - 1) :
          only[k + 1] = IF seq[k + 1] \in S THEN Append(only[k], seq[k + 1]) ELSE only[k]
    <2>1. \A k \in 0..(n - 1) : k + 1 \in 0..n /\ k + 1 # 0 /\ (k + 1) - 1 = k
        BY <1>1
    <2>2. 0 \in 0..n
        BY <1>1
    <2> QED
        BY <1>3, <2>1, <2>2
<1> DEFINE R == {k \in Nat : k <= n => only[k] \in Seq(D) /\ Picks(S, seq, k, only[k])}
<1>6. 0 \in R
    <2>1. only[0] \in Seq(D) /\ Len(only[0]) = 0
        BY <1>5
    <2>2. Picks(S, seq, 0, only[0])
        BY <1>5, PickNone
    <2> QED
        BY <2>1, <2>2
<1>7. \A k \in R : k + 1 \in R
    <2> SUFFICES ASSUME NEW k \in R, k + 1 <= n
                 PROVE  only[k + 1] \in Seq(D) /\ Picks(S, seq, k + 1, only[k + 1])
        OBVIOUS
    <2>1. k \in 0..(n - 1) /\ only[k] \in Seq(D) /\ Picks(S, seq, k, only[k])
        BY <1>1
    <2> DEFINE next == IF seq[k + 1] \in S THEN Append(only[k], seq[k + 1]) ELSE only[k]
    <2>2. next \in Seq(D) /\ Picks(S, seq, k + 1, next)
        BY <2>1, PickNext, Zenon
    <2>3. only[k + 1] = next
        BY <1>5, <2>1
    <2> QED
        BY <2>2, <2>3
<1>8. R = Nat
    <2>1. R \in SUBSET Nat
        OBVIOUS
    <2> HIDE DEF R
    <2> QED
        BY <1>6, <1>7, <2>1, Induction, Zenon
<1> QED
    BY <1>1, <1>4, <1>8

\* The steps of a save, used by this instance or not.
Steps10 == <<"station", "lat", "lon", "alt", "location", "user", "pass", "adm", "tz", "tx">>
Saveable == Fields \cup {"location"}
Place == CHOOSE p \in 1..Len(SaveOrder) : SaveOrder[p] = "location"

LEMMA ConfigConstants ==
    /\ Used \subseteq Fields /\ {"station", "lat", "adm", "tz", "tx"} \subseteq Used
    /\ {0, 1} \subseteq Values /\ Values \subseteq Nat /\ FineValues \subseteq Nat
    /\ \A v \in Values : v \notin FineValues
    /\ Empty \notin Nat /\ TzCount \in Nat \ {0} /\ TzPerChunk \in Nat \ {0} /\ PostBuf \in Nat
    /\ Pieces \subseteq Nat \ {0} /\ "location" \notin Used
    BY WebUiAssumption DEF Fields, Location, Secrets

LEMMA AllSteps ==
    /\ Steps10 \in Seq(Saveable) /\ Len(Steps10) = 10
    /\ \A i, j \in 1..10 : Steps10[i] = Steps10[j] => i = j
    /\ \A f \in Saveable : \E i \in 1..10 : Steps10[i] = f
    /\ \A i \in 1..10 : Steps10[i] \in Location => i < 5
    /\ Steps10[5] = "location"
<1>1. /\ Steps10[1] = "station" /\ Steps10[2] = "lat" /\ Steps10[3] = "lon" /\ Steps10[4] = "alt"
      /\ Steps10[5] = "location" /\ Steps10[6] = "user" /\ Steps10[7] = "pass"
      /\ Steps10[8] = "adm" /\ Steps10[9] = "tz" /\ Steps10[10] = "tx"
      /\ Len(Steps10) = 10
    BY DEF Steps10
<1>2. Steps10 \in Seq(Saveable)
    BY DEF Steps10, Saveable, Fields, Location, Secrets
<1>3. \A i \in 1..10 : i \in {1, 2, 3, 4, 5, 6, 7, 8, 9, 10}
    OBVIOUS
<1>4. \A i, j \in 1..10 : Steps10[i] = Steps10[j] => i = j
    BY <1>1, <1>3
<1>5. \A f \in Saveable : \E i \in 1..10 : Steps10[i] = f
    BY <1>1 DEF Saveable, Fields, Location, Secrets
<1>6. \A i \in 1..10 : Steps10[i] \in Location => i < 5
    BY <1>1, <1>3 DEF Location
<1> QED
    BY <1>1, <1>2, <1>4, <1>5, <1>6

\* Every field has one place in the order, the coordinates before "location".
LEMMA OrderIs ==
    /\ SaveOrder \in Seq(Saveable) /\ Len(SaveOrder) \in Nat
    /\ \A i \in 1..Len(SaveOrder) : SaveOrder[i] \in Used \cup {"location"}
    /\ \A i, j \in 1..Len(SaveOrder) : SaveOrder[i] = SaveOrder[j] => i = j
    /\ \A f \in Used \cup {"location"} : \E i \in 1..Len(SaveOrder) : SaveOrder[i] = f
    /\ Place \in 1..Len(SaveOrder) /\ SaveOrder[Place] = "location"
    /\ \A i \in 1..Len(SaveOrder) : SaveOrder[i] \in Location => i < Place
<1> DEFINE n == Len(SaveOrder)
<1>1. SaveOrder \in Seq(Saveable) /\ Picks(Used \cup {"location"}, Steps10, 10, SaveOrder)
    <2>1. SaveOrder = Only(Used \cup {"location"}, Steps10)
        BY DEF SaveOrder, Steps10
    <2>2. Steps10 \in Seq(Saveable) /\ Len(Steps10) = 10
        BY AllSteps
    <2> QED
        BY <2>1, <2>2, OnlyPicks
<1>2. n \in Nat
    BY <1>1
<1>3. PICK g \in [1..n -> 1..10] :
         /\ \A i \in 1..n : SaveOrder[i] = Steps10[g[i]] /\ Steps10[g[i]] \in Used \cup {"location"}
         /\ \A i, j \in 1..n : i < j => g[i] < g[j]
         /\ \A m \in 1..10 : Steps10[m] \in Used \cup {"location"} => \E i \in 1..n : g[i] = m
    BY <1>1 DEF Picks
<1>4. \A i, j \in 1..n : SaveOrder[i] = SaveOrder[j] => i = j
    <2> SUFFICES ASSUME NEW i \in 1..n, NEW j \in 1..n, SaveOrder[i] = SaveOrder[j] PROVE i = j
        OBVIOUS
    <2>3. g[i] \in 1..10 /\ g[j] \in 1..10 /\ Steps10[g[i]] = Steps10[g[j]]
        BY <1>3
    <2>1. g[i] = g[j] /\ g[i] \in 1..10
        BY <2>3, AllSteps, Zenon
    <2>2. ~(i < j) /\ ~(j < i)
        <3>1. (i < j => g[i] < g[j]) /\ (j < i => g[j] < g[i])
            BY <1>3, Zenon
        <3>2. ~(g[i] < g[i])
            BY <2>1
        <3> QED
            BY <2>1, <3>1, <3>2
    <2> QED
        BY <1>2, <2>2
<1>5. \A f \in Used \cup {"location"} : \E i \in 1..n : SaveOrder[i] = f
    <2> TAKE f \in Used \cup {"location"}
    <2>1. PICK m \in 1..10 : Steps10[m] = f
        BY AllSteps, ConfigConstants DEF Saveable
    <2>2. PICK i \in 1..n : g[i] = m
        BY <1>3, <2>1
    <2> QED
        BY <1>3, <2>1, <2>2
<1>6. Place \in 1..n /\ SaveOrder[Place] = "location"
    BY <1>5 DEF Place
<1>7. \A i \in 1..n : SaveOrder[i] \in Location => i < Place
    <2> SUFFICES ASSUME NEW i \in 1..n, SaveOrder[i] \in Location PROVE i < Place
        OBVIOUS
    <2> DEFINE p == Place
    <2>1. p \in 1..n /\ g[p] \in 1..10 /\ Steps10[g[p]] = "location"
        BY <1>3, <1>6
    <2>2. g[i] \in 1..10 /\ Steps10[g[i]] \in Location
        BY <1>3
    <2>3. 5 \in 1..10 /\ Steps10[5] = "location"
        BY AllSteps
    <2>4. g[p] = 5
        <3> DEFINE q == g[p]
        <3>1. q \in 1..10 /\ Steps10[q] = Steps10[5]
            BY <2>1, <2>3
        <3> HIDE DEF q
        <3>2. q = 5
            BY <2>3, <3>1, AllSteps
        <3> QED
            BY <3>2 DEF q
    <2>5. g[i] < 5
        BY <2>2, AllSteps, Zenon
    <2> HIDE DEF p
    <2>6. ~(p < i) /\ p # i
        BY <1>3, <2>1, <2>2, <2>4, <2>5
    <2> QED
        BY <1>2, <2>1, <2>6 DEF p
<1> QED
    BY <1>1, <1>2, <1>3, <1>4, <1>5, <1>6, <1>7

\* The settings of a save of the location: each coordinate once.
LEMMA LocationOrderIs ==
    /\ LocationOrder \in Seq(Location) /\ Len(LocationOrder) \in Nat
    /\ \A i \in 1..Len(LocationOrder) : LocationOrder[i] \in Location \cap Used
    /\ \A f \in Location \cap Used : \E i \in 1..Len(LocationOrder) : LocationOrder[i] = f
<1> DEFINE all == <<"lat", "lon", "alt">>
<1>1. /\ all \in Seq(Location) /\ Len(all) = 3
      /\ \A f \in Location : \E i \in 1..3 : all[i] = f
      /\ all[1] = "lat" /\ all[2] = "lon" /\ all[3] = "alt"
    BY DEF Location
<1>2. LocationOrder = Only(Used, all)
    BY DEF LocationOrder
<1> HIDE DEF all
<1>3. LocationOrder \in Seq(Location) /\ Picks(Used, all, 3, LocationOrder)
    BY <1>1, <1>2, OnlyPicks
<1>4. \A i \in 1..3 : all[i] \in Location
    BY <1>1
<1> QED
    BY <1>1, <1>3, <1>4 DEF Picks

\* ------------------------------- The form -------------------------------
\* What the settings are, and what a page in a browser shows of them.
Stays ==
    {s \in [Used -> Nat] : s["tz"] \in 0..(TzCount - 1) /\ s["tx"] \in {0, 1}}
Forms ==
    {s \in [Used -> Nat \cup {Empty}] :
       /\ \A f \in Used : IF f \in Secrets THEN s[f] = Empty ELSE s[f] \in Nat
       /\ s["tz"] \in 0..(TzCount - 1) /\ s["tx"] \in {0, 1}}
Item == Used \X (Nat \cup {Empty})

LEMMA InputIs ==
    ASSUME NEW shown \in Forms, NEW edit \in Edits, NEW f \in Used
    PROVE  /\ Input(shown, edit, f) \in Nat \cup {Empty}
           /\ f \in DOMAIN edit => /\ Input(shown, edit, f) = edit[f] /\ edit[f] \in Nat
                                   /\ f = "tz" => edit[f] \in 0..(TzCount - 1)
                                   /\ f = "tx" => edit[f] \in {0, 1}
           /\ f \notin DOMAIN edit =>
                Input(shown, edit, f) = IF f \in Secrets THEN Empty ELSE Printed(f, shown[f])
           /\ f \in {"tz", "tx"} => Printed(f, shown[f]) = shown[f] /\ f \notin Secrets
<1>1. /\ Empty \notin Nat /\ Values \subseteq Nat /\ FineValues \subseteq Nat
      /\ TzCount \in Nat
    BY ConfigConstants
<1>2. ASSUME f \in DOMAIN edit
      PROVE  edit[f] \in Offered(f)
    <2>1. CASE edit = NoEdit
        BY <1>2, <2>1 DEF NoEdit
    <2>2. CASE \E e \in Used : edit \in [{e} -> Offered(e)]
        BY <1>2, <2>2
    <2> QED
        BY <2>1, <2>2 DEF Edits
<1>3. f \in DOMAIN edit => /\ edit[f] \in Nat
                           /\ f = "tz" => edit[f] \in 0..(TzCount - 1)
                           /\ f = "tx" => edit[f] \in {0, 1}
    <2> SUFFICES ASSUME f \in DOMAIN edit
                 PROVE  /\ edit[f] \in Nat
                        /\ f = "tz" => edit[f] \in 0..(TzCount - 1)
                        /\ f = "tx" => edit[f] \in {0, 1}
        OBVIOUS
    <2>1. edit[f] \in Offered(f)
        BY <1>2
    <2>2. Offered(f) \subseteq Nat
        BY <1>1 DEF Offered
    <2>3. f = "tz" => Offered(f) = Values \cap 0..(TzCount - 1)
        BY DEF Offered
    <2>4. f = "tx" => Offered(f) = {0, 1}
        BY DEF Offered
    <2> QED
        BY <2>1, <2>2, <2>3, <2>4
<1>4. IF f \in Secrets THEN shown[f] = Empty ELSE shown[f] \in Nat
    BY DEF Forms
<1>5. f \notin Secrets => Printed(f, shown[f]) \in Nat
    BY <1>1, <1>4 DEF Printed
<1>6. f \in {"tz", "tx"} => Printed(f, shown[f]) = shown[f] /\ f \notin Secrets
    BY DEF Printed, Location, Secrets
<1> QED
    BY <1>1, <1>3, <1>4, <1>5, <1>6 DEF Input

\* The body of a form has one item for each field, but none for a box left open.
LEMMA FormItemsAre ==
    ASSUME NEW shown \in Forms, NEW edit \in Edits
    PROVE  LET items == FormItems(shown, edit)
           IN  /\ items \in Seq(Item) /\ Len(items) <= Len(SaveOrder)
               /\ \A i, j \in 1..Len(items) : items[i][1] = items[j][1] => i = j
               /\ \A i \in 1..Len(items) : /\ items[i][2] = Input(shown, edit, items[i][1])
                                           /\ items[i][1] = "tx" => items[i][2] = 1
               /\ \A f \in Used : (f = "tx" => Input(shown, edit, f) = 1) =>
                     \E i \in 1..Len(items) : items[i][1] = f
<1> DEFINE S == {f \in Used : f = "tx" => Input(shown, edit, f) = 1}
           n == Len(SaveOrder)
           sent == Only(S, SaveOrder)
           m == Len(sent)
           items == FormItems(shown, edit)
<1>1. sent \in Seq(Saveable) /\ Picks(S, SaveOrder, n, sent)
    BY OrderIs, OnlyPicks
<1>2. n \in Nat /\ m \in Nat
    BY <1>1, OrderIs
<1>3. PICK g \in [1..m -> 1..n] :
         /\ \A i \in 1..m : sent[i] = SaveOrder[g[i]] /\ SaveOrder[g[i]] \in S
         /\ \A i, j \in 1..m : i < j => g[i] < g[j]
         /\ \A k \in 1..n : SaveOrder[k] \in S => \E i \in 1..m : g[i] = k
    BY <1>1 DEF Picks
<1>4. items = [i \in 1..m |-> <<sent[i], Input(shown, edit, sent[i])>>]
    BY DEF FormItems
<1> HIDE DEF sent, items
<1>5. \A i \in 1..m : sent[i] \in Used /\ Input(shown, edit, sent[i]) \in Nat \cup {Empty}
    BY <1>3, InputIs
<1>6. items \in Seq(Item) /\ Len(items) = m
    BY <1>2, <1>4, <1>5 DEF Item
<1>7. m <= n
    <2> DEFINE R == {k \in Nat : k <= m => k <= n /\ (k > 0 => k <= g[k])}
    <2>1. 0 \in R
        BY <1>2
    <2>2. \A k \in R : k + 1 \in R
        <3> SUFFICES ASSUME NEW k \in R, k + 1 <= m PROVE k + 1 <= n /\ k + 1 <= g[k + 1]
            OBVIOUS
        <3>1. k + 1 \in 1..m /\ g[k + 1] \in 1..n
            BY <1>2, <1>3
        <3>2. k > 0 => k \in 1..m /\ g[k] \in 1..n /\ g[k] < g[k + 1] /\ k <= g[k]
            BY <1>2, <1>3, <3>1
        <3> QED
            BY <1>2, <3>1, <3>2
    <2>3. R \in SUBSET Nat
        OBVIOUS
    <2> HIDE DEF R
    <2>4. R = Nat
        BY <2>1, <2>2, <2>3, Induction, Zenon
    <2> USE DEF R
    <2> QED
        BY <1>2, <2>4
<1>8. \A i \in 1..m : items[i] = <<sent[i], Input(shown, edit, sent[i])>>
    BY <1>4
<1>9. \A i, j \in 1..m : items[i][1] = items[j][1] => i = j
    <2> SUFFICES ASSUME NEW i \in 1..m, NEW j \in 1..m, items[i][1] = items[j][1] PROVE i = j
        OBVIOUS
    <2>1. SaveOrder[g[i]] = SaveOrder[g[j]] /\ g[i] \in 1..n /\ g[j] \in 1..n
        BY <1>3, <1>8
    <2>2. g[i] = g[j]
        <3>1. \A a, b \in 1..n : SaveOrder[a] = SaveOrder[b] => a = b
            BY OrderIs
        <3> QED
            BY <2>1, <3>1, Zenon
    <2>3. ~(i < j) /\ ~(j < i)
        BY <1>3, <2>1, <2>2
    <2> QED
        BY <1>2, <2>3
<1>10. \A i \in 1..m : /\ items[i][2] = Input(shown, edit, items[i][1])
                       /\ items[i][1] = "tx" => items[i][2] = 1
    BY <1>3, <1>8
<1>11. \A f \in S : \E i \in 1..m : items[i][1] = f
    <2> TAKE f \in S
    <2>1. PICK k \in 1..n : SaveOrder[k] = f
        BY OrderIs
    <2>2. PICK i \in 1..m : g[i] = k
        BY <1>3, <2>1
    <2> QED
        BY <1>3, <1>8, <2>1, <2>2
<1> QED
    BY <1>6, <1>7, <1>9, <1>10, <1>11 DEF items

\* What form_get finds in such a body.
LEMMA FormGetIs ==
    ASSUME NEW shown \in Forms, NEW edit \in Edits, config_post_buf = FormItems(shown, edit),
           NEW f \in Used
    PROVE  form_get(f) = IF f = "tx" /\ Input(shown, edit, f) # 1 THEN Empty
                         ELSE Input(shown, edit, f)
<1> DEFINE items == FormItems(shown, edit)
           named == {i \in DOMAIN items : items[i][1] = f}
<1>1. items \in Seq(Item) /\ DOMAIN items = 1..Len(items) /\ Len(items) \in Nat
    BY FormItemsAre
<1>8. /\ \A i, j \in 1..Len(items) : items[i][1] = items[j][1] => i = j
      /\ \A i \in 1..Len(items) : /\ items[i][2] = Input(shown, edit, items[i][1])
                                  /\ items[i][1] = "tx" => items[i][2] = 1
      /\ (f = "tx" => Input(shown, edit, f) = 1) => \E i \in 1..Len(items) : items[i][1] = f
    BY FormItemsAre
<1>2. \A i \in named : \A j \in named : i = j
    BY <1>1, <1>8
<1>3. \A i \in named : items[i][2] = Input(shown, edit, f) /\ (f = "tx" => items[i][2] = 1)
    <2> TAKE i \in named
    <2>1. i \in 1..Len(items) /\ items[i][1] = f
        BY <1>1
    <2> HIDE DEF items
    <2>2. items[i][2] = Input(shown, edit, items[i][1]) /\ (items[i][1] = "tx" => items[i][2] = 1)
        BY <1>8, <2>1, Zenon
    <2> QED
        BY <2>1, <2>2
<1>4. (f = "tx" => Input(shown, edit, f) = 1) => named # {}
    BY <1>1, <1>8
<1>5. form_get(f) = IF named = {} THEN Empty
                    ELSE items[CHOOSE i \in named : \A j \in named : i <= j][2]
    BY DEF form_get
<1>6. named \subseteq Nat
    BY <1>1
<1> HIDE DEF items, named
<1>7. named # {} => (CHOOSE i \in named : \A j \in named : i <= j) \in named
    <2> SUFFICES ASSUME named # {}
                 PROVE  (CHOOSE i \in named : \A j \in named : i <= j) \in named
        OBVIOUS
    <2>1. PICK e \in named : TRUE
        OBVIOUS
    <2>2. \A j \in named : e <= j
        BY <1>2, <1>6, <2>1
    <2> QED
        BY <2>1, <2>2
<1> QED
    BY <1>3, <1>4, <1>5, <1>7

\* A saved form asks of a field what its user intended.
LEMMA WantedIs ==
    ASSUME NEW f \in Used, holder.shown \in Forms, holder.edit \in Edits, holder.before \in Stays,
           config_post_buf = FormItems(holder.shown, holder.edit), ram[f] = holder.before[f]
    PROVE  Wanted(f) = Intended(f)
<1> DEFINE shown == holder.shown
           edit == holder.edit
           in == Input(shown, edit, f)
           get == form_get(f)
<1>1. get = IF f = "tx" /\ in # 1 THEN Empty ELSE in
    BY FormGetIs
<1>2. /\ in \in Nat \cup {Empty}
      /\ f \in DOMAIN edit => /\ in = edit[f] /\ edit[f] \in Nat
                              /\ f = "tz" => edit[f] \in 0..(TzCount - 1)
                              /\ f = "tx" => edit[f] \in {0, 1}
      /\ f \notin DOMAIN edit => in = IF f \in Secrets THEN Empty ELSE Printed(f, shown[f])
      /\ f \in {"tz", "tx"} => Printed(f, shown[f]) = shown[f] /\ f \notin Secrets
    BY InputIs
<1>3. /\ shown["tz"] \in 0..(TzCount - 1) /\ shown["tx"] \in {0, 1}
      /\ f \notin Secrets => shown[f] \in Nat
    BY DEF Forms
<1>4. /\ Empty \notin Nat /\ TzCount \in Nat
    BY ConfigConstants
<1>5. f \notin Secrets => Printed(f, shown[f]) \in Nat
    BY <1>3 DEF Printed
<1>6. Wanted(f) = IF f = "tx" THEN IF get = 1 THEN 1 ELSE 0
                  ELSE IF f = "tz" THEN IF get \in 0..(TzCount - 1) THEN get ELSE ram[f]
                  ELSE IF get = Empty THEN ram[f] ELSE get
    BY DEF Wanted
<1>7. Intended(f) =
        IF f \in DOMAIN edit THEN edit[f]
        ELSE IF \/ f \in Secrets
                \/ shown[f] = holder.before[f] /\ Printed(f, holder.before[f]) = holder.before[f]
             THEN holder.before[f]
        ELSE Printed(f, shown[f])
    BY DEF Intended
<1> HIDE DEF in, get
<1>8. CASE f = "tx"
    <2>1. f \in DOMAIN edit => Wanted(f) = edit[f]
        BY <1>1, <1>2, <1>4, <1>6, <1>8
    <2>2. f \notin DOMAIN edit => Wanted(f) = shown[f] /\ Printed(f, shown[f]) = shown[f] /\ f \notin Secrets
        BY <1>1, <1>2, <1>3, <1>4, <1>6, <1>8
    <2> QED
        BY <1>7, <2>1, <2>2
<1>9. CASE f = "tz"
    <2>1. f \in DOMAIN edit => Wanted(f) = edit[f]
        BY <1>1, <1>2, <1>6, <1>9
    <2>2. f \notin DOMAIN edit => Wanted(f) = shown[f] /\ Printed(f, shown[f]) = shown[f] /\ f \notin Secrets
        BY <1>1, <1>2, <1>3, <1>6, <1>9
    <2> QED
        BY <1>7, <2>1, <2>2
<1>10. CASE f \notin {"tx", "tz"}
    <2>1. Wanted(f) = IF in = Empty THEN ram[f] ELSE in
        BY <1>1, <1>6, <1>10
    <2>2. f \in DOMAIN edit => Wanted(f) = edit[f]
        BY <1>2, <1>4, <2>1
    <2>3. f \notin DOMAIN edit => Wanted(f) = IF f \in Secrets THEN ram[f] ELSE Printed(f, shown[f])
        BY <1>2, <1>4, <1>5, <2>1
    <2> QED
        BY <1>7, <2>2, <2>3
<1> QED
    BY <1>8, <1>9, <1>10

\* Whatever a form holds, the settings stay in range.
LEMMA WantedInRange ==
    ASSUME NEW f \in Used, holder.shown \in Forms, holder.edit \in Edits, ram \in Stays,
           config_post_buf = FormItems(holder.shown, holder.edit)
    PROVE  [ram EXCEPT ![f] = Wanted(f)] \in Stays /\ Wanted(f) \in Nat
<1> DEFINE get == form_get(f)
<1>1. get \in Nat \cup {Empty}
    BY FormGetIs, InputIs
<1>2. ram \in [Used -> Nat] /\ ram["tz"] \in 0..(TzCount - 1) /\ ram["tx"] \in {0, 1}
      /\ TzCount \in Nat
    BY ConfigConstants DEF Stays
<1>3. Wanted(f) = IF f = "tx" THEN IF get = 1 THEN 1 ELSE 0
                  ELSE IF f = "tz" THEN IF get \in 0..(TzCount - 1) THEN get ELSE ram[f]
                  ELSE IF get = Empty THEN ram[f] ELSE get
    BY DEF Wanted
<1> HIDE DEF get
<1>4. /\ Wanted(f) \in Nat
      /\ f = "tz" => Wanted(f) \in 0..(TzCount - 1)
      /\ f = "tx" => Wanted(f) \in {0, 1}
    BY <1>1, <1>2, <1>3
<1> DEFINE new == [ram EXCEPT ![f] = Wanted(f)]
<1>5. new \in [Used -> Nat] /\ \A e \in Used : new[e] = IF e = f THEN Wanted(f) ELSE ram[e]
    BY <1>2, <1>4
<1>6. "tz" \in Used /\ "tx" \in Used
    BY ConfigConstants
<1> HIDE DEF new
<1>7. new["tz"] \in 0..(TzCount - 1) /\ new["tx"] \in {0, 1}
    BY <1>2, <1>4, <1>5, <1>6
<1>8. new \in Stays
    BY <1>5, <1>7 DEF Stays
<1> QED
    BY <1>4, <1>8 DEF new

\* ------------------------------- The page -------------------------------
Least(a, b) == IF a <= b THEN a ELSE b

\* How many time zones the page holds at a position.
Zones(c) == Least(c - 1, TzCount)

Head401 == <<<<"401", 0>>>>
Start == <<<<"header", 0>>>>

\* The request is a form; the fields are named so that EXCEPT keeps them.
IsPost ==
    holder = [method |-> "post", password |-> holder.password, edit |-> holder.edit,
              shown |-> holder.shown, rest |-> holder.rest, before |-> holder.before]

\* No request finds a position that another one left, and the position says what
\* has been sent.
Sending ==
    /\ config_get_chunk_state \in Nat
    /\ stage \in {"idle", "more", "save"} => config_get_chunk_state = 0
    /\ stage \in {"more", "save"} => IsPost
    /\ stage = "render" =>
         /\ config_get_chunk_state = 0 => reply = <<>>
         /\ config_get_chunk_state > 0 =>
              reply = Start \o Options(0, Zones(config_get_chunk_state))
    /\ PageIsWhole

LEMMA OptionsAre ==
    ASSUME NEW a \in Nat, NEW b \in Nat, a <= b, NEW T, \A k \in Int : <<"tz", k>> \in T
    PROVE  Options(a, b) \in Seq(T)
<1> DEFINE n == b - a
<1>1. n \in Nat
    OBVIOUS
<1>2. \A i \in 1..n : <<"tz", a + i - 1>> \in T
    BY <1>1
<1>3. Options(a, b) = [i \in 1..n |-> <<"tz", a + i - 1>>]
    BY DEF Options
<1> HIDE DEF n
<1> QED
    BY <1>1, <1>2, <1>3

LEMMA OptionsJoin ==
    ASSUME NEW a \in Nat, NEW b \in Nat, a <= b
    PROVE  Start \o Options(0, a) \o Options(a, b) = Start \o Options(0, b)
<1>1. /\ Options(0, a) = [i \in 1..a |-> <<"tz", i - 1>>]
      /\ Options(a, b) = [i \in 1..(b - a) |-> <<"tz", a + i - 1>>]
      /\ Options(0, b) = [i \in 1..b |-> <<"tz", i - 1>>]
    BY DEF Options
<1> DEFINE T == {<<"tz", k>> : k \in Int} \cup {<<"header", 0>>}
<1>2. Start \in Seq(T) /\ Options(0, a) \in Seq(T) /\ Options(a, b) \in Seq(T)
      /\ Options(0, b) \in Seq(T)
    <2>1. \A k \in Int : <<"tz", k>> \in T
        OBVIOUS
    <2>2. <<"header", 0>> \in T
        OBVIOUS
    <2> HIDE DEF T
    <2>3. 0 \in Nat /\ 0 <= a /\ 0 <= b
        OBVIOUS
    <2>6. Options(0, a) \in Seq(T) /\ Options(a, b) \in Seq(T) /\ Options(0, b) \in Seq(T)
        BY <2>1, <2>3, OptionsAre, Zenon
    <2> QED
        BY <2>2, <2>6 DEF Start
<1>3. Options(0, a) \o Options(a, b) = Options(0, b)
    <2>1. /\ Len(Options(0, a)) = a /\ Len(Options(a, b)) = b - a /\ Len(Options(0, b)) = b
        BY <1>1
    <2>2. /\ \A i \in 1..a : Options(0, a)[i] = <<"tz", i - 1>>
          /\ \A i \in 1..(b - a) : Options(a, b)[i] = <<"tz", a + i - 1>>
          /\ \A i \in 1..b : Options(0, b)[i] = <<"tz", i - 1>>
        BY <1>1
    <2> DEFINE both == Options(0, a) \o Options(a, b)
    <2>3. /\ both \in Seq(T) /\ Len(both) = b
          /\ \A i \in 1..b : both[i] = IF i <= a THEN Options(0, a)[i] ELSE Options(a, b)[i - a]
        BY <1>2, <2>1, ConcatProperties
    <2> HIDE DEF both, T
    <2>4. \A i \in 1..b : both[i] = Options(0, b)[i]
        <3> TAKE i \in 1..b
        <3>1. CASE i <= a
            <4>1. i \in 1..a
                BY <3>1
            <4> QED
                BY <2>2, <2>3, <3>1, <4>1
        <3>2. CASE ~(i <= a)
            <4>1. i - a \in 1..(b - a) /\ a + (i - a) - 1 = i - 1
                BY <3>2
            <4> QED
                BY <2>2, <2>3, <3>2, <4>1
        <3> QED
            BY <3>1, <3>2
    <2>5. both = Options(0, b)
        BY <1>2, <2>1, <2>3, <2>4, SeqEqual
    <2> QED
        BY <2>5 DEF both
<1>4. (Start \o Options(0, a)) \o Options(a, b) = Start \o (Options(0, a) \o Options(a, b))
    <2>1. \A p, q, r \in Seq(T) : (p \o q) \o r = p \o (q \o r)
        BY ConcatAssociative
    <2> HIDE DEF T
    <2> QED
        BY <1>2, <2>1
<1> QED
    BY <1>3, <1>4

LEMMA TwoFields ==
    ASSUME NEW m, NEW p, NEW e, NEW s, NEW r, NEW b, NEW r2, NEW b2, NEW q,
           q = [[method |-> m, password |-> p, edit |-> e, shown |-> s, rest |-> r, before |-> b]
                  EXCEPT !.rest = r2, !.before = b2]
    PROVE  q = [method |-> m, password |-> p, edit |-> e, shown |-> s, rest |-> r2, before |-> b2]
<1>1. /\ q.before = b2 /\ q.rest = r2 /\ q.method = m /\ q.password = p /\ q.edit = e
      /\ q.shown = s
    OBVIOUS
<1>2. DOMAIN q = {"method", "password", "edit", "shown", "rest", "before"}
    OBVIOUS
<1>3. \A x \in DOMAIN q :
        q[x] = [method |-> m, password |-> p, edit |-> e, shown |-> s, rest |-> r2, before |-> b2][x]
    BY <1>1, <1>2
<1> QED
    BY <1>2, <1>3

LEMMA PostKept ==
    ASSUME IsPost, NEW rest, NEW before,
           \/ before = holder.before /\ holder' = [holder EXCEPT !.rest = rest]
           \/ holder' = [holder EXCEPT !.rest = rest, !.before = before]
    PROVE  /\ IsPost' /\ holder'.method = "post" /\ holder'.rest = rest
           /\ holder'.edit = holder.edit /\ holder'.shown = holder.shown
           /\ holder'.before = before
<1> DEFINE p == [method |-> "post", password |-> holder.password, edit |-> holder.edit,
                 shown |-> holder.shown, rest |-> holder.rest, before |-> holder.before]
           q == [method |-> "post", password |-> holder.password, edit |-> holder.edit,
                 shown |-> holder.shown, rest |-> rest, before |-> before]
<1>1. holder = p
    BY DEF IsPost
<1>2. ASSUME before = holder.before, holder' = [holder EXCEPT !.rest = rest] PROVE holder' = q
    <2>1. holder' = [p EXCEPT !.rest = rest]
        BY <1>1, <1>2
    <2> QED
        BY <1>2, <2>1
<1>3. ASSUME holder' = [holder EXCEPT !.rest = rest, !.before = before] PROVE holder' = q
    <2>1. holder' = [p EXCEPT !.rest = rest, !.before = before]
        BY <1>1, <1>3
    <2> QED
        BY <2>1, TwoFields
<1>4. holder' = q
    BY <1>2, <1>3
<1>5. /\ q = [method |-> "post", password |-> q.password, edit |-> q.edit,
              shown |-> q.shown, rest |-> q.rest, before |-> q.before]
      /\ q.method = "post" /\ q.rest = rest /\ q.edit = holder.edit /\ q.shown = holder.shown
      /\ q.before = before
    OBVIOUS
<1> HIDE DEF p, q
<1> QED
    BY <1>4, <1>5 DEF IsPost

LEMMA SendingInit == UiInit => Sending
    BY DEF UiInit, Sending, PageIsWhole

LEMMA SendingStep == Sending /\ [UiNext]_uiVars => Sending'
<1> SUFFICES ASSUME Sending, [UiNext]_uiVars PROVE Sending'
    OBVIOUS
<1> USE DEF Sending, PageIsWhole, IsPost
<1>1. CASE UNCHANGED <<stage, holder, config_get_chunk_state, reply>>
    BY <1>1
<1>2. ASSUME NEW password, Get(password) PROVE Sending'
    BY <1>2 DEF Get, Open
<1>3. ASSUME NEW edit, NEW password, Post(edit, password) PROVE Sending'
    BY <1>3 DEF Post, Open
<1>4. CASE Complete \/ Aborted
    BY <1>4 DEF Complete, Aborted, Terminal, ResetState
<1>5. ASSUME NEW n, DataMore(n) PROVE Sending'
    <2>1. holder' = [holder EXCEPT !.rest = SubSeq(holder.rest, n + 1, Len(holder.rest))]
        BY <1>5 DEF DataMore
    <2>2. IsPost'
        BY <1>5, <2>1, PostKept DEF DataMore
    <2> QED
        BY <1>5, <2>2 DEF DataMore
<1>6. CASE DataFinal
    <2>1. IsPost' /\ holder'.method = "post"
        BY <1>6, PostKept DEF DataFinal
    <2> QED
        BY <1>6, <2>1 DEF DataFinal
<1>7. CASE Unauthorized
    BY <1>7 DEF Unauthorized
<1>8. CASE Render
    <2> DEFINE c == config_get_chunk_state
    <2>1. CASE FormHeader
        <3>1. reply' = Append(<<>>, <<"header", 0>>) /\ c' = 1 /\ stage' = "render"
            BY <1>8, <2>1 DEF Render, FormHeader
        <3>2. Zones(1) = 0
            BY ConfigConstants DEF Zones, Least
        <3>3. Options(0, 0) = <<>>
            BY DEF Options
        <3>4. reply' = Start \o Options(0, Zones(1))
            BY <3>1, <3>2, <3>3 DEF Start
        <3>5. config_get_chunk_state' = 1 /\ stage' = "render"
            BY <3>1
        <3>6. reply' = Start \o Options(0, Zones(config_get_chunk_state'))
            BY <3>4, <3>5, Zenon
        <3> HIDE DEF c
        <3> QED
            BY <3>5, <3>6
    <2>2. CASE TzOptions
        <3> DEFINE to == IF c - 1 + TzPerChunk > TzCount THEN TzCount ELSE c - 1 + TzPerChunk
        <3>1. /\ c \in 1..TzCount /\ reply' = reply \o Options(c - 1, to)
              /\ c' = c + TzPerChunk /\ stage' = "render"
            BY <1>8, <2>2 DEF Render, TzOptions
        <3>2. /\ Zones(c) = c - 1 /\ Zones(c + TzPerChunk) = to /\ to \in Nat /\ c - 1 \in Nat
              /\ c - 1 <= to /\ c + TzPerChunk \in Nat /\ c + TzPerChunk > 0
            <4>1. c \in 1..TzCount /\ TzCount \in Nat /\ TzPerChunk \in Nat
                BY <3>1, ConfigConstants
            <4> HIDE DEF c
            <4>2. Zones(c) = c - 1 /\ c - 1 \in Nat /\ c + TzPerChunk \in Nat /\ c + TzPerChunk > 0
                BY <4>1 DEF Zones, Least
            <4>3. CASE c - 1 + TzPerChunk > TzCount
                <5>1. ~(c + TzPerChunk - 1 <= TzCount)
                    BY <4>1, <4>3
                <5>2. Zones(c + TzPerChunk) = TzCount
                    BY <4>1, <5>1 DEF Zones, Least
                <5> QED
                    BY <4>1, <4>2, <4>3, <5>2
            <4>4. CASE ~(c - 1 + TzPerChunk > TzCount)
                <5>1. c + TzPerChunk - 1 <= TzCount /\ c + TzPerChunk - 1 = c - 1 + TzPerChunk
                    BY <4>1, <4>4
                <5>2. Zones(c + TzPerChunk) = c - 1 + TzPerChunk
                    BY <4>1, <5>1 DEF Zones, Least
                <5> QED
                    BY <4>1, <4>2, <4>4, <5>2
            <4> QED
                BY <4>3, <4>4
        <3>3. reply = Start \o Options(0, c - 1)
            BY <1>8, <3>1, <3>2 DEF Render
        <3> HIDE DEF to
        <3>4. reply' = Start \o Options(0, to)
            BY <3>1, <3>2, <3>3, OptionsJoin
        <3>5. /\ config_get_chunk_state' \in Nat /\ config_get_chunk_state' > 0 /\ stage' = "render"
              /\ Zones(config_get_chunk_state') = to
            BY <3>1, <3>2
        <3>6. reply' = Start \o Options(0, Zones(config_get_chunk_state'))
            BY <3>4, <3>5, Zenon
        <3> HIDE DEF c
        <3> QED
            BY <3>5, <3>6
    <2>3. CASE Footer
        <3>1. /\ c > TzCount /\ reply' = Append(reply, <<"footer", 0>>)
              /\ c' = 0 /\ stage' = "replied"
            BY <1>8, <2>3 DEF Render, Footer
        <3>2. Zones(c) = TzCount /\ c > 0
            BY <3>1, ConfigConstants DEF Zones, Least
        <3>3. reply = Start \o Options(0, TzCount)
            BY <1>8, <3>2 DEF Render
        <3>4. reply' = (Start \o Options(0, TzCount)) \o <<<<"footer", 0>>>>
            <4> DEFINE T == {<<"tz", k>> : k \in Int} \cup {<<"header", 0>>, <<"footer", 0>>}
            <4>1. Start \in Seq(T) /\ <<"footer", 0>> \in T
                BY DEF Start
            <4>2. Options(0, TzCount) \in Seq(T)
                <5>1. \A k \in Int : <<"tz", k>> \in T
                    OBVIOUS
                <5> HIDE DEF T
                <5>2. 0 \in Nat /\ TzCount \in Nat /\ 0 <= TzCount
                    BY ConfigConstants
                <5> QED
                    BY <5>1, <5>2, OptionsAre, Zenon
            <4> HIDE DEF T
            <4>3. Start \o Options(0, TzCount) \in Seq(T)
                BY <4>1, <4>2, ConcatProperties
            <4> QED
                BY <3>1, <3>3, <4>1, <4>3, AppendIsConcat
        <3> QED
            BY <3>1, <3>4 DEF Start
    <2> QED
        BY <1>8, <2>1, <2>2, <2>3 DEF Render
<1>9. CASE Save \/ SaveRecord
    BY <1>9 DEF Save, SaveRecord
<1>10. CASE Saved
    BY <1>10 DEF Saved
<1>11. CASE MainStores \/ TakeTestPacket \/ SessionMoves \/ \E cmd \in {"!e", "!p", "/restart"} : Console(cmd)
    BY <1>1, <1>11 DEF MainStores, TakeTestPacket, SessionMoves, Console, handler
<1>12. ASSUME NEW stores, Command(stores) PROVE Sending'
    BY <1>1, <1>12 DEF Command, handler
<1>13. CASE Reset
    BY <1>13 DEF Reset
<1>14. CASE UNCHANGED uiVars
    BY <1>1, <1>14 DEF uiVars, handler
<1> QED
    BY <1>2, <1>3, <1>4, <1>5, <1>6, <1>7, <1>8, <1>9, <1>10, <1>11, <1>12, <1>13, <1>14
       DEF UiNext, Running, HttpThread, MainThread, Clients, Server, SetPos, SetName, Reboots,
           PopReboot, RestartFires, CommandReboots

\* A page that is sent to its end is whole, whatever was broken off before it, for
\* every number of time zones and of options in a chunk (web_ui.cpp:735-747).
THEOREM PagesAreWhole == UiSpec => []PageIsWhole
<1>1. Sending => PageIsWhole
    BY DEF Sending
<1> QED
    BY <1>1, SendingInit, SendingStep, PTL DEF UiSpec

\* ------------------------------- The save -------------------------------
\* The settings that main stores too.
Both == {"station"} \cup Location

InRange == ram \in Stays /\ nvs \in Stays /\ form \in Forms \cup {Unseen}

\* The body: what has come and what is still to come make the form.
Receiving ==
    /\ stage = "idle" => config_post_buf = <<>>
    /\ stage \in {"more", "save"} =>
         holder.shown \in Forms /\ holder.edit \in Edits /\ holder.before \in Stays
    /\ stage = "more" =>
         /\ config_post_buf \in Seq(Item) /\ holder.rest \in Seq(Item)
         /\ config_post_buf \o holder.rest = FormItems(holder.shown, holder.edit)
    /\ stage = "save" => config_post_buf = FormItems(holder.shown, holder.edit)

\* The page shows settings, in the end all of them.
Drawing ==
    /\ draft \in [Used -> Nat \cup {Empty}] /\ \A f \in Used \cap Secrets : draft[f] = Empty
    /\ stage = "render" /\ config_get_chunk_state > 0 =>
         /\ \A f \in Used \ ({"tz", "tx"} \cup Secrets) : draft[f] \in Nat
         /\ ram["tz"] < Zones(config_get_chunk_state) => draft["tz"] = ram["tz"]
    /\ stage = "replied" /\ holder.method = "get" /\ reply # Head401 => draft \in Forms

\* Main's list: stores to RAM, then a save that covers them, then its records.
StoreSet == [kind : {"ram", "save", "nvs", "reboot"}, field : Both \cup {"location"}, value : Nat]
Covers(s, f) == s.kind = "save" /\ (s.field = f \/ (s.field = "location" /\ f \in Location))
Owes(s, f) == Covers(s, f) \/ (s.kind = "nvs" /\ s.field = f)
Listed(list) ==
    /\ list \in Seq(StoreSet)
    /\ \A i \in 1..Len(list) : list[i].kind \in {"ram", "nvs"} => list[i].field \in Both \cap Used
    /\ \A i \in 1..Len(list) : list[i].kind = "save" => list[i].field \in {"station", "location"}
    /\ \A i, j \in 1..Len(list) : i < j /\ list[j].kind = "ram" => list[i].kind = "ram"
    /\ \A i, j \in 1..Len(list) : list[j].kind = "ram" => list[i].kind # "nvs"
    /\ \A i \in 1..Len(list) : list[i].kind = "ram" =>
          \E j \in 1..Len(list) : Covers(list[j], list[i].field)

\* As long as no save came between, NVS is what RAM is, or main still owes it that.
Serving ==
    /\ Listed(todo)
    /\ crossed = {} =>
         \A j \in 1..Len(todo) : todo[j].kind = "nvs" => todo[j].value = ram[todo[j].field]
    /\ crossed = {} /\ stage # "save" =>
         \A f \in Both \cap Used : nvs[f] = ram[f] \/ \E j \in 1..Len(todo) : Owes(todo[j], f)

Crossing ==
    /\ crossed \in {{}, Both}
    /\ stage = "save" /\ todo # <<>> => crossed = Both

\* The same for the save: what RAM holds is in NVS, or in the records that are
\* still to be written, or waits for the save of the location.
Saving ==
    /\ web_writes \in Seq(Used \X Nat)
    /\ stage # "save" => web_writes = <<>> /\ \A f \in Used \ Both : nvs[f] = ram[f]
    /\ \A i \in 1..Len(web_writes) :
          web_writes[i][1] \notin crossed => web_writes[i][2] = ram[web_writes[i][1]]
    /\ stage = "save" =>
         \A f \in Used \ crossed :
            \/ nvs[f] = ram[f]
            \/ \E i \in 1..Len(web_writes) : web_writes[i][1] = f
            \/ f \in Location /\ changes /\ at <= Place

\* Fields before the place of the save are as intended, the others as before.
Progress ==
    stage = "save" =>
      /\ at \in 1..(Len(SaveOrder) + 1)
      /\ \A i \in 1..Len(SaveOrder) :
           SaveOrder[i] # "location" /\ SaveOrder[i] \notin crossed =>
             ram[SaveOrder[i]] = IF i < at THEN Intended(SaveOrder[i]) ELSE holder.before[SaveOrder[i]]

UiInv ==
    /\ Sending /\ InRange /\ Receiving /\ Drawing
    /\ Serving /\ Crossing /\ Saving /\ Progress

\* What a running step notes.
Notes ==
    /\ crossed' \in {{}, Both} /\ crossed \subseteq crossed'
    /\ stage' = "save" /\ todo' # <<>> => crossed' = Both

LEMMA NotesTaken ==
    ASSUME Crossing,
           crossed' = IF stage' = "save" /\ todo' # <<>> THEN crossed \cup {"station"} \cup Location
                      ELSE crossed
    PROVE  Notes
    BY DEF Crossing, Notes, Both

LEMMA UiInvInit == UiInit => UiInv
<1> SUFFICES ASSUME UiInit PROVE UiInv
    OBVIOUS
<1>1. /\ Empty \notin Nat /\ TzCount \in Nat \ {0} /\ Used \subseteq Fields
      /\ {"tz", "tx"} \subseteq Used
    BY ConfigConstants
<1>2. ram \in Stays
    BY <1>1 DEF UiInit, Stays
<1>3. [f \in Used |-> IF f \in Secrets THEN Empty ELSE ram[f]] \in Forms
    <2>1. "tz" \notin Secrets /\ "tx" \notin Secrets
        BY DEF Secrets
    <2> QED
        BY <1>1, <1>2, <2>1 DEF Stays, Forms
<1>4. InRange /\ Receiving /\ Crossing
    BY <1>2, <1>3 DEF UiInit, InRange, Receiving, Crossing
<1>5. Drawing
    BY <1>1 DEF UiInit, Drawing, Unseen
<1>6. Serving
    BY DEF UiInit, Serving, Listed
<1>7. Saving /\ Progress
    BY DEF UiInit, Saving, Progress
<1> QED
    BY <1>4, <1>5, <1>6, <1>7, SendingInit DEF UiInv

\* A step of a request that is not a save leaves the rest as it is.
LEMMA QuietStep ==
    ASSUME UiInv, Notes, UNCHANGED <<ram, nvs, todo, web_writes>>, stage # "save", stage' # "save"
    PROVE  Serving' /\ Crossing' /\ Saving' /\ Progress'
<1>1. crossed' = {} => crossed = {}
    BY DEF Notes
<1>2. Crossing' /\ Progress'
    BY DEF Notes, Crossing, Progress
<1>3. Saving'
    BY DEF UiInv, Notes, Saving
<1>4. Serving'
    BY <1>1 DEF UiInv, Serving
<1> QED
    BY <1>2, <1>3, <1>4

\* A draft without a value is no form.
LEMMA UnseenIs ==
    /\ Unseen \in [Used -> Nat \cup {Empty}] /\ \A f \in Used : Unseen[f] = Empty
    BY DEF Unseen

LEMMA GetStep ==
    ASSUME UiInv, Sending', Notes, NEW password, Get(password)
    PROVE  UiInv'
<1>2. InRange' /\ Receiving'
    BY DEF UiInv, InRange, Receiving, Get, Open, settings
<1>3. Drawing'
    BY UnseenIs DEF UiInv, Sending, Drawing, Get, Open
<1>4. Serving' /\ Crossing' /\ Saving' /\ Progress'
    BY QuietStep DEF Get, Open, settings
<1> QED
    BY <1>2, <1>3, <1>4 DEF UiInv

LEMMA PostStep ==
    ASSUME UiInv, Sending', Notes, NEW edit \in Edits, NEW password, Post(edit, password)
    PROVE  UiInv'
<1>1. form \in Forms
    BY DEF UiInv, InRange, Post
<1>2. /\ holder'.shown = form /\ holder'.edit = edit /\ holder'.before = ram
      /\ holder'.rest = FormItems(form, edit) /\ stage = "idle" /\ stage' = "more"
      /\ UNCHANGED <<ram, nvs, form, todo, web_writes, config_post_buf>>
    BY DEF Post, Open, settings
<1>3. FormItems(form, edit) \in Seq(Item) /\ config_post_buf = <<>>
    BY <1>1, <1>2, FormItemsAre DEF UiInv, Receiving
<1>4. InRange' /\ Receiving'
    <2>1. config_post_buf' \o holder'.rest = FormItems(holder'.shown, holder'.edit)
        BY <1>2, <1>3, ConcatEmptySeq
    <2>2. config_post_buf' \in Seq(Item)
        BY <1>2, <1>3
    <2> QED
        BY <1>1, <1>2, <1>3, <2>1, <2>2 DEF UiInv, InRange, Receiving
<1>5. Drawing'
    BY <1>2, UnseenIs DEF UiInv, Drawing, Post, Open
<1>6. Serving' /\ Crossing' /\ Saving' /\ Progress'
    BY <1>2, QuietStep
<1> QED
    BY <1>4, <1>5, <1>6 DEF UiInv

LEMMA EndStep ==
    ASSUME UiInv, Sending', Notes, Complete \/ Aborted
    PROVE  UiInv'
<1>1. /\ stage' = "idle" /\ config_post_buf' = <<>> /\ draft' = Unseen /\ stage # "save"
      /\ UNCHANGED <<ram, nvs, todo, web_writes>>
    BY DEF Complete, Aborted, Terminal, ResetState, settings
<1>2. form' \in Forms \cup {Unseen}
    <2>1. form' = form \/ (Complete /\ holder.method = "get" /\ reply # Head401 /\ form' = draft)
        BY DEF Complete, Aborted, Head401
    <2> QED
        BY <2>1 DEF UiInv, InRange, Drawing, Complete
<1>3. InRange' /\ Receiving'
    BY <1>1, <1>2 DEF UiInv, InRange, Receiving
<1>4. Drawing'
    BY <1>1, UnseenIs DEF UiInv, Drawing
<1>5. Serving' /\ Crossing' /\ Saving' /\ Progress'
    BY <1>1, QuietStep
<1> QED
    BY <1>3, <1>4, <1>5 DEF UiInv

LEMMA RefuseStep ==
    ASSUME UiInv, Sending', Notes, Unauthorized
    PROVE  UiInv'
<1>1. /\ stage' = "replied" /\ stage # "save" /\ reply' = Head401
      /\ UNCHANGED <<ram, nvs, todo, web_writes, form, draft>>
    BY DEF Unauthorized, settings, Head401
<1>2. InRange' /\ Receiving' /\ Drawing'
    BY <1>1 DEF UiInv, InRange, Receiving, Drawing
<1>3. Serving' /\ Crossing' /\ Saving' /\ Progress'
    BY <1>1, QuietStep
<1> QED
    BY <1>2, <1>3 DEF UiInv

LEMMA RenderStep ==
    ASSUME UiInv, Sending', Notes, Render
    PROVE  UiInv'
<1> DEFINE c == config_get_chunk_state
<1>1. /\ stage = "render" /\ stage' \in {"render", "replied"}
      /\ UNCHANGED <<ram, nvs, todo, web_writes, form, holder, config_post_buf>>
    BY DEF Render, FormHeader, TzOptions, Footer, settings
<1>2. InRange' /\ Receiving'
    BY <1>1 DEF UiInv, InRange, Receiving
<1>3. Serving' /\ Crossing' /\ Saving' /\ Progress'
    BY <1>1, QuietStep
<1>4. /\ ram \in [Used -> Nat] /\ ram["tz"] \in 0..(TzCount - 1) /\ ram["tx"] \in {0, 1}
      /\ TzCount \in Nat \ {0} /\ TzPerChunk \in Nat \ {0} /\ c \in Nat
      /\ {"tz", "tx"} \subseteq Used /\ {"tz", "tx"} \cap Secrets = {}
      /\ draft \in [Used -> Nat \cup {Empty}] /\ \A f \in Used \cap Secrets : draft[f] = Empty
    BY ConfigConstants DEF UiInv, InRange, Stays, Sending, Drawing, Secrets
<1>5. ASSUME NEW fields, Shows(fields), fields \cap Secrets = {}
      PROVE  /\ draft' \in [Used -> Nat \cup {Empty}] /\ \A f \in Used \cap Secrets : draft'[f] = Empty
             /\ \A f \in Used : draft'[f] = IF f \in fields THEN ram[f] ELSE draft[f]
    BY <1>4, <1>5 DEF Shows
<1>6. CASE FormHeader
    <2> DEFINE fields == Used \ ({"tz", "tx"} \cup Secrets)
    <2>1. Shows(fields) /\ fields \cap Secrets = {} /\ stage' = "render" /\ c' = 1
        BY <1>1, <1>6 DEF FormHeader
    <2>2. Zones(c') = 0
        BY <1>4, <2>1 DEF Zones, Least
    <2> HIDE DEF c
    <2>3. /\ draft' \in [Used -> Nat \cup {Empty}] /\ \A f \in Used \cap Secrets : draft'[f] = Empty
          /\ \A f \in Used : draft'[f] = IF f \in fields THEN ram[f] ELSE draft[f]
        BY <1>5, <2>1
    <2>4. \A f \in fields : draft'[f] \in Nat
        BY <1>4, <2>3
    <2>5. Drawing'
        BY <1>1, <1>4, <2>1, <2>2, <2>3, <2>4 DEF Drawing, c
    <2> QED
        BY <1>2, <1>3, <2>5 DEF UiInv
<1>7. CASE TzOptions
    <2> DEFINE to == IF c - 1 + TzPerChunk > TzCount THEN TzCount ELSE c - 1 + TzPerChunk
               fields == IF ram["tz"] \in (c - 1)..(to - 1) THEN {"tz"} ELSE {}
    <2>1. /\ Shows(fields) /\ stage' = "render" /\ c \in 1..TzCount /\ c' = c + TzPerChunk
        BY <1>1, <1>7 DEF TzOptions
    <2>2. Zones(c') = to /\ Zones(c) = c - 1 /\ to \in Nat
        BY <1>4, <2>1 DEF Zones, Least
    <2>3. fields \cap Secrets = {}
        BY <1>4
    <2>4. /\ draft' \in [Used -> Nat \cup {Empty}] /\ \A f \in Used \cap Secrets : draft'[f] = Empty
          /\ \A f \in Used : draft'[f] = IF f \in fields THEN ram[f] ELSE draft[f]
        BY <1>5, <2>1, <2>3
    <2>5. \A f \in Used \ ({"tz", "tx"} \cup Secrets) : draft'[f] \in Nat
        BY <1>1, <2>1, <2>4 DEF UiInv, Drawing
    <2>6. ram["tz"] < c - 1 => draft["tz"] = ram["tz"]
        BY <1>1, <2>1, <2>2 DEF UiInv, Drawing
    <2>7. ram["tz"] < to => draft'["tz"] = ram["tz"]
        <3>1. ram["tz"] < c - 1 \/ ram["tz"] \in (c - 1)..(to - 1) \/ ~(ram["tz"] < to)
            BY <1>4, <2>1, <2>2
        <3>2. draft'["tz"] = IF ram["tz"] \in (c - 1)..(to - 1) THEN ram["tz"] ELSE draft["tz"]
            BY <1>4, <2>4
        <3> QED
            BY <2>6, <3>1, <3>2
    <2> HIDE DEF to, fields
    <2>8. Drawing'
        BY <1>1, <2>1, <2>2, <2>4, <2>5, <2>7 DEF Drawing
    <2> QED
        BY <1>2, <1>3, <2>8 DEF UiInv
<1>8. CASE Footer
    <2>1. Shows({"tx"}) /\ stage' = "replied" /\ c > TzCount
        BY <1>1, <1>8 DEF Footer
    <2>2. Zones(c) = TzCount /\ c > 0
        BY <1>4, <2>1 DEF Zones, Least
    <2>3. {"tx"} \cap Secrets = {}
        BY <1>4
    <2>4. /\ draft' \in [Used -> Nat \cup {Empty}] /\ \A f \in Used \cap Secrets : draft'[f] = Empty
          /\ \A f \in Used : draft'[f] = IF f = "tx" THEN ram[f] ELSE draft[f]
        BY <1>5, <2>1, <2>3
    <2>5. /\ \A f \in Used \ ({"tz", "tx"} \cup Secrets) : draft[f] \in Nat
          /\ draft["tz"] = ram["tz"]
        BY <1>1, <1>4, <2>2 DEF UiInv, Drawing
    <2>6. draft'["tz"] = ram["tz"] /\ draft'["tx"] = ram["tx"]
        BY <1>4, <2>4, <2>5
    <2>7. \A f \in Used : IF f \in Secrets THEN draft'[f] = Empty ELSE draft'[f] \in Nat
        BY <1>4, <2>4, <2>5, <2>6
    <2>8. draft' \in Forms
        BY <1>4, <2>4, <2>6, <2>7 DEF Forms
    <2>9. Drawing'
        BY <2>1, <2>4, <2>8 DEF Drawing
    <2> QED
        BY <1>2, <1>3, <2>9 DEF UiInv
<1> QED
    BY <1>6, <1>7, <1>8 DEF Render

\* The buffer of the form holds an item for every step of the save.
FormFits == Len(SaveOrder) <= PostBuf

\* A piece of the body is never skipped.
LEMMA PieceFits ==
    ASSUME FormFits, UiInv, stage = "more", NEW items \in Seq(Item), Len(items) <= Len(holder.rest)
    PROVE  /\ Appended(items) = config_post_buf \o items
           /\ Appended(items) \in Seq(Item)
<1>1. /\ config_post_buf \in Seq(Item) /\ holder.rest \in Seq(Item)
      /\ config_post_buf \o holder.rest = FormItems(holder.shown, holder.edit)
      /\ holder.shown \in Forms /\ holder.edit \in Edits
    BY DEF UiInv, Receiving
<1>2. Len(FormItems(holder.shown, holder.edit)) <= Len(SaveOrder)
    BY <1>1, FormItemsAre
<1>3. Len(config_post_buf \o holder.rest) = Len(config_post_buf) + Len(holder.rest)
    BY <1>1, ConcatProperties
<1>4. /\ Len(config_post_buf) \in Nat /\ Len(holder.rest) \in Nat /\ Len(items) \in Nat
      /\ Len(SaveOrder) \in Nat /\ PostBuf \in Nat
    BY <1>1, OrderIs, ConfigConstants
<1>5. Len(config_post_buf) + Len(items) <= PostBuf
    BY <1>1, <1>2, <1>3, <1>4 DEF FormFits
<1>6. config_post_buf \o items \in Seq(Item)
    BY <1>1, ConcatProperties
<1> QED
    BY <1>5, <1>6 DEF Appended

LEMMA MoreStep ==
    ASSUME FormFits, UiInv, Sending', Notes, NEW n \in Pieces, DataMore(n)
    PROVE  UiInv'
<1> DEFINE rest == holder.rest
           first == SubSeq(rest, 1, n)
           last == SubSeq(rest, n + 1, Len(rest))
<1>1. /\ stage = "more" /\ stage' = "more" /\ n \in Nat \ {0} /\ n <= Len(rest)
      /\ config_post_buf' = Appended(first) /\ holder' = [holder EXCEPT !.rest = last]
      /\ UNCHANGED <<ram, nvs, todo, web_writes, form, draft>>
    BY ConfigConstants DEF DataMore, settings
<1>2. /\ config_post_buf \in Seq(Item) /\ rest \in Seq(Item) /\ Len(rest) \in Nat
      /\ config_post_buf \o rest = FormItems(holder.shown, holder.edit)
      /\ holder.shown \in Forms /\ holder.edit \in Edits /\ holder.before \in Stays /\ IsPost
    BY <1>1 DEF UiInv, Receiving, Sending
<1>3. /\ holder'.rest = last /\ holder'.edit = holder.edit /\ holder'.shown = holder.shown
      /\ holder'.before = holder.before
    BY <1>1, <1>2, PostKept
<1>4. \A i \in 1..Len(rest) : rest[i] \in Item
    BY <1>2
<1>5. first \in Seq(Item) /\ Len(first) = n
    BY <1>1, <1>2, <1>4, SubSeqProperties
<1>6. last \in Seq(Item)
    BY <1>1, <1>2, <1>4, SubSeqProperties
<1>7. first \o last = rest
    <2>1. /\ 1 \in 1..(Len(rest) + 1) /\ n \in 0..Len(rest) /\ Len(rest) \in n..Len(rest)
          /\ 1 - 1 = 0
        BY <1>1, <1>2
    <2>2. SubSeq(rest, 1, n) \o SubSeq(rest, n + 1, Len(rest)) = SubSeq(rest, 1, Len(rest))
        BY <1>2, <2>1, ConcatAdjacentSubSeq
    <2>3. SubSeq(rest, 1, Len(rest)) = rest
        BY <1>2, SubSeqFull
    <2> QED
        BY <2>2, <2>3
<1>14. Len(first) <= Len(holder.rest)
    BY <1>1, <1>5
<1> HIDE DEF first, last
<1>8. config_post_buf' = config_post_buf \o first /\ config_post_buf' \in Seq(Item)
    <2>1. Appended(first) = config_post_buf \o first /\ Appended(first) \in Seq(Item)
        BY <1>1, <1>5, <1>14, PieceFits
    <2> QED
        BY <1>1, <2>1
<1>15. config_post_buf \in Seq(Item) /\ first \in Seq(Item) /\ last \in Seq(Item)
    BY <1>2, <1>5, <1>6
<1>9. (config_post_buf \o first) \o last = config_post_buf \o (first \o last)
    <2>1. \A a, b, c \in Seq(Item) : (a \o b) \o c = a \o (b \o c)
        BY ConcatAssociative
    <2> QED
        BY <1>15, <2>1
<1>10. config_post_buf' \o last = FormItems(holder.shown, holder.edit)
    BY <1>2, <1>7, <1>8, <1>9
<1>11. InRange' /\ Receiving'
    BY <1>1, <1>2, <1>3, <1>6, <1>8, <1>10 DEF UiInv, InRange, Receiving
<1>12. Drawing'
    BY <1>1 DEF UiInv, Drawing
<1>13. Serving' /\ Crossing' /\ Saving' /\ Progress'
    BY <1>1, QuietStep
<1> QED
    BY <1>11, <1>12, <1>13 DEF UiInv

LEMMA FinalStep ==
    ASSUME FormFits, UiInv, Sending', Notes, DataFinal
    PROVE  UiInv'
<1>1. /\ stage = "more" /\ stage' = "save" /\ at' = 1
      /\ config_post_buf' = Appended(holder.rest)
      /\ holder' = [holder EXCEPT !.rest = <<>>, !.before = ram]
      /\ UNCHANGED <<ram, nvs, todo, web_writes, form, draft>>
    BY DEF DataFinal, settings
<1>2. /\ config_post_buf \in Seq(Item) /\ holder.rest \in Seq(Item)
      /\ config_post_buf \o holder.rest = FormItems(holder.shown, holder.edit)
      /\ holder.shown \in Forms /\ holder.edit \in Edits /\ IsPost /\ ram \in Stays
    BY <1>1 DEF UiInv, Receiving, Sending, InRange
<1>3. /\ holder'.edit = holder.edit /\ holder'.shown = holder.shown /\ holder'.before = ram
    BY <1>1, <1>2, PostKept
<1>4. config_post_buf' = FormItems(holder.shown, holder.edit)
    <2>1. Len(holder.rest) <= Len(holder.rest)
        BY <1>2
    <2> QED
        BY <1>1, <1>2, <2>1, PieceFits
<1>5. InRange' /\ Receiving' /\ Drawing'
    BY <1>1, <1>2, <1>3, <1>4 DEF UiInv, InRange, Receiving, Drawing
<1>6. Crossing'
    BY <1>1 DEF Notes, Crossing
<1>7. web_writes = <<>> /\ \A f \in Used \ Both : nvs[f] = ram[f]
    BY <1>1 DEF UiInv, Saving
<1>8. crossed' = {} => crossed = {} /\ todo = <<>>
    <2>1. Both # {}
        BY DEF Both
    <2> QED
        BY <1>1, <2>1 DEF Notes
<1>9. \A f \in Used \ crossed' : nvs[f] = ram[f]
    <2> TAKE f \in Used \ crossed'
    <2>1. CASE f \notin Both
        BY <1>7, <2>1
    <2>2. CASE f \in Both
        <3>1. crossed' = {} /\ crossed = {} /\ todo = <<>>
            BY <1>8, <2>2 DEF Notes
        <3>2. Len(todo) = 0
            BY <3>1
        <3> QED
            BY <1>1, <2>2, <3>1, <3>2 DEF UiInv, Serving
    <2> QED
        BY <2>1, <2>2
<1>10. Saving'
    BY <1>1, <1>7, <1>9 DEF UiInv, Saving
<1>11. Serving'
    BY <1>1, <1>8 DEF UiInv, Serving
<1>12. Progress'
    BY <1>1, <1>3, OrderIs DEF Progress
<1> QED
    BY <1>5, <1>6, <1>10, <1>11, <1>12 DEF UiInv

\* ---------------------------- Steps of a save ----------------------------
\* Main writes nothing while a save runs, unless both are noted.
LEMMA MainWaits ==
    ASSUME UiInv, Notes, stage' = "save", UNCHANGED todo
    PROVE  crossed' = {} => crossed = {} /\ todo = <<>>
<1>1. Both # {}
    BY DEF Both
<1> QED
    BY <1>1 DEF Notes

LEMMA SavedInRange ==
    ASSUME UiInv, stage = "save"
    PROVE  /\ holder.shown \in Forms /\ holder.edit \in Edits /\ holder.before \in Stays
           /\ config_post_buf = FormItems(holder.shown, holder.edit)
           /\ ram \in Stays /\ nvs \in Stays
           /\ ram \in [Used -> Nat] /\ nvs \in [Used -> Nat]
           /\ web_writes \in Seq(Used \X Nat) /\ at \in 1..(Len(SaveOrder) + 1)
    BY DEF UiInv, Receiving, InRange, Saving, Progress, Stays

\* A step of a save that leaves main's list as it is.
LEMMA SaveServes ==
    ASSUME UiInv, Notes, stage = "save", stage' = "save", UNCHANGED todo
    PROVE  Serving' /\ Crossing'
<1>1. crossed' = {} => todo' = <<>>
    BY MainWaits
<1>2. Listed(todo')
    BY DEF UiInv, Serving
<1>3. todo' = <<>> => Len(todo') = 0
    OBVIOUS
<1>4. crossed' = {} => 1..Len(todo') = {}
    BY <1>1, <1>3
<1> HIDE DEF Notes, UiInv
<1>5. Serving'
    BY <1>2, <1>4 DEF Serving
<1>6. Crossing'
    BY DEF Notes, Crossing
<1> QED
    BY <1>5, <1>6

LEMMA SaveFieldStep ==
    ASSUME UiInv, Sending', Notes, Save, SaveField
    PROVE  UiInv'
<1> DEFINE f == SaveOrder[at]
           n == Len(SaveOrder)
<1>1. /\ stage = "save" /\ stage' = "save" /\ web_writes = <<>> /\ at <= n /\ at' = at + 1
      /\ f # "location" /\ ram' = [ram EXCEPT ![f] = Wanted(f)]
      /\ web_writes' = IF f \notin Location /\ MustSave(f) THEN <<<<f, Wanted(f)>>>> ELSE <<>>
      /\ changes' = (changes \/ (f \in Location \cup {"station"} /\ Wanted(f) # ram[f]))
      /\ UNCHANGED <<nvs, todo, config_post_buf, holder, draft, form>>
    BY DEF Save, SaveField
<1>2. /\ holder.shown \in Forms /\ holder.edit \in Edits /\ holder.before \in Stays
      /\ config_post_buf = FormItems(holder.shown, holder.edit)
      /\ ram \in Stays /\ ram \in [Used -> Nat] /\ at \in 1..(n + 1)
    BY <1>1, SavedInRange
<1>3. /\ n \in Nat /\ at \in 1..n /\ f \in Used
      /\ \A i, j \in 1..n : SaveOrder[i] = SaveOrder[j] => i = j
      /\ \A i \in 1..n : SaveOrder[i] \in Used \cup {"location"}
      /\ Place \in 1..n /\ SaveOrder[Place] = "location"
      /\ f \in Location => at < Place
    BY <1>1, <1>2, OrderIs
<1>4. ram' \in Stays /\ Wanted(f) \in Nat
    BY <1>1, <1>2, <1>3, WantedInRange
<1>5. \A e \in Used : ram'[e] = IF e = f THEN Wanted(f) ELSE ram[e]
    BY <1>1, <1>2
<1>6. InRange' /\ Receiving' /\ Drawing'
    BY <1>1, <1>2, <1>4 DEF UiInv, InRange, Receiving, Drawing
<1>7. Serving' /\ Crossing'
    BY <1>1, SaveServes
<1> HIDE DEF f
<1>8. Saving'
    <2>1. web_writes' \in Seq(Used \X Nat)
        <3>1. <<f, Wanted(f)>> \in Used \X Nat
            BY <1>3, <1>4
        <3> DEFINE w == <<f, Wanted(f)>>
        <3>2. web_writes' = <<w>> \/ web_writes' = <<>>
            BY <1>1
        <3> HIDE DEF w
        <3>3. w \in Used \X Nat
            BY <3>1 DEF w
        <3>4. \A a \in Used \X Nat : <<a>> \in Seq(Used \X Nat)
            OBVIOUS
        <3>5. <<>> \in Seq(Used \X Nat)
            OBVIOUS
        <3> QED
            BY <3>2, <3>3, <3>4, <3>5
    <2>2. \A i \in 1..Len(web_writes') : web_writes'[i] = <<f, Wanted(f)>>
        BY <1>1
    <2>3. \A i \in 1..Len(web_writes') : web_writes'[i][2] = ram'[web_writes'[i][1]]
        BY <1>3, <1>5, <2>2
    <2>4. ASSUME NEW e \in Used \ crossed'
          PROVE  \/ nvs'[e] = ram'[e]
                 \/ \E i \in 1..Len(web_writes') : web_writes'[i][1] = e
                 \/ e \in Location /\ changes' /\ at' <= Place
        <3>1. nvs[e] = ram[e] \/ (e \in Location /\ changes /\ at <= Place)
            <4>1. e \notin crossed /\ Len(web_writes) = 0
                BY <1>1, <2>4 DEF Notes
            <4> QED
                BY <1>1, <2>4, <4>1 DEF UiInv, Saving
        <3>2. at' <= Place \/ ~(at <= Place)
            <4>1. at # Place
                BY <1>1, <1>3 DEF f
            <4> QED
                BY <1>1, <1>3, <4>1
        <3>3. CASE ram'[e] = ram[e]
            BY <1>1, <3>1, <3>2, <3>3
        <3>4. CASE ram'[e] # ram[e] /\ f \in Location
            <4>1. e = f /\ Wanted(f) # ram[f]
                BY <1>5, <3>4
            <4>2. at + 1 <= Place
                BY <1>3, <3>4
            <4> QED
                BY <1>1, <3>4, <4>1, <4>2
        <3>5. CASE ram'[e] # ram[e] /\ f \notin Location
            <4>1. e = f /\ Wanted(f) # ram[f]
                BY <1>5, <3>5
            <4>2. web_writes' = <<<<f, Wanted(f)>>>>
                BY <1>1, <3>5, <4>1 DEF MustSave
            <4>3. 1 \in 1..Len(web_writes') /\ web_writes'[1][1] = e
                BY <4>1, <4>2
            <4> QED
                BY <4>3
        <3> QED
            BY <3>3, <3>4, <3>5
    <2> QED
        BY <1>1, <2>1, <2>3, <2>4 DEF Saving
<1>9. Progress'
    <2>1. at' \in 1..(n + 1)
        BY <1>1, <1>3
    <2>2. ASSUME NEW i \in 1..n, SaveOrder[i] # "location", SaveOrder[i] \notin crossed'
          PROVE  ram'[SaveOrder[i]] =
                   IF i < at' THEN Intended(SaveOrder[i]) ELSE holder.before[SaveOrder[i]]
        <3> DEFINE e == SaveOrder[i]
        <3>1. /\ e \in Used /\ e \notin crossed
              /\ ram[e] = IF i < at THEN Intended(e) ELSE holder.before[e]
            BY <1>1, <1>3, <2>2 DEF UiInv, Progress, Notes
        <3>2. CASE i = at
            <4>1. e = f /\ ram[f] = holder.before[f]
                BY <1>3, <3>1, <3>2 DEF f
            <4>2. Wanted(f) = Intended(f)
                BY <1>2, <1>3, <4>1, WantedIs
            <4> QED
                BY <1>1, <1>3, <1>5, <3>1, <3>2, <4>1, <4>2
        <3>3. CASE i # at
            <4>1. e # f
                BY <1>3, <3>3 DEF f
            <4>2. i < at' <=> i < at
                BY <1>1, <1>3, <3>3
            <4> QED
                BY <1>5, <3>1, <4>1, <4>2
        <3> QED
            BY <3>2, <3>3
    <2>3. \A e : Intended(e)' = Intended(e)
        BY <1>1 DEF Intended
    <2> QED
        BY <1>1, <2>1, <2>2, <2>3 DEF Progress
<1> QED
    BY <1>6, <1>7, <1>8, <1>9 DEF UiInv

LEMMA SaveLocationStep ==
    ASSUME UiInv, Sending', Notes, Save, SaveLocation
    PROVE  UiInv'
<1> DEFINE n == Len(SaveOrder)
           m == Len(LocationOrder)
<1>1. /\ stage = "save" /\ stage' = "save" /\ web_writes = <<>> /\ at <= n /\ at' = at + 1
      /\ SaveOrder[at] = "location"
      /\ web_writes' = IF changes THEN LocationWrites ELSE <<>>
      /\ UNCHANGED <<ram, nvs, todo, config_post_buf, holder, draft, form>>
    BY DEF Save, SaveLocation
<1>2. ram \in [Used -> Nat] /\ at \in 1..(n + 1)
    BY <1>1, SavedInRange
<1>3. /\ n \in Nat /\ at \in 1..n /\ at = Place
    <2>1. /\ n \in Nat /\ Place \in 1..n /\ SaveOrder[Place] = "location"
          /\ \A i, j \in 1..n : SaveOrder[i] = SaveOrder[j] => i = j
        BY OrderIs
    <2>2. at \in 1..n
        BY <1>1, <1>2, <2>1
    <2> QED
        BY <1>1, <2>1, <2>2
<1>4. /\ LocationWrites \in Seq(Used \X Nat) /\ Len(LocationWrites) = m
      /\ \A i \in 1..m : LocationWrites[i] = <<LocationOrder[i], ram[LocationOrder[i]]>>
    <2>1. \A i \in 1..m : <<LocationOrder[i], ram[LocationOrder[i]]>> \in Used \X Nat
        BY <1>2, LocationOrderIs
    <2>2. m \in Nat
        BY LocationOrderIs
    <2>3. LocationWrites = [i \in 1..m |-> <<LocationOrder[i], ram[LocationOrder[i]]>>]
        BY DEF LocationWrites
    <2> QED
        BY <2>1, <2>2, <2>3
<1>5. InRange' /\ Receiving' /\ Drawing'
    BY <1>1 DEF UiInv, InRange, Receiving, Drawing
<1>6. Serving' /\ Crossing'
    BY <1>1, SaveServes
<1>7. Saving'
    <2>1. web_writes' \in Seq(Used \X Nat)
        BY <1>1, <1>4
    <2>2. \A i \in 1..Len(web_writes') : web_writes'[i][2] = ram'[web_writes'[i][1]]
        BY <1>1, <1>4
    <2>3. ASSUME NEW e \in Used \ crossed'
          PROVE  nvs'[e] = ram'[e] \/ \E i \in 1..Len(web_writes') : web_writes'[i][1] = e
        <3>1. nvs[e] = ram[e] \/ (e \in Location /\ changes)
            <4>1. e \notin crossed /\ Len(web_writes) = 0
                BY <1>1, <2>3 DEF Notes
            <4> QED
                BY <1>1, <2>3, <4>1 DEF UiInv, Saving
        <3>2. CASE nvs[e] = ram[e]
            BY <1>1, <3>2
        <3>3. CASE e \in Location /\ changes
            <4>1. PICK i \in 1..m : LocationOrder[i] = e
                BY <2>3, <3>3, LocationOrderIs
            <4>2. i \in 1..Len(web_writes') /\ web_writes'[i][1] = e
                BY <1>1, <1>4, <3>3, <4>1
            <4> QED
                BY <4>2
        <3> QED
            BY <3>1, <3>2, <3>3
    <2> QED
        BY <1>1, <2>1, <2>2, <2>3 DEF Saving
<1>8. Progress'
    <2>1. at' \in 1..(n + 1)
        BY <1>1, <1>3
    <2>2. ASSUME NEW i \in 1..n, SaveOrder[i] # "location", SaveOrder[i] \notin crossed'
          PROVE  ram'[SaveOrder[i]] =
                   IF i < at' THEN Intended(SaveOrder[i]) ELSE holder.before[SaveOrder[i]]
        <3>1. /\ SaveOrder[i] \notin crossed /\ i # at
              /\ ram[SaveOrder[i]] =
                   IF i < at THEN Intended(SaveOrder[i]) ELSE holder.before[SaveOrder[i]]
            BY <1>1, <2>2 DEF UiInv, Progress, Notes
        <3>2. i < at' <=> i < at
            BY <1>1, <1>3, <3>1
        <3> QED
            BY <1>1, <3>1, <3>2
    <2>3. \A e : Intended(e)' = Intended(e)
        BY <1>1 DEF Intended
    <2> QED
        BY <1>1, <2>1, <2>2, <2>3 DEF Progress
<1> QED
    BY <1>5, <1>6, <1>7, <1>8 DEF UiInv

LEMMA SaveRecordStep ==
    ASSUME UiInv, Sending', Notes, SaveRecord
    PROVE  UiInv'
<1> DEFINE first == web_writes[1]
           f == first[1]
           v == first[2]
           n == Len(web_writes)
<1>2. /\ ram \in Stays /\ nvs \in Stays /\ nvs \in [Used -> Nat] /\ web_writes \in Seq(Used \X Nat)
    BY SavedInRange DEF SaveRecord
<1>11. Head(web_writes) = first
    BY <1>2 DEF SaveRecord
<1> HIDE DEF first
<1>1. /\ stage = "save" /\ stage' = "save" /\ web_writes # <<>>
      /\ nvs' = [nvs EXCEPT ![f] = v] /\ web_writes' = Tail(web_writes)
      /\ UNCHANGED <<ram, todo, config_post_buf, holder, at, changes, draft, form>>
    BY <1>11 DEF SaveRecord
<1> USE DEF first
<1>3. /\ n \in Nat \ {0} /\ first \in Used \X Nat /\ f \in Used /\ v \in Nat
      /\ web_writes' \in Seq(Used \X Nat) /\ Len(web_writes') = n - 1
      /\ \A i \in 1..(n - 1) : web_writes'[i] = web_writes[i + 1]
    BY <1>1, <1>2
<1>4. f \notin crossed => v = ram[f]
    BY <1>3 DEF UiInv, Saving
<1>5. \A e \in Used : nvs'[e] = IF e = f THEN v ELSE nvs[e]
    BY <1>1, <1>2
<1>6. nvs' \in Stays
    <2>1. "tz" \notin crossed /\ "tx" \notin crossed
        BY DEF UiInv, Crossing, Both, Location
    <2>2. f \in {"tz", "tx"} => v = ram[f]
        BY <1>4, <2>1
    <2>3. "tz" \in Used /\ "tx" \in Used
        BY ConfigConstants
    <2>4. nvs' \in [Used -> Nat]
        BY <1>1, <1>2, <1>3
    <2>5. nvs'["tz"] \in 0..(TzCount - 1) /\ nvs'["tx"] \in {0, 1}
        BY <1>2, <1>5, <2>2, <2>3 DEF Stays
    <2> QED
        BY <2>4, <2>5 DEF Stays
<1>7. InRange' /\ Receiving' /\ Drawing'
    BY <1>1, <1>6 DEF UiInv, InRange, Receiving, Drawing
<1>8. Serving' /\ Crossing'
    BY <1>1, SaveServes
<1> HIDE DEF f, v
<1>9. Saving'
    <2>1. \A i \in 1..Len(web_writes') :
              web_writes'[i][1] \notin crossed' => web_writes'[i][2] = ram'[web_writes'[i][1]]
        <3> SUFFICES ASSUME NEW i \in 1..Len(web_writes'), web_writes'[i][1] \notin crossed'
                     PROVE  web_writes'[i][2] = ram'[web_writes'[i][1]]
            OBVIOUS
        <3>1. i + 1 \in 1..n /\ web_writes'[i] = web_writes[i + 1]
            BY <1>3
        <3>2. web_writes[i + 1][1] \notin crossed
            BY <3>1 DEF Notes
        <3> QED
            BY <1>1, <3>1, <3>2 DEF UiInv, Saving
    <2>2. ASSUME NEW e \in Used \ crossed'
          PROVE  \/ nvs'[e] = ram'[e]
                 \/ \E i \in 1..Len(web_writes') : web_writes'[i][1] = e
                 \/ e \in Location /\ changes' /\ at' <= Place
        <3>1. /\ e \notin crossed
              /\ \/ nvs[e] = ram[e]
                 \/ \E i \in 1..n : web_writes[i][1] = e
                 \/ e \in Location /\ changes /\ at <= Place
            BY <1>1, <2>2 DEF UiInv, Saving, Notes
        <3>2. CASE e = f
            BY <1>1, <1>4, <1>5, <2>2, <3>1, <3>2
        <3>3. CASE e # f
            <4>1. ASSUME NEW i \in 1..n, web_writes[i][1] = e
                  PROVE  \E j \in 1..Len(web_writes') : web_writes'[j][1] = e
                <5>1. i # 1
                    BY <3>3, <4>1 DEF f
                <5>2. i - 1 \in 1..(n - 1) /\ (i - 1) + 1 = i
                    BY <1>3, <5>1
                <5>3. web_writes'[i - 1][1] = e
                    BY <1>3, <4>1, <5>2
                <5> QED
                    BY <1>3, <5>2, <5>3
            <4> QED
                BY <1>1, <1>5, <2>2, <3>1, <3>3, <4>1
        <3> QED
            BY <3>2, <3>3
    <2> QED
        BY <1>1, <1>3, <2>1, <2>2 DEF Saving
<1>10. Progress'
    <2>1. \A e : Intended(e)' = Intended(e)
        BY <1>1 DEF Intended
    <2> QED
        BY <1>1, <2>1 DEF UiInv, Progress, Notes
<1> QED
    BY <1>7, <1>8, <1>9, <1>10 DEF UiInv

\* At the end of a save its fields are as intended, in RAM and in NVS.
LEMMA SavedIsIntended ==
    ASSUME UiInv, Saved
    PROVE  \A f \in Used \ crossed : ram[f] = Intended(f) /\ nvs[f] = ram[f]
<1>1. stage = "save" /\ web_writes = <<>> /\ at > Len(SaveOrder)
    BY DEF Saved
<1>2. /\ Len(SaveOrder) \in Nat /\ at \in 1..(Len(SaveOrder) + 1) /\ Place \in 1..Len(SaveOrder)
    BY <1>1, SavedInRange, OrderIs
<1>3. \A f \in Used \ crossed : nvs[f] = ram[f]
    <2>1. ~(at <= Place) /\ Len(web_writes) = 0
        BY <1>1, <1>2
    <2> QED
        BY <1>1, <2>1 DEF UiInv, Saving
<1>4. ASSUME NEW f \in Used \ crossed PROVE ram[f] = Intended(f)
    <2>1. PICK i \in 1..Len(SaveOrder) : SaveOrder[i] = f
        BY OrderIs
    <2>2. i < at /\ f # "location"
        BY <1>1, <1>2, ConfigConstants
    <2> QED
        BY <1>1, <2>1, <2>2 DEF UiInv, Progress
<1> QED
    BY <1>3, <1>4

LEMMA SavedStep ==
    ASSUME UiInv, Sending', Notes, Saved
    PROVE  UiInv'
<1>1. /\ stage = "save" /\ stage' = "replied"
      /\ UNCHANGED <<ram, nvs, todo, holder, web_writes, draft, form>>
    BY DEF Saved, settings
<1>2. web_writes = <<>> /\ \A f \in Used \ crossed : nvs[f] = ram[f]
    BY SavedIsIntended DEF Saved
<1>3. holder.method # "get"
    BY <1>1 DEF UiInv, Sending, IsPost
<1>4. InRange' /\ Receiving' /\ Drawing'
    BY <1>1, <1>3 DEF UiInv, InRange, Receiving, Drawing
<1>5. Crossing' /\ Progress'
    BY <1>1 DEF Notes, Crossing, Progress
<1>6. crossed \in {{}, Both} /\ (crossed' = {} => crossed = {})
    BY DEF UiInv, Crossing, Notes
<1>7. Serving'
    BY <1>1, <1>2, <1>6 DEF UiInv, Serving
<1>8. Saving'
    BY <1>1, <1>2, <1>6 DEF UiInv, Saving
<1> QED
    BY <1>4, <1>5, <1>7, <1>8 DEF UiInv

\* ------------------------- Steps of main and resets -------------------------
\* Main moves and neither the settings nor the handler of the form do.
LEMMA HandlerKept ==
    ASSUME UiInv, Notes,
           UNCHANGED <<ram, nvs, config_get_chunk_state, config_post_buf, stage, holder, at,
                       changes, web_writes, reply, draft, form>>
    PROVE  InRange' /\ Receiving' /\ Drawing' /\ Crossing' /\ Saving' /\ Progress'
<1>1. InRange' /\ Receiving' /\ Drawing'
    BY DEF UiInv, InRange, Receiving, Drawing
<1>2. Crossing'
    BY DEF Notes, Crossing
<1>3. Saving'
    BY DEF UiInv, Notes, Saving
<1>4. Progress'
    <2>1. \A e : Intended(e)' = Intended(e)
        BY DEF Intended
    <2> QED
        BY <2>1 DEF UiInv, Notes, Progress
<1> QED
    BY <1>1, <1>2, <1>3, <1>4

LEMMA OtherStep ==
    ASSUME UiInv, Sending', Notes, UNCHANGED <<settings, handler, todo, form>>
    PROVE  UiInv'
<1>1. Serving'
    BY DEF UiInv, Notes, Serving, settings, handler
<1> QED
    BY <1>1, HandlerKept DEF UiInv, settings, handler

LEMMA CommandStep ==
    ASSUME UiInv, Sending', Notes, NEW stores, Command(stores), Listed(stores),
           \A i \in 1..Len(stores) : stores[i].kind # "nvs"
    PROVE  UiInv'
<1>1. /\ todo = <<>> /\ todo' = stores
      /\ UNCHANGED <<ram, nvs, config_get_chunk_state, config_post_buf, stage, holder, at,
                     changes, web_writes, reply, draft, form>>
    BY DEF Command, settings, handler
<1>2. Len(todo) = 0
    BY <1>1
<1>3. Serving'
    BY <1>1, <1>2 DEF UiInv, Notes, Serving
<1> QED
    BY <1>1, <1>3, HandlerKept DEF UiInv

LEMMA NameIsListed ==
    ASSUME NEW value \in Nat
    PROVE  LET stores == <<Store("ram", "station", value), Store("save", "station", 0),
                           Store("reboot", "station", 0)>>
           IN  Listed(stores) /\ \A i \in 1..Len(stores) : stores[i].kind # "nvs"
<1> DEFINE a == Store("ram", "station", value)
           b == Store("save", "station", 0)
           c == Store("reboot", "station", 0)
           stores == <<a, b, c>>
<1>1. /\ a.kind = "ram" /\ b.kind = "save" /\ c.kind = "reboot"
      /\ a.field = "station" /\ b.field = "station" /\ c.field = "station"
      /\ a \in StoreSet /\ b \in StoreSet /\ c \in StoreSet
    BY DEF Store, StoreSet, Both
<1>2. "station" \in Both \cap Used
    BY ConfigConstants DEF Both
<1> HIDE DEF a, b, c
<1>3. /\ Len(stores) = 3 /\ stores[1] = a /\ stores[2] = b /\ stores[3] = c
      /\ stores \in Seq(StoreSet)
    BY <1>1
<1> HIDE DEF stores
<1>4. \A i \in 1..3 : i = 1 \/ i = 2 \/ i = 3
    OBVIOUS
<1>5. \A i \in 1..3 : stores[i].kind = "ram" => i = 1
    BY <1>1, <1>3, <1>4
<1>6. \A i \in 1..3 : stores[i].kind \in {"ram", "nvs"} => stores[i].field \in Both \cap Used
    BY <1>1, <1>2, <1>3, <1>4
<1>7. \A i \in 1..3 : stores[i].kind = "save" => stores[i].field \in {"station", "location"}
    BY <1>1, <1>3, <1>4
<1>8. \A i \in 1..3 : stores[i].kind # "nvs"
    BY <1>1, <1>3, <1>4
<1>9. \A i \in 1..3 : stores[i].kind = "ram" => \E j \in 1..3 : Covers(stores[j], stores[i].field)
    <2>1. Covers(stores[2], stores[1].field)
        BY <1>1, <1>3 DEF Covers
    <2> QED
        BY <1>5, <2>1
<1>10. Listed(stores)
    BY <1>3, <1>5, <1>6, <1>7, <1>8, <1>9 DEF Listed
<1> QED
    BY <1>3, <1>8, <1>10 DEF stores, a, b, c

LEMMA PosIsListed ==
    ASSUME NEW value \in Nat, NEW fields
    PROVE  LET order == Only(fields, LocationOrder)
               stores == Append([i \in 1..Len(order) |-> Store("ram", order[i], value)],
                                Store("save", "location", 0))
           IN  Listed(stores) /\ \A i \in 1..Len(stores) : stores[i].kind # "nvs"
<1> DEFINE order == Only(fields, LocationOrder)
           n == Len(order)
           first == [i \in 1..n |-> Store("ram", order[i], value)]
           last == Store("save", "location", 0)
           stores == Append(first, last)
<1>1. /\ n \in Nat /\ \A i \in 1..n : order[i] \in Location \cap Used
    <2>1. /\ LocationOrder \in Seq(Location)
          /\ \A i \in 1..Len(LocationOrder) : LocationOrder[i] \in Location \cap Used
        BY LocationOrderIs
    <2>2. order \in Seq(Location) /\ Picks(fields, LocationOrder, Len(LocationOrder), order)
        BY <2>1, OnlyPicks
    <2> HIDE DEF order
    <2>3. PICK g \in [1..n -> 1..Len(LocationOrder)] : \A i \in 1..n : order[i] = LocationOrder[g[i]]
        BY <2>2 DEF Picks
    <2> QED
        BY <2>1, <2>2, <2>3
<1> HIDE DEF order
<1>2. \A i \in 1..n : /\ Store("ram", order[i], value) \in StoreSet
                      /\ Store("ram", order[i], value).kind = "ram"
                      /\ Store("ram", order[i], value).field = order[i]
    BY <1>1 DEF Store, StoreSet, Both
<1>3. first \in Seq(StoreSet) /\ Len(first) = n
    BY <1>1, <1>2
<1>4. last \in StoreSet /\ last.kind = "save" /\ last.field = "location"
    BY DEF Store, StoreSet
<1>5. \A i \in 1..n : first[i].kind = "ram" /\ first[i].field = order[i]
    BY <1>2
<1> HIDE DEF first, last
<1>6. /\ stores \in Seq(StoreSet) /\ Len(stores) = n + 1 /\ stores[n + 1] = last
      /\ \A i \in 1..n : stores[i] = first[i]
    BY <1>1, <1>3, <1>4, AppendProperties
<1> HIDE DEF stores
<1>7. \A i \in 1..(n + 1) : i \in 1..n \/ i = n + 1
    BY <1>1
<1>8. \A i \in 1..(n + 1) : IF i = n + 1 THEN stores[i].kind = "save" /\ stores[i].field = "location"
                            ELSE stores[i].kind = "ram" /\ stores[i].field \in Both \cap Used
    BY <1>1, <1>4, <1>5, <1>6, <1>7 DEF Both
<1>9. \A i, j \in 1..(n + 1) : i < j => i # n + 1
    BY <1>1
<1>10. \A i \in 1..(n + 1) : stores[i].kind # "nvs"
    BY <1>8
<1>11. \A i \in 1..(n + 1) : stores[i].kind = "ram" =>
            \E j \in 1..(n + 1) : Covers(stores[j], stores[i].field)
    <2> SUFFICES ASSUME NEW i \in 1..(n + 1), stores[i].kind = "ram"
                 PROVE  \E j \in 1..(n + 1) : Covers(stores[j], stores[i].field)
        OBVIOUS
    <2>1. stores[i].field \in Location
        BY <1>1, <1>4, <1>5, <1>6, <1>7
    <2>2. Covers(stores[n + 1], stores[i].field) /\ n + 1 \in 1..(n + 1)
        BY <1>1, <1>4, <1>6, <2>1 DEF Covers
    <2> QED
        BY <2>2
<1>12. Listed(stores)
    BY <1>6, <1>8, <1>9, <1>10, <1>11 DEF Listed
<1> QED
    BY <1>6, <1>10, <1>12 DEF stores, first, last, order

LEMMA ResetStep ==
    ASSUME UiInv, Sending', Reset
    PROVE  UiInv'
<1>1. /\ ram' = nvs /\ nvs' = nvs /\ todo' = <<>> /\ config_post_buf' = <<>>
      /\ stage' = "idle" /\ web_writes' = <<>> /\ draft' = Unseen /\ crossed' = {}
      /\ form' = form
    BY DEF Reset
<1>2. InRange' /\ Receiving'
    BY <1>1 DEF UiInv, InRange, Receiving
<1>3. Drawing'
    BY <1>1, UnseenIs DEF Drawing
<1>4. Listed(<<>>) /\ Len(<<>>) = 0
    BY DEF Listed
<1>5. Serving'
    BY <1>1, <1>4 DEF Serving
<1>6. Crossing' /\ Saving' /\ Progress'
    BY <1>1 DEF Crossing, Saving, Progress
<1> QED
    BY <1>2, <1>3, <1>5, <1>6 DEF UiInv

\* Main takes a store of its list: what is left is a list still.
LEMMA ListedTail ==
    ASSUME NEW list, Listed(list), list # <<>>
    PROVE  /\ Listed(Tail(list)) /\ Len(list) \in Nat \ {0} /\ Len(Tail(list)) = Len(list) - 1
           /\ Head(list) = list[1]
           /\ \A i \in 1..(Len(list) - 1) : Tail(list)[i] = list[i + 1]
           /\ list[1].kind # "ram" => \A i \in 1..Len(list) : list[i].kind # "ram"
<1> DEFINE n == Len(list)
           rest == Tail(list)
<1>1. /\ list \in Seq(StoreSet) /\ n \in Nat \ {0} /\ rest \in Seq(StoreSet) /\ Len(rest) = n - 1
      /\ Head(list) = list[1] /\ \A i \in 1..(n - 1) : rest[i] = list[i + 1]
    BY DEF Listed
<1> HIDE DEF rest
<1>2. \A i \in 1..(n - 1) : i + 1 \in 1..n /\ rest[i] = list[i + 1]
    BY <1>1
<1>3. list[1].kind # "ram" => \A i \in 1..n : list[i].kind # "ram"
    <2> SUFFICES ASSUME list[1].kind # "ram", NEW i \in 1..n PROVE list[i].kind # "ram"
        OBVIOUS
    <2>1. 1 \in 1..n /\ (i # 1 => 1 < i)
        BY <1>1
    <2> QED
        BY <2>1 DEF Listed
<1>4. Listed(rest)
    <2>1. \A i \in 1..(n - 1) : rest[i].kind \in {"ram", "nvs"} => rest[i].field \in Both \cap Used
        BY <1>2 DEF Listed
    <2>2. \A i \in 1..(n - 1) : rest[i].kind = "save" => rest[i].field \in {"station", "location"}
        BY <1>2 DEF Listed
    <2>3. \A i, j \in 1..(n - 1) : i < j /\ rest[j].kind = "ram" => rest[i].kind = "ram"
        <3> SUFFICES ASSUME NEW i \in 1..(n - 1), NEW j \in 1..(n - 1), i < j, rest[j].kind = "ram"
                     PROVE  rest[i].kind = "ram"
            OBVIOUS
        <3>1. i + 1 \in 1..n /\ j + 1 \in 1..n /\ i + 1 < j + 1
            BY <1>1
        <3> QED
            BY <1>2, <3>1 DEF Listed
    <2>4. \A i, j \in 1..(n - 1) : rest[j].kind = "ram" => rest[i].kind # "nvs"
        BY <1>2 DEF Listed
    <2>5. ASSUME NEW i \in 1..(n - 1), rest[i].kind = "ram"
          PROVE  \E j \in 1..(n - 1) : Covers(rest[j], rest[i].field)
        <3>1. i + 1 \in 1..n /\ rest[i] = list[i + 1] /\ list[i + 1].kind = "ram"
            BY <1>2, <2>5
        <3>2. PICK j \in 1..n : Covers(list[j], list[i + 1].field)
            BY <3>1 DEF Listed
        <3>3. list[1].kind = "ram"
            BY <1>3, <3>1
        <3>4. j # 1
            BY <3>2, <3>3 DEF Covers
        <3>5. j - 1 \in 1..(n - 1) /\ (j - 1) + 1 = j
            BY <1>1, <3>4
        <3>6. rest[j - 1] = list[j]
            BY <1>1, <3>5
        <3> QED
            BY <3>1, <3>2, <3>5, <3>6
    <2> QED
        BY <1>1, <2>1, <2>2, <2>3, <2>4, <2>5 DEF Listed
<1> QED
    BY <1>1, <1>3, <1>4 DEF rest

\* The records of a save are a list of stores to NVS, of what RAM holds.
RecordsFit(f) ==
    /\ Records(f) \in Seq(StoreSet)
    /\ \A i \in 1..Len(Records(f)) : /\ Records(f)[i].kind = "nvs"
                                     /\ Records(f)[i].field \in Both \cap Used
                                     /\ Records(f)[i].value = ram[Records(f)[i].field]
    /\ \A e \in Used : e = f \/ (f = "location" /\ e \in Location) =>
          \E i \in 1..Len(Records(f)) : Records(f)[i].field = e

LEMMA RecordsAre ==
    ASSUME ram \in [Used -> Nat], NEW f \in {"station", "location"}
    PROVE  RecordsFit(f)
<1> DEFINE list == IF f = "location" THEN LocationWrites ELSE <<<<f, ram[f]>>>>
           n == Len(list)
           m == Len(LocationOrder)
<1>1. /\ m \in Nat /\ \A i \in 1..m : LocationOrder[i] \in Location \cap Used
      /\ \A e \in Location \cap Used : \E i \in 1..m : LocationOrder[i] = e
    BY LocationOrderIs
<1>2. /\ Len(LocationWrites) = m
      /\ \A i \in 1..m : LocationWrites[i] = <<LocationOrder[i], ram[LocationOrder[i]]>>
    BY <1>1 DEF LocationWrites
<1>3. n \in Nat /\ \A i \in 1..n : /\ list[i][1] \in Both \cap Used
                                   /\ list[i][2] = ram[list[i][1]]
    <2>1. CASE f = "location"
        BY <1>1, <1>2, <2>1 DEF Both
    <2>2. CASE f = "station"
        <3>1. "station" \in Both \cap Used /\ f # "location"
            BY <2>2, ConfigConstants DEF Both
        <3>2. list = <<<<f, ram[f]>>>>
            BY <3>1
        <3> QED
            BY <2>2, <3>1, <3>2
    <2> QED
        BY <2>1, <2>2
<1>4. \A e \in Used : e = f \/ (f = "location" /\ e \in Location) =>
          \E i \in 1..n : list[i][1] = e
    <2> SUFFICES ASSUME NEW e \in Used, e = f \/ (f = "location" /\ e \in Location)
                 PROVE  \E i \in 1..n : list[i][1] = e
        OBVIOUS
    <2>1. CASE f = "location"
        <3>1. e \in Location
            BY <2>1, ConfigConstants
        <3> QED
            BY <1>1, <1>2, <2>1, <3>1
    <2>2. CASE f = "station"
        <3>1. list = <<<<f, ram[f]>>>> /\ e = f
            BY <2>2
        <3>2. Len(list) = 1 /\ list[1][1] = e
            BY <3>1
        <3> QED
            BY <3>2
    <2> QED
        BY <2>1, <2>2
<1>5. Records(f) = [i \in 1..n |-> Store("nvs", list[i][1], list[i][2])]
    BY DEF Records
<1> HIDE DEF list
<1>6. \A i \in 1..n : /\ Store("nvs", list[i][1], list[i][2]) \in StoreSet
                      /\ Store("nvs", list[i][1], list[i][2]).kind = "nvs"
                      /\ Store("nvs", list[i][1], list[i][2]).field = list[i][1]
                      /\ Store("nvs", list[i][1], list[i][2]).value = list[i][2]
    <2> TAKE i \in 1..n
    <2>1. list[i][1] \in Both /\ list[i][2] \in Nat
        BY <1>3
    <2> QED
        BY <2>1 DEF Store, StoreSet
<1>7. Records(f) \in Seq(StoreSet) /\ Len(Records(f)) = n
    BY <1>3, <1>5, <1>6
<1>8. \A i \in 1..n : /\ Records(f)[i].kind = "nvs" /\ Records(f)[i].field = list[i][1]
                      /\ Records(f)[i].value = list[i][2]
    BY <1>5, <1>6
<1> QED
    BY <1>3, <1>4, <1>7, <1>8 DEF RecordsFit

\* What a store of main leaves alone.
MainStore ==
    /\ todo # <<>>
    /\ UNCHANGED <<config_get_chunk_state, config_post_buf, stage, holder, at, changes,
                   web_writes, reply, draft, form>>

\* A store to RAM or to NVS of a setting that main writes.
LEMMA OthersKept ==
    ASSUME UiInv, Sending', Notes, MainStore, ram' \in [Used -> Nat], nvs' \in [Used -> Nat],
           \A f \in Used \ Both : ram'[f] = ram[f] /\ nvs'[f] = nvs[f]
    PROVE  InRange' /\ Receiving' /\ Drawing' /\ Crossing' /\ Saving' /\ Progress'
<1>2. /\ ram'["tz"] = ram["tz"] /\ ram'["tx"] = ram["tx"]
      /\ nvs'["tz"] = nvs["tz"] /\ nvs'["tx"] = nvs["tx"]
    BY ConfigConstants DEF Both, Location
<1>8. ram' \in Stays /\ nvs' \in Stays
    BY <1>2 DEF UiInv, InRange, Stays
<1>1. InRange' /\ Receiving'
    BY <1>8 DEF UiInv, InRange, Receiving, MainStore
<1>3. Drawing'
    BY <1>2 DEF UiInv, Drawing, MainStore
<1>4. crossed \in {{}, Both} /\ (stage = "save" => crossed = Both /\ crossed' = Both)
    <2>1. Both # {}
        BY DEF Both
    <2> QED
        BY <2>1 DEF UiInv, Crossing, Notes, MainStore
<1>5. Crossing'
    BY <1>4 DEF Notes, Crossing, MainStore
<1>6. Saving'
    <2>1. web_writes \in Seq(Used \X Nat) /\ UNCHANGED <<web_writes, stage, changes, at>>
        BY DEF UiInv, Saving, MainStore
    <2>2. CASE stage # "save"
        <3>1. web_writes = <<>> /\ \A f \in Used \ Both : nvs[f] = ram[f]
            BY <2>2 DEF UiInv, Saving
        <3>2. web_writes' = <<>> /\ Len(web_writes') = 0
            BY <2>1, <3>1
        <3> QED
            BY <2>1, <2>2, <3>1, <3>2 DEF Saving
    <2>3. CASE stage = "save"
        <3>1. crossed = Both /\ crossed' = Both
            BY <1>4, <2>3
        <3>2. \A i \in 1..Len(web_writes) : web_writes[i][1] \in Used
            BY <2>1
        <3>3. \A i \in 1..Len(web_writes) :
                  web_writes[i][1] \notin Both => web_writes[i][2] = ram'[web_writes[i][1]]
            BY <3>1, <3>2 DEF UiInv, Saving
        <3>4. \A f \in Used \ Both :
                 \/ nvs'[f] = ram'[f]
                 \/ \E i \in 1..Len(web_writes) : web_writes[i][1] = f
                 \/ f \in Location /\ changes /\ at <= Place
            BY <2>3, <3>1 DEF UiInv, Saving
        <3> QED
            BY <2>1, <2>3, <3>1, <3>3, <3>4 DEF Saving
    <2> QED
        BY <2>2, <2>3
<1>7. Progress'
    <2>1. \A e : Intended(e)' = Intended(e)
        BY DEF Intended, MainStore
    <2>2. ASSUME stage = "save", NEW i \in 1..Len(SaveOrder), SaveOrder[i] # "location",
                 SaveOrder[i] \notin Both
          PROVE  ram'[SaveOrder[i]] = ram[SaveOrder[i]]
        BY <2>2, OrderIs
    <2> QED
        BY <1>4, <2>1, <2>2 DEF UiInv, Progress, MainStore
<1> QED
    BY <1>1, <1>3, <1>5, <1>6, <1>7

LEMMA MainStep ==
    ASSUME UiInv, Sending', Notes, MainStores
    PROVE  UiInv'
<1> DEFINE store == todo[1]
           n == Len(todo)
<1>1. /\ Listed(todo) /\ todo # <<>>
      /\ Listed(Tail(todo)) /\ n \in Nat \ {0} /\ Len(Tail(todo)) = n - 1
      /\ Head(todo) = store /\ \A i \in 1..(n - 1) : Tail(todo)[i] = todo[i + 1]
      /\ store.kind # "ram" => \A i \in 1..n : todo[i].kind # "ram"
    BY ListedTail DEF UiInv, Serving, MainStores
<1>2. MainStore
    BY DEF MainStores, MainStore, handler
<1>3. ram \in [Used -> Nat] /\ nvs \in [Used -> Nat]
    BY DEF UiInv, InRange, Stays
<1>4. /\ store \in StoreSet /\ 1 \in 1..n
      /\ store.kind \in {"ram", "nvs"} => store.field \in Both \cap Used
      /\ store.kind = "save" => store.field \in {"station", "location"}
    BY <1>1 DEF Listed
<1>5. store.value \in Nat
    BY <1>4 DEF StoreSet
<1> HIDE DEF store, n
<1>6. CASE store.kind = "ram"
    <2>1. /\ ram' = [ram EXCEPT ![store.field] = store.value] /\ UNCHANGED nvs
          /\ todo' = Tail(todo)
        BY <1>1, <1>6 DEF MainStores, settings
    <2>2. /\ ram' \in [Used -> Nat] /\ store.field \in Both
          /\ \A e \in Used : ram'[e] = IF e = store.field THEN store.value ELSE ram[e]
        BY <1>3, <1>4, <1>5, <1>6, <2>1
    <2>3. InRange' /\ Receiving' /\ Drawing' /\ Crossing' /\ Saving' /\ Progress'
        BY <1>2, <1>3, <1>4, <1>6, <2>1, <2>2, OthersKept
    <2>4. \A i \in 1..n : todo[i].kind # "nvs"
        BY <1>1, <1>4, <1>6 DEF Listed, n, store
    <2>5. \A i \in 1..(n - 1) : i + 1 \in 1..n /\ todo'[i] = todo[i + 1]
        BY <1>1, <2>1
    <2>6. \A i \in 1..Len(todo') : todo'[i].kind # "nvs"
        BY <1>1, <2>1, <2>4, <2>5
    <2>7. ASSUME NEW f \in Both \cap Used, crossed' = {}, stage' # "save"
          PROVE  nvs'[f] = ram'[f] \/ \E j \in 1..Len(todo') : Owes(todo'[j], f)
        <3>1. ASSUME NEW j \in 1..n, Owes(todo[j], f)
              PROVE  \E k \in 1..Len(todo') : Owes(todo'[k], f)
            <4>1. j # 1
                BY <1>6, <3>1 DEF store, Owes, Covers
            <4>2. j - 1 \in 1..(n - 1) /\ (j - 1) + 1 = j
                BY <1>1, <4>1
            <4> QED
                BY <1>1, <2>1, <2>5, <3>1, <4>2
        <3>2. CASE f = store.field
            <4>1. PICK j \in 1..n : Covers(todo[j], f)
                BY <1>1, <1>4, <1>6, <3>2 DEF Listed, n, store
            <4> QED
                BY <3>1, <4>1 DEF Owes
        <3>3. CASE f # store.field
            <4>1. crossed = {} /\ stage # "save"
                BY <1>2, <2>7 DEF Notes, MainStore
            <4>2. nvs[f] = ram[f] \/ \E j \in 1..n : Owes(todo[j], f)
                BY <4>1 DEF UiInv, Serving, n
            <4> QED
                BY <2>1, <2>2, <3>1, <3>3, <4>2
        <3> QED
            BY <3>2, <3>3
    <2>8. Serving'
        BY <1>1, <2>1, <2>6, <2>7 DEF Serving
    <2> QED
        BY <2>3, <2>8 DEF UiInv
<1>7. CASE store.kind = "save"
    <2> DEFINE list == Records(store.field)
               m == Len(list)
    <2>1. /\ UNCHANGED <<ram, nvs>> /\ todo' = list \o Tail(todo)
        BY <1>1, <1>7 DEF MainStores, settings
    <2>2. InRange' /\ Receiving' /\ Drawing' /\ Crossing' /\ Saving' /\ Progress'
        BY <1>2, <2>1, HandlerKept DEF MainStore
    <2>3. /\ list \in Seq(StoreSet)
          /\ \A i \in 1..m : /\ list[i].kind = "nvs" /\ list[i].field \in Both \cap Used
                             /\ list[i].value = ram[list[i].field]
          /\ \A e \in Used : e = store.field \/ (store.field = "location" /\ e \in Location) =>
                \E i \in 1..m : list[i].field = e
        <3>1. store.field \in {"station", "location"}
            BY <1>4, <1>7
        <3>2. RecordsFit(store.field)
            BY <1>3, <3>1, RecordsAre, Zenon
        <3> QED
            BY <3>2, Zenon DEF RecordsFit
    <2>4. m \in Nat /\ Tail(todo) \in Seq(StoreSet)
        BY <1>1, <2>3 DEF Listed
    <2> HIDE DEF list
    <2>5. /\ todo' \in Seq(StoreSet) /\ Len(todo') = m + (n - 1)
          /\ \A i \in 1..(m + (n - 1)) : todo'[i] = IF i <= m THEN list[i] ELSE Tail(todo)[i - m]
        BY <1>1, <2>1, <2>3, <2>4, ConcatProperties
    <2> HIDE DEF m
    <2>6. ASSUME NEW i \in 1..Len(todo')
          PROVE  \/ i \in 1..m /\ todo'[i] = list[i]
                 \/ /\ i - m \in 1..(n - 1) /\ i - m + 1 \in 1..n
                    /\ todo'[i] = todo[i - m + 1]
        <3>1. CASE i <= m
            BY <2>4, <2>5, <2>6, <3>1
        <3>2. CASE ~(i <= m)
            <4>1. i - m \in 1..(n - 1) /\ i - m + 1 \in 1..n
                <5>1. i \in 1..(m + (n - 1)) /\ m \in Nat /\ n \in Nat \ {0}
                    BY <1>1, <2>4, <2>5, <2>6
                <5> QED
                    BY <3>2, <5>1
            <4>2. todo'[i] = Tail(todo)[i - m]
                BY <2>5, <3>2
            <4> QED
                BY <1>1, <4>1, <4>2
        <3> QED
            BY <3>1, <3>2
    <2>7. \A i \in 1..Len(todo') : todo'[i].kind # "ram"
        BY <1>1, <1>7, <2>3, <2>6
    <2>8. \A i \in 1..Len(todo') : todo'[i].kind \in {"ram", "nvs"} => todo'[i].field \in Both \cap Used
        BY <1>1, <2>3, <2>6 DEF Listed, n
    <2>9. \A i \in 1..Len(todo') : todo'[i].kind = "save" => todo'[i].field \in {"station", "location"}
        BY <1>1, <2>3, <2>6 DEF Listed, n
    <2>10. Listed(todo')
        BY <2>5, <2>7, <2>8, <2>9 DEF Listed
    <2>11. ASSUME crossed' = {}, NEW i \in 1..Len(todo'), todo'[i].kind = "nvs"
           PROVE  todo'[i].value = ram'[todo'[i].field]
        <3>1. crossed = {}
            BY <2>11 DEF Notes
        <3>2. \A j \in 1..n : todo[j].kind = "nvs" => todo[j].value = ram[todo[j].field]
            BY <3>1 DEF UiInv, Serving, n
        <3> QED
            BY <2>1, <2>3, <2>6, <2>11, <3>2
    <2>12. ASSUME NEW f \in Both \cap Used, crossed' = {}, stage' # "save"
           PROVE  nvs'[f] = ram'[f] \/ \E j \in 1..Len(todo') : Owes(todo'[j], f)
        <3>1. crossed = {} /\ stage # "save"
            BY <1>2, <2>12 DEF Notes, MainStore
        <3>2. nvs[f] = ram[f] \/ \E j \in 1..n : Owes(todo[j], f)
            BY <3>1 DEF UiInv, Serving, n
        <3>3. ASSUME NEW j \in 1..n, Owes(todo[j], f)
              PROVE  \E k \in 1..Len(todo') : Owes(todo'[k], f)
            <4>1. CASE j = 1
                <5>1. Covers(store, f)
                    BY <1>7, <3>3, <4>1 DEF store, Owes
                <5>2. PICK i \in 1..m : list[i].field = f
                    BY <2>3, <5>1 DEF Covers, m
                <5>3. i \in 1..Len(todo') /\ todo'[i] = list[i]
                    BY <1>1, <2>4, <2>5
                <5>4. list[i].kind = "nvs"
                    BY <2>3 DEF m
                <5> QED
                    BY <5>2, <5>3, <5>4 DEF Owes
            <4>2. CASE j # 1
                <5> DEFINE k == m + (j - 1)
                <5>1. k \in 1..Len(todo') /\ ~(k <= m) /\ k - m = j - 1 /\ j - 1 \in 1..(n - 1)
                    BY <1>1, <2>4, <2>5, <4>2
                <5>2. todo'[k] = Tail(todo)[j - 1]
                    BY <2>5, <5>1
                <5>3. Tail(todo)[j - 1] = todo[j]
                    <6>1. (j - 1) + 1 = j
                        BY <1>1
                    <6> QED
                        BY <1>1, <5>1, <6>1
                <5> QED
                    BY <3>3, <5>1, <5>2, <5>3
            <4> QED
                BY <4>1, <4>2
        <3> QED
            BY <2>1, <3>2, <3>3
    <2>13. Serving'
        BY <2>10, <2>11, <2>12 DEF Serving
    <2> QED
        BY <2>2, <2>13 DEF UiInv
<1>8. CASE store.kind = "nvs"
    <2>1. /\ nvs' = [nvs EXCEPT ![store.field] = store.value] /\ UNCHANGED ram
          /\ todo' = Tail(todo)
        BY <1>1, <1>8 DEF MainStores, settings
    <2>2. /\ nvs' \in [Used -> Nat] /\ store.field \in Both
          /\ \A e \in Used : nvs'[e] = IF e = store.field THEN store.value ELSE nvs[e]
        BY <1>3, <1>4, <1>5, <1>8, <2>1
    <2>3. InRange' /\ Receiving' /\ Drawing' /\ Crossing' /\ Saving' /\ Progress'
        BY <1>2, <1>3, <1>4, <1>8, <2>1, <2>2, OthersKept
    <2>4. \A i \in 1..(n - 1) : i + 1 \in 1..n /\ todo'[i] = todo[i + 1]
        BY <1>1, <2>1
    <2>5. ASSUME crossed' = {}, NEW i \in 1..Len(todo'), todo'[i].kind = "nvs"
          PROVE  todo'[i].value = ram'[todo'[i].field]
        <3>1. crossed = {} /\ i \in 1..(n - 1)
            BY <1>1, <2>1, <2>5 DEF Notes
        <3> QED
            BY <2>1, <2>4, <2>5, <3>1 DEF UiInv, Serving, n
    <2>6. ASSUME NEW f \in Both \cap Used, crossed' = {}, stage' # "save"
          PROVE  nvs'[f] = ram'[f] \/ \E j \in 1..Len(todo') : Owes(todo'[j], f)
        <3>1. crossed = {} /\ stage # "save"
            BY <1>2, <2>6 DEF Notes, MainStore
        <3>2. nvs[f] = ram[f] \/ \E j \in 1..n : Owes(todo[j], f)
            BY <3>1 DEF UiInv, Serving, n
        <3>3. CASE f = store.field
            <4>1. store.value = ram[f]
                BY <1>4, <1>8, <3>1, <3>3 DEF UiInv, Serving, n, store
            <4> QED
                BY <2>1, <2>2, <3>3, <4>1
        <3>4. CASE f # store.field
            <4>1. ASSUME NEW j \in 1..n, Owes(todo[j], f)
                  PROVE  \E k \in 1..Len(todo') : Owes(todo'[k], f)
                <5>1. j # 1
                    BY <1>8, <3>4, <4>1 DEF store, Owes, Covers
                <5>2. j - 1 \in 1..(n - 1) /\ (j - 1) + 1 = j
                    BY <1>1, <5>1
                <5> QED
                    BY <1>1, <2>1, <2>4, <4>1, <5>2
            <4> QED
                BY <2>1, <2>2, <3>2, <3>4, <4>1
        <3> QED
            BY <3>3, <3>4
    <2>7. Serving'
        BY <1>1, <2>1, <2>5, <2>6 DEF Serving
    <2> QED
        BY <2>3, <2>7 DEF UiInv
<1> QED
    <2>1. store.kind \in {"ram", "save", "nvs"}
        BY <1>1 DEF MainStores
    <2> QED
        BY <1>6, <1>7, <1>8, <2>1

LEMMA UiInvStep == FormFits /\ UiInv /\ [UiNext]_uiVars => UiInv'
<1> SUFFICES ASSUME FormFits, UiInv, [UiNext]_uiVars PROVE UiInv'
    OBVIOUS
<1>1. Sending'
    BY SendingStep DEF UiInv
<1>2. CASE UNCHANGED uiVars
    <2>1. Notes
        BY <1>2 DEF UiInv, Notes, Crossing, uiVars, handler
    <2> QED
        BY <1>1, <1>2, <2>1, OtherStep DEF uiVars
<1>3. CASE Reboots
    BY <1>1, <1>3, ResetStep DEF Reboots, PopReboot, RestartFires, CommandReboots
<1>4. CASE Running(HttpThread \/ MainThread \/ Clients \/ Server)
    <2>1. Notes
        BY <1>4, NotesTaken DEF UiInv, Running
    <2>2. CASE HttpThread
        BY <1>1, <2>1, <2>2, EndStep, RefuseStep, FinalStep, RenderStep, SaveFieldStep,
           SaveLocationStep, SaveRecordStep, SavedStep DEF HttpThread, Save
    <2>3. CASE MainThread
        BY <1>1, <2>1, <2>3, MainStep, OtherStep DEF MainThread, TakeTestPacket
    <2>4. CASE Clients
        <3>1. ASSUME NEW cmd \in {"!e", "!p", "/restart"}, Console(cmd) PROVE UiInv'
            BY <1>1, <2>1, <3>1, OtherStep DEF Console
        <3> QED
            BY <1>1, <2>1, <2>4, <3>1, GetStep, PostStep, EndStep, MoreStep DEF Clients
    <2>5. CASE Server
        <3>1. ASSUME NEW value \in FineValues, NEW fields \in {Location, {"alt"}},
                     SetPos(value, fields)
              PROVE  UiInv'
            <4> DEFINE order == Only(fields, LocationOrder)
                       stores == Append([i \in 1..Len(order) |-> Store("ram", order[i], value)],
                                        Store("save", "location", 0))
            <4>1. value \in Nat
                BY ConfigConstants
            <4>2. Listed(stores) /\ \A i \in 1..Len(stores) : stores[i].kind # "nvs"
                BY <4>1, PosIsListed, Zenon
            <4>3. Command(stores)
                BY <3>1 DEF SetPos
            <4> HIDE DEF stores
            <4> QED
                BY <1>1, <2>1, <4>2, <4>3, CommandStep
        <3>2. CASE SetName(1)
            <4> DEFINE stores == <<Store("ram", "station", 1), Store("save", "station", 0),
                                   Store("reboot", "station", 0)>>
            <4>1. Listed(stores) /\ \A i \in 1..Len(stores) : stores[i].kind # "nvs"
                <5>1. 1 \in Nat
                    OBVIOUS
                <5> QED
                    BY <5>1, NameIsListed, Zenon
            <4>2. Command(stores)
                BY <3>2 DEF SetName
            <4> HIDE DEF stores
            <4> QED
                BY <1>1, <2>1, <4>1, <4>2, CommandStep
        <3>3. CASE SessionMoves
            BY <1>1, <2>1, <3>3, OtherStep DEF SessionMoves
        <3> QED
            BY <2>5, <3>1, <3>2, <3>3 DEF Server
    <2> QED
        BY <1>4, <2>2, <2>3, <2>4, <2>5 DEF Running
<1> QED
    BY <1>2, <1>3, <1>4 DEF UiNext

\* The settings stay in range, main and a save never lose a value between them, and
\* a save has done what was asked as far as it has come, whatever is sent to the
\* station and whenever it restarts (web_ui.cpp:866-1046, main.cpp:4120-4137).
THEOREM FormInvariant == FormFits => (UiSpec => []UiInv)
<1> SUFFICES ASSUME FormFits PROVE UiSpec => []UiInv
    OBVIOUS
<1>1. UiInv /\ [UiNext]_uiVars => UiInv'
    BY UiInvStep
<1> QED
    BY <1>1, UiInvInit, PTL DEF UiSpec

\* A form that is answered with "Saved" did just what its user asked for, in RAM and
\* in NVS, wherever main did not write at the same time (web_ui.cpp:866-1046).
THEOREM FormIsSaved == FormFits => (UiSpec => SaveIsTheEdit)
<1> SUFFICES ASSUME FormFits PROVE UiSpec => SaveIsTheEdit
    OBVIOUS
<1> DEFINE Done == Saved => \A f \in Used \ crossed : ram[f] = Intended(f) /\ nvs[f] = ram[f]
<1>1. UiInv /\ [UiNext]_uiVars => UiInv'
    BY UiInvStep
<1>2. UiInv => Done
    BY SavedIsIntended
<1>3. UiInv /\ UiInv' /\ [UiNext]_uiVars => [Done]_uiVars
    BY <1>2
<1> QED
    BY <1>1, <1>3, UiInvInit, PTL DEF UiSpec, SaveIsTheEdit
=============================================================================
