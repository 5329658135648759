--------------------------- MODULE AnalysesProofs ---------------------------
(***************************************************************************)
(* Proofs about Analyses and the rankings it contains: for any file, any   *)
(* options, any N the list of bigkey and hotkey is the first N of what the *)
(* filters let through, though every object is compared only with the list *)
(* it meets; prefix -prefix-sep counts every key under all its prefixes,   *)
(* the commands get what the options ask for, the values of the flame      *)
(* graph add up, trimmed or not, and a server that loads the file of ToAOF *)
(* has what was asked for of the RDB file.                                 *)
(*                                                                         *)
(* First KeyRanking by itself, then the order and number of what is        *)
(* chosen, the filters, the separated prefixes and their report, one lemma *)
(* for each action of Analyses, the flame graph, and last ToAOF: the       *)
(* commands of an object, what each does to a keyspace, and the file.      *)
(***************************************************************************)
EXTENDS Analyses, FiniteSetTheorems, SequenceTheorems, WellFoundedInduction, TLAPS

Entry == [id : Nat, size : Int]

(***************************************************************************)
(* What add (toplist.go:16-26) does to the entries: x and those before its *)
(* place stay where they are, those from its place on move up, and at most *)
(* the last one falls off.                                                 *)
(***************************************************************************)
LEMMA AddAtShape ==
    ASSUME NEW lst \in Seq(Entry), NEW i \in 1 .. Len(lst) + 1, NEW x \in Entry,
           NEW capacity \in Nat \ {0}, Len(lst) <= capacity
    PROVE  LET new == AddAt(lst, i, x, capacity) IN
           /\ new \in Seq(Entry)
           /\ Len(new) = IF Len(lst) < capacity THEN Len(lst) + 1 ELSE capacity
           /\ \A k \in 1 .. Len(new) :
                 /\ k < i => new[k] = lst[k]
                 /\ k = i => new[k] = x
                 /\ k > i => new[k] = lst[k - 1]
<1> DEFINE n == IF Len(lst) < capacity THEN Len(lst) + 1 ELSE capacity
           new == AddAt(lst, i, x, capacity)
<1>1. n \in Nat /\ n <= Len(lst) + 1
  OBVIOUS
<1>2. new = [k \in 1 .. n |-> CASE k < i -> lst[k] [] k = i -> x [] k > i -> lst[k - 1]]
  BY DEF AddAt
<1>3. \A k \in 1 .. n : (CASE k < i -> lst[k] [] k = i -> x [] k > i -> lst[k - 1]) \in Entry
  BY <1>1
<1>4. new \in [1 .. n -> Entry]
  BY <1>2, <1>3
<1>5. new \in Seq(Entry) /\ Len(new) = n
  BY <1>1, <1>4
<1>6. ASSUME NEW k \in 1 .. n
      PROVE  /\ k < i => new[k] = lst[k]
             /\ k = i => new[k] = x
             /\ k > i => new[k] = lst[k - 1]
  <2>1. new[k] = CASE k < i -> lst[k] [] k = i -> x [] k > i -> lst[k - 1]
    BY <1>2
  <2> QED
    BY <1>1, <2>1
<1> HIDE DEF new
<1>7. /\ new \in Seq(Entry)
      /\ Len(new) = n
      /\ \A k \in 1 .. Len(new) : /\ k < i => new[k] = lst[k]
                                  /\ k = i => new[k] = x
                                  /\ k > i => new[k] = lst[k - 1]
  BY <1>5, <1>6
<1> QED
  BY <1>7 DEF new

\* A place of sort.Search in a list in descending size parts the larger from the rest.
LEMMA PlaceParts ==
    ASSUME NEW lst \in Seq(Entry), NEW x \in Entry, NEW i \in Positions(lst, x),
           \A j, k \in 1 .. Len(lst) : j < k => lst[j].size >= lst[k].size
    PROVE  /\ i \in 1 .. Len(lst) + 1
           /\ \A k \in 1 .. Len(lst) : k < i => lst[k].size > x.size
           /\ \A k \in 1 .. Len(lst) : k >= i => lst[k].size <= x.size
<1>1. /\ i \in 1 .. Len(lst) + 1
      /\ i > 1 => lst[i - 1].size > x.size
      /\ i <= Len(lst) => lst[i].size <= x.size
  BY DEF Positions
<1>2. \A k \in 1 .. Len(lst) : lst[k].size \in Int
  <2>1. \A k \in 1 .. Len(lst) : lst[k] \in Entry
    OBVIOUS
  <2> QED
    BY <2>1 DEF Entry
<1>3. x.size \in Int
  BY DEF Entry
<1>4. ASSUME NEW k \in 1 .. Len(lst), k < i
      PROVE  lst[k].size > x.size
  <2>1. CASE k = i - 1
    BY <1>1, <1>4, <2>1
  <2>2. CASE k < i - 1
    <3>1. i - 1 \in 1 .. Len(lst)
      BY <1>1, <1>4
    <3>2. lst[k].size >= lst[i - 1].size
      BY <2>2, <3>1
    <3> QED
      BY <1>1, <1>2, <1>3, <1>4, <3>1, <3>2
  <2> QED
    BY <1>1, <1>4, <2>1, <2>2
<1>5. ASSUME NEW k \in 1 .. Len(lst), k >= i
      PROVE  lst[k].size <= x.size
  <2>1. i \in 1 .. Len(lst)
    BY <1>1, <1>5
  <2>2. lst[i].size >= lst[k].size
    BY <1>2, <1>5, <2>1
  <2> QED
    BY <1>1, <1>2, <1>3, <2>1, <2>2
<1> QED
  BY <1>1, <1>4, <1>5

(***************************************************************************)
(* The inductive invariant: an object's id is its place in the file, so a  *)
(* new object is later than everything in the list; nothing is offered     *)
(* before N is known to be positive.                                       *)
(***************************************************************************)
IInv ==
    /\ TypeOK
    /\ FirstN
    /\ \A i \in 1 .. Len(offered) : offered[i].id = i
    /\ state \in {"parse", "done"} => topN > 0
    /\ state \in {"start", "refused"} => list = << >> /\ offered = << >>

LEMMA InitIInv == RankingAssumption /\ Init => IInv
<1> SUFFICES ASSUME RankingAssumption, Init PROVE IInv
  OBVIOUS
<1>1. list = << >> /\ offered = << >> /\ Len(list) = 0 /\ Len(offered) = 0
  BY DEF Init
<1>2. TypeOK
  <2>1. hot \in BOOLEAN
    BY Zenon DEF Init
  <2> QED
    BY <1>1, <2>1 DEF RankingAssumption, Init, TypeOK
<1>3. FirstN
  BY <1>1 DEF FirstN
<1> QED
  BY <1>1, <1>2, <1>3 DEF IInv, Init

\* What an object of the file is, and that it is later than all before it.
LEMMA NewObject ==
    ASSUME IInv, RankingAssumption, NEW w \in Weights
    PROVE  /\ Object(w) \in Entry
           /\ Object(w).size = w
           /\ \A k \in 1 .. Len(offered) : offered[k].id < Object(w).id
           /\ \A k \in 1 .. Len(list) : list[k].id < Object(w).id
<1>1. Len(offered) \in Nat
  BY DEF IInv, TypeOK
<1>2. Object(w) \in Entry /\ Object(w).size = w /\ Object(w).id = Len(offered) + 1
  BY <1>1 DEF RankingAssumption, Object, Entry
<1>3. \A k \in 1 .. Len(offered) : offered[k].id < Object(w).id
  BY <1>1, <1>2 DEF IInv
<1>4. ASSUME NEW k \in 1 .. Len(list)
      PROVE  list[k].id < Object(w).id
  <2>1. PICK i \in 1 .. Len(offered) : list[k] = offered[i]
    BY DEF IInv, FirstN
  <2> QED
    BY <1>3, <2>1
<1> QED
  BY <1>2, <1>3, <1>4

LEMMA BeforeOrders ==
    ASSUME NEW a \in Entry, NEW b \in Entry
    PROVE  /\ Before(a, b) => a.size >= b.size
           /\ \A c \in Entry : Before(a, b) /\ Before(b, c) => Before(a, c)
BY DEF Before, Entry

(***************************************************************************)
(* A ranked object (the callbacks of Parse, bigkey.go:36, hotkey.go:72):   *)
(* the list keeps its order, and whatever is not in it any more comes      *)
(* after all that is.                                                      *)
(***************************************************************************)
LEMMA RankedKeepsFirstN ==
    ASSUME IInv, RankingAssumption, topN > 0, topN \in Int, NEW w \in Weights,
           Ranked(Object(w)), NEW i \in Positions(list, Object(w)),
           list' = AddAt(list, i, Object(w), topN),
           offered' = Append(offered, Object(w)), UNCHANGED <<hot, topN>>
    PROVE  FirstN' /\ list' \in Seq(Entry) /\ Len(list') <= topN
<1> DEFINE x == Object(w)
<1>1. /\ list \in Seq(Entry) /\ offered \in Seq(Entry)
      /\ Len(list) <= topN
  BY DEF IInv, TypeOK, Entry
<1>2. /\ x \in Entry
      /\ \A k \in 1 .. Len(offered) : offered[k].id < x.id
      /\ \A k \in 1 .. Len(list) : list[k].id < x.id
  BY NewObject
<1>3. /\ \A k \in 1 .. Len(list) : list[k] \in Entry
      /\ \A k \in 1 .. Len(offered) : offered[k] \in Entry
  BY <1>1
<1>4. \A j, k \in 1 .. Len(list) : j < k => Before(list[j], list[k])
  BY DEF IInv, FirstN
<1>5. \A j, k \in 1 .. Len(list) : j < k => list[j].size >= list[k].size
  BY <1>3, <1>4, BeforeOrders
<1>6. /\ i \in 1 .. Len(list) + 1
      /\ \A k \in 1 .. Len(list) : k < i => list[k].size > x.size
      /\ \A k \in 1 .. Len(list) : k >= i => list[k].size <= x.size
  BY <1>1, <1>2, <1>5, PlaceParts
<1>7. /\ \A k \in 1 .. Len(list) : k < i => Before(list[k], x)
      /\ \A k \in 1 .. Len(list) : k >= i => Before(x, list[k])
  BY ONLY <1>2, <1>3, <1>6, SMTT(20) DEF Before, Entry
<1>8. /\ list' \in Seq(Entry)
      /\ Len(list') = IF Len(list) < topN THEN Len(list) + 1 ELSE topN
      /\ \A k \in 1 .. Len(list') :
            /\ k < i => list'[k] = list[k]
            /\ k = i => list'[k] = x
            /\ k > i => list'[k] = list[k - 1]
  <2> DEFINE new == AddAt(list, i, x, topN)
  <2>1. topN \in Nat \ {0} /\ list' = new
    OBVIOUS
  <2> HIDE DEF x
  <2>2. /\ new \in Seq(Entry)
        /\ Len(new) = IF Len(list) < topN THEN Len(list) + 1 ELSE topN
        /\ \A k \in 1 .. Len(new) :
              /\ k < i => new[k] = list[k]
              /\ k = i => new[k] = x
              /\ k > i => new[k] = list[k - 1]
    BY ONLY <1>1, <1>2, <1>6, <2>1, AddAtShape, SMTT(60)
  <2> HIDE DEF new
  <2> QED
    BY ONLY <2>1, <2>2, ZenonT(60)
<1>9. /\ offered' \in Seq(Entry) /\ Len(offered') = Len(offered) + 1
      /\ \A k \in 1 .. Len(offered) : offered'[k] = offered[k]
      /\ offered'[Len(offered) + 1] = x
  BY <1>1, <1>2
<1> HIDE DEF x
<1>a. /\ Len(list) \in Nat /\ Len(list') \in Nat /\ i \in Nat
      /\ Len(list) <= Len(list') /\ Len(list') <= Len(list) + 1
      /\ Len(list') <= topN
      /\ Len(list') = Len(list) => Len(list) = topN
  BY <1>1, <1>6, <1>8
<1>b. ASSUME NEW j \in 1 .. Len(list'), NEW k \in 1 .. Len(list'), j < k
      PROVE  Before(list'[j], list'[k])
  <2>1. CASE k < i
    <3>1. j \in 1 .. Len(list) /\ k \in 1 .. Len(list) /\ j < i
      BY <1>6, <1>a, <1>b, <2>1
    <3> QED
      BY <1>4, <1>8, <1>b, <2>1, <3>1
  <2>2. CASE k = i
    <3>1. j \in 1 .. Len(list) /\ j < i
      BY <1>6, <1>a, <1>b, <2>2
    <3> QED
      BY <1>7, <1>8, <2>2, <3>1
  <2>3. CASE k > i
    <3>1. k - 1 \in 1 .. Len(list) /\ k - 1 >= i
      BY <1>6, <1>a, <2>3
    <3>2. CASE j < i
      <4>1. j \in 1 .. Len(list) /\ j < k - 1
        BY <1>6, <1>a, <3>1, <3>2
      <4> QED
        BY <1>4, <1>8, <2>3, <3>1, <3>2, <4>1
    <3>3. CASE j = i
      BY <1>7, <1>8, <2>3, <3>1, <3>3
    <3>4. CASE j > i
      <4>1. j - 1 \in 1 .. Len(list) /\ j - 1 < k - 1
        BY <1>6, <1>a, <1>b, <3>1, <3>4
      <4> QED
        BY <1>4, <1>8, <2>3, <3>1, <3>4, <4>1
    <3> QED
      BY <1>a, <3>2, <3>3, <3>4
  <2> QED
    BY <1>a, <2>1, <2>2, <2>3
<1>c. ASSUME NEW k \in 1 .. Len(list')
      PROVE  Ranked(list'[k]) /\ \E m \in 1 .. Len(offered') : list'[k] = offered'[m]
  <2>1. ASSUME NEW j \in 1 .. Len(list)
        PROVE  Ranked(list[j]) /\ \E m \in 1 .. Len(offered') : list[j] = offered'[m]
    <3>1. Ranked(list[j])
      BY DEF IInv, FirstN
    <3>2. PICK m \in 1 .. Len(offered) : list[j] = offered[m]
      BY DEF IInv, FirstN
    <3>3. m \in 1 .. Len(offered') /\ offered'[m] = offered[m]
      BY <1>1, <1>9, <3>2
    <3> QED
      BY <3>1, <3>2, <3>3
  <2>2. Ranked(x) /\ \E m \in 1 .. Len(offered') : x = offered'[m]
    <3>1. Len(offered) + 1 \in 1 .. Len(offered')
      BY <1>1, <1>9
    <3> QED
      BY <1>9, <3>1 DEF x
  <2>3. CASE k < i
    <3>1. k \in 1 .. Len(list)
      BY <1>6, <1>a, <2>3
    <3> QED
      BY <1>8, <2>1, <2>3, <3>1
  <2>4. CASE k = i
    BY <1>8, <2>2, <2>4
  <2>5. CASE k > i
    <3>1. k - 1 \in 1 .. Len(list)
      BY <1>6, <1>a, <2>5
    <3> QED
      BY <1>8, <2>1, <2>5, <3>1, SMTT(20)
  <2>6. k < i \/ k = i \/ k > i
    BY <1>a
  <2> QED
    BY ONLY <2>3, <2>4, <2>5, <2>6
\* Where an entry of the old list is now.
<1>d. ASSUME NEW k \in 1 .. Len(list),
             ~ \E j \in 1 .. Len(list') : list'[j] = list[k]
      PROVE  k = Len(list) /\ Len(list) = topN /\ k >= i
  <2>1. k >= i
    <3>1. SUFFICES ASSUME k < i PROVE FALSE
      BY <1>a
    <3>2. k \in 1 .. Len(list')
      BY <1>a
    <3> QED
      BY <1>8, <1>d, <3>1, <3>2
  <2>2. k + 1 \notin 1 .. Len(list')
    <3>1. SUFFICES ASSUME k + 1 \in 1 .. Len(list') PROVE FALSE
      OBVIOUS
    <3>2. k + 1 > i /\ (k + 1) - 1 = k
      BY <1>a, <2>1
    <3>3. list'[k + 1] = list[(k + 1) - 1]
      BY <1>8, <3>1, <3>2
    <3> QED
      BY <1>d, <3>1, <3>2, <3>3
  <2> QED
    BY <1>a, <2>1, <2>2
\* An object that comes after the whole old list, or was its last entry, comes
\* after the whole new one.
<1>e. ASSUME NEW o \in Entry, o.id < x.id, Len(list) = topN,
             \A k \in 1 .. Len(list) : list[k] = o \/ Before(list[k], o),
             \A k \in 1 .. Len(list) : list[k] = o => k = Len(list) /\ k >= i,
             ~ \E j \in 1 .. Len(list') : list'[j] = o
      PROVE  Len(list') = topN /\ \A p \in 1 .. Len(list') : Before(list'[p], o)
  <2>1. Len(list') = topN
    BY <1>8, <1>e
  <2>2. \A k \in 1 .. Len(list) : list[k].size >= o.size
    BY <1>3, <1>e, BeforeOrders DEF Entry
  <2>3. ASSUME NEW p \in 1 .. Len(list')
        PROVE  Before(list'[p], o)
    <3>1. p \in 1 .. Len(list)
      BY <1>e, <2>1
    <3>2. CASE p < i
      BY <1>8, <1>e, <3>1, <3>2
    <3>3. CASE p = i
      <4>1. list[i].size <= x.size /\ list[i].size >= o.size
        BY <1>6, <2>2, <3>1, <3>3
      <4>2. list[i] \in Entry
        BY <1>3, <3>1, <3>3
      <4>3. Before(x, o)
        BY <1>2, <1>e, <4>1, <4>2 DEF Before, Entry
      <4> QED
        BY <1>8, <3>3, <4>3
    <3>4. CASE p > i
      <4>1. p - 1 \in 1 .. Len(list) /\ p - 1 # Len(list)
        BY <1>6, <1>a, <3>1, <3>4
      <4>2. Before(list[p - 1], o)
        BY <1>e, <4>1
      <4> QED
        BY <1>8, <3>4, <4>2
    <3> QED
      BY <1>a, <3>2, <3>3, <3>4
  <2> QED
    BY <2>1, <2>3
<1>f. ASSUME NEW m \in 1 .. Len(offered')
      PROVE  \/ \E j \in 1 .. Len(list') : list'[j] = offered'[m]
             \/ ~Ranked(offered'[m])
             \/ /\ Len(list') = topN
                /\ \A k \in 1 .. Len(list') : Before(list'[k], offered'[m])
  <2>1. CASE m = Len(offered) + 1
    <3>1. offered'[m] = x
      BY <1>9, <2>1
    <3>2. CASE i \in 1 .. Len(list')
      <4>1. list'[i] = x
        BY <1>8, <3>2
      <4> QED
        BY <3>1, <3>2, <4>1
    <3>3. CASE i \notin 1 .. Len(list')
      <4>1. Len(list') = topN /\ \A k \in 1 .. Len(list') : k < i /\ k \in 1 .. Len(list)
        BY <1>6, <1>a, <3>3
      <4>2. \A k \in 1 .. Len(list') : Before(list'[k], x)
        BY <1>7, <1>8, <4>1
      <4> QED
        BY <3>1, <4>1, <4>2
    <3> QED
      BY <3>2, <3>3
  <2>2. CASE m \in 1 .. Len(offered)
    <3> DEFINE o == offered[m]
    <3>1. offered'[m] = o /\ o \in Entry /\ o.id < x.id
      BY <1>2, <1>3, <1>9, <2>2
    <3>2. \/ \E j \in 1 .. Len(list) : list[j] = o
          \/ ~Ranked(o)
          \/ /\ Len(list) = topN
             /\ \A k \in 1 .. Len(list) : Before(list[k], o)
      BY <2>2 DEF IInv, FirstN, Listed
    <3> HIDE DEF o
    <3>3. CASE \E j \in 1 .. Len(list') : list'[j] = o
      BY <3>1, <3>3
    <3>4. CASE /\ ~ \E j \in 1 .. Len(list') : list'[j] = o
               /\ \E j \in 1 .. Len(list) : list[j] = o
      <4>1. PICK j \in 1 .. Len(list) : list[j] = o
        BY <3>4
      <4>2. j = Len(list) /\ Len(list) = topN /\ j >= i
        BY <1>d, <3>4, <4>1
      <4>3. \A k \in 1 .. Len(list) : list[k] = o \/ Before(list[k], o)
        BY <1>4, <1>a, <4>1, <4>2
      <4>4. ASSUME NEW k \in 1 .. Len(list), list[k] = o
            PROVE  k = Len(list) /\ k >= i
        BY <1>d, <3>4, <4>4
      <4>5. Len(list') = topN /\ \A p \in 1 .. Len(list') : Before(list'[p], o)
        BY <1>e, <3>1, <3>4, <4>2, <4>3, <4>4
      <4> QED
        BY <3>1, <4>5
    <3>5. CASE ~Ranked(o)
      BY <3>1, <3>5
    <3>6. CASE /\ ~ \E j \in 1 .. Len(list') : list'[j] = o
               /\ ~ \E j \in 1 .. Len(list) : list[j] = o
               /\ Len(list) = topN
               /\ \A k \in 1 .. Len(list) : Before(list[k], o)
      <4>1. Len(list') = topN /\ \A p \in 1 .. Len(list') : Before(list'[p], o)
        BY <1>e, <3>1, <3>6
      <4> QED
        BY <3>1, <4>1
    <3> QED
      BY <3>2, <3>3, <3>4, <3>5, <3>6
  <2> QED
    BY <1>1, <1>9, <2>1, <2>2
<1>g. FirstN'
  <2>1. \A k \in 1 .. Len(list') :
            (hot' => list'[k].size >= 0) /\ \E m \in 1 .. Len(offered') : list'[k] = offered'[m]
    BY <1>c DEF Ranked
  <2>2. \A m \in 1 .. Len(offered') :
            \/ \E j \in 1 .. Len(list') : list'[j] = offered'[m]
            \/ ~(hot' => offered'[m].size >= 0)
            \/ /\ Len(list') = topN'
               /\ \A k \in 1 .. Len(list') : Before(list'[k], offered'[m])
    BY <1>f DEF Ranked
  <2> QED
    BY <1>b, <2>1, <2>2 DEF FirstN, Ranked, Listed, Before
<1> QED
  BY <1>8, <1>a, <1>g

\* An object without LFU information leaves the list alone.
LEMMA SkippedKeepsFirstN ==
    ASSUME IInv, RankingAssumption, NEW w \in Weights, ~Ranked(Object(w)),
           offered' = Append(offered, Object(w)), UNCHANGED <<hot, topN, list>>
    PROVE  FirstN'
<1>1. /\ offered \in Seq(Entry) /\ Object(w) \in Entry
  BY NewObject DEF IInv, TypeOK, Entry
<1>2. /\ Len(offered') = Len(offered) + 1
      /\ \A k \in 1 .. Len(offered) : offered'[k] = offered[k]
      /\ offered'[Len(offered) + 1] = Object(w)
      /\ 1 .. Len(offered) \subseteq 1 .. Len(offered')
  BY <1>1
<1>3. \A m \in 1 .. Len(offered') : m \in 1 .. Len(offered) \/ m = Len(offered) + 1
  BY <1>1, <1>2
<1>4. \A k \in 1 .. Len(list) : \E m \in 1 .. Len(offered') : list[k] = offered'[m]
  BY <1>2 DEF IInv, FirstN
<1>5. \A m \in 1 .. Len(offered') :
          \/ Listed(offered'[m])
          \/ ~Ranked(offered'[m])
          \/ Len(list) = topN /\ \A k \in 1 .. Len(list) : Before(list[k], offered'[m])
  BY <1>2, <1>3 DEF IInv, FirstN
<1> QED
  BY <1>4, <1>5 DEF IInv, FirstN, Ranked, Listed, Before

LEMMA NextObjectIInv ==
    ASSUME IInv, RankingAssumption, NEW w \in Weights, NextObject(w)
    PROVE  IInv'
<1>1. /\ state = "parse" /\ topN > 0 /\ Rank(w)
      /\ offered' = Append(offered, Object(w))
      /\ UNCHANGED <<hot, topN, state>>
  BY DEF IInv, NextObject
<1>2. topN \in Int
  BY DEF IInv, TypeOK, RankingAssumption
<1>3. offered \in Seq(Entry) /\ Object(w) \in Entry /\ Object(w).id = Len(offered) + 1
  BY NewObject DEF IInv, TypeOK, Entry, Object
<1>4. FirstN' /\ list' \in Seq(Entry) /\ (list' # << >> => Len(list') <= topN)
  <2>1. CASE Ranked(Object(w))
    <3>1. PICK i \in Positions(list, Object(w)) : list' = AddAt(list, i, Object(w), topN)
      BY <1>1, <2>1 DEF Rank, Add
    <3> QED
      BY <1>1, <1>2, <2>1, <3>1, RankedKeepsFirstN
  <2>2. CASE ~Ranked(Object(w))
    <3>1. list' = list
      BY <1>1, <2>2 DEF Rank
    <3>2. FirstN'
      BY <1>1, <2>2, <3>1, SkippedKeepsFirstN
    <3> QED
      BY <3>1, <3>2 DEF IInv, TypeOK, Entry
  <2> QED
    BY <2>1, <2>2
<1>5. offered' \in Seq(Entry) /\ \A k \in 1 .. Len(offered') : offered'[k].id = k
  BY <1>1, <1>3 DEF IInv
<1>6. TypeOK'
  <2>1. hot' \in BOOLEAN
    BY <1>1, Zenon DEF IInv, TypeOK
  <2> QED
    BY <1>1, <1>4, <1>5, <2>1 DEF IInv, TypeOK, Entry
<1> QED
  BY <1>1, <1>4, <1>5, <1>6 DEF IInv
LEMMA NextIInv ==
    ASSUME IInv, RankingAssumption, [Next]_vars
    PROVE  IInv'
<1>1. CASE Start
  <2>1. UNCHANGED <<hot, topN, list, offered>> /\ list = << >> /\ offered = << >>
        /\ state' = IF topN <= 0 THEN "refused" ELSE "parse"
    BY <1>1 DEF IInv, Start
  <2>2. topN \in Int
    BY DEF IInv, TypeOK, RankingAssumption
  <2>3. FirstN'
    BY <2>1 DEF IInv, FirstN, Ranked, Listed, Before
  <2>4. hot' \in BOOLEAN
    BY <2>1, Zenon DEF IInv, TypeOK
  <2>5. TypeOK'
    BY <2>1, <2>4 DEF IInv, TypeOK
  <2> QED
    BY <2>1, <2>2, <2>3, <2>5 DEF IInv
<1>2. CASE Report
  <2>1. UNCHANGED <<hot, topN, list, offered>> /\ topN > 0 /\ state' = "done"
    BY <1>2 DEF IInv, Report
  <2>2. FirstN'
    BY <2>1 DEF IInv, FirstN, Ranked, Listed, Before
  <2>3. hot' \in BOOLEAN
    BY <2>1, Zenon DEF IInv, TypeOK
  <2>4. TypeOK'
    BY <2>1, <2>3 DEF IInv, TypeOK
  <2> QED
    BY <2>1, <2>2, <2>4 DEF IInv
<1>3. CASE \E w \in Weights : NextObject(w)
  BY <1>3, NextObjectIInv
<1>4. CASE UNCHANGED vars
  <2>1. UNCHANGED <<hot, topN, state, list, offered>>
    BY <1>4 DEF vars
  <2>2. FirstN'
    BY <2>1 DEF IInv, FirstN, Ranked, Listed, Before
  <2>3. hot' \in BOOLEAN
    BY <2>1, Zenon DEF IInv, TypeOK
  <2>4. TypeOK'
    BY <2>1, <2>3 DEF IInv, TypeOK
  <2> QED
    BY <2>1, <2>2, <2>4 DEF IInv
<1> QED
  BY <1>1, <1>2, <1>3, <1>4 DEF Next

(***************************************************************************)
(* The list of FindBiggestKeys and FindHotKeys is at every moment the      *)
(* first N of the objects read, for any N, any sizes or frequencies and    *)
(* any number of objects.                                                  *)
(***************************************************************************)
THEOREM ListIsFirstN == Spec => [](TypeOK /\ FirstN)
<1>1. Init => IInv
  BY RankingAssumption, InitIInv
<1>2. IInv /\ [Next]_vars => IInv'
  BY RankingAssumption, NextIInv
<1>3. IInv => TypeOK /\ FirstN
  BY DEF IInv
<1> QED
  BY <1>1, <1>2, <1>3, PTL DEF Spec

Less == {p \in Nat \X Nat : p[1] < p[2]}

\* There is no endless descent in the natural numbers.
LEMMA NatWellFounded == IsWellFoundedOn(Less, Nat)
<1>1. OpToRel(<, Nat) = Less
  BY Zenon DEF OpToRel, Less
<1> QED
  BY <1>1, NatLessThanWellFounded

\* Every set of natural numbers that is not empty has a least element.
LEMMA LeastNumber ==
    ASSUME NEW T \in SUBSET Nat, T # {}
    PROVE  \E x \in T : \A y \in T : x <= y
<1>1. \E x \in T : \A y \in T : ~(<<y, x>> \in Less)
  BY NatWellFounded, WFMin, Zenon
<1>2. \A x, y \in Nat : y < x => <<y, x>> \in Less
  BY DEF Less
<1>3. PICK x \in T : \A y \in T : ~(<<y, x>> \in Less)
  BY <1>1
<1>4. ASSUME NEW y \in T PROVE x <= y
  <2>1. x \in Nat /\ y \in Nat
    OBVIOUS
  <2>2. <<y, x>> \notin Less
    BY <1>3
  <2>3. ~(y < x)
    BY <1>2, <2>1, <2>2, Zenon
  <2> QED
    BY <2>1, <2>3
<1> QED
  BY <1>4

-----------------------------------------------------------------------------
(***************************************************************************)
(* What is chosen, in ascending order.                                     *)
(***************************************************************************)
\* How many numbers of S there are up to i.
UpTo(S, i) == Cardinality({k \in S : k <= i})

LEMMA UpToGrows ==
    ASSUME NEW n \in Nat, NEW S \in SUBSET (1 .. n)
    PROVE  /\ IsFiniteSet(S) /\ Cardinality(S) \in Nat
           /\ UpTo(S, 0) = 0 /\ UpTo(S, n) = Cardinality(S)
           /\ \A i \in Nat : UpTo(S, i) \in Nat
           /\ \A i \in Nat : i + 1 \notin S => UpTo(S, i + 1) = UpTo(S, i)
           /\ \A i \in Nat : i + 1 \in S => UpTo(S, i + 1) = UpTo(S, i) + 1
<1> DEFINE Low(i) == {k \in S : k <= i}
<1>1. IsFiniteSet(1 .. n)
  BY FS_Interval
<1>2. IsFiniteSet(S) /\ Cardinality(S) \in Nat
  BY <1>1, FS_Subset, FS_CardinalityType
<1>3. \A i \in Nat : IsFiniteSet(Low(i)) /\ Cardinality(Low(i)) \in Nat
  BY <1>2, FS_Subset, FS_CardinalityType
<1>4. Low(0) = {} /\ Low(n) = S
  <2>1. \A k \in S : ~(k <= 0) /\ k <= n
    OBVIOUS
  <2> QED
    BY <2>1
<1>5. ASSUME NEW i \in Nat, i + 1 \notin S
      PROVE  Low(i + 1) = Low(i)
  <2>1. \A k \in S : k <= i + 1 <=> k <= i
    BY <1>5
  <2> QED
    BY <2>1
<1>6. ASSUME NEW i \in Nat, i + 1 \in S
      PROVE  Low(i + 1) = Low(i) \cup {i + 1} /\ i + 1 \notin Low(i)
  <2>1. \A k \in S : k <= i + 1 <=> (k <= i \/ k = i + 1)
    OBVIOUS
  <2>2. ~(i + 1 <= i)
    OBVIOUS
  <2> QED
    BY <1>6, <2>1, <2>2
<1>7. Cardinality(Low(0)) = 0
  BY <1>4, FS_EmptySet
<1>8. ASSUME NEW i \in Nat, i + 1 \in S
      PROVE  Cardinality(Low(i + 1)) = Cardinality(Low(i)) + 1
  <2>1. Low(i + 1) = Low(i) \cup {i + 1} /\ i + 1 \notin Low(i) /\ IsFiniteSet(Low(i))
    BY <1>3, <1>6, <1>8
  <2> HIDE DEF Low
  <2> QED
    BY <2>1, FS_AddElement
<1>9. \A i : UpTo(S, i) = Cardinality(Low(i))
  BY DEF UpTo
<1> HIDE DEF Low
<1> QED
  BY <1>2, <1>3, <1>4, <1>5, <1>7, <1>8, <1>9

\* The j-th number exists, and it is the only one with j of them up to it.
LEMMA NthNumber ==
    ASSUME NEW n \in Nat, NEW S \in SUBSET (1 .. n)
    PROVE  /\ \A j \in 1 .. Cardinality(S) : \E i \in S : UpTo(S, i) = j
           /\ \A i, k \in S : UpTo(S, i) = UpTo(S, k) => i = k
           /\ \A i \in S : UpTo(S, i) \in 1 .. Cardinality(S)
<1>1. /\ IsFiniteSet(S) /\ Cardinality(S) \in Nat
      /\ UpTo(S, 0) = 0 /\ UpTo(S, n) = Cardinality(S)
      /\ \A i \in Nat : UpTo(S, i) \in Nat
      /\ \A i \in Nat : i + 1 \notin S => UpTo(S, i + 1) = UpTo(S, i)
      /\ \A i \in Nat : i + 1 \in S => UpTo(S, i + 1) = UpTo(S, i) + 1
  BY UpToGrows
<1>2. ASSUME NEW j \in 1 .. Cardinality(S)
      PROVE  \E i \in S : UpTo(S, i) = j
  <2> DEFINE T == {i \in 0 .. n : UpTo(S, i) >= j}
  <2>1. n \in T /\ T \in SUBSET Nat
    BY <1>1
  <2>2. PICK x \in T : \A y \in T : x <= y
    BY <2>1, LeastNumber
  <2>3. x \in 0 .. n /\ UpTo(S, x) >= j /\ x # 0
    BY <1>1, <2>2
  <2>4. x - 1 \in Nat /\ x - 1 \in 0 .. n /\ x - 1 \notin T /\ (x - 1) + 1 = x
    BY <2>2, <2>3
  <2>5. ~(UpTo(S, x - 1) >= j) /\ UpTo(S, x - 1) \in Nat
    BY <1>1, <2>4
  <2>6. x \in S
    BY <1>1, <2>3, <2>4, <2>5
  <2>7. UpTo(S, x) = UpTo(S, x - 1) + 1
    BY <1>1, <2>4, <2>6
  <2> QED
    BY <2>3, <2>5, <2>6, <2>7
<1>3. ASSUME NEW i \in S, NEW k \in S, i < k
      PROVE  UpTo(S, i) < UpTo(S, k)
  <2> DEFINE A == {m \in S : m <= i}
             B == {m \in S : m <= k - 1}
  <2>1. A \subseteq B /\ IsFiniteSet(B)
    <3>1. \A m \in S : m <= i => m <= k - 1
      BY <1>3
    <3> QED
      BY <1>1, <3>1, FS_Subset
  <2>2. Cardinality(A) <= Cardinality(B)
    BY <2>1, FS_Subset
  <2>3. UpTo(S, i) = Cardinality(A) /\ UpTo(S, k - 1) = Cardinality(B)
    BY DEF UpTo
  <2>4. k - 1 \in Nat /\ (k - 1) + 1 = k /\ i \in Nat
    BY <1>3
  <2>5. UpTo(S, k) = UpTo(S, k - 1) + 1 /\ UpTo(S, i) \in Nat /\ UpTo(S, k - 1) \in Nat
    BY <1>1, <2>4
  <2> HIDE DEF A, B
  <2> QED
    BY <2>2, <2>3, <2>5
<1>4. ASSUME NEW i \in S, NEW k \in S, UpTo(S, i) = UpTo(S, k)
      PROVE  i = k
  <2>1. i \in Nat /\ k \in Nat /\ UpTo(S, i) \in Nat /\ UpTo(S, k) \in Nat
    BY <1>1
  <2>2. ~(i < k) /\ ~(k < i)
    BY <1>3, <1>4, <2>1
  <2> QED
    BY <2>1, <2>2
<1>5. ASSUME NEW i \in S
      PROVE  UpTo(S, i) \in 1 .. Cardinality(S)
  <2>1. i - 1 \in Nat /\ (i - 1) + 1 = i /\ i \in Nat
    OBVIOUS
  <2>2. UpTo(S, i) = UpTo(S, i - 1) + 1 /\ UpTo(S, i - 1) \in Nat
    BY <1>1, <2>1
  <2> DEFINE A == {m \in S : m <= i}
  <2>3. Cardinality(A) <= Cardinality(S)
    BY <1>1, FS_Subset
  <2>4. UpTo(S, i) = Cardinality(A)
    BY DEF UpTo
  <2> HIDE DEF A
  <2> QED
    BY <1>1, <2>2, <2>3, <2>4
<1> QED
  BY <1>2, <1>4, <1>5

\* Ascending(S) names each number of S, at the place of its rank.
LEMMA AscendingOf ==
    ASSUME NEW n \in Nat, NEW S \in SUBSET (1 .. n)
    PROVE  /\ Cardinality(S) \in Nat /\ DOMAIN Ascending(S) = 1 .. Cardinality(S)
           /\ \A j \in 1 .. Cardinality(S) : /\ Ascending(S)[j] \in S
                                             /\ UpTo(S, Ascending(S)[j]) = j
           /\ \A i \in S : /\ UpTo(S, i) \in 1 .. Cardinality(S)
                           /\ Ascending(S)[UpTo(S, i)] = i
           /\ Ascending(S) \in Seq(Nat) /\ Len(Ascending(S)) = Cardinality(S)
<1>1. /\ \A j \in 1 .. Cardinality(S) : \E i \in S : UpTo(S, i) = j
      /\ \A i, k \in S : UpTo(S, i) = UpTo(S, k) => i = k
      /\ \A i \in S : UpTo(S, i) \in 1 .. Cardinality(S)
  BY NthNumber
<1>2. Cardinality(S) \in Nat
  BY UpToGrows
<1>3. Ascending(S) = [j \in 1 .. Cardinality(S) |-> CHOOSE i \in S : UpTo(S, i) = j]
  BY DEF Ascending, UpTo
<1> DEFINE Nth(j) == CHOOSE i \in S : UpTo(S, i) = j
<1>4. \A j \in 1 .. Cardinality(S) : Nth(j) \in S /\ UpTo(S, Nth(j)) = j
  BY <1>1
<1> HIDE DEF Nth
<1>5. Ascending(S) = [j \in 1 .. Cardinality(S) |-> Nth(j)]
  BY <1>3 DEF Nth
<1>6. \A j \in 1 .. Cardinality(S) : Ascending(S)[j] \in S /\ UpTo(S, Ascending(S)[j]) = j
  <2> TAKE j \in 1 .. Cardinality(S)
  <2>1. Ascending(S)[j] = Nth(j)
    BY <1>5
  <2> QED
    BY <1>4, <2>1, Zenon
<1>7. \A i \in S : Ascending(S)[UpTo(S, i)] = i
  BY <1>1, <1>6
<1>8. Ascending(S) \in [1 .. Cardinality(S) -> Nat]
  <2>1. \A i \in S : i \in Nat
    OBVIOUS
  <2>2. \A j \in 1 .. Cardinality(S) : Nth(j) \in Nat
    BY <1>4, <2>1, Zenon
  <2> QED
    BY <1>5, <2>2
<1>9. Ascending(S) \in Seq(Nat) /\ Len(Ascending(S)) = Cardinality(S)
  BY <1>2, <1>8, IsASeq, LenProperties
<1> QED
  BY <1>1, <1>2, <1>5, <1>6, <1>7, <1>9

\* A larger number comes last.
LEMMA AscendingGrows ==
    ASSUME NEW n \in Nat, NEW S \in SUBSET (1 .. n)
    PROVE  /\ Ascending(S \cup {n + 1}) = Append(Ascending(S), n + 1)
           /\ Cardinality(S \cup {n + 1}) = Cardinality(S) + 1
<1> DEFINE T == S \cup {n + 1}
           c == Cardinality(S)
           a == Ascending(S)
           b == Ascending(T)
<1>1. n + 1 \in Nat /\ T \in SUBSET (1 .. n + 1) /\ n + 1 \notin S /\ n + 1 \in T
  OBVIOUS
<1>2. IsFiniteSet(S)
  BY UpToGrows
<1>3. Cardinality(T) = c + 1
  BY <1>1, <1>2, FS_AddElement
<1>4. \A i \in S : UpTo(T, i) = UpTo(S, i)
  <2> TAKE i \in S
  <2>1. {k \in T : k <= i} = {k \in S : k <= i}
    <3>1. ~(n + 1 <= i)
      OBVIOUS
    <3> QED
      BY <3>1
  <2> QED
    BY <2>1 DEF UpTo
<1>5. UpTo(T, n + 1) = c + 1
  BY <1>1, <1>3, UpToGrows
<1>6. /\ c \in Nat /\ DOMAIN a = 1 .. c /\ a \in Seq(Nat) /\ Len(a) = c
      /\ \A j \in 1 .. c : a[j] \in S /\ UpTo(S, a[j]) = j
  BY AscendingOf
<1> HIDE DEF T, a
<1>7. /\ b \in Seq(Nat) /\ Len(b) = c + 1
      /\ \A i \in T : b[UpTo(T, i)] = i
  BY <1>1, <1>3, AscendingOf
<1> HIDE DEF b
<1>8. \A j \in 1 .. c : b[j] = a[j]
  BY <1>4, <1>6, <1>7 DEF T
<1>9. b[c + 1] = n + 1
  BY <1>1, <1>5, <1>7
<1> HIDE DEF c
<1>10. Append(a, n + 1) \in Seq(Nat) /\ Len(Append(a, n + 1)) = c + 1
       /\ Append(a, n + 1)[c + 1] = n + 1 /\ \A j \in 1 .. c : Append(a, n + 1)[j] = a[j]
  BY <1>6, AppendProperties
<1>11. b = Append(a, n + 1)
  <2>1. \A j \in 1 .. c + 1 : b[j] = Append(a, n + 1)[j]
    BY <1>6, <1>8, <1>9, <1>10
  <2> QED
    BY <1>7, <1>10, <2>1, SeqEqual
<1> QED
  BY <1>3, <1>11 DEF T, a, b, c

-----------------------------------------------------------------------------
(***************************************************************************)
(* The filters.  As long as nanoseconds fit an int64 the conversions of    *)
(* core.Decoder and time.Time lose nothing: comparing them is comparing    *)
(* the milliseconds of the file.                                           *)
(***************************************************************************)
LEMMA DivisionIs ==
    ASSUME NEW x \in Nat, NEW d \in Nat \ {0}, NEW q \in Nat, NEW s \in Nat,
           x = d * q + s, s < d
    PROVE  x \div d = q
OBVIOUS

LEMMA Divided ==
    ASSUME NEW x \in Nat, NEW d \in Nat \ {0}
    PROVE  \E q, r \in Nat : x = d * q + r /\ r < d /\ q = x \div d
OBVIOUS

LEMMA Products ==
    \A x, y, z \in Nat : /\ x * y \in Nat /\ x * y = y * x
                         /\ x * (y * z) = (x * y) * z
                         /\ (x + y) * z = x * z + y * z
<1>1. \A x, y \in Nat : x * y \in Nat /\ x * y = y * x
  <2>1. ASSUME NEW x \in Nat, NEW y \in Nat PROVE x * y \in Nat
    OBVIOUS
  <2>2. ASSUME NEW x \in Nat, NEW y \in Nat PROVE x * y = y * x
    OBVIOUS
  <2> QED
    BY <2>1, <2>2
<1>2. \A x, y, z \in Nat : x * (y * z) = (x * y) * z
  OBVIOUS
<1>3. \A x, y, z \in Nat : (x + y) * z = x * z + y * z
  OBVIOUS
<1> QED
  BY <1>1, <1>2, <1>3

LEMMA ScaledOrder ==
    ASSUME NEW x \in Nat, NEW y \in Nat, NEW c \in Nat \ {0}
    PROVE  x * c \in Nat /\ (x < y <=> x * c < y * c)
<1>1. ASSUME NEW a \in Nat, NEW b \in Nat, a < b
      PROVE  a * c < b * c
  <2> DEFINE e == b - a
  <2>1. e \in Nat /\ e # 0 /\ b = a + e
    BY <1>1
  <2> HIDE DEF e
  <2>2. b * c = a * c + e * c /\ e * c \in Nat /\ a * c \in Nat
    BY <2>1, Products
  <2>3. e * c # 0
    BY <2>1
  <2> QED
    BY <2>2, <2>3
<1>2. x * c \in Nat /\ y * c \in Nat
  OBVIOUS
<1>3. x < y => x * c < y * c
  BY <1>1
<1>4. y < x => y * c < x * c
  BY <1>1
<1>5. x = y => x * c = y * c
  OBVIOUS
<1> DEFINE xc == x * c
           yc == y * c
<1>6. xc \in Nat /\ yc \in Nat /\ (x < y => xc < yc) /\ (y < x => yc < xc) /\ (x = y => xc = yc)
  BY <1>2, <1>3, <1>4, <1>5
<1> HIDE DEF xc, yc
<1>7. x < y <=> xc < yc
  BY <1>6
<1> QED
  BY <1>2, <1>7 DEF xc, yc

\* Nanoseconds over nanoseconds per second are milliseconds over
\* milliseconds per second.
LEMMA ScaledQuotient ==
    ASSUME NEW x \in Nat, NEW m \in Nat \ {0}, NEW c \in Nat \ {0}
    PROVE  (x * c) \div (c * m) = x \div m
<1> DEFINE q == x \div m
<1>1. PICK r \in Nat : q \in Nat /\ r < m /\ x = m * q + r
  BY Divided
<1> HIDE DEF q
<1>2. x * c = (m * q) * c + r * c
  BY <1>1, Products
<1>3. (m * q) * c = (c * m) * q
  <2>1. (m * q) * c = c * (m * q) /\ c * (m * q) = (c * m) * q
    BY <1>1, Products
  <2> QED
    BY <2>1
<1>4. r * c \in Nat /\ r * c < m * c /\ m * c = c * m
  BY <1>1, ScaledOrder, Products
<1>5. c * m \in Nat \ {0} /\ x * c \in Nat
  OBVIOUS
<1> DEFINE xc == x * c
           cm == c * m
           rc == r * c
<1>6. xc \in Nat /\ cm \in Nat \ {0} /\ rc \in Nat /\ rc < cm /\ xc = cm * q + rc
  BY <1>2, <1>3, <1>4, <1>5
<1> HIDE DEF xc, cm, rc
<1>7. xc \div cm = q
  BY <1>1, <1>6, DivisionIs
<1> QED
  BY <1>7 DEF xc, cm, q

\* A time that fits an int64 is not changed by it.
LEMMA FitsInt64 ==
    ASSUME AnalysesAssumption, NEW n \in Nat, n <= MaxInt64
    PROVE  ToInt64(n) = n
<1>1. Int64 \in Nat \ {0} /\ n <= Int64 \div 2 - 1
  BY DEF AnalysesAssumption, MaxInt64
<1>2. n < Int64 /\ 2 * n < Int64
  BY <1>1
<1>3. n % Int64 = n
  BY <1>1, <1>2
<1> QED
  BY <1>1, <1>2, <1>3 DEF ToInt64

\* What an object of the file is.
LEMMA FileObject ==
    ASSUME AnalysesAssumption, NEW o \in FileObjects
    PROVE  /\ o.db \in Nat /\ o.key \in Seq(Nat) /\ o.size \in Nat /\ o.ms \in Nat
           /\ o.size \in Weights /\ o.freq \in Weights /\ o.matches \in BOOLEAN
BY DEF AnalysesAssumption

LEMMA ExpirationOf ==
    ASSUME AnalysesAssumption, NEW o, o.ms \in Nat, Representable(o)
    PROVE  /\ Expiration(o) = o.ms * NsPerMs
           /\ Expiration(o) > Now * NsPerMs <=> o.ms > Now
           /\ Unix(Expiration(o)) = o.ms \div MsPerSec
           /\ o.ms \div MsPerSec \in Nat /\ o.ms \div MsPerSec <= MaxInt64
<1>1. o.ms \in Nat
  OBVIOUS
<1>2. Now \in Nat /\ NsPerMs \in Nat \ {0} /\ MsPerSec \in Nat \ {0} /\ Int64 \in Nat \ {0}
  BY DEF AnalysesAssumption
<1> DEFINE ms == o.ms
           ns == ms * NsPerMs
<1>3. ms \in Nat
  BY <1>1
<1>4. ns <= MaxInt64
  BY DEF Representable
<1> HIDE DEF ms
<1>5. ns \in Nat
  BY <1>2, <1>3
<1>6. Now * NsPerMs < ns <=> Now < ms
  BY <1>2, <1>3, ScaledOrder
<1>7. ns \div (NsPerMs * MsPerSec) = ms \div MsPerSec
  BY <1>2, <1>3, ScaledQuotient
<1>8. ms <= ns
  <2>1. ms * 1 <= ms * NsPerMs
    BY <1>2, <1>3
  <2> QED
    BY <1>3, <2>1
<1>9. ms \div MsPerSec \in Nat /\ ms \div MsPerSec <= ms
  <2> DEFINE q == ms \div MsPerSec
  <2>1. PICK r \in Nat : q \in Nat /\ ms = MsPerSec * q + r
    BY <1>2, <1>3, Divided
  <2> HIDE DEF q
  <2>2. MsPerSec * q >= q
    BY <1>2, <2>1
  <2>3. q <= ms
    <3> DEFINE p == MsPerSec * q
    <3>1. p \in Nat /\ p >= q /\ ms = p + r
      BY <1>2, <2>1, <2>2
    <3> HIDE DEF p
    <3> QED
      BY <2>1, <3>1
  <2> QED
    BY <2>1, <2>3 DEF q
<1> HIDE DEF ns
<1>10. Expiration(o) = ns
  <2>1. Expiration(o) = ToInt64(ns)
    BY DEF Expiration, ns, ms
  <2> QED
    BY <1>4, <1>5, <2>1, FitsInt64
<1>11. Unix(ns) = ms \div MsPerSec
  BY <1>7 DEF Unix, ns
<1>12. MaxInt64 \in Int
  BY <1>2 DEF MaxInt64
<1>13. ms \div MsPerSec <= MaxInt64
  <2> DEFINE q == ms \div MsPerSec
  <2>1. q \in Nat /\ q <= ms
    BY <1>9
  <2> HIDE DEF q
  <2>2. q <= MaxInt64
    BY <1>3, <1>4, <1>5, <1>8, <1>12, <2>1
  <2> QED
    BY <2>2 DEF q
<1>14. ns > Now * NsPerMs <=> ms > Now
  BY <1>2, <1>3, <1>5, <1>6 DEF ns
<1>15. ms = o.ms /\ ns = o.ms * NsPerMs
  BY DEF ms, ns
<1> QED
  BY <1>9, <1>10, <1>11, <1>13, <1>14, <1>15

(***************************************************************************)
(* The stack of decorators: an object reaches the callback if each of      *)
(* those that the options put there hands it on.                           *)
(***************************************************************************)
PassesAll(s, o) == \A i \in DOMAIN s : Passes(s[i], o)

LEMMA PassesBoth ==
    ASSUME NEW D, NEW s \in Seq(D), NEW t \in Seq(D), NEW o
    PROVE  PassesAll(s \o t, o) <=> PassesAll(s, o) /\ PassesAll(t, o)
<1>1. /\ s \o t \in Seq(D) /\ Len(s \o t) = Len(s) + Len(t)
      /\ \A i \in 1 .. Len(s) : (s \o t)[i] = s[i]
      /\ \A i \in 1 .. Len(t) : (s \o t)[Len(s) + i] = t[i]
  BY ConcatProperties
<1> DEFINE u == s \o t
           m == Len(s)
           n == Len(t)
<1>2. /\ DOMAIN u = 1 .. m + n /\ DOMAIN s = 1 .. m /\ DOMAIN t = 1 .. n
      /\ m \in Nat /\ n \in Nat
      /\ \A i \in 1 .. m : u[i] = s[i]
      /\ \A i \in 1 .. n : u[m + i] = t[i]
  BY <1>1, LenProperties
<1> HIDE DEF u, m, n
<1>3. ASSUME PassesAll(u, o) PROVE PassesAll(s, o) /\ PassesAll(t, o)
  <2>1. \A i \in 1 .. m : i \in 1 .. m + n
    BY <1>2
  <2>2. \A i \in 1 .. n : m + i \in 1 .. m + n
    BY <1>2
  <2> QED
    BY <1>2, <1>3, <2>1, <2>2 DEF PassesAll
<1>4. ASSUME PassesAll(s, o), PassesAll(t, o) PROVE PassesAll(u, o)
  <2> SUFFICES ASSUME NEW i \in 1 .. m + n PROVE Passes(u[i], o)
    BY <1>2 DEF PassesAll
  <2>1. CASE i <= m
    BY <1>2, <1>4, <2>1 DEF PassesAll
  <2>2. CASE ~(i <= m)
    <3>1. i - m \in 1 .. n /\ m + (i - m) = i
      BY <1>2, <2>2
    <3> QED
      BY <1>2, <1>4, <3>1 DEF PassesAll
  <2> QED
    BY <2>1, <2>2
<1> QED
  BY <1>3, <1>4 DEF u

LEMMA PassesOne == \A d, o : (PassesAll(<<d>>, o) <=> Passes(d, o)) /\ PassesAll(<< >>, o)
<1> TAKE d, o
<1>1. DOMAIN <<d>> = {1} /\ <<d>>[1] = d
  OBVIOUS
<1>2. DOMAIN << >> = {}
  OBVIOUS
<1> QED
  BY <1>1, <1>2 DEF PassesAll

LEMMA OptionOf ==
    ASSUME AnalysesAssumption, NEW opts \in OptionSets
    PROVE  /\ opts.regex \in BOOLEAN /\ opts.noExpired \in BOOLEAN /\ opts.size.on \in BOOLEAN
           /\ opts.expire.kind \in ExpireKinds
           /\ opts.expire.kind = "range" => opts.expire.lo \in Int /\ opts.expire.hi \in Int
           /\ opts.size.on => opts.size.lo \in Int /\ opts.size.hi \in Int
BY DEF AnalysesAssumption

LEMMA PassesKinds ==
    ASSUME NEW o, NEW lo, NEW hi
    PROVE  /\ Passes([kind |-> "regex"], o) <=> o.matches
           /\ Passes([kind |-> "noExpired"], o)
                  <=> ~HasExpiration(o) \/ Expiration(o) > Now * NsPerMs
           /\ Passes([kind |-> "noExpiration"], o) <=> ~HasExpiration(o)
           /\ Passes([kind |-> "expiration", lo |-> lo, hi |-> hi], o)
                  <=> /\ HasExpiration(o)
                      /\ lo <= Unix(Expiration(o)) /\ Unix(Expiration(o)) <= hi
           /\ Passes([kind |-> "size", lo |-> lo, hi |-> hi], o) <=> lo <= o.size /\ o.size <= hi
BY DEF Passes

\* A sequence of no or one decorator.
OneOf(s, on, d) == s = IF on THEN <<d>> ELSE << >>

LEMMA PassesOneOf ==
    ASSUME NEW s, NEW on \in BOOLEAN, NEW d, NEW o, OneOf(s, on, d)
    PROVE  /\ PassesAll(s, o) <=> (on => Passes(d, o))
           /\ \A D : d \in D => s \in Seq(D)
<1>1. CASE on
  <2>1. s = <<d>>
    BY <1>1 DEF OneOf
  <2> QED
    BY <1>1, <2>1, PassesOne
<1>2. CASE ~on
  <2>1. s = << >>
    BY <1>2 DEF OneOf
  <2>2. PassesAll(s, o)
    BY <2>1, PassesOne, Zenon
  <2>3. \A D : << >> \in Seq(D)
    OBVIOUS
  <2> QED
    BY <1>2, <2>1, <2>2, <2>3
<1> QED
  BY <1>1, <1>2

\* What the options let through, decorator by decorator.
PassesExpire(range, o) ==
    CASE range.kind = "off" -> TRUE
      [] range.kind = "noexpire" -> ~HasExpiration(o)
      [] range.kind = "anyexpire" ->
            HasExpiration(o) /\ 0 <= Unix(Expiration(o)) /\ Unix(Expiration(o)) <= MaxInt64
      [] range.kind = "range" ->
            HasExpiration(o) /\ range.lo <= Unix(Expiration(o)) /\ Unix(Expiration(o)) <= range.hi

LEMMA ReachesIs ==
    ASSUME AnalysesAssumption, options \in OptionSets, Legal(options), NEW o
    PROVE  Reaches(o) <=>
               /\ options.regex => o.matches
               /\ options.noExpired => ~HasExpiration(o) \/ Expiration(o) > Now * NsPerMs
               /\ PassesExpire(options.expire, o)
               /\ options.size.on => options.size.lo <= o.size /\ o.size <= options.size.hi
<1> DEFINE kind == options.expire.kind
           d1 == [kind |-> "regex"]
           d2 == [kind |-> "noExpired"]
           d3 == IF kind = "noexpire" THEN [kind |-> "noExpiration"]
                 ELSE IF kind = "anyexpire" THEN [kind |-> "expiration", lo |-> 0, hi |-> MaxInt64]
                 ELSE [kind |-> "expiration", lo |-> options.expire.lo, hi |-> options.expire.hi]
           d4 == [kind |-> "size", lo |-> options.size.lo, hi |-> options.size.hi]
           s1 == IF options.regex THEN <<d1>> ELSE << >>
           s2 == IF options.noExpired THEN <<d2>> ELSE << >>
           s3 == CASE kind = "off" -> << >>
                   [] kind = "noexpire" -> <<[kind |-> "noExpiration"]>>
                   [] kind = "anyexpire" -> <<[kind |-> "expiration", lo |-> 0, hi |-> MaxInt64]>>
                   [] kind = "range" -> <<[kind |-> "expiration", lo |-> options.expire.lo,
                                                                  hi |-> options.expire.hi]>>
           s4 == IF options.size.on THEN <<d4>> ELSE << >>
           D == {d1, d2, d3, d4}
<1>1. /\ options.regex \in BOOLEAN /\ options.noExpired \in BOOLEAN /\ options.size.on \in BOOLEAN
      /\ kind \in {"off", "noexpire", "anyexpire", "range"}
  BY OptionOf DEF Legal, ExpireKinds
<1>2. wrapDecoder(options) = ((s1 \o s2) \o s3) \o s4
  BY Zenon DEF wrapDecoder
<1>3. OneOf(s1, options.regex, d1) /\ OneOf(s2, options.noExpired, d2)
      /\ OneOf(s4, options.size.on, d4)
  BY Zenon DEF OneOf
<1>4. (kind # "off") \in BOOLEAN /\ OneOf(s3, kind # "off", d3)
  <2>1. CASE kind = "off"
    BY <2>1 DEF OneOf
  <2>2. CASE kind = "noexpire"
    BY <2>2 DEF OneOf
  <2>3. CASE kind = "anyexpire"
    BY <2>3 DEF OneOf
  <2>4. CASE kind = "range"
    BY <2>4 DEF OneOf
  <2> QED
    BY <1>1, <2>1, <2>2, <2>3, <2>4
<1>5. /\ Passes(d1, o) <=> o.matches
      /\ Passes(d2, o) <=> ~HasExpiration(o) \/ Expiration(o) > Now * NsPerMs
      /\ Passes(d4, o) <=> options.size.lo <= o.size /\ o.size <= options.size.hi
  BY PassesKinds, Zenon
<1>6. (kind # "off" => Passes(d3, o)) <=> PassesExpire(options.expire, o)
  <2>1. CASE kind = "off"
    BY <2>1 DEF PassesExpire
  <2>2. CASE kind = "noexpire"
    <3>1. d3 = [kind |-> "noExpiration"]
      BY <2>2
    <3>2. Passes(d3, o) <=> ~HasExpiration(o)
      BY <3>1, PassesKinds, Zenon
    <3> HIDE DEF d3
    <3> QED
      BY <2>2, <3>2 DEF PassesExpire
  <2>3. CASE kind = "anyexpire"
    <3>1. d3 = [kind |-> "expiration", lo |-> 0, hi |-> MaxInt64]
      BY <2>3
    <3>2. Passes(d3, o) <=> /\ HasExpiration(o)
                            /\ 0 <= Unix(Expiration(o)) /\ Unix(Expiration(o)) <= MaxInt64
      BY <3>1, PassesKinds, Zenon
    <3> HIDE DEF d3
    <3> QED
      BY <2>3, <3>2 DEF PassesExpire
  <2>4. CASE kind = "range"
    <3>1. d3 = [kind |-> "expiration", lo |-> options.expire.lo, hi |-> options.expire.hi]
      BY <2>4
    <3>2. Passes(d3, o) <=> /\ HasExpiration(o)
                            /\ options.expire.lo <= Unix(Expiration(o))
                            /\ Unix(Expiration(o)) <= options.expire.hi
      BY ONLY <3>1, PassesKinds
    <3> HIDE DEF d3
    <3> QED
      BY <2>4, <3>2 DEF PassesExpire
  <2> QED
    BY <1>1, <2>1, <2>2, <2>3, <2>4
<1>7. d1 \in D /\ d2 \in D /\ d3 \in D /\ d4 \in D
  BY Zenon
<1> HIDE DEF d1, d2, d3, d4, s1, s2, s3, s4, D
<1>8. s1 \in Seq(D) /\ s2 \in Seq(D) /\ s3 \in Seq(D) /\ s4 \in Seq(D)
  BY <1>1, <1>3, <1>4, <1>7, PassesOneOf
<1>9. /\ PassesAll(s1, o) <=> (options.regex => Passes(d1, o))
      /\ PassesAll(s2, o) <=> (options.noExpired => Passes(d2, o))
      /\ PassesAll(s3, o) <=> (kind # "off" => Passes(d3, o))
      /\ PassesAll(s4, o) <=> (options.size.on => Passes(d4, o))
  BY <1>1, <1>3, <1>4, PassesOneOf
<1>10. s1 \o s2 \in Seq(D) /\ (s1 \o s2) \o s3 \in Seq(D)
  BY <1>8, ConcatProperties
<1>11. /\ PassesAll(s1 \o s2, o) <=> PassesAll(s1, o) /\ PassesAll(s2, o)
       /\ PassesAll((s1 \o s2) \o s3, o) <=> PassesAll(s1 \o s2, o) /\ PassesAll(s3, o)
       /\ PassesAll(((s1 \o s2) \o s3) \o s4, o)
              <=> PassesAll((s1 \o s2) \o s3, o) /\ PassesAll(s4, o)
  BY <1>8, <1>10, PassesBoth
<1>12. Reaches(o) <=> PassesAll(wrapDecoder(options), o)
  BY Zenon DEF Reaches, PassesAll
<1> QED
  BY <1>2, <1>5, <1>6, <1>9, <1>11, <1>12

(***************************************************************************)
(* The stacked filters let through what the options ask for.               *)
(***************************************************************************)
LEMMA ReachesAsWanted ==
    ASSUME AnalysesAssumption, options \in OptionSets, options = asked, Legal(options),
           NEW o, o.ms \in Nat, Representable(o)
    PROVE  Reaches(o) <=> Wanted(o)
<1> DEFINE kind == options.expire.kind
           secs == o.ms \div MsPerSec
<1>1. o.ms \in Nat /\ (HasExpiration(o) <=> o.ms # 0)
  BY DEF HasExpiration
<1>2. /\ Expiration(o) > Now * NsPerMs <=> o.ms > Now
      /\ Unix(Expiration(o)) = secs
      /\ secs \in Nat /\ secs <= MaxInt64
  BY ExpirationOf
<1> HIDE DEF secs
<1>3. kind \in {"off", "noexpire", "anyexpire", "range"}
  BY OptionOf DEF Legal, ExpireKinds
<1>4. PassesExpire(options.expire, o) <=>
          (CASE kind = "off" -> TRUE
             [] kind = "noexpire" -> o.ms = 0
             [] kind = "anyexpire" -> o.ms # 0
             [] kind = "range" -> o.ms # 0 /\ options.expire.lo <= secs /\ secs <= options.expire.hi)
  <2>1. CASE kind = "off"
    BY <2>1 DEF PassesExpire
  <2>2. CASE kind = "noexpire"
    BY <1>1, <2>2 DEF PassesExpire
  <2>3. CASE kind = "anyexpire"
    BY <1>1, <1>2, <2>3 DEF PassesExpire
  <2>4. CASE kind = "range"
    BY <1>1, <1>2, <2>4 DEF PassesExpire
  <2> QED
    BY <1>3, <2>1, <2>2, <2>3, <2>4
<1>5. Wanted(o) <=>
          /\ options.regex => o.matches
          /\ options.noExpired => o.ms = 0 \/ o.ms > Now
          /\ (CASE kind = "off" -> TRUE
             [] kind = "noexpire" -> o.ms = 0
             [] kind = "anyexpire" -> o.ms # 0
             [] kind = "range" -> o.ms # 0 /\ options.expire.lo <= secs /\ secs <= options.expire.hi)
          /\ options.size.on => options.size.lo <= o.size /\ o.size <= options.size.hi
  BY Zenon DEF Wanted, secs
<1>6. (options.noExpired => ~HasExpiration(o) \/ Expiration(o) > Now * NsPerMs)
      <=> (options.noExpired => o.ms = 0 \/ o.ms > Now)
  BY <1>1, <1>2, Zenon
<1> QED
  BY <1>4, <1>5, <1>6, ReachesIs, Zenon

-----------------------------------------------------------------------------
(***************************************************************************)
(* What the callbacks have got: the objects that were handed on, in the    *)
(* order of the file.                                                      *)
(***************************************************************************)
ReachedPlaces == Ascending({i \in DOMAIN file : Reaches(file[i])})

Offer(o, j, h) == [id |-> j, size |-> IF h THEN o.freq ELSE o.size]
Member(o) == [db |-> o.db, key |-> o.key, size |-> o.size]

RankedFrom(f, p, h) == [j \in DOMAIN p |-> Offer(f[p[j]], j, h)]
GroupedFrom(f, p) == [j \in DOMAIN p |-> Member(f[p[j]])]

ReachedInv ==
    /\ Ranking => offered = RankedFrom(file, ReachedPlaces, hot)
    /\ command = "prefix" => grouped = GroupedFrom(file, ReachedPlaces)

GivenInv ==
    /\ command \in Commands
    /\ asked \in OptionSets /\ options = Passed(command, asked) /\ options \in OptionSets
    /\ command \in {"bigkey", "hotkey", "prefix"} => file \in Seq(FileObjects)

LEMMA PlacesInFile ==
    ASSUME NEW F, NEW f \in Seq(F), NEW S \in SUBSET DOMAIN f
    PROVE  /\ Ascending(S) \in Seq(Nat)
           /\ \A j \in DOMAIN Ascending(S) : Ascending(S)[j] \in S
           /\ Ascending(S \cup {Len(f) + 1}) = Append(Ascending(S), Len(f) + 1)
<1>1. Len(f) \in Nat /\ S \in SUBSET (1 .. Len(f))
  OBVIOUS
<1> QED
  BY <1>1, AscendingOf, AscendingGrows

\* One object more: its place is added, or nothing.
LEMMA PlacesNext ==
    ASSUME NEW F, file \in Seq(F), NEW o \in F, file' = Append(file, o),
           UNCHANGED options
    PROVE  /\ ReachedPlaces \in Seq(Nat)
           /\ \A j \in DOMAIN ReachedPlaces : ReachedPlaces[j] \in DOMAIN file
           /\ Reaches(o) => ReachedPlaces' = Append(ReachedPlaces, Len(file) + 1)
           /\ ~Reaches(o) => ReachedPlaces' = ReachedPlaces
<1> DEFINE n == Len(file)
           S == {i \in DOMAIN file : Reaches(file[i])}
           Hands(x) == PassesAll(wrapDecoder(options), x)
           T == {i \in DOMAIN file' : Hands(file'[i])}
<1>1. \A x : Reaches(x) <=> Hands(x)
  BY Zenon DEF Reaches, PassesAll
<1>2. ReachedPlaces' = Ascending(T)
  <2>1. ReachedPlaces' = Ascending({i \in DOMAIN file' : PassesAll(wrapDecoder(options'), file'[i])})
    BY Zenon DEF ReachedPlaces, Reaches, PassesAll
  <2> QED
    BY <2>1
<1>3. ReachedPlaces = Ascending(S)
  BY DEF ReachedPlaces
<1>4. /\ DOMAIN file = 1 .. n /\ n \in Nat /\ DOMAIN file' = 1 .. n + 1
      /\ file'[n + 1] = o /\ \A i \in 1 .. n : file'[i] = file[i]
  OBVIOUS
<1>5. /\ Ascending(S) \in Seq(Nat)
      /\ \A j \in DOMAIN Ascending(S) : Ascending(S)[j] \in S
      /\ Ascending(S \cup {n + 1}) = Append(Ascending(S), n + 1)
  BY PlacesInFile
<1> HIDE DEF n, Hands
<1>6. T = IF Reaches(o) THEN S \cup {n + 1} ELSE S
  <2>1. \A i \in 1 .. n + 1 : i \in 1 .. n \/ i = n + 1
    BY <1>4
  <2>2. \A i \in 1 .. n : i \in 1 .. n + 1
    BY <1>4
  <2>3. n + 1 \in 1 .. n + 1 /\ n + 1 \notin 1 .. n
    BY <1>4
  <2>4. \A i : i \in S <=> i \in 1 .. n /\ Hands(file[i])
    BY <1>1, <1>4
  <2>5. \A i : i \in T <=> i \in 1 .. n + 1 /\ Hands(file'[i])
    BY <1>4
  <2> HIDE DEF S, T
  <2>6. CASE Reaches(o)
    <3>1. \A i : i \in T <=> i \in S \cup {n + 1}
      BY <1>1, <1>4, <2>1, <2>2, <2>3, <2>4, <2>5, <2>6
    <3> QED
      BY <2>6, <3>1
  <2>7. CASE ~Reaches(o)
    <3>1. \A i : i \in T <=> i \in S
      BY <1>1, <1>4, <2>1, <2>2, <2>3, <2>4, <2>5, <2>7
    <3> QED
      BY <2>7, <3>1
  <2> QED
    BY <2>6, <2>7
<1>7. \A i \in S : i \in DOMAIN file
  OBVIOUS
<1> HIDE DEF S, T
<1>8. Reaches(o) => ReachedPlaces' = Append(ReachedPlaces, Len(file) + 1)
  BY <1>2, <1>3, <1>5, <1>6 DEF n
<1>9. ~Reaches(o) => ReachedPlaces' = ReachedPlaces
  BY <1>2, <1>3, <1>6
<1> QED
  BY <1>3, <1>5, <1>7, <1>8, <1>9

LEMMA ArrayIsSeq ==
    ASSUME NEW R, NEW m \in Nat, NEW a \in [1 .. m -> R]
    PROVE  a \in Seq(R) /\ Len(a) = m
<1>1. a \in Seq(R)
  BY IsASeq
<1> QED
  BY <1>1, LenProperties

RankGrown(f, o, p, h) ==
    RankedFrom(Append(f, o), Append(p, Len(f) + 1), h)
        = Append(RankedFrom(f, p, h), Offer(o, Len(p) + 1, h))

\* What a place more is to the callbacks.
LEMMA ReachedGrows ==
    ASSUME AnalysesAssumption, RankingAssumption, NEW f \in Seq(FileObjects),
           NEW o \in FileObjects, NEW p \in Seq(Nat), NEW h,
           \A j \in DOMAIN p : p[j] \in DOMAIN f
    PROVE  /\ RankGrown(f, o, p, h)
           /\ GroupedFrom(Append(f, o), Append(p, Len(f) + 1))
                  = Append(GroupedFrom(f, p), Member(o))
           /\ RankedFrom(Append(f, o), p, h) = RankedFrom(f, p, h)
           /\ GroupedFrom(Append(f, o), p) = GroupedFrom(f, p)
           /\ Len(RankedFrom(f, p, h)) = Len(p)
<1> DEFINE n == Len(f)
           m == Len(p)
           g == Append(f, o)
           q == Append(p, n + 1)
<1>1. /\ n \in Nat /\ DOMAIN f = 1 .. n
      /\ DOMAIN g = 1 .. n + 1 /\ g[n + 1] = o /\ \A i \in 1 .. n : g[i] = f[i]
      /\ g \in Seq(FileObjects)
  BY AppendProperties
<1>2. /\ m \in Nat /\ DOMAIN p = 1 .. m
      /\ DOMAIN q = 1 .. m + 1 /\ q[m + 1] = n + 1 /\ \A j \in 1 .. m : q[j] = p[j]
  BY <1>1, AppendProperties
<1>3. \A j \in 1 .. m : p[j] \in 1 .. n /\ g[p[j]] = f[p[j]] /\ g[q[j]] = f[p[j]]
  BY <1>1, <1>2
<1>4. g[q[m + 1]] = o
  BY <1>1, <1>2
<1> HIDE DEF n, m, g, q
<1> DEFINE R == [id : Nat, size : Int]
           M == [db : Nat, key : Seq(Nat), size : Nat]
<1>5. \A x \in FileObjects : \A j \in Nat : Offer(x, j, h) \in R
  BY FileObject DEF Offer, RankingAssumption
<1>6. \A x \in FileObjects : Member(x) \in M
  BY FileObject DEF Member
<1> HIDE DEF R, M
<1>7. \A j \in 1 .. m : f[p[j]] \in FileObjects /\ j \in Nat
  BY <1>1, <1>3
<1>8. /\ RankedFrom(f, p, h) \in Seq(R) /\ Len(RankedFrom(f, p, h)) = m
      /\ \A j \in 1 .. m : RankedFrom(f, p, h)[j] = Offer(f[p[j]], j, h)
  <2>1. RankedFrom(f, p, h) \in [1 .. m -> R]
    BY <1>2, <1>5, <1>7 DEF RankedFrom
  <2>2. RankedFrom(f, p, h) \in Seq(R) /\ Len(RankedFrom(f, p, h)) = m
    BY <1>2, <2>1, ArrayIsSeq
  <2> QED
    BY <1>2, <2>2 DEF RankedFrom
<1>9. /\ GroupedFrom(f, p) \in Seq(M) /\ Len(GroupedFrom(f, p)) = m
      /\ \A j \in 1 .. m : GroupedFrom(f, p)[j] = Member(f[p[j]])
  <2>1. GroupedFrom(f, p) \in [1 .. m -> M]
    BY <1>2, <1>6, <1>7 DEF GroupedFrom
  <2>2. GroupedFrom(f, p) \in Seq(M) /\ Len(GroupedFrom(f, p)) = m
    BY <1>2, <2>1, ArrayIsSeq
  <2> QED
    BY <1>2, <2>2 DEF GroupedFrom
<1>10. \A j \in 1 .. m + 1 : j \in 1 .. m \/ j = m + 1
  BY <1>2
<1>11. RankedFrom(g, q, h) = Append(RankedFrom(f, p, h), Offer(o, m + 1, h))
  <2> DEFINE a == RankedFrom(f, p, h)
             b == Append(a, Offer(o, m + 1, h))
             F == RankedFrom(g, q, h)
  <2>1. Offer(o, m + 1, h) \in R
    BY <1>2, <1>5
  <2>2. /\ b \in Seq(R) /\ Len(b) = m + 1 /\ b[m + 1] = Offer(o, m + 1, h)
        /\ \A j \in 1 .. m : b[j] = a[j]
    BY <1>8, <2>1, AppendProperties
  <2>3. F = [j \in 1 .. m + 1 |-> Offer(g[q[j]], j, h)]
    BY <1>2 DEF RankedFrom
  <2>4. \A j \in 1 .. m + 1 : b[j] = Offer(g[q[j]], j, h)
    BY <1>3, <1>4, <1>8, <1>10, <2>2
  <2> HIDE DEF a, b, F
  <2>5. b = [j \in 1 .. m + 1 |-> b[j]]
    BY <1>2, <2>2
  <2>6. F = b
    BY <2>3, <2>4, <2>5
  <2> QED
    BY <2>6 DEF a, b, F
<1>12. GroupedFrom(g, q) = Append(GroupedFrom(f, p), Member(o))
  <2> DEFINE a == GroupedFrom(f, p)
             b == Append(a, Member(o))
             F == GroupedFrom(g, q)
  <2>1. Member(o) \in M
    BY <1>6
  <2>2. /\ b \in Seq(M) /\ Len(b) = m + 1 /\ b[m + 1] = Member(o)
        /\ \A j \in 1 .. m : b[j] = a[j]
    BY <1>9, <2>1, AppendProperties
  <2>3. F = [j \in 1 .. m + 1 |-> Member(g[q[j]])]
    BY <1>2 DEF GroupedFrom
  <2>4. \A j \in 1 .. m + 1 : b[j] = Member(g[q[j]])
    BY <1>3, <1>4, <1>9, <1>10, <2>2
  <2> HIDE DEF a, b, F
  <2>5. b = [j \in 1 .. m + 1 |-> b[j]]
    BY <1>2, <2>2
  <2>6. F = b
    BY <2>3, <2>4, <2>5
  <2> QED
    BY <2>6 DEF a, b, F
<1>13. RankedFrom(g, p, h) = RankedFrom(f, p, h) /\ GroupedFrom(g, p) = GroupedFrom(f, p)
  BY <1>2, <1>3 DEF RankedFrom, GroupedFrom
<1> QED
  BY <1>8, <1>11, <1>12, <1>13 DEF m, n, g, q, RankGrown

LEMMA RankedGrows ==
    ASSUME AnalysesAssumption, RankingAssumption, NEW f \in Seq(FileObjects),
           NEW o \in FileObjects, NEW p \in Seq(Nat), NEW h,
           \A j \in DOMAIN p : p[j] \in DOMAIN f
    PROVE  RankedFrom(Append(f, o), Append(p, Len(f) + 1), h)
               = Append(RankedFrom(f, p, h), Offer(o, Len(p) + 1, h))
<1>1. RankGrown(f, o, p, h)
  BY ReachedGrows
<1> QED
  BY ONLY <1>1 DEF RankGrown
-----------------------------------------------------------------------------
(***************************************************************************)
(* The steps of Analyses, as KeyRanking sees them: those of the two        *)
(* rankings are its own, all others leave its list alone.                  *)
(***************************************************************************)
RankInv ==
    /\ IInv
    /\ ~Ranking => list = << >> /\ offered = << >>
    /\ command \in {"flamegraph", "aof", "ToAOF"} => topN = 1

\* A step that does not touch the list; one of another command may choose
\* topN and go on.
Rests ==
    /\ UNCHANGED <<hot, list, offered>>
    /\ \/ UNCHANGED <<topN, state>>
       \/ /\ list = << >> /\ offered = << >>
          /\ topN' \in Int
          /\ state' \in {"parse", "done", "refused"}
          /\ state' \in {"parse", "done"} => topN' > 0

LEMMA AnalysesSteps ==
    AnalysesNext =>
        \/ Refuse \/ StartRanking \/ StartPrefix \/ StartOther
        \/ ReportRanking \/ ReportPrefix
        \/ PlotEnds \/ TrimTurn \/ ConvertEnds \/ LoadCommand
        \/ (\E o \in FileObjects : RankObject(o)) \/ (\E o \in FileObjects : GroupObject(o))
        \/ \E o \in FlameObjects : PlotObject(o)
        \/ \E o \in Objects : Filtered(o)
        \/ \E o \in AofObjects : ConvertObject(o)
BY Zenon DEF AnalysesNext

LEMMA StepRanks ==
    ASSUME AnalysesAssumption, RankingAssumption, GivenInv, RankInv, [AnalysesNext]_analysesVars
    PROVE  /\ UNCHANGED <<command, asked, options>>
           /\ (Ranking /\ Next) \/ Rests
           /\ command \in {"flamegraph", "aof", "ToAOF"} => UNCHANGED topN
<1> USE DEF Given, OnlyRanking, OnlyPrefix, OnlyFlame, OnlyAof, sepVars, flameVars, aofVars
<1>0. /\ topN \in Int
      /\ state \in {"start", "refused"} => list = << >> /\ offered = << >>
      /\ state \in {"parse", "done"} => topN > 0
      /\ ~Ranking => list = << >> /\ offered = << >>
      /\ command \in {"flamegraph", "aof", "ToAOF"} => topN = 1
  BY DEF RankInv, IInv, TypeOK
<1>1. CASE Refuse
  <2>1. /\ UNCHANGED <<hot, topN, list, offered>> /\ state = "start" /\ state' = "refused"
        /\ UNCHANGED <<command, asked, options>>
    BY <1>1 DEF Refuse
  <2> QED
    BY <1>0, <2>1 DEF Rests
<1>2. CASE StartRanking
  BY <1>2 DEF StartRanking, Start, Next, Ranking
<1>3. CASE StartPrefix
  <2>1. /\ UNCHANGED <<hot, list, offered, command, asked, options>> /\ command = "prefix"
        /\ state' \in {"parse", "refused"} /\ topN' = Sep!Unlimited(topN)
    BY <1>3 DEF StartPrefix, Sep!Start
  <2>2. topN' \in Int /\ topN' > 0
    BY <1>0, <2>1 DEF Sep!Unlimited, AnalysesAssumption
  <2> QED
    BY <1>0, <2>1, <2>2 DEF Rests, Ranking
<1>4. CASE StartOther
  <2>1. /\ UNCHANGED <<hot, topN, list, offered, command, asked, options>> /\ state' = "parse"
        /\ command \in {"flamegraph", "aof", "ToAOF"}
    BY <1>4 DEF StartOther, Converting
  <2> QED
    BY <1>0, <2>1 DEF Rests, Ranking
<1>5. CASE ReportRanking
  BY <1>5 DEF ReportRanking, Report, Next, Ranking
<1>6. CASE ReportPrefix
  <2>1. /\ UNCHANGED <<hot, topN, list, offered, command, asked, options>> /\ command = "prefix"
        /\ state = "parse" /\ state' = "done"
    BY <1>6 DEF ReportPrefix, Sep!Report
  <2> QED
    BY <1>0, <2>1 DEF Rests, Ranking
<1>7. CASE PlotEnds
  <2>1. /\ UNCHANGED <<hot, topN, list, offered, command, asked, options>> /\ command = "flamegraph"
        /\ state = "parse" /\ state' = "done"
    BY <1>7 DEF PlotEnds
  <2> QED
    BY <1>0, <2>1 DEF Rests, Ranking
<1>8. CASE TrimTurn
  BY <1>8 DEF TrimTurn, Rests
<1>9. CASE ConvertEnds
  <2>1. /\ UNCHANGED <<hot, topN, list, offered, command, asked, options>> /\ Converting
        /\ state = "parse" /\ state' = "done"
    BY <1>9 DEF ConvertEnds
  <2> QED
    BY <1>0, <2>1 DEF Rests, Ranking, Converting
<1>10. CASE LoadCommand
  BY <1>10 DEF LoadCommand, Rests
<1>11. ASSUME NEW o \in FileObjects, RankObject(o)
       PROVE  Ranking /\ Next /\ UNCHANGED <<command, asked, options, topN>>
  <2>1. /\ Ranking /\ NextObject(IF hot THEN o.freq ELSE o.size)
        /\ UNCHANGED <<command, asked, options>>
    BY <1>11 DEF RankObject, FromFile
  <2>2. (IF hot THEN o.freq ELSE o.size) \in Weights
    BY FileObject
  <2> QED
    BY <2>1, <2>2 DEF Next, NextObject
<1>12. ASSUME NEW o \in FileObjects, GroupObject(o)
       PROVE  UNCHANGED <<hot, list, offered, topN, state, command, asked, options>>
  BY <1>12 DEF GroupObject, FromFile, Sep!ParseObject
<1>13. ASSUME NEW o, PlotObject(o)
       PROVE  UNCHANGED <<hot, list, offered, topN, state, command, asked, options>>
  BY <1>13 DEF PlotObject, FromFile
<1>14. ASSUME NEW o, Filtered(o)
       PROVE  UNCHANGED <<hot, list, offered, topN, state, command, asked, options>>
  BY <1>14 DEF Filtered, FromFile, vars
<1>15. ASSUME NEW o, ConvertObject(o)
       PROVE  UNCHANGED <<hot, list, offered, topN, state, command, asked, options>>
  BY <1>15 DEF ConvertObject, FromFile
<1>16. CASE UNCHANGED analysesVars
  BY <1>16 DEF analysesVars, vars, Rests
<1> QED
  <2>1. CASE \E o \in FileObjects : RankObject(o)
    BY <2>1, <1>11
  <2>2. CASE \E o \in FileObjects : GroupObject(o)
    BY <2>2, <1>12 DEF Rests
  <2>3. CASE \E o \in FlameObjects : PlotObject(o)
    BY <2>3, <1>13 DEF Rests
  <2>4. CASE \E o \in Objects : Filtered(o)
    BY <2>4, <1>14 DEF Rests
  <2>5. CASE \E o \in AofObjects : ConvertObject(o)
    BY <2>5, <1>15 DEF Rests
  <2> QED
    BY <1>1, <1>2, <1>3, <1>4, <1>5, <1>6, <1>7, <1>8, <1>9, <1>10, <1>16,
       <2>1, <2>2, <2>3, <2>4, <2>5, AnalysesSteps

LEMMA NothingReached ==
    ASSUME file = << >>
    PROVE  ReachedPlaces = << >>
<1>1. {i \in DOMAIN file : Reaches(file[i])} = {}
  OBVIOUS
<1>2. Cardinality({}) = 0
  BY FS_EmptySet
<1>3. Ascending({}) \in Seq(Nat) /\ Len(Ascending({})) = 0
  BY <1>2, AscendingOf
<1>4. Ascending({}) = << >>
  BY <1>3
<1> QED
  BY <1>1, <1>4 DEF ReachedPlaces

LEMMA RankInvInit ==
    ASSUME AnalysesAssumption, RankingAssumption, AnalysesInit
    PROVE  RankInv /\ GivenInv /\ ReachedInv
<1>1. Init /\ IInv
  BY InitIInv DEF AnalysesInit
<1>2. list = << >> /\ offered = << >>
  BY <1>1 DEF Init
<1>3. file = << >> /\ command \in Commands
      /\ asked \in OptionSets /\ options = Passed(command, asked)
      /\ grouped = << >> /\ (command \in {"flamegraph", "aof", "ToAOF"} => topN = 1)
  BY DEF AnalysesInit, Sep!Init
<1>4. RankInv
  BY <1>1, <1>2, <1>3 DEF RankInv
<1>5. GivenInv
  <2>1. options \in OptionSets
    BY <1>3 DEF Passed, AnalysesAssumption
  <2> QED
    BY <1>3, <2>1 DEF GivenInv
<1>6. ReachedPlaces = << >>
  BY <1>3, NothingReached
<1>7. RankedFrom(file, << >>, hot) = << >> /\ GroupedFrom(file, << >>) = << >>
  BY DEF RankedFrom, GroupedFrom
<1> QED
  BY <1>2, <1>3, <1>4, <1>5, <1>6, <1>7 DEF ReachedInv

LEMMA RankInvNext ==
    ASSUME AnalysesAssumption, RankingAssumption, GivenInv, RankInv, [AnalysesNext]_analysesVars
    PROVE  RankInv'
<1>1. /\ UNCHANGED <<command, asked, options>>
      /\ (Ranking /\ Next) \/ Rests
      /\ command \in {"flamegraph", "aof", "ToAOF"} => UNCHANGED topN
  BY StepRanks
<1>2. IInv
  BY DEF RankInv
<1>3. CASE Ranking /\ Next
  <2>1. IInv'
    BY <1>2, <1>3, NextIInv
  <2> QED
    BY <1>1, <1>3, <2>1 DEF RankInv, Ranking
<1>4. CASE Rests /\ UNCHANGED <<topN, state>>
  <2>1. UNCHANGED vars
    BY <1>4 DEF Rests, vars
  <2>2. IInv'
    BY <1>2, <2>1, NextIInv
  <2> QED
    BY <1>1, <1>4, <2>2 DEF RankInv, Rests, Ranking
<1>5. CASE /\ Rests /\ list = << >> /\ offered = << >> /\ topN' \in Int
           /\ state' \in {"parse", "done", "refused"}
           /\ state' \in {"parse", "done"} => topN' > 0
  <2>1. list' = << >> /\ offered' = << >> /\ hot' = hot /\ Len(list') = 0 /\ Len(offered') = 0
    BY <1>5 DEF Rests
  <2>2. hot' \in BOOLEAN
    BY <1>2, <2>1, Zenon DEF IInv, TypeOK
  <2>3. TypeOK'
    BY <1>5, <2>1, <2>2 DEF TypeOK
  <2>4. FirstN'
    BY <2>1 DEF FirstN
  <2>5. IInv'
    BY <1>5, <2>1, <2>3, <2>4 DEF IInv
  <2> QED
    BY <1>1, <2>1, <2>5 DEF RankInv, Ranking
<1> QED
  BY <1>1, <1>3, <1>4, <1>5 DEF Rests

\* What the callbacks have got, step by step.
LEMMA ReachedNext ==
    ASSUME AnalysesAssumption, RankingAssumption, GivenInv, RankInv, ReachedInv,
           [AnalysesNext]_analysesVars
    PROVE  GivenInv' /\ ReachedInv'
<1> USE DEF Given, OnlyRanking, OnlyPrefix, OnlyFlame, OnlyAof, sepVars, flameVars, aofVars
<1>1. /\ UNCHANGED <<command, asked, options>>
      /\ (Ranking /\ Next) \/ Rests
  BY StepRanks
<1>2. ASSUME UNCHANGED <<hot, offered, grouped, file>>
      PROVE  GivenInv' /\ ReachedInv'
  <2>1. ReachedPlaces' = ReachedPlaces
    BY <1>1, <1>2, Zenon DEF ReachedPlaces, Reaches
  <2> QED
    BY <1>1, <1>2, <2>1 DEF GivenInv, ReachedInv, Ranking, RankedFrom, GroupedFrom
<1>3. ASSUME NEW o \in FileObjects, file' = Append(file, o),
             command \in {"bigkey", "hotkey", "prefix"}
      PROVE  /\ GivenInv'
             /\ file \in Seq(FileObjects) /\ ReachedPlaces \in Seq(Nat)
             /\ ~Reaches(o) =>
                    /\ RankedFrom(file, ReachedPlaces, hot)' = RankedFrom(file, ReachedPlaces, hot')
                    /\ GroupedFrom(file, ReachedPlaces)' = GroupedFrom(file, ReachedPlaces)
             /\ Reaches(o) =>
                    /\ RankedFrom(file, ReachedPlaces, hot)' =
                          Append(RankedFrom(file, ReachedPlaces, hot'),
                                 Offer(o, Len(ReachedPlaces) + 1, hot'))
                    /\ GroupedFrom(file, ReachedPlaces)' =
                          Append(GroupedFrom(file, ReachedPlaces), Member(o))
             /\ Len(RankedFrom(file, ReachedPlaces, hot')) = Len(ReachedPlaces)
  <2>1. file \in Seq(FileObjects)
    BY <1>3 DEF GivenInv
  <2>2. GivenInv'
    <3>1. Append(file, o) \in Seq(FileObjects)
      BY <2>1, AppendProperties
    <3> QED
      BY <1>1, <1>3, <3>1 DEF GivenInv
  <2>3. /\ ReachedPlaces \in Seq(Nat)
        /\ \A j \in DOMAIN ReachedPlaces : ReachedPlaces[j] \in DOMAIN file
        /\ Reaches(o) => ReachedPlaces' = Append(ReachedPlaces, Len(file) + 1)
        /\ ~Reaches(o) => ReachedPlaces' = ReachedPlaces
    BY <1>1, <1>3, <2>1, PlacesNext
  <2>4. /\ RankedFrom(file, ReachedPlaces, hot)' = RankedFrom(file', ReachedPlaces', hot')
        /\ GroupedFrom(file, ReachedPlaces)' = GroupedFrom(file', ReachedPlaces')
    BY Zenon DEF RankedFrom, GroupedFrom
  <2>5. \A p \in Seq(Nat) : \A h :
            (\A j \in DOMAIN p : p[j] \in DOMAIN file) =>
                /\ RankedFrom(Append(file, o), Append(p, Len(file) + 1), h) =
                       Append(RankedFrom(file, p, h), Offer(o, Len(p) + 1, h))
                /\ GroupedFrom(Append(file, o), Append(p, Len(file) + 1)) =
                       Append(GroupedFrom(file, p), Member(o))
                /\ RankedFrom(Append(file, o), p, h) = RankedFrom(file, p, h)
                /\ GroupedFrom(Append(file, o), p) = GroupedFrom(file, p)
                /\ Len(RankedFrom(file, p, h)) = Len(p)
    <3> TAKE p \in Seq(Nat)
    <3> TAKE h
    <3> HAVE \A j \in DOMAIN p : p[j] \in DOMAIN file
    <3>1. RankedFrom(Append(file, o), Append(p, Len(file) + 1), h) =
              Append(RankedFrom(file, p, h), Offer(o, Len(p) + 1, h))
      <4>1. RankGrown(file, o, p, h)
        BY <2>1, ReachedGrows
      <4> QED
        BY ONLY <4>1 DEF RankGrown
    <3>2. GroupedFrom(Append(file, o), Append(p, Len(file) + 1)) =
              Append(GroupedFrom(file, p), Member(o))
      BY <2>1, ReachedGrows
    <3>3. RankedFrom(Append(file, o), p, h) = RankedFrom(file, p, h)
      BY <2>1, ReachedGrows
    <3>4. GroupedFrom(Append(file, o), p) = GroupedFrom(file, p)
      BY <2>1, ReachedGrows
    <3>5. Len(RankedFrom(file, p, h)) = Len(p)
      BY <2>1, ReachedGrows
    <3> QED
      BY <3>1, <3>2, <3>3, <3>4, <3>5
  <2> QED
    BY <1>3, <2>1, <2>2, <2>3, <2>4, <2>5, Zenon
<1>4. ASSUME NEW o \in FileObjects, RankObject(o)
      PROVE  GivenInv' /\ ReachedInv'
  <2>1. /\ Ranking /\ file' = Append(file, o) /\ Reaches(o)
        /\ NextObject(IF hot THEN o.freq ELSE o.size)
    BY <1>4 DEF RankObject, FromFile
  <2>2. /\ hot' = hot
        /\ offered' = Append(offered, Object(IF hot THEN o.freq ELSE o.size))
    BY <2>1 DEF NextObject
  <2>3. command \in {"bigkey", "hotkey"}
    BY <2>1 DEF Ranking
  <2>4. offered = RankedFrom(file, ReachedPlaces, hot)
    BY <2>1 DEF ReachedInv
  <2>5. Object(IF hot THEN o.freq ELSE o.size) = Offer(o, Len(offered) + 1, hot)
    BY DEF Object, Offer
  <2>6. /\ GivenInv'
        /\ RankedFrom(file, ReachedPlaces, hot)' =
               Append(RankedFrom(file, ReachedPlaces, hot), Offer(o, Len(ReachedPlaces) + 1, hot))
        /\ Len(RankedFrom(file, ReachedPlaces, hot)) = Len(ReachedPlaces)
    BY <1>3, <2>1, <2>2, <2>3
  <2>7. offered' = RankedFrom(file, ReachedPlaces, hot)'
    BY <2>2, <2>4, <2>5, <2>6
  <2> QED
    BY <1>1, <2>3, <2>6, <2>7 DEF ReachedInv
<1>5. ASSUME NEW o \in FileObjects, GroupObject(o)
      PROVE  GivenInv' /\ ReachedInv'
  <2>1. /\ command = "prefix" /\ file' = Append(file, o) /\ Reaches(o)
        /\ UNCHANGED <<hot, offered>>
        /\ Sep!ParseObject(<<o.db, o.key>>, o.size)
    BY <1>5 DEF GroupObject, FromFile
  <2>2. grouped' = Append(grouped, Member(o))
    BY <2>1 DEF Sep!ParseObject, Member
  <2>3. grouped = GroupedFrom(file, ReachedPlaces)
    BY <2>1 DEF ReachedInv
  <2>4. /\ GivenInv'
        /\ GroupedFrom(file, ReachedPlaces)' = Append(GroupedFrom(file, ReachedPlaces), Member(o))
    BY <1>3, <2>1
  <2>5. grouped' = GroupedFrom(file, ReachedPlaces)'
    BY <2>2, <2>3, <2>4
  <2>6. command' = "prefix" /\ ~Ranking'
    BY <1>1, <2>1 DEF Ranking
  <2> QED
    BY <2>4, <2>5, <2>6 DEF ReachedInv
<1>6. ASSUME NEW o, Filtered(o),
             o \in Objects
      PROVE  GivenInv' /\ ReachedInv'
  <2>1. /\ file' = Append(file, o) /\ ~Reaches(o)
        /\ UNCHANGED <<hot, offered, grouped>>
    BY <1>6 DEF Filtered, FromFile, vars
  <2>2. CASE command \in {"flamegraph", "aof", "ToAOF"}
    BY <1>1, <2>2 DEF GivenInv, ReachedInv, Ranking
  <2>3. CASE command \notin {"flamegraph", "aof", "ToAOF"}
    <3>1. command \in {"bigkey", "hotkey", "prefix"} /\ o \in FileObjects
      BY <1>6, <2>3 DEF GivenInv, Commands, Objects, Converting
    <3>2. /\ GivenInv'
          /\ RankedFrom(file, ReachedPlaces, hot)' = RankedFrom(file, ReachedPlaces, hot)
          /\ GroupedFrom(file, ReachedPlaces)' = GroupedFrom(file, ReachedPlaces)
      BY <1>3, <2>1, <3>1
    <3> QED
      BY <1>1, <2>1, <3>2 DEF ReachedInv, Ranking
  <2> QED
    BY <2>2, <2>3
<1>7. ASSUME command \in {"flamegraph", "aof", "ToAOF"}
      PROVE  GivenInv' /\ ReachedInv'
  BY <1>1, <1>7 DEF GivenInv, ReachedInv, Ranking
<1>8. CASE Refuse
  BY <1>2, <1>8 DEF Refuse
<1>9. CASE StartRanking
  BY <1>2, <1>9 DEF StartRanking, Start
<1>10. CASE StartPrefix
  BY <1>2, <1>10 DEF StartPrefix
<1>11. CASE StartOther
  BY <1>7, <1>11 DEF StartOther, Converting
<1>12. CASE ReportRanking
  BY <1>2, <1>12 DEF ReportRanking, Report
<1>13. CASE ReportPrefix
  BY <1>2, <1>13 DEF ReportPrefix, Sep!Report
<1>14. CASE PlotEnds \/ TrimTurn \/ ConvertEnds \/ LoadCommand
  BY <1>7, <1>14 DEF PlotEnds, TrimTurn, ConvertEnds, LoadCommand, Converting
<1>15. ASSUME NEW o, PlotObject(o) \/ ConvertObject(o)
       PROVE  GivenInv' /\ ReachedInv'
  BY <1>7, <1>15 DEF PlotObject, ConvertObject, Converting
<1>16. CASE UNCHANGED analysesVars
  BY <1>2, <1>16 DEF analysesVars, vars
<1> QED
  <2>1. CASE \E o \in FileObjects : RankObject(o)
    BY <2>1, <1>4
  <2>2. CASE \E o \in FileObjects : GroupObject(o)
    BY <2>2, <1>5
  <2>3. CASE \E o \in FlameObjects : PlotObject(o)
    BY <2>3, <1>15
  <2>4. CASE \E o \in Objects : Filtered(o)
    BY <2>4, <1>6
  <2>5. CASE \E o \in AofObjects : ConvertObject(o)
    BY <2>5, <1>15
  <2> QED
    BY <1>8, <1>9, <1>10, <1>11, <1>12, <1>13, <1>14, <1>16, <2>1, <2>2, <2>3, <2>4, <2>5,
       AnalysesSteps


-----------------------------------------------------------------------------
(***************************************************************************)
(* The prefixes of a key: what strings.SplitN cuts and strings.Join puts   *)
(* together again is the beginning of the key up to a separator.           *)
(***************************************************************************)
LEMMA CutsOf ==
    ASSUME NEW s \in Seq(Nat), NEW sep
    PROVE  LET S == {i \in DOMAIN s : s[i] = sep}
               cut == Cuts(s, sep)
           IN  /\ cut \in Seq(Nat) /\ DOMAIN cut = 1 .. Len(cut) /\ Len(cut) \in Nat
               /\ S \in SUBSET (1 .. Len(s)) /\ Len(s) \in Nat
               /\ \A d \in 1 .. Len(cut) :
                      cut[d] \in 1 .. Len(s) /\ s[cut[d]] = sep /\ UpTo(S, cut[d]) = d
               /\ \A i \in 1 .. Len(s) :
                      s[i] = sep => UpTo(S, i) \in 1 .. Len(cut) /\ cut[UpTo(S, i)] = i
<1> DEFINE S == {i \in DOMAIN s : s[i] = sep}
<1>1. Len(s) \in Nat /\ DOMAIN s = 1 .. Len(s) /\ S \in SUBSET (1 .. Len(s))
  OBVIOUS
<1>2. Cuts(s, sep) = Ascending(S)
  BY Zenon DEF Cuts
<1>3. \A i \in 1 .. Len(s) : i \in S <=> s[i] = sep
  BY <1>1
<1> HIDE DEF S
<1>4. /\ Cardinality(S) \in Nat /\ DOMAIN Ascending(S) = 1 .. Cardinality(S)
      /\ \A j \in 1 .. Cardinality(S) : Ascending(S)[j] \in S /\ UpTo(S, Ascending(S)[j]) = j
      /\ \A i \in S : UpTo(S, i) \in 1 .. Cardinality(S) /\ Ascending(S)[UpTo(S, i)] = i
      /\ Ascending(S) \in Seq(Nat) /\ Len(Ascending(S)) = Cardinality(S)
  BY <1>1, AscendingOf
<1>5. \A d \in 1 .. Cardinality(S) : Ascending(S)[d] \in 1 .. Len(s) /\ s[Ascending(S)[d]] = sep
  BY <1>1, <1>3, <1>4
<1>6. \A i \in 1 .. Len(s) :
          s[i] = sep => UpTo(S, i) \in 1 .. Cardinality(S) /\ Ascending(S)[UpTo(S, i)] = i
  BY <1>3, <1>4
<1> QED
  BY <1>1, <1>2, <1>4, <1>5, <1>6 DEF S


LEMMA CutsAscend ==
    ASSUME NEW s \in Seq(Nat), NEW sep, NEW d \in 2 .. Len(Cuts(s, sep))
    PROVE  Cuts(s, sep)[d - 1] < Cuts(s, sep)[d]
<1> DEFINE S == {i \in DOMAIN s : s[i] = sep}
           cut == Cuts(s, sep)
<1>1. /\ S \in SUBSET (1 .. Len(s)) /\ Len(s) \in Nat /\ Len(cut) \in Nat
      /\ \A j \in 1 .. Len(cut) : cut[j] \in 1 .. Len(s) /\ UpTo(S, cut[j]) = j
  <2>1. /\ cut \in Seq(Nat) /\ DOMAIN cut = 1 .. Len(cut) /\ Len(cut) \in Nat
        /\ S \in SUBSET (1 .. Len(s)) /\ Len(s) \in Nat
        /\ \A j \in 1 .. Len(cut) :
               cut[j] \in 1 .. Len(s) /\ s[cut[j]] = sep /\ UpTo(S, cut[j]) = j
        /\ \A i \in 1 .. Len(s) :
               s[i] = sep => UpTo(S, i) \in 1 .. Len(cut) /\ cut[UpTo(S, i)] = i
    BY CutsOf, Zenon
  <2> HIDE DEF S, cut
  <2> QED
    BY ONLY <2>1, Zenon
<1> HIDE DEF S, cut
<1>2. /\ cut[d] \in Nat /\ cut[d - 1] \in Nat /\ d \in Nat
      /\ UpTo(S, cut[d]) = d /\ UpTo(S, cut[d - 1]) = d - 1
  BY <1>1 DEF cut
<1>3. ASSUME cut[d] <= cut[d - 1] PROVE FALSE
  <2> DEFINE A == {i \in S : i <= cut[d]}
             B == {i \in S : i <= cut[d - 1]}
  <2>1. \A i \in S : i <= cut[d] => i <= cut[d - 1]
    <3>1. \A i \in S : i \in Nat
      BY <1>1
    <3> QED
      BY <1>2, <1>3, <3>1
  <2>2. IsFiniteSet(S)
    BY <1>1, UpToGrows
  <2>3. IsFiniteSet(B)
    BY <2>2, FS_Subset
  <2>6. A \in SUBSET B
    BY <2>1
  <2>4. UpTo(S, cut[d]) = Cardinality(A) /\ UpTo(S, cut[d - 1]) = Cardinality(B)
    BY DEF UpTo
  <2> HIDE DEF A, B
  <2>5. Cardinality(A) <= Cardinality(B)
    BY <2>6, <2>3, FS_Subset
  <2> QED
    BY <1>2, <2>4, <2>5
<1> QED
  BY <1>2, <1>3 DEF cut

\* Up to a place, what follows, and the character after it.
LEMMA PutTogether ==
    ASSUME NEW s \in Seq(Nat), NEW k \in 1 .. Len(s), NEW m \in 0 .. k - 1
    PROVE  SubSeq(s, 1, k) = (SubSeq(s, 1, m) \o SubSeq(s, m + 1, k - 1)) \o <<s[k]>>
<1> DEFINE a == SubSeq(s, 1, m)
           b == SubSeq(s, m + 1, k - 1)
           c == a \o b
           z == SubSeq(s, 1, k)
<1>1. /\ Len(s) \in Nat /\ k \in Nat /\ m \in Nat /\ m < k /\ k <= Len(s)
      /\ \A i \in 1 .. Len(s) : s[i] \in Nat
  OBVIOUS
<1>2. a \in Seq(Nat) /\ Len(a) = m /\ \A i \in 1 .. m : a[i] = s[i]
  BY <1>1
<1>3. b \in Seq(Nat) /\ Len(b) = k - 1 - m /\ \A i \in 1 .. k - 1 - m : b[i] = s[m + i]
  BY <1>1
<1>4. z \in Seq(Nat) /\ Len(z) = k /\ \A i \in 1 .. k : z[i] = s[i]
  BY <1>1
<1> HIDE DEF a, b, z
<1>5. /\ c \in Seq(Nat) /\ Len(c) = k - 1
      /\ \A i \in 1 .. k - 1 : c[i] = IF i <= m THEN a[i] ELSE b[i - m]
  <2>1. Len(a) + Len(b) = k - 1
    BY <1>1, <1>2, <1>3
  <2>2. /\ c \in Seq(Nat) /\ Len(c) = Len(a) + Len(b)
        /\ \A i \in 1 .. Len(a) + Len(b) : c[i] = IF i <= Len(a) THEN a[i] ELSE b[i - Len(a)]
    BY <1>2, <1>3, ConcatProperties
  <2> QED
    BY <1>2, <2>1, <2>2
<1>6. \A i \in 1 .. k - 1 : c[i] = s[i]
  <2> TAKE i \in 1 .. k - 1
  <2>1. CASE i <= m
    <3>1. i \in 1 .. m
      BY <1>1, <2>1
    <3> QED
      BY <1>2, <1>5, <3>1
  <2>2. CASE ~(i <= m)
    <3>1. i - m \in 1 .. k - 1 - m /\ m + (i - m) = i
      BY <1>1, <2>2
    <3> QED
      BY <1>3, <1>5, <2>2, <3>1
  <2> QED
    BY <2>1, <2>2
<1> HIDE DEF c
<1>7. /\ Append(c, s[k]) \in Seq(Nat) /\ Len(Append(c, s[k])) = k
      /\ \A i \in 1 .. k : Append(c, s[k])[i] = s[i]
  BY <1>1, <1>5, <1>6, AppendProperties
<1>8. Append(c, s[k]) = z
  BY <1>4, <1>7, SeqEqual
<1>9. Append(c, s[k]) = c \o <<s[k]>>
  BY <1>1, <1>5
<1> QED
  BY <1>8, <1>9 DEF a, b, c, z

LEMMA CutsIn ==
    ASSUME NEW s \in Seq(Nat), NEW sep
    PROVE  /\ Len(s) \in Nat /\ Len(Cuts(s, sep)) \in Nat
           /\ \A j \in 1 .. Len(Cuts(s, sep)) :
                  Cuts(s, sep)[j] \in 1 .. Len(s) /\ s[Cuts(s, sep)[j]] = sep
<1> DEFINE S == {i \in DOMAIN s : s[i] = sep}
           cut == Cuts(s, sep)
<1>1. /\ cut \in Seq(Nat) /\ DOMAIN cut = 1 .. Len(cut) /\ Len(cut) \in Nat
      /\ S \in SUBSET (1 .. Len(s)) /\ Len(s) \in Nat
      /\ \A d \in 1 .. Len(cut) :
             cut[d] \in 1 .. Len(s) /\ s[cut[d]] = sep /\ UpTo(S, cut[d]) = d
      /\ \A i \in 1 .. Len(s) :
             s[i] = sep => UpTo(S, i) \in 1 .. Len(cut) /\ cut[UpTo(S, i)] = i
  BY CutsOf, Zenon
<1> HIDE DEF S, cut
<1> QED
  BY <1>1 DEF cut

\* A function that is determined step by step from 0 is determined.
LEMMA StepByStep ==
    ASSUME NEW d \in Nat, NEW f, NEW g,
           DOMAIN f = 0 .. d, DOMAIN g = 0 .. d,
           f[0] = g[0],
           \A n \in 1 .. d : f[n - 1] = g[n - 1] => f[n] = g[n]
    PROVE  \A n \in 0 .. d : f[n] = g[n]
<1> DEFINE T == {n \in 0 .. d : f[n] # g[n]}
<1>1. ASSUME T # {} PROVE FALSE
  <2>1. T \in SUBSET Nat
    OBVIOUS
  <2> HIDE DEF T
  <2>2. PICK x \in T : \A y \in T : x <= y
    BY <1>1, <2>1, LeastNumber
  <2> USE DEF T
  <2>3. x \in 0 .. d /\ f[x] # g[x]
    OBVIOUS
  <2>4. x # 0
    BY <2>3
  <2>5. x \in 1 .. d /\ x - 1 \in 0 .. d /\ ~(x <= x - 1)
    BY <2>3, <2>4
  <2>6. x - 1 \notin T
    BY <2>2, <2>5
  <2> QED
    BY <2>3, <2>5, <2>6
<1> QED
  BY <1>1

\* The first d pieces put together are the key up to its d-th separator.
LEMMA JoinedIs ==
    ASSUME NEW s \in Seq(Nat), NEW d \in 0 .. Len(Cuts(s, Sep!primarySep)), NEW parts,
           \A j \in 1 .. d :
               parts[j] = SubSeq(s, IF j = 1 THEN 1 ELSE Cuts(s, Sep!primarySep)[j - 1] + 1,
                                 Cuts(s, Sep!primarySep)[j] - 1)
    PROVE  Sep!Joined(parts, d) =
               IF d = 0 THEN << >> ELSE SubSeq(s, 1, Cuts(s, Sep!primarySep)[d])
<1> DEFINE sep == Sep!primarySep
           cut == Cuts(s, sep)
           h(n) == IF n = 0 THEN << >> ELSE SubSeq(s, 1, cut[n])
           f0 == [n \in 0 .. d |-> h(n)]
           IsJoined(j) == j = [n \in 0 .. d |->
                                  IF n = 0 THEN << >> ELSE j[n - 1] \o parts[n] \o <<sep>>]
           f == CHOOSE j : IsJoined(j)
<1>1. /\ Len(s) \in Nat /\ Len(cut) \in Nat /\ d \in Nat /\ d <= Len(cut)
      /\ \A j \in 1 .. Len(cut) : cut[j] \in 1 .. Len(s) /\ s[cut[j]] = sep
  <2>1. /\ Len(s) \in Nat /\ Len(cut) \in Nat
        /\ \A j \in 1 .. Len(cut) : cut[j] \in 1 .. Len(s) /\ s[cut[j]] = sep
    BY CutsIn
  <2>2. d \in 0 .. Len(cut)
    OBVIOUS
  <2> HIDE DEF cut
  <2> QED
    BY <2>1, <2>2
<1>2. \A j \in 2 .. Len(cut) : cut[j - 1] < cut[j]
  BY CutsAscend
<1>3. Sep!Joined(parts, d) = f[d]
  BY Zenon DEF Sep!Joined
<1> HIDE DEF sep, cut, f
<1>4. \A n \in 1 .. d : h(n) = (h(n - 1) \o parts[n]) \o <<sep>>
  <2> TAKE n \in 1 .. d
  <2> DEFINE m == IF n = 1 THEN 0 ELSE cut[n - 1]
  <2>1. cut[n] \in 1 .. Len(s) /\ s[cut[n]] = sep /\ n \in 1 .. Len(cut)
    BY <1>1
  <2>2. m \in 0 .. cut[n] - 1
    <3>1. CASE n = 1
      BY <2>1, <3>1
    <3>2. CASE n # 1
      <4>1. n \in 2 .. Len(cut) /\ n - 1 \in 1 .. Len(cut)
        BY <1>1, <3>2
      <4>2. cut[n - 1] < cut[n] /\ cut[n - 1] \in 1 .. Len(s)
        BY <1>1, <1>2, <4>1
      <4> QED
        BY ONLY <2>1, <3>2, <4>2
    <3> QED
      BY <3>1, <3>2
  <2>3. h(n - 1) = SubSeq(s, 1, m)
    <3>1. SubSeq(s, 1, 0) = << >>
      BY <1>1
    <3>2. n \in Nat /\ (n = 1 => n - 1 = 0) /\ (n # 1 => n - 1 # 0)
      BY <1>1
    <3> QED
      BY <3>1, <3>2
  <2>4. parts[n] = SubSeq(s, m + 1, cut[n] - 1)
    BY <1>1 DEF cut, sep
  <2>5. h(n) = SubSeq(s, 1, cut[n])
    BY <1>1
  <2> HIDE DEF m, h
  <2>6. SubSeq(s, 1, cut[n]) = (SubSeq(s, 1, m) \o SubSeq(s, m + 1, cut[n] - 1)) \o <<s[cut[n]]>>
    BY <2>1, <2>2, PutTogether
  <2> QED
    BY <2>1, <2>3, <2>4, <2>5, <2>6
<1>5. h(0) = << >>
  OBVIOUS
<1> HIDE DEF h
<1>6. IsJoined(f0)
  <2>1. \A n \in 0 .. d : f0[n] = IF n = 0 THEN << >> ELSE f0[n - 1] \o parts[n] \o <<sep>>
    <3> TAKE n \in 0 .. d
    <3>1. CASE n = 0
      BY <1>5, <3>1
    <3>2. CASE n # 0
      <4>1. n \in 1 .. d /\ n - 1 \in 0 .. d
        BY <1>1, <3>2
      <4> QED
        BY <1>4, <3>2, <4>1
    <3> QED
      BY <3>1, <3>2
  <2> DEFINE F(n) == IF n = 0 THEN << >> ELSE f0[n - 1] \o parts[n] \o <<sep>>
  <2>2. \A n \in 0 .. d : h(n) = F(n)
    BY <2>1
  <2> HIDE DEF F
  <2>3. f0 = [n \in 0 .. d |-> F(n)]
    BY <2>2
  <2> QED
    BY <2>3, Zenon DEF F
<1> HIDE DEF IsJoined
<1>7. IsJoined(f)
  BY <1>6, Zenon DEF f
<1>8. /\ DOMAIN f = 0 .. d /\ f[0] = << >>
      /\ \A n \in 1 .. d : f[n] = f[n - 1] \o parts[n] \o <<sep>>
  <2>1. f = [n \in 0 .. d |-> IF n = 0 THEN << >> ELSE f[n - 1] \o parts[n] \o <<sep>>]
    BY <1>7, Zenon DEF IsJoined
  <2> HIDE DEF f
  <2>2. \A n \in 0 .. d : f[n] = IF n = 0 THEN << >> ELSE f[n - 1] \o parts[n] \o <<sep>>
    BY <2>1
  <2>3. DOMAIN f = 0 .. d
    BY <2>1
  <2>4. f[0] = << >>
    BY <1>1, <2>2
  <2>5. \A n \in 1 .. d : n \in 0 .. d /\ n # 0
    BY <1>1
  <2> QED
    BY <2>2, <2>3, <2>4, <2>5
<1> HIDE DEF f
<1>9. \A n \in 0 .. d : f[n] = f0[n]
  <2>1. \A n \in 1 .. d : f[n - 1] = f0[n - 1] => f[n] = f0[n]
    <3> TAKE n \in 1 .. d
    <3>1. n \in 0 .. d /\ n - 1 \in 0 .. d
      BY <1>1
    <3> QED
      BY <1>4, <1>8, <3>1
  <2>2. f[0] = f0[0]
    BY <1>1, <1>5, <1>8
  <2>3. DOMAIN f0 = 0 .. d
    OBVIOUS
  <2> HIDE DEF f0
  <2> QED
    <3>1. d \in Nat /\ DOMAIN f = 0 .. d
      BY <1>1, <1>8
    <3> HIDE DEF IsJoined
    <3> QED
      <4>1. /\ d \in Nat /\ DOMAIN f = 0 .. d /\ DOMAIN f0 = 0 .. d /\ f[0] = f0[0]
            /\ \A n \in 1 .. d : f[n - 1] = f0[n - 1] => f[n] = f0[n]
        BY <2>1, <2>2, <2>3, <3>1, Zenon
      <4> QED
        BY ONLY <4>1, StepByStep, ZenonT(60)
<1> QED
  <2>1. d \in 0 .. d
    BY <1>1
  <2>2. f[d] = h(d)
    BY <1>9, <2>1
  <2> QED
    BY <1>3, <2>2 DEF h, cut, sep

\* SepPrefix counts and reads strings as Analyses does.
LEMMA SameCount ==
    \A S : Sep!Cardinality(S) = Cardinality(S)
BY Zenon DEF Sep!Cardinality, Cardinality

LEMMA SameSplit ==
    \A s, sep, n : Sep!SplitN(s, sep, n) = SplitN(s, sep, n)
<1>1. ASSUME NEW s, NEW sep, NEW n PROVE Sep!SplitN(s, sep, n) = SplitN(s, sep, n)
  <2>1. \A S : Sep!Ascending(S) = Ascending(S)
    <3> TAKE S
    <3> QED
      BY Zenon DEF Sep!Ascending, Ascending, Sep!Cardinality, Cardinality
  <2>2. Sep!Cuts(s, sep) = Cuts(s, sep)
    BY <2>1, Zenon DEF Sep!Cuts, Cuts
  <2> QED
    BY <2>2 DEF Sep!SplitN, SplitN
<1> QED
  BY <1>1, Zenon

\* The pieces of a key, but for the last.
LEMMA PiecesAre ==
    ASSUME NEW s \in Seq(Nat), NEW sep, NEW n \in Int, NEW pieces \in Nat,
           pieces = IF n < 0 \/ Len(Cuts(s, sep)) < n THEN Len(Cuts(s, sep)) + 1 ELSE n
    PROVE  /\ Len(SplitN(s, sep, n)) = pieces
           /\ \A j \in 1 .. pieces - 1 :
                  SplitN(s, sep, n)[j] = SubSeq(s, IF j = 1 THEN 1 ELSE Cuts(s, sep)[j - 1] + 1,
                                                Cuts(s, sep)[j] - 1)
<1> DEFINE cut == Cuts(s, sep)
           from(j) == IF j = 1 THEN 1 ELSE cut[j - 1] + 1
           to(j) == IF j = pieces THEN Len(s) ELSE cut[j] - 1
           a == SplitN(s, sep, n)
           R == {a[j] : j \in 1 .. pieces}
<1>1. a = [j \in 1 .. pieces |-> SubSeq(s, from(j), to(j))]
  BY Zenon DEF SplitN
<1> HIDE DEF a, from, to
<1>2. a \in [1 .. pieces -> R]
  BY <1>1
<1> HIDE DEF R
<1>3. Len(a) = pieces
  BY <1>2, ArrayIsSeq
<1>4. \A j \in 1 .. pieces - 1 : a[j] = SubSeq(s, from(j), to(j)) /\ to(j) = cut[j] - 1
  <2> TAKE j \in 1 .. pieces - 1
  <2>1. j \in 1 .. pieces /\ j # pieces
    OBVIOUS
  <2> QED
    BY <1>1, <2>1 DEF to
<1> QED
  BY <1>3, <1>4 DEF a, from

LEMMA NormalizedKey ==
    ASSUME NEW key \in Seq(Nat), separators \in Seq(Nat), separators # << >>
    PROVE  Sep!normalized(key) \in Seq(Nat) /\ Sep!primarySep \in Nat
<1>1. separators[1] \in Nat
  BY EmptySeq
<1>2. Len(key) \in Nat /\ DOMAIN key = 1 .. Len(key) /\ \A i \in 1 .. Len(key) : key[i] \in Nat
  OBVIOUS
<1> DEFINE r == [i \in 1 .. Len(key) |-> IF Contains(separators, key[i]) THEN separators[1] ELSE key[i]]
<1>3. r \in [1 .. Len(key) -> Nat]
  BY <1>1, <1>2
<1>4. Sep!normalized(key) = r
  <2>1. Sep!normalized(key) =
            [i \in DOMAIN key |-> IF Contains(separators, key[i]) THEN separators[1] ELSE key[i]]
    BY Zenon DEF Sep!normalized, Sep!Replaced, Sep!Contains, Contains
  <2> QED
    BY <1>2, <2>1
<1> HIDE DEF r
<1> QED
  BY <1>1, <1>2, <1>3, <1>4, ArrayIsSeq DEF Sep!primarySep

\* Also when maxDepth + 1 wraps: the beginnings of the key up to its first
\* maxDepth separators.
LEMMA GroupingIs ==
    ASSUME AnalysesAssumption, NEW key \in Seq(Nat), separators \in Seq(Nat), separators # << >>,
           maxDepth \in 1 .. MaxInt
    PROVE  LET s == Sep!normalized(key)
               cut == Cuts(s, Sep!primarySep)
           IN  Sep!Grouping(key) = {SubSeq(s, 1, cut[d]) : d \in {x \in 1 .. Len(cut) : x <= maxDepth}}
<1> DEFINE s == Sep!normalized(key)
           sep == Sep!primarySep
           cut == Cuts(s, sep)
           n == Sep!WrapInt(maxDepth + 1)
           parts == SplitN(s, sep, n)
           pieces == IF n < 0 \/ Len(cut) < n THEN Len(cut) + 1 ELSE n
           limit == IF Len(parts) - 1 > maxDepth THEN maxDepth ELSE Len(parts) - 1
           J(x) == Sep!Joined(parts, x)
           H(x) == SubSeq(s, 1, cut[x])
           D == {x \in 1 .. Len(cut) : x <= maxDepth}
<1>1. s \in Seq(Nat) /\ MaxInt \in Nat \ {0}
  BY NormalizedKey DEF AnalysesAssumption
<1>2. Sep!Grouping(key) = {J(x) : x \in 1 .. limit}
  BY SameSplit, Zenon DEF Sep!Grouping
<1>3. n \in Int /\ (n < 0 \/ n = maxDepth + 1)
  BY <1>1 DEF Sep!WrapInt
<1> HIDE DEF s, n, sep
<1>4. Len(cut) \in Nat
  BY <1>1, CutsIn
<1> HIDE DEF cut
<1>5. pieces \in Nat /\ (pieces = Len(cut) + 1 \/ (pieces = maxDepth + 1 /\ maxDepth <= Len(cut)))
  BY <1>1, <1>3, <1>4
<1> HIDE DEF pieces
<1>6. /\ Len(parts) = pieces
      /\ \A j \in 1 .. pieces - 1 :
             parts[j] = SubSeq(s, IF j = 1 THEN 1 ELSE cut[j - 1] + 1, cut[j] - 1)
  BY <1>1, <1>3, <1>5, PiecesAre DEF cut, pieces
<1> HIDE DEF parts
<1>d. maxDepth \in Nat
  BY <1>1
<1>l. Len(parts) = pieces
  BY ONLY <1>6
<1>7. limit = IF Len(cut) > maxDepth THEN maxDepth ELSE Len(cut)
  <2>1. CASE pieces = Len(cut) + 1
    BY ONLY <1>4, <1>d, <1>l, <2>1 DEF limit
  <2>2. CASE pieces = maxDepth + 1 /\ maxDepth <= Len(cut)
    BY ONLY <1>4, <1>d, <1>l, <2>2 DEF limit
  <2> QED
    BY ONLY <1>5, <2>1, <2>2
<1>8. limit \in Nat /\ limit <= Len(cut) /\ limit <= pieces - 1
  BY <1>1, <1>4, <1>5, <1>7
<1>9. \A x : x \in 1 .. limit <=> x \in D
  BY <1>4, <1>7
<1> HIDE DEF limit
<1>10. \A x \in 1 .. limit : J(x) = H(x)
  <2> TAKE x \in 1 .. limit
  <2>1. x \in 0 .. Len(cut) /\ x # 0
    BY <1>4, <1>8
  <2>2. \A j \in 1 .. x : parts[j] = SubSeq(s, IF j = 1 THEN 1 ELSE cut[j - 1] + 1, cut[j] - 1)
    <3> TAKE j \in 1 .. x
    <3>1. j \in 1 .. pieces - 1
      BY <1>5, <1>8
    <3> QED
      BY <1>6, <3>1
  <2> QED
    BY <1>1, <2>1, <2>2, JoinedIs DEF cut, sep
<1> HIDE DEF J, H, D
<1>11. {J(x) : x \in 1 .. limit} = {H(x) : x \in D}
  BY <1>9, <1>10
<1> QED
  BY <1>2, <1>11, Zenon DEF s, cut, sep, H, D

\* A beginning of a key, as IsGroup looks at it.
LEMMA BeginningOf ==
    ASSUME NEW s \in Seq(Nat), NEW m \in 1 .. Len(s), NEW db
    PROVE  LET p == SubSeq(s, 1, m)
           IN  /\ p \in Seq(Nat) /\ Len(p) = m /\ p # << >>
               /\ Sep!IsGroup(<<db, p>>) <=>
                      /\ s[m] = Sep!primarySep
                      /\ UpTo({i \in DOMAIN s : s[i] = Sep!primarySep}, m) <= maxDepth
<1> DEFINE p == SubSeq(s, 1, m)
           sep == Sep!primarySep
           S == {i \in DOMAIN s : s[i] = sep}
<1>1. Len(s) \in Nat /\ DOMAIN s = 1 .. Len(s)
  OBVIOUS
<1>2. p \in Seq(Nat) /\ Len(p) = m /\ DOMAIN p = 1 .. m /\ \A i \in 1 .. m : p[i] = s[i]
  BY <1>1
<1>3. {i \in DOMAIN p : p[i] = sep} = {i \in S : i <= m}
  <2>1. \A i : i \in 1 .. m <=> i \in 1 .. Len(s) /\ i <= m
    BY <1>1
  <2> HIDE DEF p, sep
  <2> QED
    BY <1>1, <1>2, <2>1
<1>4. Sep!SeparatorsIn(p) = UpTo(S, m)
  <2>1. Sep!SeparatorsIn(p) = Sep!Cardinality({i \in DOMAIN p : p[i] = sep})
    BY Zenon DEF Sep!SeparatorsIn
  <2> HIDE DEF p, sep, S
  <2> QED
    BY <1>3, <2>1, SameCount DEF UpTo
<1>5. Sep!Last(p) = s[m]
  <2>1. p[m] = s[m]
    BY <1>1, <1>2
  <2> QED
    BY <1>2, <2>1, Zenon DEF Sep!Last
<1>6. Sep!IsGroup(<<db, p>>) <=> Sep!Last(p) = sep /\ Sep!SeparatorsIn(p) <= maxDepth
  <2>1. <<db, p>>[2] = p
    OBVIOUS
  <2> HIDE DEF p, sep
  <2> QED
    BY <2>1 DEF Sep!IsGroup, sep
<1>7. p # << >>
  <2> HIDE DEF p
  <2> QED
    BY <1>1, <1>2
<1> QED
  BY <1>2, <1>4, <1>5, <1>6, <1>7, Zenon

\* The prefixes a key is counted under are the groups it belongs to.
LEMMA GroupsOfKey ==
    ASSUME AnalysesAssumption, NEW key \in Seq(Nat), separators \in Seq(Nat), separators # << >>,
           maxDepth \in 1 .. MaxInt, NEW db, NEW p
    PROVE  p \in Sep!Grouping(key) <=>
               p \in Sep!Prefixes(Sep!normalized(key)) \ {<< >>} /\ Sep!IsGroup(<<db, p>>)
<1> DEFINE s == Sep!normalized(key)
           sep == Sep!primarySep
           cut == Cuts(s, sep)
           S == {i \in DOMAIN s : s[i] = sep}
           B(m) == SubSeq(s, 1, m)
<1>1. s \in Seq(Nat) /\ maxDepth \in Nat
  BY NormalizedKey DEF AnalysesAssumption
<1>2. Sep!Grouping(key) = {B(cut[d]) : d \in {x \in 1 .. Len(cut) : x <= maxDepth}}
  BY GroupingIs, Zenon
<1>3. Sep!Prefixes(s) = {B(m) : m \in 0 .. Len(s)}
  BY Zenon DEF Sep!Prefixes
<1> HIDE DEF s
<1>4. /\ cut \in Seq(Nat) /\ DOMAIN cut = 1 .. Len(cut) /\ Len(cut) \in Nat
      /\ S \in SUBSET (1 .. Len(s)) /\ Len(s) \in Nat
      /\ \A d \in 1 .. Len(cut) : cut[d] \in 1 .. Len(s) /\ s[cut[d]] = sep /\ UpTo(S, cut[d]) = d
      /\ \A i \in 1 .. Len(s) :
             s[i] = sep => UpTo(S, i) \in 1 .. Len(cut) /\ cut[UpTo(S, i)] = i
  <2>1. s \in Seq(Nat)
    BY <1>1
  <2> HIDE DEF sep
  <2> QED
    BY ONLY <2>1, CutsOf, Zenon
<1>5. \A m \in 1 .. Len(s) :
          /\ B(m) # << >>
          /\ Sep!IsGroup(<<db, B(m)>>) <=> s[m] = sep /\ UpTo(S, m) <= maxDepth
  BY <1>1, BeginningOf, Zenon
<1>6. B(0) = << >>
  BY <1>1
<1> HIDE DEF sep, cut, S, B
<1>7. ASSUME p \in Sep!Grouping(key)
      PROVE  p \in Sep!Prefixes(s) \ {<< >>} /\ Sep!IsGroup(<<db, p>>)
  <2>1. PICK d \in 1 .. Len(cut) : d <= maxDepth /\ p = B(cut[d])
    BY <1>2, <1>7
  <2>2. cut[d] \in 1 .. Len(s) /\ s[cut[d]] = sep /\ UpTo(S, cut[d]) = d /\ cut[d] \in 0 .. Len(s)
    BY <1>4
  <2> QED
    BY <1>3, <1>5, <2>1, <2>2
<1>8. ASSUME p \in Sep!Prefixes(s) \ {<< >>}, Sep!IsGroup(<<db, p>>)
      PROVE  p \in Sep!Grouping(key)
  <2>1. PICK m \in 0 .. Len(s) : p = B(m)
    BY <1>3, <1>8
  <2>2. m \in 1 .. Len(s)
    BY <1>4, <1>6, <1>8, <2>1
  <2>3. s[m] = sep /\ UpTo(S, m) <= maxDepth
    BY <1>5, <1>8, <2>1, <2>2
  <2>4. UpTo(S, m) \in 1 .. Len(cut) /\ cut[UpTo(S, m)] = m
    BY <1>4, <2>2, <2>3
  <2> QED
    BY <1>2, <2>1, <2>3, <2>4
<1> QED
  BY <1>7, <1>8 DEF s

LEMMA GroupingStays ==
    ASSUME UNCHANGED <<separators, maxDepth>>, NEW key
    PROVE  Sep!Grouping(key)' = Sep!Grouping(key)
<1>1. Sep!primarySep' = Sep!primarySep
  BY DEF Sep!primarySep
<1>2. Sep!normalized(key)' = Sep!normalized(key)
  BY DEF Sep!normalized
<1>3. Sep!WrapInt(maxDepth + 1)' = Sep!WrapInt(maxDepth + 1)
  BY DEF Sep!WrapInt
<1>4. ASSUME NEW x, NEW y PROVE Sep!Joined(x, y)' = Sep!Joined(x, y)
  BY <1>1, Zenon DEF Sep!Joined
<1> QED
  BY <1>1, <1>2, <1>3, <1>4, Zenon DEF Sep!Grouping

-----------------------------------------------------------------------------
(***************************************************************************)
(* The map of the prefixes: what is counted under each, in terms of the    *)
(* prefixes of every key; that these are the groups follows afterwards.    *)
(***************************************************************************)
KeyObjects == [db : Nat, key : Seq(Nat), size : Nat]

Entries(x) == {<<x.db, p>> : p \in Sep!Grouping(x.key)}

\* The objects of g counted under e, and what they add up to.
Under(g, e) == {i \in DOMAIN g : e \in Entries(g[i])}
Tally(g, e) == [size |-> Cardinality(Sep!BytesOf(g, Under(g, e))),
                keyCount |-> Cardinality(Under(g, e))]

Counted ==
    /\ DOMAIN prefixes = UNION {Entries(grouped[i]) : i \in DOMAIN grouped}
    /\ \A e \in DOMAIN prefixes : prefixes[e] = Tally(grouped, e)

\* An object is as many bytes as its size says.
LEMMA BytesGrow ==
    ASSUME NEW g \in Seq(KeyObjects), NEW T \in SUBSET DOMAIN g, NEW i \in DOMAIN g, i \notin T
    PROVE  /\ Cardinality(T \cup {i}) = Cardinality(T) + 1
           /\ Cardinality(Sep!BytesOf(g, T \cup {i})) = Cardinality(Sep!BytesOf(g, T)) + g[i].size
           /\ Cardinality(T) \in Nat /\ Cardinality(Sep!BytesOf(g, T)) \in Nat
           /\ IsFiniteSet(T)
<1> DEFINE B(j) == {j} \X (1 .. g[j].size)
           U == {B(j) : j \in T}
<1>0. \A j \in DOMAIN g : g[j].size \in Nat
  <2>1. \A j \in DOMAIN g : g[j] \in KeyObjects
    OBVIOUS
  <2>2. \A x \in KeyObjects : x.size \in Nat
    BY DEF KeyObjects
  <2> QED
    BY <2>1, <2>2
<1>1. IsFiniteSet(T)
  <2>1. IsFiniteSet(DOMAIN g)
    <3>1. Len(g) \in Nat /\ DOMAIN g = 1 .. Len(g)
      OBVIOUS
    <3> QED
      BY <3>1, FS_Interval
  <2> QED
    BY <2>1, FS_Subset
<1>2. \A j \in DOMAIN g : IsFiniteSet(B(j)) /\ Cardinality(B(j)) = g[j].size
  <2> TAKE j \in DOMAIN g
  <2>1. IsFiniteSet({j}) /\ Cardinality({j}) = 1
    BY FS_Singleton
  <2>2. g[j].size \in Nat
    BY <1>0
  <2>3. IsFiniteSet(1 .. g[j].size) /\ Cardinality(1 .. g[j].size) = g[j].size
    <3> DEFINE z == g[j].size
    <3>1. z \in Nat
      BY <2>2
    <3> HIDE DEF z
    <3>2. IsFiniteSet(1 .. z) /\ Cardinality(1 .. z) = IF 1 > z THEN 0 ELSE z - 1 + 1
      BY <3>1, FS_Interval
    <3>3. Cardinality(1 .. z) = z
      BY <3>1, <3>2
    <3> QED
      BY <3>2, <3>3 DEF z
  <2>4. IsFiniteSet(B(j)) /\ Cardinality(B(j)) = Cardinality({j}) * Cardinality(1 .. g[j].size)
    BY <2>1, <2>3, FS_Product
  <2> QED
    BY <2>1, <2>2, <2>3, <2>4
<1>3. IsFiniteSet(U)
  <2>1. [j \in T |-> B(j)] \in Surjection(T, U)
    BY DEF Surjection
  <2> QED
    BY <1>1, <2>1, FS_Surjection
<1>4. IsFiniteSet(UNION U)
  BY <1>2, <1>3, FS_UNION
<1>5. UNION U = Sep!BytesOf(g, T)
  BY DEF Sep!BytesOf
<1>6. Sep!BytesOf(g, T \cup {i}) = Sep!BytesOf(g, T) \cup B(i)
  BY DEF Sep!BytesOf
<1>7. Sep!BytesOf(g, T) \cap B(i) = {}
  BY DEF Sep!BytesOf
<1>8. Cardinality(T \cup {i}) = Cardinality(T) + 1 /\ Cardinality(T) \in Nat
  BY <1>1, FS_AddElement, FS_CardinalityType
<1> HIDE DEF B, U
<1>9. /\ Cardinality(Sep!BytesOf(g, T) \cup B(i))
           = Cardinality(Sep!BytesOf(g, T)) + Cardinality(B(i))
             - Cardinality(Sep!BytesOf(g, T) \cap B(i))
      /\ Cardinality(Sep!BytesOf(g, T)) \in Nat
  BY <1>2, <1>4, <1>5, FS_Union, FS_CardinalityType
<1>10. Cardinality(Sep!BytesOf(g, T) \cap B(i)) = 0
  BY <1>7, FS_EmptySet
<1>11. Cardinality(B(i)) = g[i].size /\ g[i].size \in Nat
  BY <1>0, <1>2
<1>12. Cardinality(Sep!BytesOf(g, T \cup {i})) = Cardinality(Sep!BytesOf(g, T)) + g[i].size
  <2> DEFINE x == Cardinality(Sep!BytesOf(g, T))
             y == Cardinality(B(i))
             v == Cardinality(Sep!BytesOf(g, T) \cap B(i))
             u == Cardinality(Sep!BytesOf(g, T) \cup B(i))
  <2>1. u = x + y - v /\ x \in Nat /\ v = 0 /\ y = g[i].size /\ y \in Nat
    BY <1>9, <1>10, <1>11
  <2>2. Cardinality(Sep!BytesOf(g, T \cup {i})) = u
    BY <1>6
  <2> HIDE DEF x, y, v, u
  <2>3. u = x + y
    BY <2>1
  <2> QED
    BY <2>1, <2>2, <2>3 DEF x
<1> QED
  BY <1>1, <1>8, <1>9, <1>12

\* One object more, counted under e or not.
LEMMA TallyGrows ==
    ASSUME NEW g \in Seq(KeyObjects), NEW z \in KeyObjects, NEW e
    PROVE  /\ e \in Entries(z) =>
                  Tally(Append(g, z), e) = [size |-> Tally(g, e).size + z.size,
                                            keyCount |-> Tally(g, e).keyCount + 1]
           /\ e \notin Entries(z) => Tally(Append(g, z), e) = Tally(g, e)
<1> DEFINE n == Len(g)
           h == Append(g, z)
           T == Under(g, e)
           V == Under(h, e)
<1>1. /\ n \in Nat /\ DOMAIN g = 1 .. n /\ h \in Seq(KeyObjects)
      /\ DOMAIN h = 1 .. n + 1 /\ h[n + 1] = z /\ \A i \in 1 .. n : h[i] = g[i]
  BY AppendProperties
<1>2. T \in SUBSET (1 .. n) /\ T \in SUBSET DOMAIN h /\ n + 1 \in DOMAIN h /\ n + 1 \notin T
  BY <1>1 DEF Under
<1>3. V = IF e \in Entries(z) THEN T \cup {n + 1} ELSE T
  <2>1. \A i : i \in 1 .. n + 1 <=> i \in 1 .. n \/ i = n + 1
    BY <1>1
  <2>2. \A i : i \in V <=> i \in 1 .. n + 1 /\ e \in Entries(h[i])
    BY <1>1 DEF Under
  <2>3. \A i : i \in T <=> i \in 1 .. n /\ e \in Entries(g[i])
    BY <1>1 DEF Under
  <2>4. \A i : i \in 1 .. n => e \in Entries(h[i]) <=> e \in Entries(g[i])
    BY <1>1
  <2>5. n + 1 \notin 1 .. n /\ (e \in Entries(h[n + 1]) <=> e \in Entries(z))
    BY <1>1
  <2> HIDE DEF n, h, T, V
  <2>6. CASE e \in Entries(z)
    <3>1. \A i : i \in V <=> i \in T \cup {n + 1}
      BY <2>1, <2>2, <2>3, <2>4, <2>5, <2>6
    <3> QED
      BY <2>6, <3>1
  <2>7. CASE e \notin Entries(z)
    <3>1. \A i : i \in V <=> i \in T
      BY <2>1, <2>2, <2>3, <2>4, <2>5, <2>7
    <3> QED
      BY <2>7, <3>1
  <2> QED
    BY <2>6, <2>7
<1> HIDE DEF n, h, T, V
<1>4. Sep!BytesOf(h, T) = Sep!BytesOf(g, T)
  <2>1. \A i \in T : h[i] = g[i]
    BY <1>1, <1>2
  <2> QED
    BY <2>1 DEF Sep!BytesOf
<1>5. /\ Cardinality(T \cup {n + 1}) = Cardinality(T) + 1
      /\ Cardinality(Sep!BytesOf(h, T \cup {n + 1})) = Cardinality(Sep!BytesOf(h, T)) + h[n + 1].size
  BY <1>1, <1>2, BytesGrow
<1>6. /\ Tally(h, e) = [size |-> Cardinality(Sep!BytesOf(h, V)), keyCount |-> Cardinality(V)]
      /\ Tally(g, e) = [size |-> Cardinality(Sep!BytesOf(g, T)), keyCount |-> Cardinality(T)]
  BY Zenon DEF Tally, T, V
<1>7. CASE e \in Entries(z)
  <2>1. V = T \cup {n + 1}
    BY <1>3, <1>7
  <2>2. Tally(h, e) = [size |-> Tally(g, e).size + z.size, keyCount |-> Tally(g, e).keyCount + 1]
    BY <1>1, <1>4, <1>5, <1>6, <2>1
  <2> QED
    BY <1>7, <2>2 DEF h
<1>8. CASE e \notin Entries(z)
  BY <1>3, <1>4, <1>6, <1>8 DEF h
<1> QED
  BY <1>7, <1>8

\* What the map has of e, if anything.
LEMMA StatsAre ==
    ASSUME grouped \in Seq(KeyObjects), Counted, NEW e
    PROVE  Sep!Stats(e) = Tally(grouped, e)
<1>1. CASE e \in DOMAIN prefixes
  BY <1>1 DEF Counted, Sep!Stats
<1>2. CASE e \notin DOMAIN prefixes
  <2>1. Under(grouped, e) = {}
    BY <1>2, Zenon DEF Counted, Under
  <2>2. Sep!BytesOf(grouped, {}) = {}
    BY DEF Sep!BytesOf
  <2>3. Cardinality({}) = 0
    BY FS_EmptySet
  <2>4. Tally(grouped, e) = [size |-> Cardinality(Sep!BytesOf(grouped, {})),
                             keyCount |-> Cardinality({})]
    BY <2>1, Zenon DEF Tally
  <2> QED
    BY <1>2, <2>2, <2>3, <2>4 DEF Sep!Stats
<1> QED
  BY <1>1, <1>2

LEMMA ParseCounts ==
    ASSUME AnalysesAssumption, RankingAssumption, grouped \in Seq(KeyObjects), Counted,
           NEW o \in FileObjects, Sep!ParseObject(<<o.db, o.key>>, o.size)
    PROVE  Counted' /\ (grouped \in Seq(KeyObjects))'
<1> DEFINE z == [db |-> o.db, key |-> o.key, size |-> o.size]
           E == Entries(z)
           h == Append(grouped, z)
           n == Len(grouped)
<1>1. /\ z \in KeyObjects /\ z.size = o.size
  BY FileObject DEF KeyObjects
<1>2. /\ n \in Nat /\ DOMAIN grouped = 1 .. n /\ h \in Seq(KeyObjects)
      /\ DOMAIN h = 1 .. n + 1 /\ h[n + 1] = z /\ \A i \in 1 .. n : h[i] = grouped[i]
  BY <1>1, AppendProperties
<1>3. /\ UNCHANGED <<separators, maxDepth>>
      /\ grouped' = h
      /\ prefixes' = [e \in DOMAIN prefixes \cup E |->
                         IF e \in E THEN [size |-> Sep!Stats(e).size + o.size,
                                          keyCount |-> Sep!Stats(e).keyCount + 1]
                         ELSE prefixes[e]]
  BY DEF Sep!ParseObject, Entries
<1>4. \A x : Entries(x)' = Entries(x)
  BY <1>3, GroupingStays DEF Entries
<1> HIDE DEF z, E, h, n
<1>5. DOMAIN prefixes' = UNION {Entries(h[i]) : i \in DOMAIN h}
  <2>1. \A e : e \in DOMAIN prefixes <=> \E i \in 1 .. n : e \in Entries(grouped[i])
    BY <1>2, Zenon DEF Counted
  <2>2. \A e : e \in DOMAIN prefixes' <=> e \in DOMAIN prefixes \/ e \in E
    BY <1>3
  <2>3. \A i : i \in 1 .. n + 1 <=> i \in 1 .. n \/ i = n + 1
    BY <1>2
  <2>4. \A e : e \in DOMAIN prefixes' <=> \E i \in 1 .. n + 1 : e \in Entries(h[i])
    BY <1>2, <2>1, <2>2, <2>3, Zenon DEF E
  <2>5. \A e : e \in DOMAIN prefixes' <=> e \in UNION {Entries(h[i]) : i \in DOMAIN h}
    BY <1>2, <2>4, Zenon
  <2> QED
    BY <2>5, Zenon
<1>6. \A e \in DOMAIN prefixes' : prefixes'[e] = Tally(h, e)
  <2> TAKE e \in DOMAIN prefixes'
  <2>1. CASE e \in E
    <3>1. prefixes'[e] = [size |-> Tally(grouped, e).size + o.size,
                          keyCount |-> Tally(grouped, e).keyCount + 1]
      BY <1>3, <2>1, StatsAre
    <3> QED
      BY <1>1, <2>1, <3>1, TallyGrows DEF E, h
  <2>2. CASE e \notin E
    <3>1. e \in DOMAIN prefixes /\ prefixes'[e] = prefixes[e]
      BY <1>3, <2>2
    <3> QED
      BY <1>1, <2>2, <3>1, TallyGrows DEF E, h, Counted
  <2> QED
    BY <2>1, <2>2
<1>7. ASSUME NEW g, NEW e PROVE Tally(g, e)' = Tally(g, e)
  <2>1. Under(g, e)' = Under(g, e)
    BY <1>4, Zenon DEF Under
  <2> QED
    BY <2>1, Zenon DEF Tally, Sep!BytesOf
<1>8. {Entries(grouped[i]) : i \in DOMAIN grouped}' = {Entries(h[i]) : i \in DOMAIN h}
  BY <1>3, <1>4
<1>9. \A e : Tally(grouped, e)' = Tally(h, e)
  BY <1>3, <1>7
<1>10. Counted'
  BY <1>5, <1>6, <1>8, <1>9, Zenon DEF Counted
<1> QED
  BY <1>2, <1>3, <1>10

LEMMA PrefixIs ==
    ASSUME NEW s \in Seq(Nat), NEW p \in Seq(Nat)
    PROVE  Sep!IsPrefix(p, s) <=> p \in Sep!Prefixes(s)
<1>1. /\ Len(s) \in Nat /\ Len(p) \in Nat /\ SubSeq(p, 1, Len(p)) = p
      /\ \A m \in 0 .. Len(s) : Len(SubSeq(s, 1, m)) = m
  OBVIOUS
<1>2. Sep!IsPrefix(p, s) <=> Len(p) <= Len(s) /\ p = SubSeq(s, 1, Len(p))
  BY <1>1, Zenon DEF Sep!IsPrefix
<1>3. p \in Sep!Prefixes(s) <=> \E m \in 0 .. Len(s) : p = SubSeq(s, 1, m)
  BY Zenon DEF Sep!Prefixes
<1>4. Len(p) <= Len(s) <=> Len(p) \in 0 .. Len(s)
  BY <1>1
<1> QED
  BY <1>1, <1>2, <1>3, <1>4, Zenon

\* What an object is counted under, and what it belongs to.
LEMMA EntriesAre ==
    ASSUME AnalysesAssumption, NEW x \in KeyObjects, separators \in Seq(Nat), separators # << >>,
           maxDepth \in 1 .. MaxInt, NEW e
    PROVE  /\ e \in Entries(x) <=>
                  /\ e \in {<<x.db, p>> : p \in Sep!Prefixes(Sep!normalized(x.key)) \ {<< >>}}
                  /\ Sep!IsGroup(e)
           /\ \A y \in KeyObjects :
                  e \in Entries(x) =>
                      (e \in Entries(y) <=>
                          y.db = e[1] /\ Sep!IsPrefix(e[2], Sep!normalized(y.key)))
<1>1. \A y \in KeyObjects : y.key \in Seq(Nat) /\ Sep!normalized(y.key) \in Seq(Nat)
  <2> TAKE y \in KeyObjects
  <2>1. y.key \in Seq(Nat)
    BY DEF KeyObjects
  <2> QED
    BY <2>1, NormalizedKey
<1>2. \A y \in KeyObjects : \A d, p :
          p \in Sep!Grouping(y.key) <=>
              p \in Sep!Prefixes(Sep!normalized(y.key)) \ {<< >>} /\ Sep!IsGroup(<<d, p>>)
  BY <1>1, GroupsOfKey
<1>3. \A y \in KeyObjects :
          e \in Entries(y) <=>
              /\ e \in {<<y.db, p>> : p \in Sep!Prefixes(Sep!normalized(y.key)) \ {<< >>}}
              /\ Sep!IsGroup(e)
  BY <1>2 DEF Entries
<1>4. ASSUME NEW y \in KeyObjects, e \in Entries(x)
      PROVE  e \in Entries(y) <=> y.db = e[1] /\ Sep!IsPrefix(e[2], Sep!normalized(y.key))
  <2>1. Sep!IsGroup(e)
    BY <1>3, <1>4
  <2>2. PICK p \in Sep!Prefixes(Sep!normalized(x.key)) \ {<< >>} : e = <<x.db, p>>
    BY <1>3, <1>4
  <2>3. e[1] = x.db /\ e[2] = p
    BY <2>2
  <2>4. p \in Seq(Nat)
    <3> DEFINE s == Sep!normalized(x.key)
    <3>1. s \in Seq(Nat)
      BY <1>1
    <3>2. PICK m \in 0 .. Len(s) : p = SubSeq(s, 1, m)
      BY <2>2 DEF Sep!Prefixes
    <3> HIDE DEF s
    <3> QED
      BY <3>1, <3>2
  <2>5. Sep!IsPrefix(p, Sep!normalized(y.key)) <=> p \in Sep!Prefixes(Sep!normalized(y.key))
    BY <1>1, <2>4, PrefixIs
  <2>6. e \in Entries(y) <=> y.db = x.db /\ p \in Sep!Prefixes(Sep!normalized(y.key)) \ {<< >>}
    BY <1>3, <2>1, <2>2
  <2> QED
    BY <2>2, <2>3, <2>5, <2>6
<1> QED
  BY <1>3, <1>4

LEMMA CountedGroups ==
    ASSUME AnalysesAssumption, grouped \in Seq(KeyObjects), separators \in Seq(Nat),
           separators # << >>, maxDepth \in 1 .. MaxInt, Counted
    PROVE  GroupsCounted
<1> DEFINE P(i) == {<<grouped[i].db, p>> : p \in Sep!Prefixes(Sep!normalized(grouped[i].key)) \ {<< >>}}
<1>1. \A i \in DOMAIN grouped : grouped[i] \in KeyObjects
  OBVIOUS
<1>2. \A i \in DOMAIN grouped : \A e : e \in Entries(grouped[i]) <=> e \in P(i) /\ Sep!IsGroup(e)
  BY <1>1, EntriesAre
<1>3. Sep!Groups = {e \in UNION {P(i) : i \in DOMAIN grouped} : Sep!IsGroup(e)}
  BY Zenon DEF Sep!Groups
<1> HIDE DEF P
<1>4. \A e : e \in DOMAIN prefixes <=> \E i \in DOMAIN grouped : e \in Entries(grouped[i])
  BY Zenon DEF Counted
<1>5. \A e : e \in DOMAIN prefixes <=> e \in Sep!Groups
  BY <1>2, <1>3, <1>4
<1>6. ASSUME NEW e \in DOMAIN prefixes
      PROVE  Sep!Members(e) = Under(grouped, e)
  <2>1. PICK i \in DOMAIN grouped : e \in Entries(grouped[i])
    BY <1>4
  <2>2. \A j \in DOMAIN grouped :
            e \in Entries(grouped[j]) <=>
                /\ grouped[j].db = e[1]
                /\ Sep!IsPrefix(e[2], Sep!normalized(grouped[j].key))
    BY <1>1, <2>1, EntriesAre
  <2> QED
    BY <2>2, Zenon DEF Sep!Members, Under
<1>7. \A e \in DOMAIN prefixes :
          /\ prefixes[e].keyCount = Sep!Cardinality(Sep!Members(e))
          /\ prefixes[e].size = Sep!Cardinality(Sep!BytesOf(grouped, Sep!Members(e)))
  <2> TAKE e \in DOMAIN prefixes
  <2>1. prefixes[e] = Tally(grouped, e)
    BY Zenon DEF Counted
  <2> QED
    BY <1>6, <2>1, SameCount DEF Tally
<1>8. DOMAIN prefixes = Sep!Groups
  BY <1>5
<1> QED
  BY <1>7, <1>8, Zenon DEF GroupsCounted, Sep!GroupsCounted

-----------------------------------------------------------------------------
(***************************************************************************)
(* The report.                                                             *)
(***************************************************************************)
LEMMA PrefixesFinite ==
    ASSUME AnalysesAssumption, grouped \in Seq(KeyObjects), separators \in Seq(Nat),
           separators # << >>, maxDepth \in 1 .. MaxInt, Counted
    PROVE  /\ IsFiniteSet(DOMAIN prefixes)
           /\ \A e \in DOMAIN prefixes : prefixes[e].size \in Nat
<1>1. Len(grouped) \in Nat /\ DOMAIN grouped = 1 .. Len(grouped)
  OBVIOUS
<1>2. IsFiniteSet(DOMAIN grouped)
  BY <1>1, FS_Interval
<1>3. ASSUME NEW i \in DOMAIN grouped PROVE IsFiniteSet(Entries(grouped[i]))
  <2> DEFINE x == grouped[i]
             s == Sep!normalized(x.key)
             cut == Cuts(s, Sep!primarySep)
             D == {d \in 1 .. Len(cut) : d <= maxDepth}
             f == [d \in D |-> <<x.db, SubSeq(s, 1, cut[d])>>]
  <2>1. x.key \in Seq(Nat)
    <3>1. x \in KeyObjects
      OBVIOUS
    <3> QED
      BY <3>1 DEF KeyObjects
  <2>2. s \in Seq(Nat)
    BY <2>1, NormalizedKey
  <2> HIDE DEF x
  <2>3. Sep!Grouping(x.key) = {SubSeq(s, 1, cut[d]) : d \in D}
    BY <2>1, GroupingIs, Zenon
  <2> HIDE DEF s
  <2>4. Len(cut) \in Nat
    BY <2>2, CutsIn
  <2> HIDE DEF cut
  <2>5. IsFiniteSet(D)
    <3>1. IsFiniteSet(1 .. Len(cut))
      BY <2>4, FS_Interval
    <3> QED
      BY <3>1, FS_Subset
  <2>6. f \in Surjection(D, Entries(x))
    <3> HIDE DEF D
    <3>1. Entries(x) = {f[d] : d \in D}
      BY <2>3 DEF Entries
    <3> HIDE DEF f
    <3>2. DOMAIN f = D
      BY DEF f
    <3>3. f = [d \in D |-> f[d]]
      BY DEF f
    <3> QED
      BY <3>1, <3>3 DEF Surjection
  <2> HIDE DEF f, D
  <2> QED
    BY <2>5, <2>6, FS_Surjection DEF x
<1>4. IsFiniteSet(DOMAIN prefixes)
  <2> DEFINE U == {Entries(grouped[i]) : i \in DOMAIN grouped}
  <2>1. [i \in DOMAIN grouped |-> Entries(grouped[i])] \in Surjection(DOMAIN grouped, U)
    BY DEF Surjection
  <2>2. IsFiniteSet(U)
    BY <1>2, <2>1, FS_Surjection
  <2>3. \A T \in U : IsFiniteSet(T)
    BY <1>3
  <2>4. DOMAIN prefixes = UNION U
    BY Zenon DEF Counted
  <2> HIDE DEF U
  <2> QED
    BY <2>2, <2>3, <2>4, FS_UNION
<1>5. ASSUME NEW e \in DOMAIN prefixes PROVE prefixes[e].size \in Nat
  <2> DEFINE T == Under(grouped, e)
  <2>1. prefixes[e].size = Cardinality(Sep!BytesOf(grouped, T))
    <3>1. prefixes[e] = Tally(grouped, e)
      BY Zenon DEF Counted
    <3> QED
      BY <3>1 DEF Tally
  <2>2. IsFiniteSet(T) /\ \A j \in T : IsFiniteSet({j} \X (1 .. grouped[j].size))
    <3>1. T \in SUBSET DOMAIN grouped
      BY DEF Under
    <3>2. ASSUME NEW j \in T PROVE IsFiniteSet({j} \X (1 .. grouped[j].size))
      <4>1. grouped[j] \in KeyObjects
        BY <3>1
      <4>2. grouped[j].size \in Int
        BY <4>1 DEF KeyObjects
      <4> DEFINE z == grouped[j].size
      <4>3. z \in Int
        BY <4>2
      <4> HIDE DEF z
      <4>4. IsFiniteSet(1 .. z)
        BY <4>3, FS_Interval
      <4>5. IsFiniteSet({j})
        BY FS_Singleton
      <4> QED
        BY <4>4, <4>5, FS_Product DEF z
    <3> QED
      BY <1>2, <3>1, <3>2, FS_Subset
  <2> HIDE DEF T
  <2>3. IsFiniteSet(Sep!BytesOf(grouped, T))
    <3> DEFINE U == {{j} \X (1 .. grouped[j].size) : j \in T}
    <3>1. [j \in T |-> {j} \X (1 .. grouped[j].size)] \in Surjection(T, U)
      BY DEF Surjection
    <3>2. IsFiniteSet(U)
      BY <2>2, <3>1, FS_Surjection
    <3>3. \A V \in U : IsFiniteSet(V)
      BY <2>2
    <3>4. Sep!BytesOf(grouped, T) = UNION U
      BY Zenon DEF Sep!BytesOf
    <3> HIDE DEF U
    <3> QED
      BY <3>2, <3>3, <3>4, FS_UNION
  <2> QED
    BY <2>1, <2>3, FS_CardinalityType
<1> QED
  BY <1>4, <1>5

LEMMA ReportLargest ==
    ASSUME IsFiniteSet(DOMAIN prefixes), \A e \in DOMAIN prefixes : prefixes[e].size \in Nat,
           topN \in Nat, topN > 0, Sep!Report
    PROVE  LargestReported'
<1> DEFINE D == DOMAIN prefixes
           c == Cardinality(D)
<1>1. PICK s \in Sep!SetToSeqs(D) :
          /\ Sep!Sorted(s) /\ rows' = Sep!Listed(s)
          /\ UNCHANGED <<topN, prefixes>>
  BY Zenon DEF Sep!Report
<1>2. c \in Nat
  BY FS_CardinalityType
<1>3. /\ s \in [1 .. c -> D]
      /\ \A i, j \in 1 .. c : i # j => s[i] # s[j]
  BY SameCount DEF Sep!SetToSeqs
<1>4. \A e \in D : \E j \in 1 .. c : s[j] = e
  <2>1. s \in Injection(1 .. c, D)
    BY <1>3 DEF Injection, IsInjective
  <2>2. Cardinality(1 .. c) = c
    BY <1>2, FS_Interval
  <2> HIDE DEF c
  <2>3. s \in Surjection(1 .. c, D)
    BY <2>1, <2>2, FS_Injection DEF c
  <2> QED
    BY <2>3 DEF Surjection
<1> DEFINE k == IF topN > c THEN c ELSE topN
<1>5. Len(s) = c /\ DOMAIN s = 1 .. c
  BY <1>2, <1>3, ArrayIsSeq
<1>6. \A i, j \in 1 .. c : i < j => prefixes[s[i]].size >= prefixes[s[j]].size
  BY <1>1, <1>5 DEF Sep!Sorted
<1> HIDE DEF c
<1>7. k \in Nat /\ k <= c /\ (k < c => k = topN)
  BY <1>2
<1>8. rows' = [i \in 1 .. k |-> [entry |-> s[i], stats |-> prefixes[s[i]]]]
  BY <1>1, <1>5 DEF Sep!Listed
<1> HIDE DEF k, D
<1>9. DOMAIN rows' = 1 .. k /\ Len(rows') = k
  <2> DEFINE R == {[entry |-> s[i], stats |-> prefixes[s[i]]] : i \in 1 .. k}
  <2>1. rows' \in [1 .. k -> R]
    BY <1>8
  <2> HIDE DEF R
  <2> QED
    BY <1>7, <2>1, ArrayIsSeq
<1> DEFINE reported == {rows'[i].entry : i \in DOMAIN rows'}
<1>10. reported = {s[i] : i \in 1 .. k}
  BY <1>8, <1>9
<1> HIDE DEF reported
<1>11. \A i \in 1 .. k : i \in 1 .. c
  BY <1>2, <1>7
<1>12. Cardinality(reported) = k
  <2> DEFINE f == [i \in 1 .. k |-> s[i]]
  <2>1. f \in Surjection(1 .. k, reported)
    BY <1>10 DEF Surjection
  <2>2. f \in Injection(1 .. k, reported)
    BY <1>3, <1>10, <1>11 DEF Injection, IsInjective
  <2>3. Cardinality(1 .. k) = k /\ IsFiniteSet(1 .. k)
    BY <1>7, FS_Interval
  <2> HIDE DEF f
  <2> QED
    BY <2>1, <2>2, <2>3, FS_Surjection
<1>13. \A i, j \in 1 .. k : i < j => rows'[i].stats.size >= rows'[j].stats.size
  BY <1>6, <1>8, <1>11
<1>14. ASSUME NEW e \in D, e \notin reported
       PROVE  Len(rows') = topN /\ \A i \in 1 .. k : rows'[i].stats.size >= prefixes[e].size
  <2>1. PICK j \in 1 .. c : s[j] = e
    BY <1>4
  <2>2. j \notin 1 .. k
    BY <1>10, <1>14, <2>1
  <2>3. k < j /\ k = topN
    BY <1>2, <1>7, <2>1, <2>2
  <2>4. \A i \in 1 .. k : i < j
    BY <1>7, <2>3
  <2> QED
    BY <1>6, <1>8, <1>9, <1>11, <2>1, <2>3, <2>4
<1> QED
  <2>1. /\ prefixes' = prefixes /\ topN' = topN
    BY <1>1
  <2>2. \A e \in D \ reported :
            /\ Len(rows') = topN
            /\ \A i \in DOMAIN rows' : rows'[i].stats.size >= prefixes[e].size
    BY <1>9, <1>14
  <2>3. \A i, j \in DOMAIN rows' : i < j => rows'[i].stats.size >= rows'[j].stats.size
    BY <1>9, <1>13
  <2>4. Sep!Cardinality(reported) = Len(rows')
    BY <1>9, <1>12, SameCount
  <2> QED
    BY <2>1, <2>2, <2>3, <2>4, Zenon DEF LargestReported, Sep!LargestReported, reported, D

-----------------------------------------------------------------------------
(***************************************************************************)
(* The invariant of prefix -prefix-sep, and one case for each action.      *)
(***************************************************************************)
SepInv ==
    /\ separators \in Seq(Nat) /\ maxDepth \in -MaxInt - 1 .. MaxInt
    /\ grouped \in Seq(KeyObjects)
    /\ Counted
    /\ command # "prefix" \/ state \in {"start", "refused"} =>
           prefixes = << >> /\ grouped = << >> /\ rows = << >>
    /\ command = "prefix" /\ state \in {"parse", "done"} =>
           separators # << >> /\ maxDepth \in 1 .. MaxInt
    /\ state # "done" => rows = << >>
    /\ LargestReported

LEMMA NothingCounted ==
    ASSUME prefixes = << >>, grouped = << >>, rows = << >>
    PROVE  Counted /\ LargestReported /\ GroupsCounted
<1>1. DOMAIN prefixes = {} /\ DOMAIN grouped = {} /\ DOMAIN rows = {} /\ Len(rows) = 0
  OBVIOUS
<1>2. Counted
  BY <1>1 DEF Counted
<1>3. Sep!Groups = {}
  BY <1>1 DEF Sep!Groups
<1>4. GroupsCounted
  BY <1>1, <1>3 DEF GroupsCounted, Sep!GroupsCounted
<1>5. LargestReported
  <2>1. Sep!Cardinality({}) = 0
    BY SameCount, FS_EmptySet
  <2>2. {rows[i].entry : i \in DOMAIN rows} = {}
    BY <1>1
  <2> QED
    BY <1>1, <2>1, <2>2 DEF LargestReported, Sep!LargestReported
<1> QED
  BY <1>2, <1>4, <1>5

LEMMA NothingCountedNext ==
    ASSUME prefixes' = << >>, grouped' = << >>, rows' = << >>
    PROVE  Counted' /\ LargestReported'
<1>1. DOMAIN prefixes' = {} /\ DOMAIN grouped' = {} /\ DOMAIN rows' = {} /\ Len(rows') = 0
  OBVIOUS
<1>2. Counted'
  BY <1>1 DEF Counted
<1>3. LargestReported'
  <2>1. Sep!Cardinality({}) = 0
    BY SameCount, FS_EmptySet
  <2>2. {rows'[i].entry : i \in DOMAIN rows'} = {}
    BY <1>1
  <2> QED
    BY <1>1, <2>1, <2>2 DEF LargestReported, Sep!LargestReported
<1> QED
  BY <1>2, <1>3

LEMMA CountedStays ==
    ASSUME Counted, UNCHANGED <<separators, maxDepth, prefixes, grouped>>
    PROVE  Counted'
<1>1. \A x : Entries(x)' = Entries(x)
  BY GroupingStays DEF Entries
<1>2. ASSUME NEW e PROVE Tally(grouped, e)' = Tally(grouped, e)
  <2>1. Under(grouped, e)' = Under(grouped, e)
    BY <1>1, Zenon DEF Under
  <2>2. grouped' = grouped
    OBVIOUS
  <2>3. Sep!BytesOf(grouped, Under(grouped, e))' = Sep!BytesOf(grouped, Under(grouped, e))
    BY <2>1, <2>2 DEF Sep!BytesOf
  <2> QED
    BY <2>1, <2>3, Zenon DEF Tally
<1>3. {Entries(grouped[i]) : i \in DOMAIN grouped}' = {Entries(grouped[i]) : i \in DOMAIN grouped}
  BY <1>1
<1> QED
  BY <1>2, <1>3, Zenon DEF Counted

\* A step that leaves the map alone.
LEMMA SepRests ==
    ASSUME SepInv, UNCHANGED <<command, sepVars>>,
           command = "prefix" =>
               UNCHANGED <<state, topN>> \/ (state = "start" /\ state' = "refused")
    PROVE  SepInv'
<1>1. UNCHANGED <<command, separators, maxDepth, prefixes, rows, grouped>>
  BY DEF sepVars
<1>2. Counted'
  BY <1>1, CountedStays DEF SepInv
<1>3. CASE command # "prefix" \/ state \in {"start", "refused"}
  <2>1. prefixes' = << >> /\ grouped' = << >> /\ rows' = << >>
    BY <1>1, <1>3 DEF SepInv
  <2>2. LargestReported'
    BY <2>1, NothingCountedNext
  <2>3. command' # "prefix" \/ state' \in {"start", "refused"}
    BY <1>1, <1>3
  <2> QED
    BY <1>1, <1>2, <2>1, <2>2, <2>3 DEF SepInv
<1>4. CASE UNCHANGED <<state, topN>>
  <2>1. LargestReported' <=> LargestReported
    BY <1>1, <1>4, Zenon DEF LargestReported, Sep!LargestReported
  <2> QED
    BY <1>1, <1>2, <1>4, <2>1 DEF SepInv
<1> QED
  BY <1>3, <1>4

LEMMA SepInvInit ==
    ASSUME AnalysesAssumption, AnalysesInit
    PROVE  SepInv
<1>1. /\ separators \in SeparatorLists /\ maxDepth \in MaxDepths
      /\ prefixes = << >> /\ grouped = << >> /\ rows = << >> /\ state = "start"
  BY DEF AnalysesInit, Sep!Init
<1>2. Counted /\ LargestReported
  BY <1>1, NothingCounted
<1> QED
  BY <1>1, <1>2 DEF SepInv, AnalysesAssumption

LEMMA SepInvNext ==
    ASSUME AnalysesAssumption, RankingAssumption, RankInv, SepInv, [AnalysesNext]_analysesVars
    PROVE  SepInv'
<1> USE DEF Given, OnlyRanking, OnlyPrefix, OnlyFlame, OnlyAof
<1>1. CASE Refuse
  BY <1>1, SepRests DEF Refuse
<1>2. CASE StartRanking
  BY <1>2, SepRests DEF StartRanking, Ranking
<1>3. CASE StartPrefix
  <2>1. /\ command = "prefix" /\ state = "start" /\ UNCHANGED <<command, grouped, separators, prefixes, rows>>
        /\ maxDepth' = Sep!Unlimited(maxDepth)
        /\ state' = IF separators = << >> THEN "refused" ELSE "parse"
    BY <1>3 DEF StartPrefix, Sep!Start
  <2>2. prefixes' = << >> /\ grouped' = << >> /\ rows' = << >>
    BY <2>1 DEF SepInv
  <2>3. Counted' /\ LargestReported'
    BY <2>2, NothingCountedNext
  <2>4. maxDepth' \in 1 .. MaxInt
    BY <2>1 DEF SepInv, Sep!Unlimited, AnalysesAssumption
  <2>5. maxDepth' \in -MaxInt - 1 .. MaxInt
    BY <2>4 DEF AnalysesAssumption
  <2> QED
    BY <2>1, <2>2, <2>3, <2>4, <2>5 DEF SepInv
<1>4. CASE StartOther
  BY <1>4, SepRests DEF StartOther, Converting
<1>5. CASE ReportRanking
  BY <1>5, SepRests DEF ReportRanking, Ranking
<1>6. CASE ReportPrefix
  <2>1. /\ command = "prefix" /\ state = "parse" /\ state' = "done"
        /\ UNCHANGED <<command, separators, maxDepth, prefixes, grouped>>
        /\ Sep!Report
    BY <1>6 DEF ReportPrefix, Sep!Report
  <2>2. Counted'
    BY <2>1, CountedStays DEF SepInv
  <2>3. topN \in Nat /\ topN > 0
    BY <2>1 DEF RankInv, IInv, TypeOK
  <2>4. /\ IsFiniteSet(DOMAIN prefixes)
        /\ \A e \in DOMAIN prefixes : prefixes[e].size \in Nat
    BY <2>1, PrefixesFinite DEF SepInv
  <2>5. LargestReported'
    BY <2>1, <2>3, <2>4, ReportLargest
  <2> QED
    BY <2>1, <2>2, <2>5 DEF SepInv
<1>7. CASE PlotEnds \/ TrimTurn
  BY <1>7, SepRests DEF PlotEnds, TrimTurn
<1>8. CASE ConvertEnds \/ LoadCommand
  BY <1>8, SepRests DEF ConvertEnds, LoadCommand, Converting
<1>9. ASSUME NEW o, RankObject(o) PROVE SepInv'
  BY <1>9, SepRests DEF RankObject, Ranking, FromFile
<1>10. ASSUME NEW o \in FileObjects, GroupObject(o) PROVE SepInv'
  <2>1. /\ command = "prefix" /\ state = "parse" /\ UNCHANGED <<command, state, separators, maxDepth, rows>>
        /\ Sep!ParseObject(<<o.db, o.key>>, o.size)
    BY <1>10 DEF GroupObject, FromFile, Sep!ParseObject
  <2>2. Counted' /\ (grouped \in Seq(KeyObjects))'
    BY <2>1, ParseCounts DEF SepInv
  <2>3. LargestReported'
    BY <2>1 DEF LargestReported, Sep!LargestReported
  <2> QED
    BY <2>1, <2>2, <2>3 DEF SepInv
<1>11. ASSUME NEW o, PlotObject(o) PROVE SepInv'
  BY <1>11, SepRests DEF PlotObject, FromFile
<1>12. ASSUME NEW o, Filtered(o) PROVE SepInv'
  BY <1>12, SepRests DEF Filtered, FromFile, vars
<1>13. ASSUME NEW o, ConvertObject(o) PROVE SepInv'
  BY <1>13, SepRests DEF ConvertObject, FromFile, Converting
<1>14. CASE UNCHANGED analysesVars
  BY <1>14, SepRests DEF analysesVars, vars
<1> QED
  BY <1>1, <1>2, <1>3, <1>4, <1>5, <1>6, <1>7, <1>8, <1>9, <1>10, <1>11, <1>12, <1>13, <1>14,
     AnalysesSteps

-----------------------------------------------------------------------------
(***************************************************************************)
(* The inductive invariant of Analyses and what follows from it.           *)
(***************************************************************************)
AnalysesInv == RankInv /\ GivenInv /\ ReachedInv /\ SepInv

LEMMA AnalysesInvHolds == AnalysesSpec => []AnalysesInv
<1>1. AnalysesInit => AnalysesInv
  BY AnalysesAssumption, RankingAssumption, RankInvInit, SepInvInit DEF AnalysesInv
<1>2. AnalysesInv /\ [AnalysesNext]_analysesVars => AnalysesInv'
  <2> SUFFICES ASSUME AnalysesInv, [AnalysesNext]_analysesVars PROVE AnalysesInv'
    OBVIOUS
  <2>1. RankInv /\ GivenInv /\ ReachedInv /\ SepInv
    BY DEF AnalysesInv
  <2>2. RankInv'
    BY <2>1, AnalysesAssumption, RankingAssumption, RankInvNext
  <2>3. GivenInv' /\ ReachedInv'
    BY <2>1, AnalysesAssumption, RankingAssumption, ReachedNext
  <2>4. SepInv'
    BY <2>1, AnalysesAssumption, RankingAssumption, SepInvNext
  <2> QED
    BY <2>2, <2>3, <2>4 DEF AnalysesInv
<1> QED
  BY <1>1, <1>2, PTL DEF AnalysesSpec

(***************************************************************************)
(* bigkey and hotkey among the other commands and behind the filters: the  *)
(* list of toplist.go and hotkey.go is the first N of the ranked objects   *)
(* it was offered, for any file and any N.                                 *)
(***************************************************************************)
THEOREM RankedBehindFilters == AnalysesSpec => [](TypeOK /\ FirstN)
<1>1. AnalysesInv => TypeOK /\ FirstN
  BY DEF AnalysesInv, RankInv, IInv
<1> QED
  BY <1>1, AnalysesInvHolds, PTL

(***************************************************************************)
(* wrapDecoder (regex.go:208-278): whatever the options and the file, the  *)
(* callbacks of prefix, bigkey and hotkey have got the objects asked for,  *)
(* all of them and in the order of the file.                               *)
(***************************************************************************)
THEOREM FiltersAsAsked == AnalysesSpec => []FilteredInOrder
<1>1. AnalysesInv => FilteredInOrder
  <2> SUFFICES ASSUME AnalysesInv, Legal(options), AllRepresentable,
                      command \in {"bigkey", "hotkey", "prefix"}
               PROVE  /\ command = "prefix" => grouped = GroupedFrom(file, WantedPlaces)
                      /\ Ranking => offered = RankedFrom(file, WantedPlaces, hot)
    <3>1. (command = "prefix" => grouped = GroupedFrom(file, WantedPlaces)) <=>
              (command = "prefix" =>
                  grouped = [j \in DOMAIN WantedPlaces |->
                                LET o == file[WantedPlaces[j]]
                                IN [db |-> o.db, key |-> o.key, size |-> o.size]])
      BY Zenon DEF GroupedFrom, Member
    <3>2. (Ranking => offered = RankedFrom(file, WantedPlaces, hot)) <=>
              (Ranking =>
                  offered = [j \in DOMAIN WantedPlaces |->
                                LET o == file[WantedPlaces[j]]
                                IN [id |-> j, size |-> IF hot THEN o.freq ELSE o.size]])
      BY Zenon DEF RankedFrom, Offer
    <3>3. ~(command \in {"bigkey", "hotkey", "prefix"}) => command # "prefix" /\ ~Ranking
      BY DEF Ranking
    <3> QED
      BY <3>1, <3>2, <3>3, Zenon DEF FilteredInOrder, GotWanted
  <2>1. /\ options \in OptionSets /\ options = asked /\ file \in Seq(FileObjects)
        /\ ReachedInv
    BY DEF AnalysesInv, GivenInv, Passed
  <2>2. \A i \in DOMAIN file : file[i].ms \in Nat /\ Representable(file[i])
    <3>1. \A i \in DOMAIN file : file[i] \in FileObjects
      BY <2>1
    <3> QED
      BY <3>1, AnalysesAssumption, FileObject DEF AllRepresentable
  <2>3. \A i \in DOMAIN file : Reaches(file[i]) <=> Wanted(file[i])
    BY <2>1, <2>2, AnalysesAssumption, ReachesAsWanted
  <2>4. {i \in DOMAIN file : Reaches(file[i])} = {i \in DOMAIN file : Wanted(file[i])}
    BY <2>3
  <2>5. ReachedPlaces = WantedPlaces
    BY <2>4, Zenon DEF ReachedPlaces, WantedPlaces
  <2> QED
    BY <2>1, <2>5 DEF ReachedInv
<1> QED
  BY <1>1, AnalysesInvHolds, PTL

(***************************************************************************)
(* SepPrefixAnalyse (prefix_stream.go:56-90): for all keys, separators and *)
(* depths the map counts under every prefix the keys that begin with it,   *)
(* and their bytes; also without a limit, where maxDepth + 1 overflows.    *)
(***************************************************************************)
THEOREM PrefixesCounted == AnalysesSpec => []GroupsCounted
<1>1. AnalysesInv => GroupsCounted
  <2> SUFFICES ASSUME AnalysesInv PROVE GroupsCounted
    OBVIOUS
  <2>1. SepInv /\ state \in {"start", "parse", "done", "refused"}
    BY DEF AnalysesInv, RankInv, IInv, TypeOK
  <2>2. CASE command # "prefix" \/ state \in {"start", "refused"}
    BY <2>1, <2>2, NothingCounted DEF SepInv
  <2>3. CASE command = "prefix" /\ state \in {"parse", "done"}
    BY <2>1, <2>3, AnalysesAssumption, CountedGroups DEF SepInv
  <2> QED
    BY <2>1, <2>2, <2>3
<1> QED
  BY <1>1, AnalysesInvHolds, PTL

(***************************************************************************)
(* The report of SepPrefixAnalyse (prefix_stream.go:95-140): in whatever   *)
(* order the map is walked, the rows are topN of its entries, or all, each *)
(* once, and no entry left out is larger than one of them.                 *)
(***************************************************************************)
THEOREM PrefixesReported == AnalysesSpec => []LargestReported
<1>1. AnalysesInv => LargestReported
  BY DEF AnalysesInv, SepInv
<1> QED
  BY <1>1, AnalysesInvHolds, PTL

-----------------------------------------------------------------------------
(***************************************************************************)
(* Sums over finite sets: of a function of natural numbers v, as the       *)
(* number of units there are, v[n] of each n.                              *)
(***************************************************************************)
Units(v, S) == UNION {{n} \X (1 .. v[n]) : n \in S}
SumOf(v, S) == Cardinality(Units(v, S))

Numbers(v, S) == IsFiniteSet(S) /\ \A n \in S : v[n] \in Nat

LEMMA UnitsAre ==
    ASSUME NEW v, NEW S, Numbers(v, S)
    PROVE  IsFiniteSet(Units(v, S)) /\ SumOf(v, S) \in Nat
<1> DEFINE B(n) == {n} \X (1 .. v[n])
           U == {B(n) : n \in S}
<1>1. IsFiniteSet(S) /\ \A n \in S : v[n] \in Nat
  BY Zenon DEF Numbers
<1>2. \A n \in S : IsFiniteSet(B(n))
  <2> TAKE n \in S
  <2> DEFINE z == v[n]
  <2>1. z \in Nat
    BY <1>1
  <2> HIDE DEF z
  <2>2. IsFiniteSet(1 .. z) /\ IsFiniteSet({n})
    <3>1. IsFiniteSet(1 .. z)
      BY <2>1, FS_Interval
    <3>2. IsFiniteSet({n})
      BY FS_Singleton, Zenon
    <3> QED
      BY <3>1, <3>2
  <2>3. IsFiniteSet({n} \X (1 .. z))
    BY <2>2, FS_Product
  <2> QED
    BY <2>3 DEF z
<1>3. IsFiniteSet(U)
  <2>1. [n \in S |-> B(n)] \in Surjection(S, U)
    BY DEF Surjection
  <2> QED
    BY <1>1, <2>1, FS_Surjection
<1>4. IsFiniteSet(UNION U)
  BY <1>2, <1>3, FS_UNION
<1>5. UNION U = Units(v, S)
  BY Zenon DEF Units
<1>6. IsFiniteSet(Units(v, S))
  BY <1>4, <1>5, Zenon
<1> QED
  BY <1>6, FS_CardinalityType, Zenon DEF SumOf

\* The sum over two sets without a common element.
LEMMA SumUnion ==
    ASSUME NEW v, NEW S, NEW T, Numbers(v, S), Numbers(v, T), S \cap T = {}
    PROVE  SumOf(v, S \cup T) = SumOf(v, S) + SumOf(v, T) /\ Numbers(v, S \cup T)
<1>1. /\ IsFiniteSet(Units(v, S)) /\ SumOf(v, S) \in Nat
      /\ IsFiniteSet(Units(v, T)) /\ SumOf(v, T) \in Nat
  BY UnitsAre, Zenon
<1>2. Units(v, S \cup T) = Units(v, S) \cup Units(v, T)
  BY DEF Units
<1>3. Units(v, S) \cap Units(v, T) = {}
  BY DEF Units
<1> DEFINE A == Units(v, S)
           B == Units(v, T)
<1>4. Cardinality(A \cap B) = 0
  BY <1>3, FS_EmptySet
<1> HIDE DEF A, B
<1>5. Cardinality(A \cup B) = Cardinality(A) + Cardinality(B) - Cardinality(A \cap B)
  BY <1>1, FS_Union, Zenon DEF A, B
<1>6. Cardinality(A) \in Nat /\ Cardinality(B) \in Nat
  BY <1>1, Zenon DEF A, B, SumOf
<1>7. Cardinality(A \cup B) = Cardinality(A) + Cardinality(B)
  BY <1>4, <1>5, <1>6
<1>8. SumOf(v, S \cup T) = SumOf(v, S) + SumOf(v, T)
  BY <1>2, <1>7, Zenon DEF SumOf, A, B
<1>9. IsFiniteSet(S \cup T)
  BY FS_Union, Zenon DEF Numbers
<1> QED
  BY <1>8, <1>9 DEF Numbers

LEMMA SumSame ==
    ASSUME NEW v, NEW w, NEW S, \A n \in S : v[n] = w[n]
    PROVE  SumOf(v, S) = SumOf(w, S)
<1>1. Units(v, S) = Units(w, S)
  BY DEF Units
<1> QED
  BY <1>1, Zenon DEF SumOf

LEMMA SumOne ==
    /\ \A v : SumOf(v, {}) = 0
    /\ \A v, n : v[n] \in Nat => SumOf(v, {n}) = v[n]
<1>1. ASSUME NEW v PROVE SumOf(v, {}) = 0
  <2>1. Units(v, {}) = {}
    BY DEF Units
  <2> QED
    BY <2>1, FS_EmptySet, Zenon DEF SumOf
<1>2. ASSUME NEW v, NEW n, v[n] \in Nat PROVE SumOf(v, {n}) = v[n]
  <2> DEFINE z == v[n]
  <2>1. z \in Nat
    BY <1>2
  <2> HIDE DEF z
  <2>2. IsFiniteSet(1 .. z) /\ Cardinality(1 .. z) = IF 1 > z THEN 0 ELSE z - 1 + 1
    BY <2>1, FS_Interval
  <2>3. Cardinality(1 .. z) = z
    BY <2>1, <2>2
  <2>4. IsFiniteSet({n}) /\ Cardinality({n}) = 1
    BY FS_Singleton
  <2>5. Cardinality({n} \X (1 .. z)) = Cardinality({n}) * Cardinality(1 .. z)
    BY <2>2, <2>4, FS_Product, Zenon
  <2>6. Cardinality({n} \X (1 .. z)) = z
    BY <2>1, <2>3, <2>4, <2>5
  <2>7. Units(v, {n}) = {n} \X (1 .. z)
    BY DEF Units, z
  <2> QED
    BY <2>6, <2>7, Zenon DEF SumOf, z
<1> QED
  BY <1>1, <1>2

\* A sum is 0 only if all are.
LEMMA SumZero ==
    ASSUME NEW v, NEW S, Numbers(v, S)
    PROVE  SumOf(v, S) > 0 <=> \E n \in S : v[n] > 0
<1>1. IsFiniteSet(Units(v, S)) /\ SumOf(v, S) \in Nat /\ \A n \in S : v[n] \in Nat
  BY UnitsAre, Zenon DEF Numbers
<1>2. Units(v, S) = {} <=> SumOf(v, S) = 0
  BY <1>1, FS_EmptySet, Zenon DEF SumOf
<1>3. Units(v, S) # {} <=> \E n \in S : v[n] > 0
  <2>1. ASSUME NEW n \in S, v[n] > 0 PROVE Units(v, S) # {}
    <3>1. 1 \in 1 .. v[n]
      BY <1>1, <2>1
    <3>2. <<n, 1>> \in Units(v, S)
      BY <2>1, <3>1 DEF Units
    <3> QED
      BY <3>2
  <2>2. ASSUME Units(v, S) # {} PROVE \E n \in S : v[n] > 0
    <3>1. PICK n \in S : 1 .. v[n] # {}
      BY <2>2 DEF Units
    <3>2. v[n] \in Nat /\ v[n] > 0
      BY <1>1, <3>1
    <3> QED
      BY <3>2
  <2> QED
    BY <2>1, <2>2
<1> QED
  BY <1>1, <1>2, <1>3

\* MapThenSumSet is the sum: the function it is defined by exists, and is the
\* only one of its kind.
Chosen(s) == CHOOSE x \in s : TRUE
Folds(h, v, S) ==
    h = [s \in SUBSET S |-> IF s = {} THEN 0 ELSE v[Chosen(s)] + h[s \ {Chosen(s)}]]

LEMMA FoldIsSum ==
    ASSUME NEW v, NEW S, Numbers(v, S)
    PROVE  /\ \E h : Folds(h, v, S)
           /\ \A h : Folds(h, v, S) => h[S] = SumOf(v, S)
<1> DEFINE h0 == [s \in SUBSET S |-> SumOf(v, s)]
<1>1. IsFiniteSet(S) /\ \A n \in S : v[n] \in Nat
  BY Zenon DEF Numbers
<1>2. ASSUME NEW s \in SUBSET S PROVE Numbers(v, s) /\ Cardinality(s) \in Nat
  <2>1. IsFiniteSet(s)
    BY <1>1, FS_Subset
  <2> QED
    BY <1>1, <2>1, FS_CardinalityType DEF Numbers
<1>3. ASSUME NEW s \in SUBSET S, s # {}
      PROVE  /\ Chosen(s) \in s /\ s \ {Chosen(s)} \in SUBSET S
             /\ SumOf(v, s) = v[Chosen(s)] + SumOf(v, s \ {Chosen(s)})
             /\ Cardinality(s \ {Chosen(s)}) = Cardinality(s) - 1
  <2> DEFINE x == Chosen(s)
             t == s \ {x}
  <2>1. x \in s
    BY <1>3 DEF Chosen
  <2> HIDE DEF x
  <2>2. t \in SUBSET S /\ {x} \in SUBSET S /\ s = {x} \cup t /\ {x} \cap t = {} /\ v[x] \in Nat
    BY <1>1, <2>1
  <2>3. SumOf(v, {x} \cup t) = SumOf(v, {x}) + SumOf(v, t)
    <3>1. Numbers(v, {x}) /\ Numbers(v, t)
      BY <1>2, <2>2, Zenon
    <3> HIDE DEF t
    <3> QED
      BY <2>2, <3>1, SumUnion, Zenon
  <2>4. SumOf(v, {x}) = v[x]
    BY <2>2, SumOne, Zenon
  <2>5. Cardinality(t) = Cardinality(s) - 1
    <3>1. IsFiniteSet(s)
      BY <1>2 DEF Numbers
    <3> QED
      BY <2>1, <3>1, FS_RemoveElement
  <2> QED
    BY <2>1, <2>2, <2>3, <2>4, <2>5, Zenon DEF x
<1>4. Folds(h0, v, S)
  <2>1. ASSUME NEW s \in SUBSET S
        PROVE  SumOf(v, s) = IF s = {} THEN 0 ELSE v[Chosen(s)] + h0[s \ {Chosen(s)}]
    <3>1. CASE s = {}
      BY <3>1, SumOne
    <3>2. CASE s # {}
      BY <1>3, <3>2
    <3> QED
      BY <3>1, <3>2
  <2> DEFINE g(s) == IF s = {} THEN 0 ELSE v[Chosen(s)] + h0[s \ {Chosen(s)}]
  <2>2. h0 = [s \in SUBSET S |-> g(s)]
    <3>1. \A s \in SUBSET S : SumOf(v, s) = g(s)
      BY <2>1
    <3> HIDE DEF g
    <3> QED
      BY <3>1
  <2> QED
    BY <2>2, Zenon DEF Folds
<1>5. ASSUME NEW h, Folds(h, v, S), NEW s \in SUBSET S PROVE h[s] = SumOf(v, s)
  <2> DEFINE Bad(n) == \E u \in SUBSET S : Cardinality(u) = n /\ h[u] # SumOf(v, u)
             T == {n \in Nat : Bad(n)}
  <2>1. SUFFICES ASSUME T # {} PROVE FALSE
    <3>1. Cardinality(s) \in Nat
      BY <1>2
    <3> QED
      BY <3>1
  <2>2. PICK n \in T : \A m \in T : n <= m
    <3>1. T \in SUBSET Nat
      OBVIOUS
    <3> HIDE DEF T
    <3> QED
      BY <2>1, <3>1, LeastNumber
  <2>3. PICK u \in SUBSET S : Cardinality(u) = n /\ h[u] # SumOf(v, u)
    BY <2>2
  <2> DEFINE x == Chosen(u)
             t == u \ {x}
  <2>4. h[u] = IF u = {} THEN 0 ELSE v[x] + h[t]
    BY <1>5 DEF Folds
  <2>5. u # {}
    BY <2>3, <2>4, SumOne
  <2>6. t \in SUBSET S /\ SumOf(v, u) = v[x] + SumOf(v, t) /\ Cardinality(t) = Cardinality(u) - 1
    BY <1>3, <2>5, Zenon
  <2>7. h[t] # SumOf(v, t)
    BY <2>3, <2>4, <2>5, <2>6
  <2>8. Cardinality(t) \in Nat /\ n \in Nat
    BY <1>2, <2>2, <2>6
  <2>9. Cardinality(t) \in T
    BY <2>6, <2>7, <2>8
  <2> QED
    <3>1. n <= Cardinality(t)
      BY <2>2, <2>9, Zenon
    <3> HIDE DEF T, t
    <3> QED
      BY <2>3, <2>6, <2>8, <3>1
<1> QED
  BY <1>4, <1>5

\* The sums of the flame graph.
LEMMA FlameSum ==
    ASSUME NEW v, NEW S, Numbers(v, S)
    PROVE  Flame!MapThenSumSet(LAMBDA n : v[n], S) = SumOf(v, S)
<1>1. PICK h : h = (CHOOSE k : Folds(k, v, S)) /\ Folds(h, v, S)
  BY FoldIsSum, Zenon
<1>2. Flame!MapThenSumSet(LAMBDA n : v[n], S) = (CHOOSE k : Folds(k, v, S))[S]
  BY Zenon DEF Flame!MapThenSumSet, Flame!MapThenFoldSet, Folds, Chosen
<1> QED
  BY <1>1, <1>2, FoldIsSum, Zenon

LEMMA FlameValues ==
    ASSUME NEW S, S \subseteq DOMAIN tree, Numbers(tree, S)
    PROVE  Flame!ValuesOf(S) = SumOf(tree, S)
<1> DEFINE P(h) == h = [s \in SUBSET S |->
                           IF s = {} THEN 0
                           ELSE Flame!Value(Chosen(s)) + h[s \ {Chosen(s)}]]
<1>1. \A s \in SUBSET S : s # {} => Flame!Value(Chosen(s)) = tree[Chosen(s)]
  BY DEF Chosen, Flame!Value
<1>2. \A h : P(h) <=> Folds(h, tree, S)
  BY <1>1 DEF Folds
<1>3. PICK h : h = (CHOOSE k : P(k)) /\ P(h)
  BY <1>2, FoldIsSum, Zenon
<1>4. Flame!ValuesOf(S) = (CHOOSE k : P(k))[S]
  BY Zenon DEF Flame!ValuesOf, Flame!MapThenSumSet, Flame!MapThenFoldSet, Chosen
<1> QED
  BY <1>2, <1>3, <1>4, FoldIsSum, Zenon

LEMMA FlameSizes ==
    ASSUME NEW objects, NEW S, NEW v, \A i \in S : v[i] = objects[i].size, Numbers(v, S)
    PROVE  Flame!MapThenSumSet(LAMBDA i : objects[i].size, S) = SumOf(v, S)
<1> DEFINE P(h) == h = [s \in SUBSET S |->
                           IF s = {} THEN 0
                           ELSE objects[Chosen(s)].size + h[s \ {Chosen(s)}]]
<1>1. \A s \in SUBSET S : s # {} => objects[Chosen(s)].size = v[Chosen(s)]
  BY DEF Chosen
<1>2. \A h : P(h) <=> Folds(h, v, S)
  BY <1>1 DEF Folds
<1>3. PICK h : h = (CHOOSE k : P(k)) /\ P(h)
  BY <1>2, FoldIsSum, Zenon
<1>4. Flame!MapThenSumSet(LAMBDA i : objects[i].size, S) = (CHOOSE k : P(k))[S]
  BY Zenon DEF Flame!MapThenSumSet, Flame!MapThenFoldSet, Chosen
<1> QED
  BY <1>2, <1>3, <1>4, FoldIsSum, Zenon

-----------------------------------------------------------------------------
(***************************************************************************)
(* Nodes are sequences: what begins what.                                  *)
(***************************************************************************)
Begins(s, t) == Len(s) <= Len(t) /\ \A i \in 1 .. Len(s) : s[i] = t[i]
Strictly(s, t) == Begins(s, t) /\ Len(s) < Len(t)
ChildOf(s, c) == Begins(s, c) /\ Len(c) = Len(s) + 1

LEMMA NodesEqual ==
    ASSUME NEW P, NEW s \in Seq(P), NEW t \in Seq(P), Len(s) = Len(t),
           \A i \in 1 .. Len(s) : s[i] = t[i]
    PROVE  s = t
OBVIOUS

LEMMA NodeStart ==
    ASSUME NEW P, NEW t \in Seq(P), NEW m \in 0 .. Len(t)
    PROVE  /\ SubSeq(t, 1, m) \in Seq(P) /\ Len(SubSeq(t, 1, m)) = m
           /\ Begins(SubSeq(t, 1, m), t)
           /\ \A i \in 1 .. m : SubSeq(t, 1, m)[i] = t[i]
<1>1. Len(t) \in Nat /\ m \in Nat /\ m <= Len(t)
  OBVIOUS
<1>2. SubSeq(t, 1, m) \in Seq(P) /\ Len(SubSeq(t, 1, m)) = m
  BY <1>1
<1>3. \A i \in 1 .. m : SubSeq(t, 1, m)[i] = t[i]
  BY <1>1
<1> DEFINE u == SubSeq(t, 1, m)
<1> HIDE DEF u
<1>4. Begins(u, t)
  BY <1>1, <1>2, <1>3 DEF Begins, u
<1> QED
  BY <1>2, <1>3, <1>4 DEF u

LEMMA NodeOrder ==
    ASSUME NEW P, NEW s \in Seq(P), NEW t \in Seq(P)
    PROVE  /\ Begins(s, s)
           /\ Begins(s, t) /\ Begins(t, s) => s = t
           /\ Begins(s, t) => s = t \/ Strictly(s, t)
           /\ Begins(s, t) /\ Len(s) = Len(t) => s = t
           /\ Begins(s, t) <=> s = SubSeq(t, 1, Len(s)) /\ Len(s) <= Len(t)
<1>1. Begins(s, t) /\ Len(s) = Len(t) => s = t
  BY NodesEqual DEF Begins
<1>2. Len(s) \in Nat /\ Len(t) \in Nat
  OBVIOUS
<1>3. Begins(s, t) => s = SubSeq(t, 1, Len(s)) /\ Len(s) <= Len(t)
  <2> SUFFICES ASSUME Begins(s, t) PROVE s = SubSeq(t, 1, Len(s)) /\ Len(s) <= Len(t)
    OBVIOUS
  <2> DEFINE u == SubSeq(t, 1, Len(s))
  <2>1. Len(s) \in 0 .. Len(t)
    BY <1>2 DEF Begins
  <2>2. u \in Seq(P) /\ Len(u) = Len(s) /\ \A i \in 1 .. Len(s) : u[i] = t[i]
    BY <2>1, NodeStart
  <2> HIDE DEF u
  <2>3. s = u
    BY <2>2, NodesEqual DEF Begins
  <2> QED
    BY <2>1, <2>3 DEF u
<1>4. s = SubSeq(t, 1, Len(s)) /\ Len(s) <= Len(t) => Begins(s, t)
  <2> SUFFICES ASSUME s = SubSeq(t, 1, Len(s)), Len(s) <= Len(t) PROVE Begins(s, t)
    OBVIOUS
  <2>1. Len(s) \in 0 .. Len(t)
    BY <1>2
  <2>2. Begins(SubSeq(t, 1, Len(s)), t)
    BY <2>1, NodeStart
  <2> QED
    BY <2>2, Zenon
<1>5. Begins(s, s)
  BY <1>2 DEF Begins
<1>6. Begins(s, t) /\ Begins(t, s) => Len(s) = Len(t)
  BY <1>2 DEF Begins
<1>7. Begins(s, t) => Len(s) = Len(t) \/ Len(s) < Len(t)
  BY <1>2 DEF Begins
<1> QED
  BY <1>1, <1>3, <1>4, <1>5, <1>6, <1>7, Zenon DEF Strictly

LEMMA NodeTwice ==
    ASSUME NEW P, NEW s \in Seq(P), NEW t \in Seq(P), NEW u \in Seq(P)
    PROVE  /\ Begins(s, t) /\ Begins(t, u) => Begins(s, u)
           /\ Begins(s, t) /\ Strictly(t, u) => Strictly(s, u)
           /\ Strictly(s, t) /\ Begins(t, u) => Strictly(s, u)
           /\ Begins(s, u) /\ Begins(t, u) /\ Len(s) <= Len(t) => Begins(s, t)
<1>1. Len(s) \in Nat /\ Len(t) \in Nat /\ Len(u) \in Nat
  OBVIOUS
<1>2. Begins(s, t) /\ Begins(t, u) => Begins(s, u)
  BY <1>1 DEF Begins
<1>3. Begins(s, u) /\ Begins(t, u) /\ Len(s) <= Len(t) => Begins(s, t)
  BY <1>1 DEF Begins
<1>4. /\ Begins(s, t) /\ Len(t) < Len(u) => Len(s) < Len(u)
      /\ Len(s) < Len(t) /\ Begins(t, u) => Len(s) < Len(u)
  BY <1>1 DEF Begins
<1> QED
  BY <1>2, <1>3, <1>4 DEF Strictly

\* Children, and the child on the way to what is strictly below.
LEMMA NodeChild ==
    ASSUME NEW P, NEW s \in Seq(P)
    PROVE  /\ \A c \in Seq(P) : c # << >> => (Flame!Front(c) = s <=> ChildOf(s, c))
           /\ \A x \in P : /\ Append(s, x) \in Seq(P) /\ ChildOf(s, Append(s, x))
                           /\ Append(s, x)[Len(s) + 1] = x /\ Append(s, x) # << >>
                           /\ Len(Append(s, x)) = Len(s) + 1
           /\ \A c \in Seq(P), x \in P : ChildOf(s, c) /\ c[Len(s) + 1] = x => c = Append(s, x)
           /\ \A c \in Seq(P) : ChildOf(s, c) => Strictly(s, c) /\ c # << >>
           /\ \A n \in Seq(P) : Strictly(s, n) =>
                  \E c \in Seq(P) : ChildOf(s, c) /\ Begins(c, n) /\ c = SubSeq(n, 1, Len(s) + 1)
<1>1. Len(s) \in Nat
  OBVIOUS
<1>2. ASSUME NEW c \in Seq(P), c # << >>
      PROVE  Flame!Front(c) = s <=> ChildOf(s, c)
  <2>1. Len(c) \in Nat /\ Len(c) > 0 /\ Len(c) - 1 \in 0 .. Len(c)
    BY <1>2
  <2>2. Flame!Front(c) = SubSeq(c, 1, Len(c) - 1)
    BY Zenon DEF Flame!Front
  <2>3. Begins(s, c) <=> s = SubSeq(c, 1, Len(s)) /\ Len(s) <= Len(c)
    BY NodeOrder, Zenon
  <2>4. Len(SubSeq(c, 1, Len(c) - 1)) = Len(c) - 1
    BY <2>1, NodeStart
  <2>5. ASSUME Flame!Front(c) = s PROVE ChildOf(s, c)
    <3>1. Len(s) = Len(c) - 1
      BY <2>2, <2>4, <2>5, Zenon
    <3>2. Begins(s, c)
      BY <2>1, <2>2, <2>3, <2>5, <3>1
    <3> QED
      BY <1>1, <2>1, <3>1, <3>2 DEF ChildOf
  <2>6. ASSUME ChildOf(s, c) PROVE Flame!Front(c) = s
    <3>1. Len(s) = Len(c) - 1 /\ Begins(s, c)
      BY <1>1, <2>1, <2>6 DEF ChildOf
    <3> QED
      BY <2>2, <2>3, <3>1, Zenon
  <2> QED
    BY <2>5, <2>6
<1>3. ASSUME NEW x \in P
      PROVE  /\ Append(s, x) \in Seq(P) /\ ChildOf(s, Append(s, x))
             /\ Append(s, x)[Len(s) + 1] = x /\ Append(s, x) # << >>
             /\ Len(Append(s, x)) = Len(s) + 1
  <2> DEFINE a == Append(s, x)
  <2>1. /\ a \in Seq(P) /\ Len(a) = Len(s) + 1 /\ a[Len(s) + 1] = x
        /\ \A i \in 1 .. Len(s) : a[i] = s[i]
    BY AppendProperties
  <2> HIDE DEF a
  <2>2. ChildOf(s, a) /\ a # << >>
    BY <1>1, <2>1 DEF ChildOf, Begins
  <2> QED
    BY <2>1, <2>2 DEF a
<1>4. ASSUME NEW c \in Seq(P), NEW x \in P, ChildOf(s, c), c[Len(s) + 1] = x
      PROVE  c = Append(s, x)
  <2> DEFINE a == Append(s, x)
  <2>1. /\ a \in Seq(P) /\ Len(a) = Len(s) + 1 /\ a[Len(s) + 1] = x
        /\ \A i \in 1 .. Len(s) : a[i] = s[i]
    BY AppendProperties
  <2> HIDE DEF a
  <2>2. Len(c) = Len(s) + 1 /\ \A i \in 1 .. Len(s) : c[i] = s[i]
    BY <1>4 DEF ChildOf, Begins
  <2>3. \A i \in 1 .. Len(c) : c[i] = a[i]
    BY <1>1, <1>4, <2>1, <2>2
  <2>4. c = a
    BY <2>1, <2>2, <2>3, NodesEqual
  <2> QED
    BY <2>4 DEF a
<1>5. ASSUME NEW c \in Seq(P), ChildOf(s, c)
      PROVE  Strictly(s, c) /\ c # << >>
  BY <1>1, <1>5 DEF ChildOf, Strictly
<1>6. ASSUME NEW n \in Seq(P), Strictly(s, n)
      PROVE  \E c \in Seq(P) : ChildOf(s, c) /\ Begins(c, n) /\ c = SubSeq(n, 1, Len(s) + 1)
  <2> DEFINE m == Len(s) + 1
             c == SubSeq(n, 1, m)
  <2>1. m \in 0 .. Len(n)
    BY <1>1, <1>6 DEF Strictly
  <2>2. c \in Seq(P) /\ Len(c) = m /\ Begins(c, n) /\ \A i \in 1 .. m : c[i] = n[i]
    BY <2>1, NodeStart
  <2> HIDE DEF c
  <2>3. ChildOf(s, c)
    BY <1>1, <1>6, <2>2 DEF ChildOf, Strictly, Begins
  <2> QED
    BY <2>2, <2>3 DEF c
<1> QED
  BY <1>2, <1>3, <1>4, <1>5, <1>6

LEMMA NodePrefixes ==
    ASSUME NEW P, NEW t \in Seq(P)
    PROVE  /\ \A s \in Seq(P) : Flame!IsPrefix(s, t) <=> Begins(s, t)
           /\ \A s : s \in Flame!Prefixes(t) <=> s \in Seq(P) /\ Begins(s, t)
           /\ IsFiniteSet(Flame!Prefixes(t))
<1>1. Len(t) \in Nat
  OBVIOUS
<1>2. ASSUME NEW s \in Seq(P) PROVE Flame!IsPrefix(s, t) <=> Begins(s, t)
  <2>1. SubSeq(s, 1, Len(s)) = s
    OBVIOUS
  <2>2. Flame!IsPrefix(s, t) <=> Len(s) <= Len(t) /\ SubSeq(s, 1, Len(s)) = SubSeq(t, 1, Len(s))
    BY Zenon DEF Flame!IsPrefix
  <2>3. Begins(s, t) <=> s = SubSeq(t, 1, Len(s)) /\ Len(s) <= Len(t)
    BY NodeOrder, Zenon
  <2> QED
    BY <2>1, <2>2, <2>3, Zenon
<1> DEFINE S == {SubSeq(t, 1, l) : l \in 0 .. Len(t)}
<1>3. Flame!Prefixes(t) = S
  BY Zenon DEF Flame!Prefixes
<1>4. ASSUME NEW s PROVE s \in S <=> s \in Seq(P) /\ Begins(s, t)
  <2>1. ASSUME s \in S PROVE s \in Seq(P) /\ Begins(s, t)
    BY <2>1, NodeStart
  <2>2. ASSUME s \in Seq(P), Begins(s, t) PROVE s \in S
    <3>1. s = SubSeq(t, 1, Len(s)) /\ Len(s) <= Len(t)
      BY <2>2, NodeOrder, Zenon
    <3>2. Len(s) \in 0 .. Len(t)
      BY <1>1, <2>2, <3>1
    <3> QED
      BY <3>1, <3>2, Zenon
  <2> QED
    BY <2>1, <2>2
<1>5. IsFiniteSet(S)
  <2>1. IsFiniteSet(0 .. Len(t))
    BY <1>1, FS_Interval
  <2>2. [l \in 0 .. Len(t) |-> SubSeq(t, 1, l)] \in Surjection(0 .. Len(t), S)
    BY DEF Surjection
  <2> HIDE DEF S
  <2> QED
    BY <2>1, <2>2, FS_Surjection
<1> HIDE DEF S
<1> QED
  BY <1>2, <1>3, <1>4, <1>5

-----------------------------------------------------------------------------
(***************************************************************************)
(* Trimming.  W is the whole tree, T what it has become, q the nodes to    *)
(* come; P are the parts of which nodes are made.                          *)
(***************************************************************************)
TreeOf(T, P) ==
    /\ DOMAIN T \subseteq Seq(P) \ {<< >>} /\ IsFiniteSet(DOMAIN T)
    /\ \A n \in DOMAIN T : T[n] \in Nat

\* Where there is a node, there are those on the way to it.
WholeTree(W, P) ==
    /\ TreeOf(W, P)
    /\ \A n \in DOMAIN W, s \in Seq(P) : s # << >> /\ Begins(s, n) => s \in DOMAIN W

Kids(T, s) == {n \in DOMAIN T : ChildOf(s, n)}
SmallOf(T, s) == {n \in Kids(T, s) : Kids(T, n) = {} /\ T[n] < bigNodeThreshold}
OthersOf(s) == Append(s, Others)
Clash(W, s) ==
    /\ OthersOf(s) \in Kids(W, s) \ SmallOf(W, s)
    /\ \E n \in SmallOf(W, s) : W[n] > 0

\* What is at or below a child "others" that is replaced.
Gone(W, P, n) == \E s \in Seq(P) : Clash(W, s) /\ Begins(OthersOf(s), n)

Pending(q, n) == \E i \in 1 .. Len(q) : Begins(q[i], n)
SumKept(W, T, n) ==
    SumOf(T, Kids(T, n)) =
        SumOf(W, Kids(W, n)) - (IF Clash(W, n) THEN W[OthersOf(n)] ELSE 0)

\* Strictly below s, T is like W.
LikeBelow(P, W, T, s) ==
    \A n \in Seq(P) :
        Strictly(s, n) => /\ n \in DOMAIN T <=> n \in DOMAIN W
                          /\ n \in DOMAIN W => T[n] = W[n]

Ahead(P, W, T, s) ==
    IF Gone(W, P, s) THEN \A n \in DOMAIN T : ~Strictly(s, n) ELSE LikeBelow(P, W, T, s)

Separate(q) == \A i, j \in 1 .. Len(q) : i # j => ~Begins(q[i], q[j])

Behind(P, W, T, q) ==
    \A n \in DOMAIN W : Kids(W, n) # {} /\ ~Gone(W, P, n) =>
        n \in DOMAIN T /\ (~Pending(q, n) => SumKept(W, T, n))

FromWhole(W, T) ==
    \A n \in DOMAIN T : n[Len(n)] = Others \/ (n \in DOMAIN W /\ T[n] = W[n])

TrimInv(P, W, T, q) ==
    /\ TreeOf(T, P)
    /\ q \in Seq(Seq(P)) /\ Separate(q)
    /\ \A i \in 1 .. Len(q) : Ahead(P, W, T, q[i])
    /\ Behind(P, W, T, q)
    /\ FromWhole(W, T)

\* A turn: T becomes R and q becomes r.
Lists(order, S) ==
    /\ order \in Seq(S)
    /\ \A i, j \in 1 .. Len(order) : i # j => order[i] # order[j]
    /\ \A x \in S : \E i \in 1 .. Len(order) : order[i] = x

Replaces(T, s) ==
    IF SumOf(T, SmallOf(T, s)) > 0 THEN {n \in DOMAIN T : Begins(OthersOf(s), n)} ELSE {}
Stays(T, s) == DOMAIN T \ (SmallOf(T, s) \cup Replaces(T, s))

Turn(T, s, R) ==
    /\ DOMAIN R = Stays(T, s) \cup (IF SumOf(T, SmallOf(T, s)) > 0 THEN {OthersOf(s)} ELSE {})
    /\ \A n \in DOMAIN R : R[n] = IF n \in Stays(T, s) THEN T[n] ELSE SumOf(T, SmallOf(T, s))

LEMMA SmallSum ==
    ASSUME NEW P, NEW T, TreeOf(T, P), NEW s
    PROVE  /\ Numbers(T, Kids(T, s)) /\ Numbers(T, SmallOf(T, s))
           /\ SumOf(T, SmallOf(T, s)) \in Nat
           /\ SumOf(T, SmallOf(T, s)) > 0 <=> \E n \in SmallOf(T, s) : T[n] > 0
<1>1. Kids(T, s) \subseteq DOMAIN T /\ SmallOf(T, s) \subseteq DOMAIN T
  BY DEF Kids, SmallOf
<1>2. ASSUME NEW S \in SUBSET DOMAIN T PROVE Numbers(T, S)
  <2>1. IsFiniteSet(S)
    BY FS_Subset, Zenon DEF TreeOf
  <2> QED
    BY <2>1 DEF TreeOf, Numbers
<1>3. Numbers(T, Kids(T, s)) /\ Numbers(T, SmallOf(T, s))
  BY <1>1, <1>2, Zenon
<1> QED
  BY <1>3, UnitsAre, SumZero, Zenon

\* What a turn does, node by node.
LEMMA TurnShape ==
    ASSUME NEW P, Others \in P, NEW T, TreeOf(T, P), NEW s \in Seq(P), NEW R, Turn(T, s, R)
    PROVE  /\ TreeOf(R, P)
           /\ \A n \in Seq(P) : ~Strictly(s, n) =>
                  /\ n \in DOMAIN R <=> n \in DOMAIN T
                  /\ n \in DOMAIN T => R[n] = T[n]
           /\ \A n \in DOMAIN R : n[Len(n)] = Others \/ (n \in DOMAIN T /\ R[n] = T[n])
<1> DEFINE small == SmallOf(T, s)
           sum == SumOf(T, small)
           o == OthersOf(s)
           K == Stays(T, s)
<1>1. sum \in Nat
  BY SmallSum, Zenon
<1>2. o \in Seq(P) /\ o # << >> /\ Strictly(s, o) /\ o[Len(o)] = Others
  <2>1. o \in Seq(P) /\ ChildOf(s, o) /\ o # << >> /\ o[Len(s) + 1] = Others /\ Len(o) = Len(s) + 1
    BY NodeChild DEF OthersOf
  <2>2. Strictly(s, o)
    BY <2>1, NodeChild, Zenon
  <2> QED
    BY <2>1, <2>2, Zenon
<1>3. K \subseteq DOMAIN T /\ IsFiniteSet(K)
  <2>1. K \subseteq DOMAIN T
    BY DEF Stays
  <2> QED
    BY <2>1, FS_Subset, Zenon DEF TreeOf
<1>4. /\ DOMAIN R = K \cup (IF sum > 0 THEN {o} ELSE {})
      /\ \A n \in DOMAIN R : R[n] = IF n \in K THEN T[n] ELSE sum
  BY Zenon DEF Turn
<1>5. ASSUME NEW n \in Seq(P), n \in DOMAIN T, n \notin K PROVE Strictly(s, n)
  <2>1. n \in small \/ Begins(o, n)
    BY <1>5 DEF Stays, Replaces
  <2>2. n \in small => ChildOf(s, n)
    BY DEF SmallOf, Kids
  <2>3. n \in small => Strictly(s, n)
    BY <1>5, <2>2, NodeChild, Zenon
  <2>4. Begins(o, n) => Strictly(s, n)
    BY <1>2, <1>5, NodeTwice, Zenon
  <2> QED
    BY <2>1, <2>3, <2>4, Zenon
<1> HIDE DEF small, sum, o, K
<1>6. IsFiniteSet(DOMAIN R)
  <2>1. IsFiniteSet({o})
    BY FS_Singleton, Zenon
  <2>2. IsFiniteSet(K \cup {o})
    BY <1>3, <2>1, FS_Union, Zenon
  <2>3. DOMAIN R \in SUBSET (K \cup {o})
    BY <1>4
  <2> QED
    BY <2>2, <2>3, FS_Subset, Zenon
<1>7. TreeOf(R, P)
  BY <1>1, <1>2, <1>3, <1>4, <1>6 DEF TreeOf
<1>8. \A n \in Seq(P) : ~Strictly(s, n) =>
                  /\ n \in DOMAIN R <=> n \in DOMAIN T
                  /\ n \in DOMAIN T => R[n] = T[n]
  BY <1>2, <1>3, <1>4, <1>5
<1>9. \A n \in DOMAIN R : n[Len(n)] = Others \/ (n \in DOMAIN T /\ R[n] = T[n])
  BY <1>2, <1>3, <1>4
<1> QED
  BY <1>7, <1>8, <1>9, Zenon

\* What is below a lost node is lost, and a child of a kept one only by its name.
LEMMA GoneBelow ==
    ASSUME NEW P, Others \in P, NEW W, NEW n \in Seq(P), Gone(W, P, n), NEW m \in Seq(P)
    PROVE  /\ Begins(n, m) => Gone(W, P, m)
           /\ ChildOf(m, n) => Gone(W, P, m) \/ (Clash(W, m) /\ n = OthersOf(m))
<1>1. PICK t \in Seq(P) : Clash(W, t) /\ Begins(OthersOf(t), n)
  BY Zenon DEF Gone
<1>2. /\ OthersOf(t) \in Seq(P) /\ ChildOf(t, OthersOf(t)) /\ Len(OthersOf(t)) = Len(t) + 1
  BY NodeChild DEF OthersOf
<1> DEFINE o == OthersOf(t)
<1>3. Begins(n, m) => Gone(W, P, m)
  <2> SUFFICES ASSUME Begins(n, m) PROVE Gone(W, P, m)
    OBVIOUS
  <2>1. Begins(o, m)
    BY <1>1, <1>2, NodeTwice, Zenon
  <2> QED
    BY <1>1, <2>1, Zenon DEF Gone
<1>4. ChildOf(m, n) => Gone(W, P, m) \/ (Clash(W, m) /\ n = OthersOf(m))
  <2> SUFFICES ASSUME ChildOf(m, n) PROVE Gone(W, P, m) \/ (Clash(W, m) /\ n = OthersOf(m))
    OBVIOUS
  <2>1. Begins(m, n) /\ Len(n) = Len(m) + 1
    BY Zenon DEF ChildOf
  <2>2. Begins(t, o) /\ Begins(t, n)
    <3>1. Begins(t, o)
      BY <1>2, Zenon DEF ChildOf
    <3> QED
      BY <1>1, <1>2, <3>1, NodeTwice, Zenon
  <2> HIDE DEF o
  <2>3. Len(m) \in Nat /\ Len(t) \in Nat /\ Len(o) <= Len(n)
    BY <1>1 DEF Begins, o
  <2>4. CASE Len(t) = Len(m)
    <3>1. t = m
      <4>1. Begins(t, m)
        BY <2>1, <2>2, <2>3, <2>4, NodeTwice
      <4> QED
        BY <2>4, <4>1, NodeOrder, Zenon
    <3>2. o = n
      BY <1>1, <1>2, <2>1, <2>4, NodeOrder, Zenon DEF o
    <3> QED
      BY <1>1, <3>1, <3>2, Zenon DEF o
  <2>5. CASE Len(t) # Len(m)
    <3>1. Len(o) <= Len(m)
      BY <1>2, <2>1, <2>3, <2>5 DEF o
    <3>2. Begins(o, m)
      BY <1>1, <1>2, <2>1, <3>1, NodeTwice, Zenon DEF o
    <3> QED
      BY <1>1, <3>2, Zenon DEF o, Gone
  <2> QED
    BY <2>4, <2>5, Zenon
<1> QED
  BY <1>3, <1>4, Zenon

\* The nodes to come after a turn: those that were, and the children.
Follows(S, q, order, r) ==
    /\ r \in Seq(S)
    /\ \A i \in 1 .. Len(r) :
           \/ i + 1 \in 1 .. Len(q) /\ r[i] = q[i + 1]
           \/ i - (Len(q) - 1) \in 1 .. Len(order) /\ r[i] = order[i - (Len(q) - 1)]
    /\ \A j \in 2 .. Len(q) : \E i \in 1 .. Len(r) : r[i] = q[j]
    /\ \A j \in 1 .. Len(order) : \E i \in 1 .. Len(r) : r[i] = order[j]

LEMMA QueueGoes ==
    ASSUME NEW S, NEW q \in Seq(S), q # << >>, NEW order \in Seq(S)
    PROVE  Follows(S, q, order, Tail(q) \o order)
<1> DEFINE r == Tail(q) \o order
<1>1. Len(q) \in Nat /\ Len(q) > 0 /\ Len(order) \in Nat
  OBVIOUS
<1>2. /\ Tail(q) \in Seq(S) /\ Len(Tail(q)) = Len(q) - 1
      /\ \A i \in 1 .. Len(q) - 1 : Tail(q)[i] = q[i + 1]
  BY <1>1
<1> DEFINE u == Tail(q)
<1> HIDE DEF u
<1>3. /\ r \in Seq(S) /\ Len(r) = Len(q) - 1 + Len(order)
      /\ \A i \in 1 .. Len(q) - 1 : r[i] = u[i]
      /\ \A i \in 1 .. Len(r) : i > Len(q) - 1 => r[i] = order[i - (Len(q) - 1)]
  <2> HIDE DEF r
  <2>1. r = u \o order /\ u \in Seq(S) /\ Len(u) = Len(q) - 1
    BY <1>2, Zenon DEF u, r
  <2> QED
    BY <1>1, <2>1
<1> HIDE DEF r
<1>4. \A i \in 1 .. Len(q) - 1 : r[i] = q[i + 1]
  BY <1>2, <1>3 DEF u
<1>5. \A i \in 1 .. Len(r) :
          \/ i + 1 \in 1 .. Len(q) /\ r[i] = q[i + 1]
          \/ i - (Len(q) - 1) \in 1 .. Len(order) /\ r[i] = order[i - (Len(q) - 1)]
  BY <1>1, <1>3, <1>4
<1>6. ASSUME NEW j \in 2 .. Len(q) PROVE \E i \in 1 .. Len(r) : r[i] = q[j]
  <2>1. j - 1 \in 1 .. Len(r) /\ r[j - 1] = q[j]
    BY <1>1, <1>3, <1>4
  <2> QED
    BY <2>1
<1>7. ASSUME NEW j \in 1 .. Len(order) PROVE \E i \in 1 .. Len(r) : r[i] = order[j]
  <2>1. j + (Len(q) - 1) \in 1 .. Len(r) /\ r[j + (Len(q) - 1)] = order[j]
    BY <1>1, <1>3
  <2> QED
    BY <2>1
<1> QED
  BY <1>3, <1>5, <1>6, <1>7, Zenon DEF Follows, r

\* A turn at a node that is lost changes nothing.
LEMMA TurnGone ==
    ASSUME NEW P, Others \in P, NEW W, WholeTree(W, P), NEW T, NEW q, TrimInv(P, W, T, q),
           q # << >>, Gone(W, P, q[1]), NEW R, Turn(T, q[1], R),
           NEW order, Lists(order, Kids(T, q[1])), NEW r, r = Tail(q) \o order
    PROVE  TrimInv(P, W, R, r)
<1> DEFINE s == q[1]
           S == Seq(P)
<1>1. q \in Seq(S) /\ TreeOf(T, P) /\ s \in S /\ Len(q) \in Nat /\ 1 \in 1 .. Len(q)
  <2>1. q \in Seq(S) /\ TreeOf(T, P)
    BY Zenon DEF TrimInv
  <2> QED
    BY <2>1
<1>2. Kids(T, s) = {} /\ SmallOf(T, s) = {}
  <2>1. \A n \in DOMAIN T : ~Strictly(s, n)
    BY <1>1, Zenon DEF TrimInv, Ahead
  <2>2. \A n \in DOMAIN T : ~ChildOf(s, n)
    BY <1>1, <2>1, NodeChild DEF TreeOf
  <2> QED
    BY <2>2 DEF Kids, SmallOf
<1>3. SumOf(T, SmallOf(T, s)) = 0
  BY <1>2, SumOne, Zenon
<1>4. DOMAIN R = DOMAIN T /\ \A n \in DOMAIN R : R[n] = T[n]
  <2>1. ~(SumOf(T, SmallOf(T, s)) > 0)
    BY ONLY <1>3
  <2>2. Replaces(T, s) = {}
    BY <2>1, Zenon DEF Replaces
  <2>3. Stays(T, s) = DOMAIN T
    BY ONLY <1>2, <2>2 DEF Stays
  <2>4. /\ DOMAIN R = Stays(T, s) \cup {}
        /\ \A n \in DOMAIN R : R[n] = IF n \in Stays(T, s) THEN T[n] ELSE SumOf(T, SmallOf(T, s))
    BY <2>1, Zenon DEF Turn
  <2> QED
    BY ONLY <2>3, <2>4
<1>5. TreeOf(R, P)
  BY <1>1, TurnShape, Zenon
<1>6. order \in Seq(S) /\ Len(order) = 0
  <2>1. order \in Seq({})
    BY <1>2, Zenon DEF Lists
  <2>2. order = << >>
    BY <2>1
  <2> QED
    BY <2>2
<1>7. /\ r \in Seq(S)
      /\ \A i \in 1 .. Len(r) : i + 1 \in 1 .. Len(q) /\ r[i] = q[i + 1]
      /\ \A j \in 2 .. Len(q) : \E i \in 1 .. Len(r) : r[i] = q[j]
  <2> HIDE DEF S, s
  <2>1. /\ Tail(q) \in Seq(S) /\ Len(Tail(q)) = Len(q) - 1
        /\ \A i \in 1 .. Len(q) - 1 : Tail(q)[i] = q[i + 1]
    BY <1>1
  <2>2. Tail(q) \o order = Tail(q)
    BY <1>6, <2>1
  <2>3. r = Tail(q)
    BY <2>2, Zenon
  <2>4. ASSUME NEW j \in 2 .. Len(q) PROVE j - 1 \in 1 .. Len(r) /\ r[j - 1] = q[j]
    BY <1>1, <2>1, <2>3
  <2>5. \A i \in 1 .. Len(r) : i + 1 \in 1 .. Len(q) /\ r[i] = q[i + 1]
    BY <1>1, <2>1, <2>3
  <2> QED
    BY <2>1, <2>3, <2>4, <2>5, Zenon
<1>8. Separate(r)
  <2>1. Separate(q)
    BY Zenon DEF TrimInv
  <2> SUFFICES ASSUME NEW i \in 1 .. Len(r), NEW j \in 1 .. Len(r), i # j
               PROVE  ~Begins(r[i], r[j])
    BY DEF Separate
  <2>2. /\ i + 1 \in 1 .. Len(q) /\ r[i] = q[i + 1] /\ j + 1 \in 1 .. Len(q) /\ r[j] = q[j + 1]
    BY <1>7, Zenon
  <2>3. i + 1 # j + 1
    OBVIOUS
  <2>4. ~Begins(q[i + 1], q[j + 1])
    BY <2>1, <2>2, <2>3, Zenon DEF Separate
  <2> QED
    BY <2>2, <2>4, Zenon
<1>9. ASSUME NEW i \in 1 .. Len(r) PROVE Ahead(P, W, R, r[i])
  <2>1. PICK j \in 1 .. Len(q) : r[i] = q[j]
    BY <1>7, Zenon
  <2>2. Ahead(P, W, T, q[j])
    BY Zenon DEF TrimInv
  <2>3. Ahead(P, W, R, q[j])
    BY <1>4, <2>2 DEF Ahead, LikeBelow
  <2> QED
    BY <2>1, <2>3, Zenon
<1>10. Behind(P, W, R, r)
  <2> SUFFICES ASSUME NEW n \in DOMAIN W, Kids(W, n) # {}, ~Gone(W, P, n)
               PROVE  n \in DOMAIN R /\ (~Pending(r, n) => SumKept(W, R, n))
    BY Zenon DEF Behind
  <2>1. n \in DOMAIN T /\ (~Pending(q, n) => SumKept(W, T, n))
    BY Zenon DEF TrimInv, Behind
  <2>2. ~Begins(s, n)
    <3>1. n \in Seq(P)
      BY DEF WholeTree, TreeOf
    <3> QED
      BY <1>1, <3>1, GoneBelow, Zenon
  <2>3. ~Pending(r, n) => ~Pending(q, n)
    <3> SUFFICES ASSUME NEW j \in 1 .. Len(q), Begins(q[j], n) PROVE Pending(r, n)
      BY DEF Pending
    <3>1. j # 1
      BY <2>2, Zenon
    <3>2. j \in 2 .. Len(q)
      BY <1>1, <3>1
    <3>3. PICK i \in 1 .. Len(r) : r[i] = q[j]
      BY <1>7, <3>2, Zenon
    <3> QED
      BY <3>3, Zenon DEF Pending
  <2>4. Kids(R, n) = Kids(T, n)
    BY <1>4 DEF Kids
  <2>5. SumOf(R, Kids(T, n)) = SumOf(T, Kids(T, n))
    <3>1. \A m \in Kids(T, n) : R[m] = T[m]
      BY <1>4 DEF Kids
    <3> QED
      BY <3>1, SumSame, Zenon
  <2>6. SumKept(W, T, n) => SumKept(W, R, n)
    BY <2>4, <2>5, Zenon DEF SumKept
  <2> QED
    BY <1>4, <2>1, <2>3, <2>6, Zenon
<1>11. FromWhole(W, R)
  BY <1>4, Zenon DEF TrimInv, FromWhole
<1> QED
  BY <1>5, <1>7, <1>8, <1>9, <1>10, <1>11, Zenon DEF TrimInv

LEMMA WholeBelow ==
    ASSUME NEW P, NEW W, WholeTree(W, P), NEW s \in Seq(P), NEW n \in DOMAIN W
    PROVE  /\ n \in Seq(P)
           /\ Strictly(s, n) => \E c \in Kids(W, s) : Begins(c, n)
           /\ Begins(s, n) /\ Kids(W, s) = {} => n = s
<1>1. n \in Seq(P)
  BY DEF WholeTree, TreeOf
<1>2. Strictly(s, n) => \E c \in Kids(W, s) : Begins(c, n)
  <2> SUFFICES ASSUME Strictly(s, n) PROVE \E c \in Kids(W, s) : Begins(c, n)
    OBVIOUS
  <2>1. PICK c \in Seq(P) : ChildOf(s, c) /\ Begins(c, n)
    BY <1>1, NodeChild, Zenon
  <2>2. c # << >>
    BY <2>1, NodeChild, Zenon
  <2>3. c \in DOMAIN W
    BY <2>1, <2>2, Zenon DEF WholeTree
  <2> QED
    BY <2>1, <2>3 DEF Kids
<1>3. Begins(s, n) => s = n \/ Strictly(s, n)
  BY <1>1, NodeOrder, Zenon
<1> QED
  BY <1>1, <1>2, <1>3

\* Where T is like W, so are the children and the small leaves.
LEMMA KidsBelow ==
    ASSUME NEW P, NEW W, WholeTree(W, P), NEW T, TreeOf(T, P), NEW s \in Seq(P),
           LikeBelow(P, W, T, s)
    PROVE  /\ Kids(T, s) = Kids(W, s) /\ SmallOf(T, s) = SmallOf(W, s)
           /\ \A n \in Kids(W, s) : n \in Seq(P) /\ T[n] = W[n] /\ Strictly(s, n)
           /\ SumOf(T, SmallOf(T, s)) = SumOf(W, SmallOf(W, s))
<1>1. /\ \A n \in DOMAIN T : n \in Seq(P)
      /\ \A n \in DOMAIN W : n \in Seq(P)
  BY DEF WholeTree, TreeOf
<1>2. ASSUME NEW n \in Seq(P), ChildOf(s, n)
      PROVE  /\ Strictly(s, n)
             /\ n \in DOMAIN T <=> n \in DOMAIN W
             /\ n \in DOMAIN W => T[n] = W[n]
             /\ Kids(T, n) = Kids(W, n)
  <2>1. Strictly(s, n)
    BY <1>2, NodeChild, Zenon
  <2>2. ASSUME NEW m \in Seq(P), ChildOf(n, m) PROVE m \in DOMAIN T <=> m \in DOMAIN W
    <3>1. Strictly(n, m)
      BY <2>2, NodeChild, Zenon
    <3>2. Begins(n, m)
      BY <3>1, Zenon DEF Strictly
    <3>3. Strictly(s, m)
      BY <2>1, <3>2, NodeTwice, Zenon
    <3> QED
      BY <3>3, Zenon DEF LikeBelow
  <2>3. Kids(T, n) = Kids(W, n)
    BY <1>1, <2>2 DEF Kids
  <2> QED
    BY <2>1, <2>3, Zenon DEF LikeBelow
<1>3. Kids(T, s) = Kids(W, s)
  <2>1. \A n : n \in Kids(T, s) <=> n \in DOMAIN T /\ ChildOf(s, n)
    BY DEF Kids
  <2>2. \A n : n \in Kids(W, s) <=> n \in DOMAIN W /\ ChildOf(s, n)
    BY DEF Kids
  <2>3. \A n : n \in Kids(T, s) <=> n \in Kids(W, s)
    BY <1>1, <1>2, <2>1, <2>2, Zenon
  <2> QED
    BY <2>3
<1>4. \A n \in Kids(W, s) : n \in Seq(P) /\ T[n] = W[n] /\ Strictly(s, n) /\ Kids(T, n) = Kids(W, n)
  <2>1. \A n \in Kids(W, s) : n \in DOMAIN W /\ ChildOf(s, n)
    BY DEF Kids
  <2> QED
    BY <1>1, <1>2, <2>1, Zenon
<1>5. SmallOf(T, s) = SmallOf(W, s)
  BY <1>3, <1>4 DEF SmallOf
<1>6. SumOf(T, SmallOf(T, s)) = SumOf(W, SmallOf(W, s))
  <2>1. \A n \in SmallOf(W, s) : T[n] = W[n]
    BY <1>4 DEF SmallOf
  <2>2. SumOf(T, SmallOf(W, s)) = SumOf(W, SmallOf(W, s))
    BY <2>1, SumSame, Zenon
  <2> QED
    BY <1>5, <2>2, Zenon
<1> QED
  BY <1>3, <1>4, <1>5, <1>6, Zenon

\* What a turn leaves below a node that is kept.
LEMMA TurnBelow ==
    ASSUME NEW P, Others \in P, NEW W, WholeTree(W, P), NEW T, TreeOf(T, P), NEW s \in Seq(P),
           LikeBelow(P, W, T, s), NEW R, Turn(T, s, R),
           NEW sum, sum = SumOf(W, SmallOf(W, s)), NEW o, o = OthersOf(s)
    PROVE  /\ sum \in Nat /\ (sum > 0 <=> \E n \in SmallOf(W, s) : W[n] > 0)
           /\ o \in Seq(P) /\ ChildOf(s, o) /\ Begins(o, o)
           /\ \A n \in Seq(P) : Strictly(s, n) =>
                  (n \in DOMAIN R <=>
                      \/ n \in DOMAIN W /\ n \notin SmallOf(W, s) /\ ~(sum > 0 /\ Begins(o, n))
                      \/ sum > 0 /\ n = o)
           /\ \A n \in Seq(P) : Strictly(s, n) /\ n \in DOMAIN R =>
                  R[n] = IF sum > 0 /\ n = o THEN sum ELSE W[n]
<1>1. TreeOf(W, P)
  BY Zenon DEF WholeTree
<1>2. sum \in Nat /\ (sum > 0 <=> \E n \in SmallOf(W, s) : W[n] > 0)
  BY <1>1, SmallSum, Zenon
<1>3. SmallOf(T, s) = SmallOf(W, s) /\ SumOf(T, SmallOf(T, s)) = sum
  <2>1. WholeTree(W, P) /\ TreeOf(T, P) /\ s \in Seq(P) /\ LikeBelow(P, W, T, s)
    OBVIOUS
  <2>2. /\ Kids(T, s) = Kids(W, s) /\ SmallOf(T, s) = SmallOf(W, s)
        /\ \A n \in Kids(W, s) : n \in Seq(P) /\ T[n] = W[n] /\ Strictly(s, n)
        /\ SumOf(T, SmallOf(T, s)) = SumOf(W, SmallOf(W, s))
    BY ONLY <2>1, KidsBelow
  <2> QED
    BY <2>2, Zenon
<1>4. o \in Seq(P) /\ ChildOf(s, o) /\ Begins(o, o)
  <2>1. o \in Seq(P) /\ ChildOf(s, o)
    BY NodeChild, Zenon DEF OthersOf
  <2> QED
    BY <2>1, NodeOrder, Zenon
<1> DEFINE K == Stays(T, s)
<1>5. \A n : n \in K <=> n \in DOMAIN T /\ n \notin SmallOf(W, s) /\ ~(sum > 0 /\ Begins(o, n))
  BY <1>3 DEF Stays, Replaces
<1>6. /\ DOMAIN R = K \cup (IF sum > 0 THEN {o} ELSE {})
      /\ \A n \in DOMAIN R : R[n] = IF n \in K THEN T[n] ELSE sum
  BY <1>3, Zenon DEF Turn
<1> HIDE DEF K
<1>7. ASSUME NEW n \in Seq(P), Strictly(s, n)
      PROVE  (n \in DOMAIN T <=> n \in DOMAIN W) /\ (n \in DOMAIN W => T[n] = W[n])
  BY <1>7, Zenon DEF LikeBelow
<1>8. ASSUME NEW n \in Seq(P), Strictly(s, n)
      PROVE  n \in DOMAIN R <=>
                 \/ n \in DOMAIN W /\ n \notin SmallOf(W, s) /\ ~(sum > 0 /\ Begins(o, n))
                 \/ sum > 0 /\ n = o
  BY <1>5, <1>6, <1>7, <1>8
<1>9. ASSUME NEW n \in Seq(P), Strictly(s, n), n \in DOMAIN R
      PROVE  R[n] = IF sum > 0 /\ n = o THEN sum ELSE W[n]
  BY <1>4, <1>5, <1>6, <1>7, <1>9
<1> QED
  BY <1>2, <1>4, <1>8, <1>9, Zenon

\* The sum below the node of the turn.
LEMMA TurnSum ==
    ASSUME NEW P, Others \in P, NEW W, WholeTree(W, P), NEW T, TreeOf(T, P), NEW s \in Seq(P),
           LikeBelow(P, W, T, s), NEW R, Turn(T, s, R)
    PROVE  SumKept(W, R, s)
<1> DEFINE small == SmallOf(W, s)
           kids == Kids(W, s)
           sum == SumOf(W, SmallOf(W, s))
           o == OthersOf(s)
           rest == (kids \ small) \ {o}
<1>1. /\ sum \in Nat /\ (sum > 0 <=> \E n \in small : W[n] > 0)
      /\ o \in Seq(P) /\ ChildOf(s, o) /\ Begins(o, o)
      /\ \A n \in Seq(P) : Strictly(s, n) =>
             (n \in DOMAIN R <=>
                 \/ n \in DOMAIN W /\ n \notin small /\ ~(sum > 0 /\ Begins(o, n))
                 \/ sum > 0 /\ n = o)
      /\ \A n \in Seq(P) : Strictly(s, n) /\ n \in DOMAIN R =>
             R[n] = IF sum > 0 /\ n = o THEN sum ELSE W[n]
  <2>1. sum = SumOf(W, SmallOf(W, s)) /\ o = OthersOf(s)
    OBVIOUS
  <2> HIDE DEF sum, o, small
  <2>2. /\ Others \in P /\ WholeTree(W, P) /\ TreeOf(T, P) /\ s \in Seq(P) /\ LikeBelow(P, W, T, s)
        /\ Turn(T, s, R) /\ sum = SumOf(W, SmallOf(W, s)) /\ o = OthersOf(s)
    BY <2>1
  <2>3. /\ sum \in Nat /\ (sum > 0 <=> \E n \in SmallOf(W, s) : W[n] > 0)
        /\ o \in Seq(P) /\ ChildOf(s, o) /\ Begins(o, o)
        /\ \A n \in Seq(P) : Strictly(s, n) =>
               (n \in DOMAIN R <=>
                   \/ n \in DOMAIN W /\ n \notin SmallOf(W, s) /\ ~(sum > 0 /\ Begins(o, n))
                   \/ sum > 0 /\ n = o)
        /\ \A n \in Seq(P) : Strictly(s, n) /\ n \in DOMAIN R =>
               R[n] = IF sum > 0 /\ n = o THEN sum ELSE W[n]
    BY ONLY <2>2, TurnBelow
  <2> QED
    BY <2>3, Zenon DEF small
<1>2. /\ small \subseteq kids /\ Numbers(W, kids) /\ Numbers(W, small)
      /\ \A n \in kids : n \in Seq(P) /\ Strictly(s, n) /\ ChildOf(s, n) /\ n \in DOMAIN W
  <2>1. TreeOf(W, P)
    BY Zenon DEF WholeTree
  <2>2. Numbers(W, kids) /\ Numbers(W, small)
    BY <2>1, SmallSum, Zenon
  <2>3. small \subseteq kids /\ \A n \in kids : ChildOf(s, n) /\ n \in DOMAIN W
    BY DEF SmallOf, Kids
  <2>4. \A n \in kids : n \in Seq(P)
    BY <2>1, <2>3 DEF TreeOf
  <2>5. \A n \in kids : Strictly(s, n)
    BY <2>3, <2>4, NodeChild, Zenon
  <2> QED
    BY <2>2, <2>3, <2>4, <2>5, Zenon
<1>3. Strictly(s, o)
  BY <1>1, NodeChild, Zenon
<1>4. \A n \in Seq(P) : ChildOf(s, n) => (Begins(o, n) <=> n = o)
  <2> SUFFICES ASSUME NEW n \in Seq(P), ChildOf(s, n) PROVE Begins(o, n) <=> n = o
    OBVIOUS
  <2>1. Len(o) = Len(n)
    BY <1>1, Zenon DEF ChildOf
  <2>2. Begins(o, n) => o = n
    BY <1>1, <2>1, NodeOrder, Zenon
  <2> QED
    BY <1>1, <2>2, Zenon
<1>5. \A n : n \in Kids(R, s) <=> n \in DOMAIN R /\ ChildOf(s, n)
  BY DEF Kids
<1>6. \A n \in DOMAIN R : n \in Seq(P)
  <2>1. TreeOf(R, P)
    BY TurnShape, Zenon
  <2> QED
    BY <2>1 DEF TreeOf
<1>7. \A n \in Seq(P) : ChildOf(s, n) => Strictly(s, n)
  BY NodeChild, Zenon
<1>8. \A n : n \in kids <=> n \in DOMAIN W /\ ChildOf(s, n)
  BY DEF Kids
<1>9. \A n : n \in Kids(R, s) <=>
                 \/ n \in kids /\ n \notin small /\ ~(sum > 0 /\ n = o)
                 \/ sum > 0 /\ n = o
  BY <1>1, <1>2, <1>3, <1>4, <1>5, <1>6, <1>7, <1>8, Zenon
<1>10. \A n \in Kids(R, s) : R[n] = IF sum > 0 /\ n = o THEN sum ELSE W[n]
  BY <1>1, <1>5, <1>6, <1>7, Zenon
<1>11. Clash(W, s) <=> o \in kids /\ o \notin small /\ sum > 0
  BY <1>1 DEF Clash
<1>12. ASSUME NEW A \in SUBSET kids PROVE Numbers(W, A) /\ SumOf(W, A) \in Nat
  <2>1. Numbers(W, A)
    BY <1>2, FS_Subset DEF Numbers
  <2> QED
    BY <2>1, UnitsAre, Zenon
<1> HIDE DEF small, kids, sum, o
<1>13. SumOf(W, kids) = sum + SumOf(W, kids \ small)
  <2>1. kids = small \cup (kids \ small) /\ small \cap (kids \ small) = {} /\ kids \ small \in SUBSET kids
    BY <1>2
  <2>2. Numbers(W, kids \ small)
    BY <1>12, <2>1, Zenon
  <2>3. SumOf(W, small \cup (kids \ small)) = SumOf(W, small) + SumOf(W, kids \ small)
    BY <1>2, <2>1, <2>2, SumUnion, Zenon
  <2> QED
    BY <2>1, <2>3, Zenon DEF sum, small
<1>14. CASE ~(sum > 0)
  <2>1. Kids(R, s) = kids \ small
    BY <1>9, <1>14
  <2>2. \A n \in kids \ small : R[n] = W[n]
    BY <1>10, <1>14, <2>1, Zenon
  <2>3. SumOf(R, kids \ small) = SumOf(W, kids \ small)
    BY <2>2, SumSame, Zenon
  <2>4. SumOf(W, kids \ small) \in Nat
    BY <1>12
  <2>5. SumOf(R, Kids(R, s)) = SumOf(W, kids) - 0
    BY <1>1, <1>13, <1>14, <2>1, <2>3, <2>4
  <2> QED
    BY <1>11, <1>14, <2>5, Zenon DEF SumKept, kids
<1>15. CASE sum > 0
  <2>1. Kids(R, s) = rest \cup {o} /\ rest \cap {o} = {}
    BY <1>9, <1>15
  <2>2. /\ \A n \in rest : R[n] = W[n]
        /\ R[o] = sum
    BY <1>10, <1>15, <2>1
  <2>3. SumOf(R, rest) = SumOf(W, rest)
    BY <2>2, SumSame, Zenon
  <2>4. Numbers(W, rest) /\ SumOf(W, rest) \in Nat
    BY <1>12
  <2>5. Numbers(R, rest) /\ Numbers(R, {o})
    <3>1. Numbers(R, rest)
      BY <2>2, <2>4 DEF Numbers
    <3>2. IsFiniteSet({o})
      BY FS_Singleton, Zenon
    <3> QED
      BY <1>1, <2>2, <3>1, <3>2 DEF Numbers
  <2>6. SumOf(R, {o}) = sum
    BY <1>1, <2>2, SumOne, Zenon
  <2> HIDE DEF rest
  <2>7. SumOf(R, rest \cup {o}) = SumOf(R, rest) + SumOf(R, {o})
    BY <2>1, <2>5, SumUnion, Zenon
  <2>8. SumOf(R, Kids(R, s)) = SumOf(W, rest) + sum
    BY <2>1, <2>3, <2>6, <2>7, Zenon
  <2>9. CASE Clash(W, s)
    <3>1. kids \ small = rest \cup {o}
      BY <1>11, <2>9 DEF rest
    <3>2. W[o] \in Nat /\ Numbers(W, {o})
      <4>1. {o} \in SUBSET kids
        BY <1>11, <2>9
      <4> QED
        BY <1>12, <4>1 DEF Numbers
    <3>3. SumOf(W, {o}) = W[o]
      BY <3>2, SumOne, Zenon
    <3>4. SumOf(W, rest \cup {o}) = SumOf(W, rest) + SumOf(W, {o})
      BY <2>1, <2>4, <3>2, SumUnion, Zenon
    <3>5. SumOf(W, kids) = sum + (SumOf(W, rest) + W[o])
      BY <1>13, <3>1, <3>3, <3>4, Zenon
    <3>6. SumOf(R, Kids(R, s)) = SumOf(W, kids) - W[o]
      BY <1>1, <2>4, <2>8, <3>2, <3>5
    <3> QED
      BY <2>9, <3>6, Zenon DEF SumKept, kids, o
  <2>10. CASE ~Clash(W, s)
    <3>1. kids \ small = rest
      BY <1>11, <1>15, <2>10 DEF rest
    <3>2. SumOf(W, kids) = sum + SumOf(W, rest)
      BY <1>13, <3>1, Zenon
    <3>3. SumOf(R, Kids(R, s)) = SumOf(W, kids) - 0
      BY <1>1, <2>4, <2>8, <3>2
    <3> QED
      BY <2>10, <3>3, Zenon DEF SumKept, kids
  <2> QED
    BY <2>9, <2>10, Zenon
<1> QED
  BY <1>14, <1>15, Zenon

\* Two nodes of which neither begins the other have nothing in common below.
LEMMA NodesApart ==
    ASSUME NEW P, NEW s \in Seq(P), NEW t \in Seq(P), ~Begins(s, t), ~Begins(t, s)
    PROVE  \A n \in Seq(P) : ~(Begins(s, n) /\ Begins(t, n))
<1> SUFFICES ASSUME NEW n \in Seq(P), Begins(s, n), Begins(t, n) PROVE FALSE
  OBVIOUS
<1>1. Len(s) \in Nat /\ Len(t) \in Nat
  OBVIOUS
<1>2. Len(s) <= Len(t) \/ Len(t) <= Len(s)
  BY <1>1
<1>3. Len(s) <= Len(t) => Begins(s, t)
  BY NodeTwice, Zenon
<1>4. Len(t) <= Len(s) => Begins(t, s)
  BY NodeTwice, Zenon
<1> QED
  BY <1>2, <1>3, <1>4, Zenon

\* The nodes to come: old ones, apart from the node of the turn, and children.
Coming(P, q, kids, r) ==
    /\ r \in Seq(Seq(P)) /\ Separate(r)
    /\ \A i \in 1 .. Len(r) : r[i] \in kids \/ \E j \in 1 .. Len(q) : j # 1 /\ r[i] = q[j]
    /\ \A c \in kids : \E i \in 1 .. Len(r) : r[i] = c
    /\ \A j \in 1 .. Len(q) : j # 1 => \E i \in 1 .. Len(r) : r[i] = q[j]
    /\ \A j \in 1 .. Len(q) : j # 1 => ~Begins(q[j], q[1]) /\ ~Begins(q[1], q[j])

LEMMA TurnQueue ==
    ASSUME NEW P, NEW q \in Seq(Seq(P)), q # << >>, Separate(q),
           NEW kids \in SUBSET Seq(P), \A c \in kids : ChildOf(q[1], c),
           NEW order, Lists(order, kids), NEW r, r = Tail(q) \o order
    PROVE  Coming(P, q, kids, r)
<1> DEFINE S == Seq(P)
           s == q[1]
           l == Len(q) - 1
<1>1. Len(q) \in Nat /\ Len(q) > 0 /\ 1 \in 1 .. Len(q) /\ s \in S
  OBVIOUS
<1>2. order \in Seq(S) /\ Len(order) \in Nat /\ \A i \in 1 .. Len(order) : order[i] \in kids
  <2>1. order \in Seq(kids)
    BY Zenon DEF Lists
  <2> QED
    BY <2>1
<1> HIDE DEF S, s
<1>3. /\ r \in Seq(S)
      /\ \A i \in 1 .. Len(r) :
             \/ i + 1 \in 1 .. Len(q) /\ r[i] = q[i + 1]
             \/ i - l \in 1 .. Len(order) /\ r[i] = order[i - l]
      /\ \A j \in 2 .. Len(q) : \E i \in 1 .. Len(r) : r[i] = q[j]
      /\ \A j \in 1 .. Len(order) : \E i \in 1 .. Len(r) : r[i] = order[j]
  <2>1. q \in Seq(S) /\ q # << >> /\ order \in Seq(S) /\ r = Tail(q) \o order
    BY <1>2, Zenon DEF S
  <2>2. Follows(S, q, order, r)
    BY ONLY <2>1, QueueGoes, Zenon
  <2> QED
    BY <2>2, Zenon DEF Follows
<1>4. Len(r) \in Nat
  BY <1>3
<1>5. ASSUME NEW j \in 1 .. Len(q), j # 1
      PROVE  q[j] \in S /\ ~Begins(q[j], s) /\ ~Begins(s, q[j]) /\ j \in 2 .. Len(q)
  <2>1. q[j] \in S
    BY DEF S
  <2>2. ~Begins(q[j], s) /\ ~Begins(s, q[j])
    BY <1>1, <1>5, Zenon DEF Separate, s
  <2>3. j \in 2 .. Len(q)
    BY <1>1, <1>5
  <2> QED
    BY <2>1, <2>2, <2>3, Zenon
<1>6. ASSUME NEW c \in kids
      PROVE  c \in S /\ Begins(s, c) /\ Len(c) = Len(s) + 1
  BY DEF S, s, ChildOf
<1>7. ASSUME NEW c \in kids, NEW j \in 1 .. Len(q), j # 1
      PROVE  ~Begins(c, q[j]) /\ ~Begins(q[j], c)
  <2>1. ~Begins(c, q[j])
    BY <1>1, <1>5, <1>6, <1>7, NodeTwice, Zenon DEF S
  <2>2. ~Begins(q[j], c)
    BY <1>1, <1>5, <1>6, <1>7, NodesApart, Zenon DEF S
  <2> QED
    BY <2>1, <2>2, Zenon
<1>8. ASSUME NEW c \in kids, NEW d \in kids, Begins(c, d) PROVE c = d
  <2>1. Len(c) = Len(d)
    BY <1>6, Zenon
  <2> QED
    BY <1>6, <1>8, <2>1, NodeOrder, Zenon DEF S
<1>9. Separate(r)
  <2> SUFFICES ASSUME NEW i \in 1 .. Len(r), NEW k \in 1 .. Len(r), i # k
               PROVE  ~Begins(r[i], r[k])
    BY DEF Separate
  <2>1. /\ \/ i + 1 \in 1 .. Len(q) /\ r[i] = q[i + 1]
           \/ i - l \in 1 .. Len(order) /\ r[i] = order[i - l]
        /\ \/ k + 1 \in 1 .. Len(q) /\ r[k] = q[k + 1]
           \/ k - l \in 1 .. Len(order) /\ r[k] = order[k - l]
    BY <1>3, Zenon
  <2>2. i + 1 # k + 1 /\ i + 1 # 1 /\ k + 1 # 1 /\ i - l # k - l
    BY <1>1
  <2>3. CASE i + 1 \in 1 .. Len(q) /\ r[i] = q[i + 1] /\ k + 1 \in 1 .. Len(q) /\ r[k] = q[k + 1]
    <3>1. ~Begins(q[i + 1], q[k + 1])
      BY <2>2, <2>3, Zenon DEF Separate
    <3> QED
      BY <2>3, <3>1, Zenon
  <2>4. CASE i + 1 \in 1 .. Len(q) /\ r[i] = q[i + 1] /\ k - l \in 1 .. Len(order) /\ r[k] = order[k - l]
    BY <1>2, <1>7, <2>2, <2>4, Zenon
  <2>5. CASE i - l \in 1 .. Len(order) /\ r[i] = order[i - l] /\ k + 1 \in 1 .. Len(q) /\ r[k] = q[k + 1]
    BY <1>2, <1>7, <2>2, <2>5, Zenon
  <2>6. CASE /\ i - l \in 1 .. Len(order) /\ r[i] = order[i - l]
             /\ k - l \in 1 .. Len(order) /\ r[k] = order[k - l]
    <3>1. order[i - l] # order[k - l]
      BY <2>2, <2>6, Zenon DEF Lists
    <3> QED
      BY <1>2, <1>8, <2>6, <3>1, Zenon
  <2> QED
    BY <2>1, <2>3, <2>4, <2>5, <2>6, Zenon
<1>10. ASSUME NEW i \in 1 .. Len(r)
       PROVE  r[i] \in kids \/ \E j \in 1 .. Len(q) : j # 1 /\ r[i] = q[j]
  <2>1. i + 1 # 1
    OBVIOUS
  <2> QED
    BY <1>2, <1>3, <2>1, Zenon
<1>11. ASSUME NEW c \in kids PROVE \E i \in 1 .. Len(r) : r[i] = c
  <2>1. PICK j \in 1 .. Len(order) : order[j] = c
    BY Zenon DEF Lists
  <2> QED
    BY <1>3, <2>1, Zenon
<1>12. \A j \in 1 .. Len(q) : j # 1 => \E i \in 1 .. Len(r) : r[i] = q[j]
  BY <1>3, <1>5, Zenon
<1> QED
  BY <1>3, <1>5, <1>9, <1>10, <1>11, <1>12, Zenon DEF Coming, S, s

LEMMA TurnAhead ==
    ASSUME NEW P, Others \in P, NEW W, WholeTree(W, P), NEW T, NEW q, TrimInv(P, W, T, q),
           q # << >>, ~Gone(W, P, q[1]), LikeBelow(P, W, T, q[1]), NEW R, Turn(T, q[1], R),
           NEW r, Coming(P, q, Kids(W, q[1]), r)
    PROVE  \A i \in 1 .. Len(r) : Ahead(P, W, R, r[i])
<1> DEFINE s == q[1]
           sum == SumOf(W, SmallOf(W, s))
           o == OthersOf(s)
<1>1. q \in Seq(Seq(P)) /\ TreeOf(T, P) /\ s \in Seq(P) /\ TreeOf(R, P)
  <2>1. q \in Seq(Seq(P)) /\ TreeOf(T, P)
    BY Zenon DEF TrimInv
  <2>2. s \in Seq(P)
    BY <2>1
  <2> QED
    BY <2>1, <2>2, TurnShape, Zenon
<1>2. \A n \in DOMAIN R : n \in Seq(P)
  BY <1>1 DEF TreeOf
<1> HIDE DEF sum, o, s
<1>3. /\ sum \in Nat /\ (sum > 0 <=> \E n \in SmallOf(W, s) : W[n] > 0)
      /\ o \in Seq(P) /\ ChildOf(s, o) /\ Begins(o, o)
      /\ \A n \in Seq(P) : Strictly(s, n) =>
             (n \in DOMAIN R <=>
                 \/ n \in DOMAIN W /\ n \notin SmallOf(W, s) /\ ~(sum > 0 /\ Begins(o, n))
                 \/ sum > 0 /\ n = o)
      /\ \A n \in Seq(P) : Strictly(s, n) /\ n \in DOMAIN R =>
             R[n] = IF sum > 0 /\ n = o THEN sum ELSE W[n]
  <2>1. /\ Others \in P /\ WholeTree(W, P) /\ TreeOf(T, P) /\ s \in Seq(P) /\ LikeBelow(P, W, T, s)
        /\ Turn(T, s, R) /\ sum = SumOf(W, SmallOf(W, s)) /\ o = OthersOf(s)
    BY <1>1 DEF sum, o, s
  <2> QED
    BY ONLY <2>1, TurnBelow
<1>4. ASSUME NEW j \in 1 .. Len(q), j # 1 PROVE Ahead(P, W, R, q[j])
  <2>1. ~Begins(q[j], s) /\ ~Begins(s, q[j]) /\ q[j] \in Seq(P)
    <3>1. q[j] \in Seq(P)
      BY <1>1
    <3> QED
      BY <1>4, <3>1, Zenon DEF Coming, s
  <2>2. ASSUME NEW n \in Seq(P), Strictly(q[j], n)
        PROVE  (n \in DOMAIN R <=> n \in DOMAIN T) /\ (n \in DOMAIN T => R[n] = T[n])
    <3>1. ~Begins(s, n)
      BY <1>1, <2>1, <2>2, NodesApart, Zenon DEF Strictly
    <3>2. ~Strictly(s, n)
      BY <3>1, Zenon DEF Strictly
    <3>3. Turn(T, s, R)
      BY DEF s
    <3>4. Others \in P /\ TreeOf(T, P) /\ s \in Seq(P) /\ Turn(T, s, R) /\ n \in Seq(P) /\ ~Strictly(s, n)
      BY <1>1, <3>2, <3>3
    <3> QED
      BY ONLY <3>4, TurnShape
  <2>3. Ahead(P, W, T, q[j])
    BY Zenon DEF TrimInv
  <2>4. CASE Gone(W, P, q[j])
    <3>1. \A n \in DOMAIN T : ~Strictly(q[j], n)
      BY <2>3, <2>4, Zenon DEF Ahead
    <3>2. \A n \in DOMAIN R : ~Strictly(q[j], n)
      BY <1>2, <2>2, <3>1, Zenon
    <3> QED
      BY <2>4, <3>2, Zenon DEF Ahead
  <2>5. CASE ~Gone(W, P, q[j])
    <3>1. LikeBelow(P, W, T, q[j])
      BY <2>3, <2>5, Zenon DEF Ahead
    <3>2. LikeBelow(P, W, R, q[j])
      <4> SUFFICES ASSUME NEW n \in Seq(P), Strictly(q[j], n)
                   PROVE  (n \in DOMAIN R <=> n \in DOMAIN W) /\ (n \in DOMAIN W => R[n] = W[n])
        BY DEF LikeBelow
      <4>1. (n \in DOMAIN T <=> n \in DOMAIN W) /\ (n \in DOMAIN W => T[n] = W[n])
        BY <3>1, Zenon DEF LikeBelow
      <4>2. (n \in DOMAIN R <=> n \in DOMAIN T) /\ (n \in DOMAIN T => R[n] = T[n])
        BY <2>2, Zenon
      <4> QED
        BY <4>1, <4>2
    <3> QED
      BY <2>5, <3>2, Zenon DEF Ahead
  <2> QED
    BY <2>4, <2>5, Zenon
<1>5. ASSUME NEW c \in Kids(W, s) PROVE Ahead(P, W, R, c)
  <2>1. c \in DOMAIN W /\ ChildOf(s, c)
    BY DEF Kids
  <2>2. c \in Seq(P) /\ Strictly(s, c) /\ Len(c) = Len(s) + 1 /\ Len(o) = Len(c)
    <3>1. c \in Seq(P)
      BY <2>1 DEF WholeTree, TreeOf
    <3> QED
      BY <1>1, <1>3, <2>1, <3>1, NodeChild, Zenon DEF ChildOf
  <2>3. ASSUME NEW n \in Seq(P), Strictly(c, n)
        PROVE  /\ Strictly(s, n) /\ n # o /\ n \notin SmallOf(W, s)
               /\ Begins(o, n) => o = c
    <3>1. Strictly(s, n) /\ Begins(c, n) /\ Len(c) < Len(n)
      BY <1>1, <2>2, <2>3, NodeTwice, Zenon DEF Strictly
    <3>2. Len(n) # Len(c)
      BY <2>2, <3>1
    <3>3. n # o
      BY <2>2, <3>2, Zenon
    <3>4. n \notin SmallOf(W, s)
      BY <2>2, <3>2, Zenon DEF SmallOf, Kids, ChildOf
    <3>5. Begins(o, n) => o = c
      <4> SUFFICES ASSUME Begins(o, n) PROVE o = c
        OBVIOUS
      <4>1. Len(o) <= Len(c)
        BY <2>2
      <4>2. Begins(o, c)
        BY <1>3, <2>2, <3>1, <4>1, NodeTwice, Zenon
      <4> QED
        BY <1>3, <2>2, <4>2, NodeOrder, Zenon
    <3> QED
      BY <3>1, <3>3, <3>4, <3>5, Zenon
  <2>4. CASE Gone(W, P, c)
    <3>1. Clash(W, s) /\ c = o
      <4>1. Gone(W, P, s) \/ (Clash(W, s) /\ c = OthersOf(s))
        BY <1>1, <2>1, <2>2, <2>4, GoneBelow, Zenon
      <4> QED
        BY <4>1, Zenon DEF s, o
    <3>2. sum > 0
      BY <1>3, <3>1, Zenon DEF Clash
    <3>3. \A n \in DOMAIN R : ~Strictly(c, n)
      <4> SUFFICES ASSUME NEW n \in DOMAIN R, Strictly(c, n) PROVE FALSE
        OBVIOUS
      <4>1. n \in Seq(P) /\ Begins(o, n)
        BY <1>2, <3>1, Zenon DEF Strictly
      <4> QED
        BY <1>3, <2>3, <3>2, <4>1, Zenon
    <3> QED
      BY <2>4, <3>3, Zenon DEF Ahead
  <2>5. CASE ~Gone(W, P, c)
    <3>1. LikeBelow(P, W, R, c)
      <4> SUFFICES ASSUME NEW n \in Seq(P), Strictly(c, n)
                   PROVE  (n \in DOMAIN R <=> n \in DOMAIN W) /\ (n \in DOMAIN W => R[n] = W[n])
        BY DEF LikeBelow
      <4>1. n \in DOMAIN W => ~(sum > 0 /\ Begins(o, n))
        <5> SUFFICES ASSUME n \in DOMAIN W, sum > 0, Begins(o, n) PROVE FALSE
          OBVIOUS
        <5>1. o = c
          BY <2>3, Zenon
        <5>2. Kids(W, c) # {}
          BY <2>2, WholeBelow
        <5>3. c \notin SmallOf(W, s)
          BY <5>2, Zenon DEF SmallOf
        <5>4. Clash(W, s)
          BY <1>3, <5>1, <5>3 DEF Clash, o
        <5>5. Gone(W, P, c)
          BY <1>1, <1>3, <5>1, <5>4, Zenon DEF Gone, o
        <5> QED
          BY <2>5, <5>5, Zenon
      <4>2. Strictly(s, n) /\ n # o /\ n \notin SmallOf(W, s)
        BY <2>3, Zenon
      <4> QED
        BY <1>3, <4>1, <4>2, Zenon
    <3> QED
      BY <2>5, <3>1, Zenon DEF Ahead
  <2> QED
    BY <2>4, <2>5, Zenon
<1> QED
  <2>1. \A i \in 1 .. Len(r) : r[i] \in Kids(W, s) \/ \E j \in 1 .. Len(q) : j # 1 /\ r[i] = q[j]
    BY Zenon DEF Coming, s
  <2> QED
    BY <1>4, <1>5, <2>1, Zenon

LEMMA TurnBehind ==
    ASSUME NEW P, Others \in P, NEW W, WholeTree(W, P), NEW T, NEW q, TrimInv(P, W, T, q),
           q # << >>, ~Gone(W, P, q[1]), LikeBelow(P, W, T, q[1]), NEW R, Turn(T, q[1], R),
           NEW r, Coming(P, q, Kids(W, q[1]), r)
    PROVE  Behind(P, W, R, r)
<1> DEFINE s == q[1]
           sum == SumOf(W, SmallOf(W, s))
           o == OthersOf(s)
<1>1. q \in Seq(Seq(P)) /\ TreeOf(T, P) /\ s \in Seq(P) /\ TreeOf(R, P) /\ 1 \in 1 .. Len(q)
  <2>1. q \in Seq(Seq(P)) /\ TreeOf(T, P)
    BY Zenon DEF TrimInv
  <2>2. s \in Seq(P) /\ 1 \in 1 .. Len(q)
    BY <2>1
  <2> QED
    BY <2>1, <2>2, TurnShape, Zenon
<1> HIDE DEF sum, o, s
<1>2. /\ sum \in Nat /\ (sum > 0 <=> \E n \in SmallOf(W, s) : W[n] > 0)
      /\ o \in Seq(P) /\ ChildOf(s, o) /\ Begins(o, o)
      /\ \A n \in Seq(P) : Strictly(s, n) =>
             (n \in DOMAIN R <=>
                 \/ n \in DOMAIN W /\ n \notin SmallOf(W, s) /\ ~(sum > 0 /\ Begins(o, n))
                 \/ sum > 0 /\ n = o)
      /\ \A n \in Seq(P) : Strictly(s, n) /\ n \in DOMAIN R =>
             R[n] = IF sum > 0 /\ n = o THEN sum ELSE W[n]
  <2>1. /\ Others \in P /\ WholeTree(W, P) /\ TreeOf(T, P) /\ s \in Seq(P) /\ LikeBelow(P, W, T, s)
        /\ Turn(T, s, R) /\ sum = SumOf(W, SmallOf(W, s)) /\ o = OthersOf(s)
    BY <1>1 DEF sum, o, s
  <2> QED
    BY ONLY <2>1, TurnBelow
<1>3. \A n \in Seq(P) : ~Strictly(s, n) =>
          /\ n \in DOMAIN R <=> n \in DOMAIN T
          /\ n \in DOMAIN T => R[n] = T[n]
  <2>1. Others \in P /\ TreeOf(T, P) /\ s \in Seq(P) /\ Turn(T, s, R)
    BY <1>1 DEF s
  <2> QED
    BY ONLY <2>1, TurnShape
<1> SUFFICES ASSUME NEW n \in DOMAIN W, Kids(W, n) # {}, ~Gone(W, P, n)
             PROVE  n \in DOMAIN R /\ (~Pending(r, n) => SumKept(W, R, n))
  BY Zenon DEF Behind
<1>4. n \in Seq(P) /\ n # << >>
  BY DEF WholeTree, TreeOf
<1>5. n \in DOMAIN T /\ (~Pending(q, n) => SumKept(W, T, n))
  BY Zenon DEF TrimInv, Behind
<1>6. n \in DOMAIN R
  <2>1. CASE ~Strictly(s, n)
    BY <1>3, <1>4, <1>5, <2>1, Zenon
  <2>2. CASE Strictly(s, n)
    <3>1. n \notin SmallOf(W, s)
      BY Zenon DEF SmallOf
    <3>2. ~(sum > 0 /\ Begins(o, n))
      <4> SUFFICES ASSUME sum > 0, Begins(o, n) PROVE FALSE
        OBVIOUS
      <4>1. o # << >>
        BY <1>1, <1>2, NodeChild, Zenon
      <4>2. o \in DOMAIN W
        BY <1>2, <4>1, Zenon DEF WholeTree
      <4>3. o \in Kids(W, s)
        BY <1>2, <4>2 DEF Kids
      <4>4. Kids(W, o) # {}
        <5> SUFFICES ASSUME Kids(W, o) = {} PROVE FALSE
          OBVIOUS
        <5>1. n = o
          BY <1>2, WholeBelow
        <5> QED
          BY <5>1, Zenon
      <4>5. o \notin SmallOf(W, s)
        BY <4>4, Zenon DEF SmallOf
      <4>6. Clash(W, s)
        BY <1>2, <4>3, <4>5 DEF Clash, o
      <4>7. Gone(W, P, n)
        BY <1>1, <4>6, Zenon DEF Gone, o
      <4> QED
        BY <4>7, Zenon
    <3> QED
      BY <1>2, <1>4, <2>2, <3>1, <3>2, Zenon
  <2> QED
    BY <2>1, <2>2, Zenon
<1>7. ASSUME ~Pending(r, n) PROVE SumKept(W, R, n)
  <2>1. CASE Begins(s, n)
    <3>1. ~Strictly(s, n)
      <4> SUFFICES ASSUME Strictly(s, n) PROVE FALSE
        OBVIOUS
      <4>1. PICK c \in Kids(W, s) : Begins(c, n)
        BY <1>1, WholeBelow
      <4>2. PICK i \in 1 .. Len(r) : r[i] = c
        BY Zenon DEF Coming, s
      <4> QED
        BY <1>7, <4>1, <4>2, Zenon DEF Pending
    <3>2. n = s
      BY <1>1, <1>4, <2>1, <3>1, NodeOrder, Zenon
    <3>3. SumKept(W, R, s)
      <4>1. /\ Others \in P /\ WholeTree(W, P) /\ TreeOf(T, P) /\ s \in Seq(P)
            /\ LikeBelow(P, W, T, s) /\ Turn(T, s, R)
        BY <1>1 DEF s
      <4> QED
        BY ONLY <4>1, TurnSum, Zenon
    <3> QED
      BY <3>2, <3>3, Zenon
  <2>2. CASE ~Begins(s, n)
    <3>1. ~Pending(q, n)
      <4> SUFFICES ASSUME NEW j \in 1 .. Len(q), Begins(q[j], n) PROVE FALSE
        BY Zenon DEF Pending
      <4>1. j # 1
        BY <2>2, Zenon DEF s
      <4>2. PICK i \in 1 .. Len(r) : r[i] = q[j]
        BY <4>1, Zenon DEF Coming
      <4> QED
        BY <1>7, <4>2, Zenon DEF Pending
    <3>2. ASSUME NEW c \in Seq(P), ChildOf(n, c) PROVE ~Strictly(s, c)
      <4> SUFFICES ASSUME Strictly(s, c) PROVE FALSE
        OBVIOUS
      <4>1. Begins(s, c) /\ Len(s) < Len(c) /\ Begins(n, c) /\ Len(c) = Len(n) + 1
        BY <3>2, Zenon DEF Strictly, ChildOf
      <4>2. Len(s) <= Len(n)
        BY <1>1, <1>4, <4>1
      <4> QED
        BY <1>1, <1>4, <2>2, <3>2, <4>1, <4>2, NodeTwice, Zenon
    <3>3. /\ \A c \in DOMAIN T : c \in Seq(P)
          /\ \A c \in DOMAIN R : c \in Seq(P)
      BY <1>1 DEF TreeOf
    <3>4. Kids(R, n) = Kids(T, n)
      BY <1>3, <3>2, <3>3 DEF Kids
    <3>5. \A c \in Kids(T, n) : R[c] = T[c]
      BY <1>3, <3>2, <3>3 DEF Kids
    <3>6. SumOf(R, Kids(T, n)) = SumOf(T, Kids(T, n))
      BY <3>5, SumSame, Zenon
    <3>7. SumKept(W, T, n)
      BY <1>5, <3>1, Zenon
    <3> QED
      BY <3>4, <3>6, <3>7, Zenon DEF SumKept
  <2> QED
    BY <2>1, <2>2, Zenon
<1> QED
  BY <1>6, <1>7, Zenon

\* A turn of trimData keeps the invariant.
LEMMA TurnKeeps ==
    ASSUME NEW P, Others \in P, NEW W, WholeTree(W, P), NEW T, NEW q, TrimInv(P, W, T, q),
           q # << >>, NEW R, Turn(T, q[1], R), NEW order, Lists(order, Kids(T, q[1])),
           NEW r, r = Tail(q) \o order
    PROVE  TrimInv(P, W, R, r)
<1>1. CASE Gone(W, P, q[1])
  BY <1>1, TurnGone, Zenon
<1>2. CASE ~Gone(W, P, q[1])
  <2> DEFINE s == q[1]
             kids == Kids(W, s)
  <2>1. q \in Seq(Seq(P)) /\ TreeOf(T, P) /\ Separate(q) /\ FromWhole(W, T)
    BY Zenon DEF TrimInv
  <2>2. s \in Seq(P) /\ 1 \in 1 .. Len(q)
    BY <2>1
  <2>3. LikeBelow(P, W, T, s)
    BY <1>2, <2>2, Zenon DEF TrimInv, Ahead
  <2> HIDE DEF s
  <2>4. Kids(T, s) = kids
    <3>1. WholeTree(W, P) /\ TreeOf(T, P) /\ s \in Seq(P) /\ LikeBelow(P, W, T, s)
      BY <2>1, <2>2, <2>3, Zenon
    <3> QED
      BY ONLY <3>1, KidsBelow
  <2>5. Coming(P, q, kids, r)
    <3>1. kids \in SUBSET Seq(P) /\ \A c \in kids : ChildOf(s, c)
      BY DEF Kids, WholeTree, TreeOf
    <3>2. Lists(order, kids)
      BY <2>4, Zenon DEF s
    <3> HIDE DEF kids
    <3> QED
      BY <2>1, <3>1, <3>2, TurnQueue, Zenon DEF s
  <2>6. \A i \in 1 .. Len(r) : Ahead(P, W, R, r[i])
    BY <1>2, <2>3, <2>5, TurnAhead, Zenon DEF s
  <2>7. Behind(P, W, R, r)
    BY <1>2, <2>3, <2>5, TurnBehind, Zenon DEF s
  <2>8. TreeOf(R, P) /\ \A n \in DOMAIN R : n[Len(n)] = Others \/ (n \in DOMAIN T /\ R[n] = T[n])
    <3>1. Others \in P /\ TreeOf(T, P) /\ s \in Seq(P) /\ Turn(T, s, R)
      BY <2>1, <2>2 DEF s
    <3> QED
      BY ONLY <3>1, TurnShape
  <2>9. FromWhole(W, R)
    BY <2>1, <2>8, Zenon DEF FromWhole
  <2>10. r \in Seq(Seq(P)) /\ Separate(r)
    BY <2>5, Zenon DEF Coming
  <2> QED
    BY <2>6, <2>7, <2>8, <2>9, <2>10, Zenon DEF TrimInv
<1> QED
  BY <1>1, <1>2, Zenon

\* The root is the first to come; when none is, all is as it should be.
LEMMA TrimStarts ==
    ASSUME NEW P, NEW W, WholeTree(W, P)
    PROVE  TrimInv(P, W, W, << << >> >>)
<1> DEFINE q == << << >> >>
<1>1. q \in Seq(Seq(P)) /\ Len(q) = 1 /\ q[1] = << >> /\ << >> \in Seq(P) /\ Len(<< >>) = 0
  OBVIOUS
<1> HIDE DEF q
<1>2. Separate(q)
  BY <1>1 DEF Separate
<1>3. \A n \in Seq(P) : Begins(<< >>, n)
  BY DEF Begins
<1>4. ~Gone(W, P, << >>)
  <2> SUFFICES ASSUME NEW s \in Seq(P), Clash(W, s), Begins(OthersOf(s), << >>) PROVE FALSE
    BY Zenon DEF Gone
  <2>1. Len(OthersOf(s)) = 0 /\ OthersOf(s) \in DOMAIN W
    <3>1. OthersOf(s) \in DOMAIN W
      BY DEF Clash, Kids
    <3>2. OthersOf(s) \in Seq(P)
      BY <3>1 DEF WholeTree, TreeOf
    <3> QED
      BY <1>1, <3>1, <3>2 DEF Begins
  <2> QED
    BY <2>1 DEF WholeTree, TreeOf
<1>5. LikeBelow(P, W, W, << >>)
  BY Zenon DEF LikeBelow
<1>6. \A i \in 1 .. Len(q) : Ahead(P, W, W, q[i])
  <2>1. \A i \in 1 .. Len(q) : i = 1
    BY <1>1
  <2> QED
    BY <1>1, <1>4, <1>5, <2>1, Zenon DEF Ahead
<1>7. Behind(P, W, W, q)
  <2>1. \A n \in DOMAIN W : n \in Seq(P)
    BY DEF WholeTree, TreeOf
  <2>2. 1 \in 1 .. Len(q)
    BY <1>1
  <2>3. \A n \in DOMAIN W : Pending(q, n)
    BY <1>1, <1>3, <2>1, <2>2, Zenon DEF Pending
  <2> QED
    BY <2>3, Zenon DEF Behind
<1>8. FromWhole(W, W)
  BY Zenon DEF FromWhole
<1>9. TrimInv(P, W, W, q)
  BY <1>1, <1>2, <1>6, <1>7, <1>8, Zenon DEF TrimInv, WholeTree
<1> QED
  BY <1>9 DEF q

LEMMA TrimEnds ==
    ASSUME NEW P, NEW W, NEW T, TrimInv(P, W, T, << >>)
    PROVE  /\ \A n \in DOMAIN W : Kids(W, n) # {} /\ ~Gone(W, P, n) =>
                  n \in DOMAIN T /\ SumKept(W, T, n)
           /\ FromWhole(W, T)
<1>1. \A n : ~Pending(<< >>, n)
  BY DEF Pending
<1> QED
  BY <1>1, Zenon DEF TrimInv, Behind

-----------------------------------------------------------------------------
(***************************************************************************)
(* The operators of FlameTree in these terms.                              *)
(***************************************************************************)
LEMMA FlameCount == \A S : Flame!Cardinality(S) = Cardinality(S)
BY Zenon DEF Flame!Cardinality, Cardinality

LEMMA FlameKids ==
    ASSUME NEW P, TreeOf(tree, P), NEW s \in Seq(P)
    PROVE  /\ Flame!ChildrenOf(s) = Kids(tree, s)
           /\ Flame!SmallLeaves(s) = SmallOf(tree, s)
           /\ Flame!ValuesOf(SmallOf(tree, s)) = SumOf(tree, SmallOf(tree, s))
<1>1. \A n \in DOMAIN tree : n \in Seq(P) /\ n # << >>
  BY DEF TreeOf
<1>2. ASSUME NEW t \in Seq(P) PROVE Flame!ChildrenOf(t) = Kids(tree, t)
  <2>1. \A n \in DOMAIN tree : Flame!Front(n) = t <=> ChildOf(t, n)
    BY <1>1, NodeChild, Zenon
  <2> QED
    BY <1>1, <2>1 DEF Flame!ChildrenOf, Kids
<1>3. Flame!SmallLeaves(s) = SmallOf(tree, s)
  <2>1. \A n \in Kids(tree, s) : n \in Seq(P)
    BY <1>1 DEF Kids
  <2>2. \A n \in Kids(tree, s) : Flame!ChildrenOf(n) = Kids(tree, n)
    BY <1>2, <2>1, Zenon
  <2>3. Flame!ChildrenOf(s) = Kids(tree, s)
    BY <1>2, Zenon
  <2> QED
    BY <2>2, <2>3 DEF Flame!SmallLeaves, SmallOf
<1>4. Flame!ValuesOf(SmallOf(tree, s)) = SumOf(tree, SmallOf(tree, s))
  <2>1. SmallOf(tree, s) \subseteq DOMAIN tree
    BY DEF SmallOf, Kids
  <2>2. Numbers(tree, SmallOf(tree, s))
    BY SmallSum, Zenon
  <2> QED
    BY <2>1, <2>2, FlameValues, Zenon
<1> QED
  BY <1>2, <1>3, <1>4, Zenon

LEMMA AllListed ==
    ASSUME NEW S, IsFiniteSet(S), NEW order \in Flame!SetToSeqs(S)
    PROVE  Lists(order, S)
<1> DEFINE c == Cardinality(S)
<1>1. c \in Nat
  BY FS_CardinalityType
<1>2. order \in [1 .. c -> S] /\ \A i, j \in 1 .. c : i # j => order[i] # order[j]
  BY FlameCount DEF Flame!SetToSeqs
<1>3. \A e \in S : \E j \in 1 .. c : order[j] = e
  <2>1. order \in Injection(1 .. c, S)
    BY <1>2 DEF Injection, IsInjective
  <2>2. Cardinality(1 .. c) = c
    BY <1>1, FS_Interval
  <2> HIDE DEF c
  <2>3. order \in Surjection(1 .. c, S)
    BY <2>1, <2>2, FS_Injection DEF c
  <2> QED
    BY <2>3 DEF Surjection
<1> HIDE DEF c
<1>4. order \in Seq(S) /\ Len(order) = c
  BY <1>1, <1>2, ArrayIsSeq
<1> QED
  BY <1>2, <1>3, <1>4 DEF Lists

LEMMA FlameTurn ==
    ASSUME NEW P, Others \in P, TreeOf(tree, P), queue \in Seq(Seq(P)), Flame!Trim
    PROVE  /\ queue # << >> /\ Turn(tree, queue[1], tree') /\ count' = count
           /\ \E order : Lists(order, Kids(tree, queue[1])) /\ queue' = Tail(queue) \o order
<1> DEFINE s == queue[1]
           small == SmallOf(tree, s)
           sum == SumOf(tree, small)
           o == OthersOf(s)
           stay == Stays(tree, s)
<1>1. queue # << >> /\ count' = count
  BY DEF Flame!Trim
<1>2. s \in Seq(P) /\ Head(queue) = s
  BY <1>1
<1>3. /\ Flame!ChildrenOf(s) = Kids(tree, s)
      /\ Flame!SmallLeaves(s) = small
      /\ Flame!ValuesOf(small) = sum
  BY <1>2, FlameKids, Zenon
<1>4. o \in Seq(P)
  BY <1>2, NodeChild, Zenon DEF OthersOf
<1>5. IsFiniteSet(Kids(tree, s))
  <2>1. Kids(tree, s) \in SUBSET DOMAIN tree
    BY DEF Kids
  <2> QED
    BY <2>1, FS_Subset, Zenon DEF TreeOf
<1>6. /\ \E order \in Flame!SetToSeqs(Flame!ChildrenOf(s)) : queue' = Tail(queue) \o order
      /\ tree' = [n \in (DOMAIN tree \ (small \cup
                             (IF sum > 0 THEN {n \in DOMAIN tree : Flame!IsPrefix(o, n)} ELSE {})))
                         \cup (IF sum > 0 THEN {o} ELSE {}) |->
                     IF n \in (DOMAIN tree \ (small \cup
                             (IF sum > 0 THEN {n_1 \in DOMAIN tree : Flame!IsPrefix(o, n_1)} ELSE {})))
                     THEN tree[n] ELSE sum]
  BY <1>2, <1>3, Zenon DEF Flame!Trim, OthersOf
<1>7. {n \in DOMAIN tree : Flame!IsPrefix(o, n)} = {n \in DOMAIN tree : Begins(o, n)}
  <2>1. \A n \in DOMAIN tree : Flame!IsPrefix(o, n) <=> Begins(o, n)
    <3>1. \A n \in DOMAIN tree : n \in Seq(P)
      BY DEF TreeOf
    <3> QED
      BY <1>4, <3>1, NodePrefixes, Zenon
  <2> QED
    BY <2>1
<1>8. stay = DOMAIN tree \ (small \cup
                 (IF sum > 0 THEN {n \in DOMAIN tree : Flame!IsPrefix(o, n)} ELSE {}))
  BY <1>7, Zenon DEF Stays, Replaces
<1>9. tree' = [n \in stay \cup (IF sum > 0 THEN {o} ELSE {}) |->
                  IF n \in stay THEN tree[n] ELSE sum]
  <2> HIDE DEF stay, sum, small, o
  <2> QED
    BY <1>6, <1>8, Zenon
<1>10. Turn(tree, s, tree')
  <2>1. /\ DOMAIN tree' = stay \cup (IF sum > 0 THEN {o} ELSE {})
        /\ \A n \in DOMAIN tree' : tree'[n] = IF n \in stay THEN tree[n] ELSE sum
    <3> HIDE DEF stay, sum, small, o
    <3> QED
      BY <1>9
  <2> QED
    BY <2>1, Zenon DEF Turn
<1>11. \E order : Lists(order, Kids(tree, s)) /\ queue' = Tail(queue) \o order
  <2>1. PICK order \in Flame!SetToSeqs(Kids(tree, s)) : queue' = Tail(queue) \o order
    BY <1>3, <1>6, Zenon
  <2>2. Lists(order, Kids(tree, s))
    BY <1>5, AllListed, Zenon
  <2> QED
    BY <2>1, <2>2, Zenon
<1> QED
  BY <1>1, <1>10, <1>11, Zenon

LEMMA WholeKids ==
    ASSUME NEW P, NEW W, WholeTree(W, P), NEW s \in Seq(P)
    PROVE  /\ Flame!KidsIn(W, s) = Kids(W, s)
           /\ Flame!TrimmedIn(W, s) = SmallOf(W, s)
           /\ Flame!ClashIn(W, s) <=> Clash(W, s)
<1>1. \A n \in DOMAIN W : n \in Seq(P) /\ n # << >>
  BY DEF WholeTree, TreeOf
<1>2. ASSUME NEW t \in Seq(P) PROVE Flame!KidsIn(W, t) = Kids(W, t)
  <2>1. \A n \in DOMAIN W : Flame!Front(n) = t <=> ChildOf(t, n)
    BY <1>1, NodeChild, Zenon
  <2> QED
    BY <2>1 DEF Flame!KidsIn, Kids
<1>3. Flame!TrimmedIn(W, s) = SmallOf(W, s)
  <2>1. \A n \in Kids(W, s) : n \in Seq(P)
    BY <1>1 DEF Kids
  <2>2. \A n \in Kids(W, s) : Flame!KidsIn(W, n) = Kids(W, n)
    BY <1>2, <2>1, Zenon
  <2>3. Flame!KidsIn(W, s) = Kids(W, s)
    BY <1>2, Zenon
  <2> QED
    BY <2>2, <2>3 DEF Flame!TrimmedIn, SmallOf
<1>4. Flame!ClashIn(W, s) <=> Clash(W, s)
  BY <1>2, <1>3, Zenon DEF Flame!ClashIn, Clash, OthersOf
<1> QED
  BY <1>2, <1>3, <1>4, Zenon

LEMMA FlameTreeSum ==
    ASSUME NEW S, Numbers(tree, S)
    PROVE  Flame!MapThenSumSet(LAMBDA n : tree[n], S) = SumOf(tree, S)
<1>1. PICK h : h = (CHOOSE k : Folds(k, tree, S)) /\ Folds(h, tree, S)
  BY FoldIsSum, Zenon
<1>2. Flame!MapThenSumSet(LAMBDA n : tree[n], S) = (CHOOSE k : Folds(k, tree, S))[S]
  BY Zenon DEF Flame!MapThenSumSet, Flame!MapThenFoldSet, Folds, Chosen
<1> QED
  BY <1>1, <1>2, FoldIsSum, Zenon

LEMMA FlameTrimmed ==
    ASSUME NEW P, Others \in P, NEW objects, NEW seps,
           WholeTree(Flame!Whole(objects, seps), P),
           TrimInv(P, Flame!Whole(objects, seps), tree, << >>)
    PROVE  Flame!Trimmed(objects, seps)
<1> DEFINE W == Flame!Whole(objects, seps)
           gone == {n \in DOMAIN W :
                    \E m \in 0 .. Len(n) - 1 :
                        Flame!ClashIn(W, SubSeq(n, 1, m)) /\ n[m + 1] = Others}
           inner == {n \in DOMAIN W \ gone : Flame!KidsIn(W, n) # {}}
           sum(f, nodes) == Flame!MapThenSumSet(LAMBDA n : f[n], nodes)
<1>0. WholeTree(W, P) /\ TrimInv(P, W, tree, << >>)
  OBVIOUS
<1> HIDE DEF W
<1>1. \A n \in DOMAIN W : n \in Seq(P)
  BY <1>0 DEF WholeTree, TreeOf
<1>2. TreeOf(tree, P) /\ TreeOf(W, P) /\ FromWhole(W, tree)
  BY <1>0, Zenon DEF TrimInv, WholeTree
<1>3. ASSUME NEW n \in inner
      PROVE  /\ n \in DOMAIN tree
             /\ sum(tree, Flame!ChildrenOf(n)) =
                    sum(W, Flame!KidsIn(W, n))
                    - (IF Flame!ClashIn(W, n) THEN W[Append(n, Others)] ELSE 0)
  <2>1. n \in DOMAIN W /\ n \notin gone /\ Flame!KidsIn(W, n) # {} /\ n \in Seq(P)
    BY <1>1
  <2>2. /\ Flame!KidsIn(W, n) = Kids(W, n)
        /\ Flame!ClashIn(W, n) <=> Clash(W, n)
        /\ Flame!ChildrenOf(n) = Kids(tree, n)
    BY <1>0, <1>2, <2>1, WholeKids, FlameKids, Zenon
  <2>3. ~Gone(W, P, n)
    <3> SUFFICES ASSUME Gone(W, P, n) PROVE FALSE
      OBVIOUS
    <3>1. PICK s \in Seq(P) : Clash(W, s) /\ Begins(OthersOf(s), n)
      BY Zenon DEF Gone
    <3> DEFINE o == OthersOf(s)
               m == Len(s)
    <3>2. /\ o \in Seq(P) /\ ChildOf(s, o) /\ o[Len(s) + 1] = Others /\ Len(o) = Len(s) + 1
      BY AppendProperties, NodeChild DEF OthersOf
    <3>3. Begins(s, n)
      BY <2>1, <3>1, <3>2, NodeTwice, Zenon DEF ChildOf
    <3>4. s = SubSeq(n, 1, m)
      BY <2>1, <3>3, NodeOrder, Zenon
    <3> HIDE DEF o
    <3>5. m \in 0 .. Len(n) - 1 /\ n[m + 1] = Others
      BY <2>1, <3>1, <3>2 DEF Begins, o
    <3>6. Flame!ClashIn(W, s)
      BY <1>0, <3>1, WholeKids, Zenon
    <3>7. Flame!ClashIn(W, SubSeq(n, 1, m))
      BY <3>4, <3>6, Zenon
    <3> QED
      BY <2>1, <3>5, <3>7
  <2>4. n \in DOMAIN tree /\ SumKept(W, tree, n)
    BY <1>0, <2>1, <2>2, <2>3, TrimEnds, Zenon
  <2>5. Numbers(tree, Kids(tree, n)) /\ Numbers(W, Kids(W, n))
    BY <1>2, SmallSum, Zenon
  <2>6. sum(tree, Kids(tree, n)) = SumOf(tree, Kids(tree, n))
    BY <2>5, FlameTreeSum, Zenon
  <2>7. sum(W, Kids(W, n)) = SumOf(W, Kids(W, n))
    BY <2>5, FlameSum, Zenon
  <2> HIDE DEF sum
  <2> QED
    BY <2>2, <2>4, <2>6, <2>7, Zenon DEF SumKept, OthersOf
<1>4. \A n \in DOMAIN tree : Flame!Last(n) = Others \/ (n \in DOMAIN W /\ tree[n] = W[n])
  BY <1>2, Zenon DEF FromWhole, Flame!Last
<1> QED
  BY <1>3, <1>4, Zenon DEF Flame!Trimmed, W

-----------------------------------------------------------------------------
(***************************************************************************)
(* The whole tree: its nodes begin the paths of objects, and the value of  *)
(* each is the sum of the sizes of those it begins.                        *)
(***************************************************************************)
PartsOf(path) == {path[i] : i \in DOMAIN path}
Parts(seps) == {Others} \cup UNION {PartsOf(Flame!PathOf(o, seps)) : o \in FlameObjects}

LEMMA SplitIsSeq ==
    ASSUME NEW key \in Seq(Nat), NEW seps
    PROVE  Flame!split(key, seps) \in Seq(PartsOf(Flame!split(key, seps)))
<1>1. ASSUME NEW x, NEW n \in Nat, DOMAIN x = 1 .. n, NEW sep
      PROVE  Flame!Split(x, sep) \in Seq(PartsOf(Flame!Split(x, sep)))
  <2> DEFINE S == {i \in DOMAIN x : x[i] = sep}
             c == Cardinality(S)
             cut == Flame!Cuts(x, sep)
             R == {cut[j] : j \in 1 .. c}
  <2>1. c \in Nat
    <3>1. IsFiniteSet(1 .. n) /\ S \in SUBSET (1 .. n)
      BY <1>1, FS_Interval
    <3> HIDE DEF S
    <3> QED
      BY <3>1, FS_Subset, FS_CardinalityType
  <2>2. cut = [j \in 1 .. c |-> CHOOSE i \in S : Flame!Cardinality({k \in S : k <= i}) = j]
    BY FlameCount, Zenon DEF Flame!Cuts, Flame!Ascending
  <2> HIDE DEF S, c, cut
  <2>3. cut \in [1 .. c -> R]
    BY <2>2
  <2> HIDE DEF R
  <2>4. Len(cut) \in Nat
    BY <2>1, <2>3, ArrayIsSeq
  <2> DEFINE m == Len(cut) + 1
             a == Flame!Split(x, sep)
             from(j) == IF j = 1 THEN 1 ELSE cut[j - 1] + 1
             to(j) == IF j = m THEN Len(x) ELSE cut[j] - 1
  <2>5. a = [j \in 1 .. m |-> SubSeq(x, from(j), to(j))]
    <3>1. -1 < 0
      OBVIOUS
    <3> QED
      BY <3>1, Zenon DEF Flame!Split, Flame!SplitN, cut
  <2>6. m \in Nat
    BY <2>4
  <2> HIDE DEF m, a, from, to
  <2>7. DOMAIN a = 1 .. m /\ \A j \in 1 .. m : a[j] \in PartsOf(a)
    BY <2>5 DEF PartsOf
  <2>8. a \in [1 .. m -> PartsOf(a)]
    BY <2>5, <2>7
  <2>9. a \in Seq(PartsOf(a))
    BY <2>6, <2>8, ArrayIsSeq
  <2> QED
    BY <2>9 DEF a
<1>2. Len(key) \in Nat /\ DOMAIN key = 1 .. Len(key)
  OBVIOUS
<1>3. CASE seps = << >>
  <2>1. Flame!split(key, seps) = Flame!Split(key, DefaultSep)
    BY <1>3, Zenon DEF Flame!split
  <2> QED
    BY <1>1, <1>2, <2>1, Zenon
<1>4. CASE seps # << >>
  <2>1. Flame!split(key, seps) = Flame!Split(Flame!Replaced(key, seps), seps[1])
    BY <1>4, Zenon DEF Flame!split
  <2>2. DOMAIN Flame!Replaced(key, seps) = 1 .. Len(key)
    BY <1>2 DEF Flame!Replaced
  <2> QED
    BY <1>1, <1>2, <2>1, <2>2, Zenon
<1> QED
  BY <1>3, <1>4

LEMMA PathIsSeq ==
    ASSUME AnalysesAssumption, NEW o \in FlameObjects, NEW seps
    PROVE  Flame!PathOf(o, seps) \in Seq(Parts(seps)) /\ o.size \in Nat
<1>1. o.key \in Seq(Nat) /\ o.size \in Nat
  <2>1. o \in [db : Nat, key : Seq(Nat), size : Nat, freq : Weights, matches : BOOLEAN, ms : Nat]
    BY DEF AnalysesAssumption
  <2> QED
    BY <2>1
<1> DEFINE a == Flame!split(o.key, seps)
           path == Flame!PathOf(o, seps)
           D == {<<o.db>>} \cup PartsOf(a)
<1>2. a \in Seq(PartsOf(a))
  BY <1>1, SplitIsSeq, Zenon
<1>3. path = <<<<o.db>>>> \o a
  BY Zenon DEF Flame!PathOf
<1>4. path \in Seq(D)
  <2>1. a \in Seq(D) /\ <<<<o.db>>>> \in Seq(D)
    <3> HIDE DEF a
    <3> QED
      BY <1>2
  <2> HIDE DEF a, D, path
  <2> QED
    BY <1>3, <2>1
<1> HIDE DEF path, D, a
<1>5. Len(path) \in Nat /\ DOMAIN path = 1 .. Len(path)
  BY <1>4
<1>6. path \in [1 .. Len(path) -> PartsOf(path)]
  BY <1>4, <1>5 DEF PartsOf
<1>7. path \in Seq(PartsOf(path))
  BY <1>5, <1>6, ArrayIsSeq
<1>8. PartsOf(path) \subseteq Parts(seps)
  BY DEF Parts, path
<1> QED
  BY <1>1, <1>7, <1>8 DEF path

Sizes0(objects) == [i \in DOMAIN objects |-> objects[i].size]
Below(objects, seps, n) == {i \in DOMAIN objects : Begins(n, Flame!PathOf(objects[i], seps))}

LEMMA WholeIs ==
    ASSUME AnalysesAssumption, NEW seps, NEW objects, IsFiniteSet(DOMAIN objects),
           \A i \in DOMAIN objects : objects[i] \in FlameObjects
    PROVE  /\ WholeTree(Flame!Whole(objects, seps), Parts(seps))
           /\ \A n : n \in DOMAIN Flame!Whole(objects, seps) <=>
                         n \in Seq(Parts(seps)) /\ n # << >> /\ Below(objects, seps, n) # {}
           /\ \A n : Numbers(Sizes0(objects), Below(objects, seps, n))
           /\ \A n \in DOMAIN Flame!Whole(objects, seps) :
                  Flame!Whole(objects, seps)[n] = SumOf(Sizes0(objects), Below(objects, seps, n))
           /\ Flame!Whole(objects, seps) =
                  [n \in DOMAIN Flame!Whole(objects, seps) |-> Flame!Whole(objects, seps)[n]]
<1> DEFINE P == Parts(seps)
           path(i) == Flame!PathOf(objects[i], seps)
           below(n) == {i \in DOMAIN objects : Flame!IsPrefix(n, path(i))}
           nodes == UNION {Flame!Prefixes(path(i)) : i \in DOMAIN objects}
           W == Flame!Whole(objects, seps)
           v == Sizes0(objects)
           sum(n) == Flame!MapThenSumSet(LAMBDA i : objects[i].size, below(n))
<1>1. W = [n \in nodes \ {<< >>} |-> sum(n)]
  BY Zenon DEF Flame!Whole
<1>2. ASSUME NEW i \in DOMAIN objects PROVE path(i) \in Seq(P) /\ objects[i].size \in Nat
  BY PathIsSeq, Zenon
<1>3. ASSUME NEW n PROVE Numbers(v, Below(objects, seps, n)) /\ SumOf(v, Below(objects, seps, n)) \in Nat
  <2> DEFINE B == Below(objects, seps, n)
  <2>1. B \in SUBSET DOMAIN objects
    BY DEF Below
  <2>2. \A i \in B : v[i] \in Nat
    BY <1>2, <2>1 DEF Sizes0
  <2>3. IsFiniteSet(B)
    BY <2>1, FS_Subset, Zenon
  <2>4. Numbers(v, B)
    BY <2>2, <2>3, Zenon DEF Numbers
  <2> QED
    BY <2>4, UnitsAre, Zenon
<1>4. \A n : n \in nodes <=> n \in Seq(P) /\ Below(objects, seps, n) # {}
  <2>1. ASSUME NEW i \in DOMAIN objects, NEW n
        PROVE  n \in Flame!Prefixes(path(i)) <=> n \in Seq(P) /\ Begins(n, path(i))
    BY <1>2, NodePrefixes, Zenon
  <2>2. \A n : Below(objects, seps, n) # {} <=> \E i \in DOMAIN objects : Begins(n, path(i))
    BY DEF Below
  <2>3. \A n : n \in nodes <=> \E i \in DOMAIN objects : n \in Flame!Prefixes(path(i))
    OBVIOUS
  <2> HIDE DEF nodes, path
  <2> QED
    BY <2>1, <2>2, <2>3, Zenon
<1>5. ASSUME NEW n \in Seq(P) PROVE sum(n) = SumOf(v, Below(objects, seps, n))
  <2>1. below(n) = Below(objects, seps, n)
    <3>1. \A i \in DOMAIN objects : Flame!IsPrefix(n, path(i)) <=> Begins(n, path(i))
      BY <1>2, NodePrefixes, Zenon
    <3> QED
      BY <3>1 DEF Below
  <2>2. \A i \in below(n) : v[i] = objects[i].size
    BY DEF Sizes0
  <2>3. Numbers(v, below(n))
    BY <1>3, <2>1, Zenon
  <2>4. sum(n) = SumOf(v, below(n))
    <3> HIDE DEF v, below
    <3> QED
      BY <2>2, <2>3, FlameSizes, Zenon
  <2> QED
    BY <2>1, <2>4, Zenon
<1>6. IsFiniteSet(nodes)
  <2> DEFINE U == {Flame!Prefixes(path(i)) : i \in DOMAIN objects}
  <2>1. [i \in DOMAIN objects |-> Flame!Prefixes(path(i))] \in Surjection(DOMAIN objects, U)
    BY DEF Surjection
  <2>2. IsFiniteSet(U)
    BY <2>1, FS_Surjection
  <2>3. \A T \in U : IsFiniteSet(T)
    BY <1>2, NodePrefixes, Zenon
  <2> HIDE DEF U
  <2>4. IsFiniteSet(UNION U)
    BY <2>2, <2>3, FS_UNION
  <2> QED
    BY <2>4 DEF U
<1> HIDE DEF sum, nodes, below
<1>7. DOMAIN W = nodes \ {<< >>} /\ \A n \in DOMAIN W : W[n] = sum(n)
  BY <1>1
<1> HIDE DEF W, v, P, path
<1>8. \A n : n \in DOMAIN W <=> n \in Seq(P) /\ n # << >> /\ Below(objects, seps, n) # {}
  BY <1>4, <1>7
<1>9. \A n \in DOMAIN W : W[n] = SumOf(v, Below(objects, seps, n))
  BY <1>5, <1>7, <1>8, Zenon
<1>10. TreeOf(W, P)
  <2>1. DOMAIN W \subseteq Seq(P) \ {<< >>}
    BY <1>8
  <2>2. DOMAIN W \in SUBSET nodes
    BY <1>7
  <2>3. IsFiniteSet(DOMAIN W)
    BY <1>6, <2>2, FS_Subset, Zenon
  <2>4. \A n \in DOMAIN W : W[n] \in Nat
    BY <1>3, <1>9, Zenon
  <2> QED
    BY <2>1, <2>3, <2>4, Zenon DEF TreeOf
<1>11. WholeTree(W, P)
  <2> SUFFICES ASSUME NEW n \in DOMAIN W, NEW s \in Seq(P), s # << >>, Begins(s, n)
               PROVE  s \in DOMAIN W
    BY <1>10, Zenon DEF WholeTree
  <2>1. n \in Seq(P) /\ Below(objects, seps, n) # {}
    BY <1>8, Zenon
  <2>2. PICK i \in DOMAIN objects : Begins(n, path(i))
    BY <2>1 DEF Below, path
  <2>3. Begins(s, path(i))
    BY <1>2, <2>1, <2>2, NodeTwice, Zenon
  <2>4. i \in Below(objects, seps, s)
    BY <2>3 DEF Below, path
  <2> QED
    BY <1>8, <2>4
<1>12. W = [n \in DOMAIN W |-> W[n]]
  BY <1>1, <1>7
<1> QED
  BY <1>3, <1>8, <1>9, <1>11, <1>12, Zenon DEF W, v, P

\* addObject: the tree of the objects becomes that of one object more.
LEMMA PlotGrows ==
    ASSUME AnalysesAssumption, NEW seps, NEW objects, IsFiniteSet(DOMAIN objects),
           \A i \in DOMAIN objects : objects[i] \in FlameObjects,
           NEW o \in FlameObjects, NEW k, k \notin DOMAIN objects,
           NEW more, DOMAIN more = DOMAIN objects \cup {k}, more[k] = o,
           \A i \in DOMAIN objects : more[i] = objects[i],
           tree = Flame!Whole(objects, seps), Flame!addObject(o, seps)
    PROVE  tree' = Flame!Whole(more, seps)
<1> DEFINE P == Parts(seps)
           path == Flame!PathOf(o, seps)
           way == Flame!Prefixes(path) \ {<< >>}
           v == Sizes0(objects)
           w == Sizes0(more)
           B(n) == Below(objects, seps, n)
           C(n) == Below(more, seps, n)
           V == Flame!Whole(more, seps)
<1>1. IsFiniteSet(DOMAIN more) /\ \A i \in DOMAIN more : more[i] \in FlameObjects
  <2>1. IsFiniteSet({k})
    BY FS_Singleton, Zenon
  <2>2. IsFiniteSet(DOMAIN more)
    <3>1. IsFiniteSet(DOMAIN objects \cup {k})
      BY <2>1, FS_Union, Zenon
    <3> QED
      BY <3>1, Zenon
  <2>3. \A i \in DOMAIN more : more[i] \in FlameObjects
    OBVIOUS
  <2> QED
    BY <2>2, <2>3, Zenon
<1>2. path \in Seq(P) /\ o.size \in Nat
  BY PathIsSeq, Zenon
<1>3. \A n : n \in way <=> n \in Seq(P) /\ n # << >> /\ Begins(n, path)
  <2>1. \A n : n \in Flame!Prefixes(path) <=> n \in Seq(P) /\ Begins(n, path)
    BY <1>2, NodePrefixes, Zenon
  <2> QED
    BY <2>1
<1>4. /\ \A n : n \in DOMAIN tree <=> n \in Seq(P) /\ n # << >> /\ B(n) # {}
      /\ \A n : Numbers(v, B(n))
      /\ \A n \in DOMAIN tree : tree[n] = SumOf(v, B(n))
  <2> DEFINE U == Flame!Whole(objects, seps)
  <2>1. /\ \A n : n \in DOMAIN U <=> n \in Seq(P) /\ n # << >> /\ B(n) # {}
        /\ \A n : Numbers(v, B(n))
        /\ \A n \in DOMAIN U : U[n] = SumOf(v, B(n))
    BY WholeIs, Zenon
  <2>2. tree = U
    OBVIOUS
  <2> HIDE DEF U, P, B, v
  <2> QED
    BY <2>1, <2>2, Zenon
<1>5. /\ \A n : n \in DOMAIN V <=> n \in Seq(P) /\ n # << >> /\ C(n) # {}
      /\ \A n \in DOMAIN V : V[n] = SumOf(w, C(n))
      /\ V = [n \in DOMAIN V |-> V[n]]
  BY <1>1, WholeIs, Zenon
<1>6. tree' = [n \in DOMAIN tree \cup way |->
                  Flame!Value(n) + (IF n \in way THEN o.size ELSE 0)]
  BY Zenon DEF Flame!addObject
<1>7. ASSUME NEW n
      PROVE  /\ C(n) = B(n) \cup (IF Begins(n, path) THEN {k} ELSE {})
             /\ k \notin B(n) /\ B(n) \subseteq DOMAIN objects
  <2>1. ASSUME NEW i \in DOMAIN objects
        PROVE  Begins(n, Flame!PathOf(more[i], seps)) <=> Begins(n, Flame!PathOf(objects[i], seps))
    <3>1. more[i] = objects[i]
      OBVIOUS
    <3> QED
      BY <3>1, Zenon
  <2>2. Begins(n, Flame!PathOf(more[k], seps)) <=> Begins(n, path)
    <3>1. more[k] = o
      OBVIOUS
    <3> QED
      BY <3>1, Zenon
  <2>3. \A i : i \in C(n) <=> i \in DOMAIN more /\ Begins(n, Flame!PathOf(more[i], seps))
    BY DEF Below
  <2>4. \A i : i \in B(n) <=> i \in DOMAIN objects /\ Begins(n, Flame!PathOf(objects[i], seps))
    BY DEF Below
  <2> HIDE DEF B, C, path
  <2>5. C(n) = B(n) \cup (IF Begins(n, path) THEN {k} ELSE {})
    BY <2>1, <2>2, <2>3, <2>4
  <2> QED
    BY <2>4, <2>5
<1> HIDE DEF P, path, way, B, C, V
<1>8. /\ \A i \in DOMAIN objects : w[i] = v[i]
      /\ w[k] = o.size
  BY DEF Sizes0
<1> HIDE DEF v, w
<1>9. ASSUME NEW n
      PROVE  SumOf(w, C(n)) = SumOf(v, B(n)) + (IF Begins(n, path) THEN o.size ELSE 0)
  <2>1. SumOf(w, B(n)) = SumOf(v, B(n)) /\ Numbers(w, B(n)) /\ SumOf(v, B(n)) \in Nat
    <3>1. \A i \in B(n) : w[i] = v[i]
      BY <1>7, <1>8
    <3>2. SumOf(w, B(n)) = SumOf(v, B(n))
      BY <3>1, SumSame, Zenon
    <3>3. Numbers(w, B(n))
      BY <1>4, <3>1 DEF Numbers
    <3>4. SumOf(v, B(n)) \in Nat
      BY <1>4, UnitsAre, Zenon
    <3> QED
      BY <3>2, <3>3, <3>4, Zenon
  <2>2. CASE Begins(n, path)
    <3>1. C(n) = B(n) \cup {k} /\ B(n) \cap {k} = {}
      BY <1>7, <2>2
    <3>2. Numbers(w, {k})
      <4>1. IsFiniteSet({k})
        BY FS_Singleton, Zenon
      <4> QED
        BY <1>2, <1>8, <4>1 DEF Numbers
    <3>3. SumOf(w, B(n) \cup {k}) = SumOf(w, B(n)) + SumOf(w, {k})
      BY <2>1, <3>1, <3>2, SumUnion, Zenon
    <3>4. SumOf(w, {k}) = o.size
      BY <1>2, <1>8, SumOne, Zenon
    <3> QED
      BY <2>1, <2>2, <3>1, <3>3, <3>4, Zenon
  <2>3. CASE ~Begins(n, path)
    <3>1. C(n) = B(n)
      <4>1. C(n) = B(n) \cup {}
        BY <1>7, <2>3, Zenon
      <4> QED
        BY <4>1
    <3> QED
      BY <2>1, <2>3, <3>1
  <2> QED
    BY <2>2, <2>3, Zenon
<1>10. \A n : n \in DOMAIN tree \cup way <=> n \in DOMAIN V
  BY <1>3, <1>4, <1>5, <1>7
<1>11. ASSUME NEW n \in DOMAIN V
       PROVE  Flame!Value(n) + (IF n \in way THEN o.size ELSE 0) = V[n]
  <2>1. Flame!Value(n) = SumOf(v, B(n))
    <3>1. CASE n \in DOMAIN tree
      BY <1>4, <3>1, Zenon DEF Flame!Value
    <3>2. CASE n \notin DOMAIN tree
      <4>1. B(n) = {}
        BY <1>4, <1>5, <3>2, Zenon
      <4> QED
        BY <3>2, <4>1, SumOne, Zenon DEF Flame!Value
    <3> QED
      BY <3>1, <3>2, Zenon
  <2>2. n \in way <=> Begins(n, path)
    BY <1>3, <1>5, Zenon
  <2> QED
    BY <1>5, <1>9, <2>1, <2>2, Zenon
<1> DEFINE D == DOMAIN tree \cup way
           f(n) == Flame!Value(n) + (IF n \in way THEN o.size ELSE 0)
<1>12. tree' = [n \in D |-> f(n)]
  BY <1>6, Zenon
<1>13. D = DOMAIN V
  <2>1. \A n : n \in D <=> n \in DOMAIN V
    BY <1>10, Zenon
  <2> HIDE DEF D
  <2> QED
    BY <2>1
<1>14. \A n \in DOMAIN V : f(n) = V[n]
  BY <1>11, Zenon
<1> HIDE DEF D, f
<1>15. [n \in D |-> f(n)] = [n \in DOMAIN V |-> V[n]]
  BY <1>13, <1>14
<1>16. tree' = V
  BY <1>5, <1>12, <1>15, Zenon
<1> QED
  BY <1>16 DEF V

\* The objects that are plotted, one object of the file more.
LEMMA PlottedNext ==
    ASSUME file \in Seq(FlameObjects), NEW o \in FlameObjects, file' = Append(file, o),
           UNCHANGED options
    PROVE  /\ IsFiniteSet(DOMAIN Plotted) /\ \A i \in DOMAIN Plotted : Plotted[i] \in FlameObjects
           /\ Len(file) + 1 \notin DOMAIN Plotted
           /\ Reaches(o) => /\ DOMAIN Plotted' = DOMAIN Plotted \cup {Len(file) + 1}
                            /\ Plotted'[Len(file) + 1] = o
                            /\ \A i \in DOMAIN Plotted : Plotted'[i] = Plotted[i]
           /\ ~Reaches(o) => Plotted' = Plotted
<1> DEFINE n == Len(file)
           Hands(x) == PassesAll(wrapDecoder(options), x)
           S == {i \in DOMAIN file : Hands(file[i])}
           T == {i \in DOMAIN file' : Hands(file'[i])}
<1>1. \A x : Reaches(x) <=> Hands(x)
  BY Zenon DEF Reaches, PassesAll
<1>2. Plotted = [i \in S |-> file[i]]
  BY <1>1 DEF Plotted
<1>3. Plotted' = [i \in T |-> file'[i]]
  <2>1. Plotted' = [i \in {j \in DOMAIN file' : PassesAll(wrapDecoder(options'), file'[j])} |-> file'[i]]
    BY Zenon DEF Plotted, Reaches, PassesAll
  <2>2. options' = options
    OBVIOUS
  <2> QED
    BY <2>1, <2>2, Zenon
<1> HIDE DEF Hands
<1>4. /\ n \in Nat /\ DOMAIN file = 1 .. n /\ DOMAIN file' = 1 .. n + 1 /\ file'[n + 1] = o
      /\ \A i \in 1 .. n : file'[i] = file[i] /\ file[i] \in FlameObjects
  BY AppendProperties
<1>5. IsFiniteSet(1 .. n)
  BY <1>4, FS_Interval
<1> HIDE DEF n
<1>6. S \in SUBSET (1 .. n) /\ n + 1 \notin S
  BY <1>4
<1>7. DOMAIN Plotted = S /\ \A i \in S : Plotted[i] = file[i]
  BY <1>2
<1>8. DOMAIN Plotted' = T /\ \A i \in T : Plotted'[i] = file'[i]
  BY <1>3
<1>9. \A i : i \in T <=> i \in S \/ (i = n + 1 /\ Hands(o))
  BY <1>4
<1>10. IsFiniteSet(S)
  BY <1>5, <1>6, FS_Subset, Zenon
<1> HIDE DEF S, T
<1>11. ~Hands(o) => Plotted' = Plotted
  <2> SUFFICES ASSUME ~Hands(o) PROVE Plotted' = Plotted
    OBVIOUS
  <2>1. T = S
    BY <1>9
  <2>2. \A i \in S : file'[i] = file[i]
    BY <1>4, <1>6
  <2> QED
    BY <1>2, <1>3, <2>1, <2>2
<1>12. Hands(o) => /\ DOMAIN Plotted' = DOMAIN Plotted \cup {n + 1}
                   /\ Plotted'[n + 1] = o
                   /\ \A i \in DOMAIN Plotted : Plotted'[i] = Plotted[i]
  <2> SUFFICES ASSUME Hands(o)
               PROVE  /\ T = S \cup {n + 1} /\ Plotted'[n + 1] = o
                      /\ \A i \in S : Plotted'[i] = Plotted[i]
    BY <1>7, <1>8
  <2>1. T = S \cup {n + 1}
    BY <1>9
  <2> QED
    BY <1>4, <1>6, <1>7, <1>8, <2>1
<1>13. \A i \in S : file[i] \in FlameObjects
  BY <1>4, <1>6
<1> QED
  BY <1>1, <1>6, <1>7, <1>10, <1>11, <1>12, <1>13 DEF n

-----------------------------------------------------------------------------
(***************************************************************************)
(* The invariant of flamegraph: the whole tree of what was plotted, until  *)
(* it is trimmed.                                                          *)
(***************************************************************************)
WholePlotted == Flame!Whole(Plotted, separators)

FlameInv ==
    command = "flamegraph" =>
        /\ file \in Seq(FlameObjects)
        /\ count = Cardinality(DOMAIN Plotted)
        /\ state # "done" => tree = WholePlotted /\ queue = << >>
        /\ state = "done" =>
               IF count >= TrimThreshold
               THEN TrimInv(Parts(separators), WholePlotted, tree, queue)
               ELSE tree = WholePlotted /\ queue = << >>

LEMMA PlottedIs ==
    ASSUME file \in Seq(FlameObjects)
    PROVE  IsFiniteSet(DOMAIN Plotted) /\ \A i \in DOMAIN Plotted : Plotted[i] \in FlameObjects
<1> DEFINE S == {i \in DOMAIN file : Reaches(file[i])}
<1>1. Len(file) \in Nat /\ DOMAIN file = 1 .. Len(file) /\ S \in SUBSET (1 .. Len(file))
  OBVIOUS
<1>2. Plotted = [i \in S |-> file[i]]
  BY Zenon DEF Plotted
<1>3. IsFiniteSet(1 .. Len(file))
  BY <1>1, FS_Interval
<1> HIDE DEF S
<1>4. IsFiniteSet(S)
  BY <1>1, <1>3, FS_Subset, Zenon
<1> QED
  BY <1>1, <1>2, <1>4

LEMMA PlottedStays ==
    ASSUME UNCHANGED <<file, options, separators>>
    PROVE  Plotted' = Plotted /\ WholePlotted' = WholePlotted
           /\ Parts(separators)' = Parts(separators)
<1>1. Plotted' = Plotted
  <2>1. Plotted' = [i \in {j \in DOMAIN file' : PassesAll(wrapDecoder(options'), file'[j])} |-> file'[i]]
    BY Zenon DEF Plotted, Reaches, PassesAll
  <2>2. Plotted = [i \in {j \in DOMAIN file : PassesAll(wrapDecoder(options), file[j])} |-> file[i]]
    BY Zenon DEF Plotted, Reaches, PassesAll
  <2>3. file' = file /\ options' = options
    OBVIOUS
  <2> QED
    BY <2>1, <2>2, <2>3, Zenon
<1>2. separators' = separators
  OBVIOUS
<1>3. WholePlotted' = Flame!Whole(Plotted', separators')
  BY DEF WholePlotted
<1>4. WholePlotted' = WholePlotted
  BY <1>1, <1>2, <1>3, Zenon DEF WholePlotted
<1>5. Parts(separators)' = Parts(separators)
  BY <1>2 DEF Parts
<1> QED
  BY <1>1, <1>4, <1>5, Zenon

LEMMA FlameInvInit ==
    ASSUME AnalysesAssumption, AnalysesInit
    PROVE  FlameInv
<1> DEFINE W == Flame!Whole(Plotted, separators)
<1>1. file = << >> /\ state = "start" /\ tree = << >> /\ count = 0 /\ queue = << >>
  BY DEF AnalysesInit, Init, Flame!FlameInit
<1>2. DOMAIN Plotted = {} /\ file \in Seq(FlameObjects)
  BY <1>1 DEF Plotted
<1>3. Cardinality(DOMAIN Plotted) = 0 /\ IsFiniteSet(DOMAIN Plotted)
  BY <1>2, FS_EmptySet
<1>4. /\ \A n : n \in DOMAIN W <=>
                    n \in Seq(Parts(separators)) /\ n # << >> /\ Below(Plotted, separators, n) # {}
      /\ W = [n \in DOMAIN W |-> W[n]]
  <2>1. \A i \in DOMAIN Plotted : Plotted[i] \in FlameObjects
    BY <1>2
  <2> QED
    BY <1>3, <2>1, WholeIs, Zenon
<1>5. \A n : Below(Plotted, separators, n) = {}
  BY <1>2 DEF Below
<1> HIDE DEF W
<1>6. W = << >>
  <2>1. DOMAIN W = {}
    BY <1>4, <1>5
  <2> QED
    BY <1>4, <2>1
<1> QED
  BY <1>1, <1>2, <1>3, <1>6 DEF FlameInv, WholePlotted, W

\* A step that leaves the flame graph alone, and a step of another command.
LEMMA FlameRests ==
    ASSUME FlameInv, UNCHANGED command,
           command = "flamegraph" =>
               /\ UNCHANGED <<file, options, separators, tree, count, queue>>
               /\ state' = state \/ (state = "start" /\ state' # "done")
    PROVE  FlameInv'
<1>1. command' = command
  OBVIOUS
<1>2. CASE command # "flamegraph"
  BY <1>1, <1>2 DEF FlameInv
<1>3. CASE command = "flamegraph"
  <2>1. UNCHANGED <<file, options, separators, tree, count, queue>>
    BY <1>3
  <2>2. Plotted' = Plotted /\ WholePlotted' = WholePlotted /\ Parts(separators)' = Parts(separators)
    BY <2>1, PlottedStays, Zenon
  <2>3. state' # "done" => state # "done"
    BY <1>3
  <2>4. state' = "done" => state = "done"
    BY <1>3
  <2>5. /\ file \in Seq(FlameObjects)
        /\ count = Cardinality(DOMAIN Plotted)
        /\ state # "done" => tree = WholePlotted /\ queue = << >>
        /\ state = "done" =>
               IF count >= TrimThreshold
               THEN TrimInv(Parts(separators), WholePlotted, tree, queue)
               ELSE tree = WholePlotted /\ queue = << >>
    BY <1>3, Zenon DEF FlameInv
  <2>6. /\ file' = file /\ tree' = tree /\ count' = count /\ queue' = queue
        /\ separators' = separators
    BY <2>1
  <2>7. TrimInv(Parts(separators), WholePlotted, tree, queue)' <=>
            TrimInv(Parts(separators), WholePlotted, tree, queue)
    <3>1. TrimInv(Parts(separators), WholePlotted, tree, queue)' <=>
              TrimInv(Parts(separators)', WholePlotted', tree', queue')
      BY DEF TrimInv
    <3> QED
      BY <2>2, <2>6, <3>1, Zenon
  <2> QED
    BY <2>2, <2>3, <2>4, <2>5, <2>6, <2>7, Zenon DEF FlameInv
<1> QED
  BY <1>2, <1>3, Zenon

LEMMA FlamePlots ==
    ASSUME AnalysesAssumption, FlameInv, NEW o \in FlameObjects, PlotObject(o)
    PROVE  FlameInv'
<1> DEFINE n == Len(file)
           D == DOMAIN Plotted
<1>1. /\ command = "flamegraph" /\ command' = command /\ state = "parse" /\ state' = state
      /\ file' = Append(file, o) /\ UNCHANGED options /\ Reaches(o)
      /\ Flame!addObject(o, separators) /\ separators' = separators
  BY DEF PlotObject, FromFile, OnlyFlame, sepVars
<1>2. /\ file \in Seq(FlameObjects)
      /\ count = Cardinality(D) /\ tree = WholePlotted /\ queue = << >>
  BY <1>1 DEF FlameInv
<1>3. /\ IsFiniteSet(D) /\ \A i \in D : Plotted[i] \in FlameObjects
      /\ n + 1 \notin D
      /\ DOMAIN Plotted' = D \cup {n + 1} /\ Plotted'[n + 1] = o
      /\ \A i \in D : Plotted'[i] = Plotted[i]
  <2>1. Append(file, o) = file'
    BY <1>1, Zenon
  <2> QED
    BY <1>1, <1>2, PlottedNext
<1>4. tree' = Flame!Whole(Plotted', separators)
  <2> HIDE DEF n
  <2> QED
    BY <1>1, <1>2, <1>3, PlotGrows, Zenon DEF WholePlotted
<1>5. tree' = WholePlotted'
  <2>1. WholePlotted' = Flame!Whole(Plotted', separators')
    BY DEF WholePlotted
  <2> QED
    BY <1>1, <1>4, <2>1, Zenon
<1>6. count' = Cardinality(DOMAIN Plotted')
  <2>1. count' = count + 1
    BY <1>1 DEF Flame!addObject
  <2>2. Cardinality(D \cup {n + 1}) = Cardinality(D) + 1
    BY <1>3, FS_AddElement, Zenon
  <2> QED
    BY <1>2, <1>3, <2>1, <2>2, Zenon
<1>7. file' \in Seq(FlameObjects)
  BY <1>1, <1>2, AppendProperties
<1>8. queue' = << >> /\ state' # "done"
  BY <1>1, <1>2 DEF Flame!addObject
<1> QED
  BY <1>5, <1>6, <1>7, <1>8, Zenon DEF FlameInv

LEMMA FlameFiltered ==
    ASSUME FlameInv, NEW o, command = "flamegraph" => o \in FlameObjects, Filtered(o)
    PROVE  FlameInv'
<1>1. /\ command' = command /\ state = "parse" /\ state' = state
      /\ file' = Append(file, o) /\ UNCHANGED options /\ ~Reaches(o)
      /\ UNCHANGED <<tree, count, queue, separators>>
  BY DEF Filtered, FromFile, sepVars, flameVars, vars
<1>2. CASE command # "flamegraph"
  BY <1>1, <1>2 DEF FlameInv
<1>3. CASE command = "flamegraph"
  <2>1. /\ file \in Seq(FlameObjects) /\ o \in FlameObjects
        /\ count = Cardinality(DOMAIN Plotted) /\ tree = WholePlotted /\ queue = << >>
    BY <1>1, <1>3 DEF FlameInv
  <2>2. Plotted' = Plotted
    BY <1>1, <2>1, PlottedNext
  <2>3. WholePlotted' = WholePlotted
    <3>1. WholePlotted' = Flame!Whole(Plotted', separators')
      BY DEF WholePlotted
    <3>2. separators' = separators
      BY <1>1
    <3> QED
      BY <2>2, <3>1, <3>2, Zenon DEF WholePlotted
  <2>4. file' \in Seq(FlameObjects)
    BY <1>1, <2>1, AppendProperties
  <2>5. tree' = tree /\ count' = count /\ queue' = queue /\ state' # "done"
    BY <1>1
  <2> QED
    BY <2>1, <2>2, <2>3, <2>4, <2>5, Zenon DEF FlameInv
<1> QED
  BY <1>2, <1>3, Zenon

LEMMA PlottedTree ==
    ASSUME AnalysesAssumption, file \in Seq(FlameObjects)
    PROVE  WholeTree(WholePlotted, Parts(separators))
<1>1. IsFiniteSet(DOMAIN Plotted) /\ \A i \in DOMAIN Plotted : Plotted[i] \in FlameObjects
  BY PlottedIs, Zenon
<1> QED
  BY <1>1, WholeIs, Zenon DEF WholePlotted

LEMMA FlameEnds ==
    ASSUME AnalysesAssumption, FlameInv, PlotEnds
    PROVE  FlameInv'
<1>1. /\ command = "flamegraph" /\ command' = command /\ state = "parse" /\ state' = "done"
      /\ UNCHANGED <<file, options, separators, tree, count>>
      /\ queue' = IF count >= TrimThreshold THEN <<<< >>>> ELSE << >>
  BY DEF PlotEnds, OnlyFlame, Given, sepVars, Flame!StartTrim
<1>2. /\ file \in Seq(FlameObjects) /\ tree = WholePlotted
      /\ count = Cardinality(DOMAIN Plotted)
  BY <1>1 DEF FlameInv
<1>3. Plotted' = Plotted /\ WholePlotted' = WholePlotted /\ Parts(separators)' = Parts(separators)
  BY <1>1, PlottedStays, Zenon
<1>4. file' = file /\ tree' = tree /\ count' = count /\ state' = "done"
  BY <1>1
<1>5. CASE count >= TrimThreshold
  <2>1. TrimInv(Parts(separators), WholePlotted, WholePlotted, <<<< >>>>)
    BY <1>2, PlottedTree, TrimStarts, Zenon
  <2>2. queue' = <<<< >>>> /\ tree' = WholePlotted
    BY <1>1, <1>2, <1>5, Zenon
  <2>3. TrimInv(Parts(separators), WholePlotted, tree, queue)' <=>
            TrimInv(Parts(separators)', WholePlotted', tree', queue')
    BY DEF TrimInv
  <2>4. TrimInv(Parts(separators), WholePlotted, tree, queue)'
    BY <1>3, <2>1, <2>2, <2>3, Zenon
  <2> QED
    BY <1>2, <1>3, <1>4, <1>5, <2>4, Zenon DEF FlameInv
<1>6. CASE ~(count >= TrimThreshold)
  <2>1. queue' = << >>
    BY <1>1, <1>6, Zenon
  <2> QED
    BY <1>2, <1>3, <1>4, <1>6, <2>1, Zenon DEF FlameInv
<1> QED
  BY <1>5, <1>6, Zenon

LEMMA FlameTurns ==
    ASSUME AnalysesAssumption, FlameInv, TrimTurn
    PROVE  FlameInv'
<1> DEFINE P == Parts(separators)
<1>1. /\ command = "flamegraph" /\ command' = command /\ state' = state
      /\ UNCHANGED <<file, options, separators>>
      /\ Flame!Trim /\ queue # << >>
  BY DEF TrimTurn, OnlyFlame, Given, sepVars, Flame!Trim
<1>2. /\ file \in Seq(FlameObjects) /\ count = Cardinality(DOMAIN Plotted)
      /\ state = "done" /\ count >= TrimThreshold
      /\ TrimInv(P, WholePlotted, tree, queue)
  BY <1>1, Zenon DEF FlameInv
<1>3. Plotted' = Plotted /\ WholePlotted' = WholePlotted /\ P' = P
  BY <1>1, PlottedStays, Zenon
<1>4. Others \in P
  BY DEF Parts
<1>5. WholeTree(WholePlotted, P)
  BY <1>2, PlottedTree, Zenon
<1> HIDE DEF P
<1>6. TreeOf(tree, P) /\ queue \in Seq(Seq(P))
  BY <1>2, Zenon DEF TrimInv
<1>7. /\ Turn(tree, queue[1], tree') /\ count' = count
      /\ \E order : Lists(order, Kids(tree, queue[1])) /\ queue' = Tail(queue) \o order
  BY <1>1, <1>4, <1>6, FlameTurn, Zenon
<1>8. PICK order : Lists(order, Kids(tree, queue[1])) /\ queue' = Tail(queue) \o order
  BY <1>7, Zenon
<1>9. TrimInv(P, WholePlotted, tree', queue')
  <2> DEFINE W == WholePlotted
             R == tree'
             r == queue'
  <2>1. /\ Others \in P /\ WholeTree(W, P) /\ TrimInv(P, W, tree, queue) /\ queue # << >>
        /\ Turn(tree, queue[1], R) /\ Lists(order, Kids(tree, queue[1]))
        /\ r = Tail(queue) \o order
    BY <1>1, <1>2, <1>4, <1>5, <1>7, <1>8, Zenon
  <2> HIDE DEF W, R, r
  <2>2. TrimInv(P, W, R, r)
    BY ONLY <2>1, TurnKeeps, Zenon
  <2> QED
    BY <2>2 DEF W, R, r
<1>10. TrimInv(P, WholePlotted, tree, queue)' <=> TrimInv(P', WholePlotted', tree', queue')
  BY DEF TrimInv
<1>11. TrimInv(P, WholePlotted, tree, queue)'
  BY <1>3, <1>9, <1>10, Zenon
<1>12. file' = file /\ state' = "done" /\ count' = count
  BY <1>1, <1>2, <1>7
<1> QED
  BY <1>2, <1>3, <1>11, <1>12, Zenon DEF FlameInv, P

LEMMA FlameInvNext ==
    ASSUME AnalysesAssumption, FlameInv, [AnalysesNext]_analysesVars
    PROVE  FlameInv'
<1> USE DEF Given, OnlyRanking, OnlyPrefix, OnlyFlame, OnlyAof, sepVars, flameVars, aofVars
<1>1. CASE Refuse
  BY <1>1, FlameRests DEF Refuse
<1>2. CASE StartRanking
  BY <1>2, FlameRests DEF StartRanking, Ranking
<1>3. CASE StartPrefix
  BY <1>3, FlameRests DEF StartPrefix
<1>4. CASE StartOther
  BY <1>4, FlameRests DEF StartOther
<1>5. CASE ReportRanking
  BY <1>5, FlameRests DEF ReportRanking, Ranking
<1>6. CASE ReportPrefix
  BY <1>6, FlameRests DEF ReportPrefix
<1>7. CASE PlotEnds
  BY <1>7, FlameEnds, Zenon
<1>8. CASE TrimTurn
  BY <1>8, FlameTurns, Zenon
<1>9. CASE ConvertEnds \/ LoadCommand
  BY <1>9, FlameRests DEF ConvertEnds, LoadCommand, Converting
<1>10. ASSUME NEW o, RankObject(o) PROVE FlameInv'
  BY <1>10, FlameRests DEF RankObject, Ranking, FromFile
<1>11. ASSUME NEW o, GroupObject(o) PROVE FlameInv'
  BY <1>11, FlameRests DEF GroupObject, FromFile
<1>12. ASSUME NEW o \in FlameObjects, PlotObject(o) PROVE FlameInv'
  BY <1>12, FlamePlots, Zenon
<1>13. ASSUME NEW o \in Objects, Filtered(o)
       PROVE  FlameInv'
  <2>1. command = "flamegraph" => o \in FlameObjects
    BY <1>13 DEF Objects
  <2> QED
    BY <1>13, <2>1, FlameFiltered, Zenon
<1>14. ASSUME NEW o, ConvertObject(o) PROVE FlameInv'
  BY <1>14, FlameRests DEF ConvertObject, FromFile, Converting
<1>15. CASE UNCHANGED analysesVars
  BY <1>15, FlameRests DEF analysesVars, vars
<1> QED
  BY <1>1, <1>2, <1>3, <1>4, <1>5, <1>6, <1>7, <1>8, <1>9, <1>10, <1>11, <1>12, <1>13, <1>14,
     <1>15, AnalysesSteps

(***************************************************************************)
(* flamegraph.go:82-123: for any file and any separators every node of the *)
(* tree has the size of all keys below it, until the tree is trimmed; when *)
(* no node is left to trim, the inner nodes are all there, the children of *)
(* each add up to what they were and the others are as they were - but for *)
(* a child "others" that was in the way and what was below it.  However    *)
(* the children of a node are ordered.                                     *)
(***************************************************************************)
THEOREM FlameGraphAddsUp == AnalysesSpec => []FlameAddsUp
<1>1. AnalysesInit => FlameInv
  BY AnalysesAssumption, FlameInvInit, Zenon
<1>2. FlameInv /\ [AnalysesNext]_analysesVars => FlameInv'
  BY AnalysesAssumption, FlameInvNext, Zenon
<1>3. FlameInv => FlameAddsUp
  <2> SUFFICES ASSUME FlameInv, command = "flamegraph"
               PROVE  /\ state = "parse" => Flame!Complete(Plotted, separators)
                      /\ (state = "done" /\ queue = << >>) =>
                             IF Cardinality(DOMAIN Plotted) >= TrimThreshold
                             THEN Flame!Trimmed(Plotted, separators)
                             ELSE Flame!Complete(Plotted, separators)
    BY Zenon DEF FlameAddsUp
  <2> DEFINE P == Parts(separators)
  <2>1. /\ file \in Seq(FlameObjects)
        /\ count = Cardinality(DOMAIN Plotted)
        /\ state # "done" => tree = WholePlotted /\ queue = << >>
        /\ state = "done" =>
               IF count >= TrimThreshold
               THEN TrimInv(P, WholePlotted, tree, queue)
               ELSE tree = WholePlotted /\ queue = << >>
    BY Zenon DEF FlameInv
  <2>2. Flame!Complete(Plotted, separators) <=> tree = WholePlotted
    BY Zenon DEF Flame!Complete, WholePlotted
  <2>3. state = "parse" => state # "done"
    OBVIOUS
  <2>4. ASSUME queue = << >>, TrimInv(P, WholePlotted, tree, queue)
        PROVE  Flame!Trimmed(Plotted, separators)
    <3>1. WholeTree(WholePlotted, P)
      BY <2>1, AnalysesAssumption, PlottedTree, Zenon
    <3>2. Others \in P
      BY DEF Parts
    <3>3. /\ WholeTree(Flame!Whole(Plotted, separators), P)
          /\ TrimInv(P, Flame!Whole(Plotted, separators), tree, << >>)
      BY <2>4, <3>1, Zenon DEF WholePlotted
    <3> HIDE DEF P
    <3> QED
      BY <3>2, <3>3, FlameTrimmed, Zenon
  <2> HIDE DEF P
  <2> QED
    BY <2>1, <2>2, <2>3, <2>4, Zenon
<1> QED
  BY <1>1, <1>2, <1>3, PTL DEF AnalysesSpec

-----------------------------------------------------------------------------
(***************************************************************************)
(* The commands of an object, one by one.                                  *)
(***************************************************************************)
\* The members of a sequence, and what is a sequence of them.
Row(s) == {s[i] : i \in DOMAIN s}
IsRow(s) == s \in Seq(Row(s))

LEMMA RowOf ==
    ASSUME NEW m \in Nat, NEW s, DOMAIN s = 1 .. m, s = [i \in 1 .. m |-> s[i]]
    PROVE  IsRow(s) /\ Len(s) = m
<1>1. s \in [1 .. m -> Row(s)]
  BY DEF Row
<1> QED
  BY <1>1, ArrayIsSeq DEF IsRow

LEMMA RowsJoin ==
    ASSUME NEW s, NEW t, IsRow(s), IsRow(t)
    PROVE  /\ IsRow(s \o t) /\ Len(s) \in Nat /\ Len(t) \in Nat
           /\ Len(s \o t) = Len(s) + Len(t)
           /\ DOMAIN s = 1 .. Len(s) /\ DOMAIN t = 1 .. Len(t)
           /\ \A i \in 1 .. Len(s) : (s \o t)[i] = s[i]
           /\ \A i \in 1 .. Len(t) : (s \o t)[Len(s) + i] = t[i]
<1> DEFINE S == Row(s) \cup Row(t)
           n == Len(s) + Len(t)
           st == s \o t
<1>1. s \in Seq(S) /\ t \in Seq(S)
  <2>1. s \in Seq(Row(s)) /\ t \in Seq(Row(t))
    BY DEF IsRow
  <2>2. Row(s) \subseteq S /\ Row(t) \subseteq S
    OBVIOUS
  <2> HIDE DEF S
  <2> QED
    BY <2>1, <2>2
<1> HIDE DEF S
<1>2. /\ Len(s) \in Nat /\ Len(t) \in Nat /\ Len(st) = n /\ st \in Seq(S)
      /\ DOMAIN s = 1 .. Len(s) /\ DOMAIN t = 1 .. Len(t)
      /\ \A i \in 1 .. Len(s) : st[i] = s[i]
      /\ \A i \in 1 .. Len(t) : st[Len(s) + i] = t[i]
  BY <1>1
<1>3. st = [i \in 1 .. n |-> st[i]] /\ DOMAIN st = 1 .. n /\ n \in Nat
  <2>1. n \in Nat /\ Len(st) = n /\ st \in Seq(S)
    BY <1>2
  <2> HIDE DEF st, n
  <2>2. st \in [1 .. n -> S]
    BY <2>1
  <2> QED
    BY <2>1, <2>2
<1> HIDE DEF st, n
<1>4. IsRow(st)
  BY <1>3, RowOf
<1> QED
  BY <1>2, <1>4 DEF st, n

\* How many commands make the value, and the k-th of them.
Makers(o, order) ==
    CASE o.type \in {"string", "list", "set", "zset"} -> 1
      [] o.type = "hash" -> IF o.ex THEN 1 + Len(order) ELSE 1
      [] o.type = "stream" -> Len(o.val)
      [] OTHER -> 0

Maker(o, order, k) ==
    CASE o.type = "string" -> Aof!Command("SET", o.key, o.val)
      [] o.type = "list" -> Aof!Command("RPUSH", o.key, o.val)
      [] o.type = "set" -> Aof!Command("SADD", o.key, o.val)
      [] o.type = "zset" -> Aof!Command("ZADD", o.key, o.val)
      [] o.type = "stream" -> Aof!Command("XADD", o.key, o.val[k])
      [] OTHER ->
            IF k = 1 THEN Aof!Command("HMSET", o.key, {[f |-> x.f, v |-> x.v] : x \in o.val})
            ELSE Aof!Command(IF order[k - 1].e = 0 THEN "HPERSIST" ELSE "HPEXPIREAT",
                             o.key, order[k - 1])

CommandsOf(o, order) == Makers(o, order) + IF o.ms = 0 THEN 0 ELSE 1

LEMMA AofCount == \A S : Aof!Cardinality(S) = Cardinality(S)
BY Zenon DEF Aof!Cardinality, Cardinality

LEMMA AofOrder ==
    ASSUME NEW o, Aof!IsObject(o), NEW order \in Aof!Orders(o)
    PROVE  /\ order \in Seq(Row(order)) /\ Len(order) \in Nat /\ DOMAIN order = 1 .. Len(order)
           /\ (o.type = "hash" /\ o.ex) =>
                  /\ \A i \in 1 .. Len(order) : order[i] \in o.val
                  /\ \A i, j \in 1 .. Len(order) : i # j => order[i] # order[j]
                  /\ \A x \in o.val : \E i \in 1 .. Len(order) : order[i] = x
<1>1. CASE o.type = "hash" /\ o.ex
  <2> DEFINE S == o.val
             c == Cardinality(S)
  <2>1. IsFiniteSet(S)
    <3>1. Aof!IsFiniteSet(S)
      BY <1>1 DEF Aof!IsObject
    <3> QED
      BY <3>1, Zenon DEF Aof!IsFiniteSet, IsFiniteSet
  <2>2. order \in Aof!SetToSeqs(S)
    BY <1>1 DEF Aof!Orders
  <2> HIDE DEF S
  <2>3. c \in Nat
    BY <2>1, FS_CardinalityType
  <2>4. order \in [1 .. c -> S] /\ \A i, j \in 1 .. c : i # j => order[i] # order[j]
    BY <2>2, AofCount DEF Aof!SetToSeqs
  <2>5. \A e \in S : \E j \in 1 .. c : order[j] = e
    <3>1. order \in Injection(1 .. c, S)
      BY <2>4 DEF Injection, IsInjective
    <3>2. Cardinality(1 .. c) = c
      BY <2>3, FS_Interval
    <3> HIDE DEF c
    <3>3. order \in Surjection(1 .. c, S)
      BY <2>1, <3>1, <3>2, FS_Injection DEF c
    <3> QED
      BY <3>3 DEF Surjection
  <2> HIDE DEF c
  <2>6. IsRow(order) /\ Len(order) = c
    BY <2>3, <2>4, RowOf
  <2>7. order \in Seq(Row(order))
    BY <2>6 DEF IsRow
  <2> QED
    BY <2>3, <2>4, <2>5, <2>6, <2>7 DEF S
<1>2. CASE ~(o.type = "hash" /\ o.ex)
  <2>1. order = << >>
    BY <1>2 DEF Aof!Orders
  <2> QED
    BY <1>2, <2>1 DEF Row
<1> QED
  BY <1>1, <1>2

LEMMA CommandsAre ==
    ASSUME NEW o, Aof!IsObject(o), NEW order \in Aof!Orders(o)
    PROVE  LET cmds == Aof!ObjectToCmd(o, order) IN
           /\ Makers(o, order) \in Nat /\ CommandsOf(o, order) \in Nat
           /\ IsRow(cmds) /\ Len(cmds) = CommandsOf(o, order)
           /\ \A k \in 1 .. CommandsOf(o, order) :
                  cmds[k] = IF k <= Makers(o, order) THEN Maker(o, order, k)
                            ELSE Aof!Command("PEXPIREAT", o.key, Millis(o.ms))
<1> DEFINE v == Aof!ValueCommands(o, order)
           e == Aof!makeExpireCmd(o)
           m == Makers(o, order)
           M(k) == Maker(o, order, k)
           x == IF o.ms = 0 THEN 0 ELSE 1
<1>1. Len(order) \in Nat
  BY AofOrder
<1>2. m \in Nat /\ IsRow(v) /\ Len(v) = m /\ \A k \in 1 .. m : v[k] = M(k)
  <2>0. /\ o.type \in {"string", "list", "set", "zset", "hash", "stream", "module"}
        /\ o.type = "stream" => Len(o.val) \in Nat
        /\ o.ex \in BOOLEAN
    BY DEF Aof!IsObject
  <2>1. ASSUME NEW c, v = <<c>>, m = 1, M(1) = c
        PROVE  m \in Nat /\ IsRow(v) /\ Len(v) = m /\ \A k \in 1 .. m : v[k] = M(k)
    <3> HIDE DEF v, m, M
    <3>1. DOMAIN v = 1 .. 1 /\ v = [i \in 1 .. 1 |-> v[i]] /\ v[1] = c
      BY <2>1
    <3>2. IsRow(v) /\ Len(v) = 1
      BY <3>1, RowOf
    <3>3. \A k \in 1 .. 1 : k = 1
      OBVIOUS
    <3> QED
      BY <2>1, <3>1, <3>2, <3>3
  <2>2. CASE o.type = "string"
    <3>1. v = <<Aof!Command("SET", o.key, o.val)>> /\ m = 1
          /\ M(1) = Aof!Command("SET", o.key, o.val)
      BY <2>2 DEF Aof!ValueCommands, Makers, Maker
    <3> QED
      BY <2>1, <3>1
  <2>3. CASE o.type = "list"
    <3>1. v = <<Aof!Command("RPUSH", o.key, o.val)>> /\ m = 1
          /\ M(1) = Aof!Command("RPUSH", o.key, o.val)
      BY <2>3 DEF Aof!ValueCommands, Makers, Maker
    <3> QED
      BY <2>1, <3>1
  <2>4. CASE o.type = "set"
    <3>1. v = <<Aof!Command("SADD", o.key, o.val)>> /\ m = 1
          /\ M(1) = Aof!Command("SADD", o.key, o.val)
      BY <2>4 DEF Aof!ValueCommands, Makers, Maker
    <3> QED
      BY <2>1, <3>1
  <2>5. CASE o.type = "zset"
    <3>1. v = <<Aof!Command("ZADD", o.key, o.val)>> /\ m = 1
          /\ M(1) = Aof!Command("ZADD", o.key, o.val)
      BY <2>5 DEF Aof!ValueCommands, Makers, Maker
    <3> QED
      BY <2>1, <3>1
  <2>6. CASE o.type = "hash"
    <3> DEFINE h == Aof!Command("HMSET", o.key, {[f |-> y.f, v |-> y.v] : y \in o.val})
               T(i) == Aof!Command(IF order[i].e = 0 THEN "HPERSIST" ELSE "HPEXPIREAT",
                                   o.key, order[i])
               r == [i \in 1 .. Len(order) |-> T(i)]
    <3>1. v = <<h>> \o (IF o.ex THEN r ELSE << >>) /\ m = IF o.ex THEN 1 + Len(order) ELSE 1
      BY <2>6 DEF Aof!ValueCommands, Aof!hashToCmd, Makers
    <3>2. \A k : M(k) = IF k = 1 THEN h ELSE T(k - 1)
      BY <2>6 DEF Maker
    <3> HIDE DEF h, T, v, m, M
    <3>3. IsRow(<<h>>) /\ Len(<<h>>) = 1 /\ <<h>>[1] = h
      <4>1. DOMAIN <<h>> = 1 .. 1 /\ <<h>> = [i \in 1 .. 1 |-> <<h>>[i]] /\ <<h>>[1] = h
        OBVIOUS
      <4> QED
        BY <4>1, RowOf
    <3>4. CASE o.ex
      <4>1. IsRow(r) /\ Len(r) = Len(order) /\ \A i \in 1 .. Len(order) : r[i] = T(i)
        <5>1. DOMAIN r = 1 .. Len(order) /\ r = [i \in 1 .. Len(order) |-> r[i]]
          OBVIOUS
        <5>2. \A i \in 1 .. Len(order) : r[i] = T(i)
          OBVIOUS
        <5> HIDE DEF r
        <5> QED
          BY <1>1, <5>1, <5>2, RowOf
      <4> HIDE DEF r
      <4>2. /\ IsRow(<<h>> \o r) /\ Len(<<h>> \o r) = 1 + Len(order)
            /\ (<<h>> \o r)[1] = h
            /\ \A i \in 1 .. Len(order) : (<<h>> \o r)[1 + i] = T(i)
        <5>1. /\ IsRow(<<h>> \o r) /\ Len(<<h>> \o r) = Len(<<h>>) + Len(r)
              /\ \A i \in 1 .. Len(<<h>>) : (<<h>> \o r)[i] = <<h>>[i]
              /\ \A i \in 1 .. Len(r) : (<<h>> \o r)[Len(<<h>>) + i] = r[i]
          BY <3>3, <4>1, RowsJoin
        <5> QED
          BY <3>3, <4>1, <5>1
      <4>3. v = <<h>> \o r /\ m = 1 + Len(order)
        BY <3>1, <3>4
      <4>4. \A k \in 1 .. 1 + Len(order) : v[k] = M(k)
        <5> TAKE k \in 1 .. 1 + Len(order)
        <5>1. CASE k = 1
          BY <3>2, <4>2, <4>3, <5>1
        <5>2. CASE k # 1
          <6>1. k - 1 \in 1 .. Len(order) /\ 1 + (k - 1) = k
            BY <1>1, <5>2
          <6>2. (<<h>> \o r)[1 + (k - 1)] = T(k - 1)
            BY <4>2, <6>1
          <6> QED
            BY <3>2, <4>3, <5>2, <6>1, <6>2
        <5> QED
          BY <5>1, <5>2
      <4> QED
        BY <1>1, <4>2, <4>3, <4>4
    <3>5. CASE ~o.ex
      <4>1. v = <<h>> /\ m = 1
        BY <3>1, <3>5
      <4>2. \A k \in 1 .. 1 : k = 1
        OBVIOUS
      <4> QED
        BY <3>2, <3>3, <4>1, <4>2
    <3> QED
      BY <3>4, <3>5
  <2>7. CASE o.type = "stream"
    <3> DEFINE T(i) == Aof!Command("XADD", o.key, o.val[i])
    <3>1. v = [i \in 1 .. Len(o.val) |-> T(i)] /\ m = Len(o.val) /\ \A k : M(k) = T(k)
      BY <2>7 DEF Aof!ValueCommands, Aof!streamToCmd, Makers, Maker
    <3> HIDE DEF T, v, m, M
    <3>2. /\ DOMAIN v = 1 .. m /\ v = [i \in 1 .. m |-> v[i]] /\ m \in Nat
          /\ \A k \in 1 .. m : v[k] = M(k)
      BY <2>0, <2>7, <3>1
    <3> QED
      BY <3>2, RowOf
  <2>8. CASE o.type = "module"
    <3>1. v = << >> /\ m = 0
      BY <2>8 DEF Aof!ValueCommands, Makers
    <3> HIDE DEF v, m, M
    <3>2. DOMAIN v = 1 .. 0 /\ v = [i \in 1 .. 0 |-> v[i]]
      BY <3>1
    <3>3. IsRow(v) /\ Len(v) = 0
      BY <3>2, RowOf
    <3> QED
      BY <3>1, <3>3
  <2> QED
    BY <2>0, <2>2, <2>3, <2>4, <2>5, <2>6, <2>7, <2>8
<1>3. /\ IsRow(e) /\ Len(e) = x
      /\ \A k \in 1 .. x : e[k] = Aof!Command("PEXPIREAT", o.key, Millis(o.ms))
  <2> DEFINE c == Aof!Command("PEXPIREAT", o.key, Millis(o.ms))
  <2>1. e = IF o.ms = 0 THEN << >> ELSE <<c>>
    BY DEF Aof!makeExpireCmd
  <2> HIDE DEF c, e
  <2>2. DOMAIN e = 1 .. x /\ e = [i \in 1 .. x |-> e[i]] /\ x \in Nat /\ (x = 1 => e[1] = c)
    BY <2>1
  <2>3. \A k \in 1 .. x : x = 1 /\ k = 1
    OBVIOUS
  <2> HIDE DEF x
  <2>4. IsRow(e) /\ Len(e) = x
    BY <2>2, RowOf
  <2> QED
    BY <2>2, <2>3, <2>4 DEF c
<1>4. Aof!ObjectToCmd(o, order) = v \o e /\ CommandsOf(o, order) = m + x
  BY DEF Aof!ObjectToCmd, CommandsOf
<1>5. x \in Nat
  OBVIOUS
<1> DEFINE p == Aof!Command("PEXPIREAT", o.key, Millis(o.ms))
<1>p. \A k \in 1 .. x : e[k] = p
  BY <1>3
<1> HIDE DEF v, e, m, M, x, p
<1>6. /\ IsRow(v \o e) /\ Len(v \o e) = m + x
      /\ \A k \in 1 .. m : (v \o e)[k] = v[k]
      /\ \A k \in 1 .. x : (v \o e)[m + k] = e[k]
  <2>1. /\ IsRow(v \o e) /\ Len(v \o e) = Len(v) + Len(e)
        /\ \A k \in 1 .. Len(v) : (v \o e)[k] = v[k]
        /\ \A k \in 1 .. Len(e) : (v \o e)[Len(v) + k] = e[k]
    BY <1>2, <1>3, RowsJoin
  <2> QED
    BY <1>2, <1>3, <2>1
<1>7. \A k \in 1 .. m + x : (v \o e)[k] = IF k <= m THEN M(k) ELSE p
  <2> TAKE k \in 1 .. m + x
  <2>1. CASE k <= m
    BY <1>2, <1>6, <2>1
  <2>2. CASE ~(k <= m)
    <3>1. k - m \in 1 .. x /\ m + (k - m) = k
      BY <1>2, <1>5, <2>2
    <3>2. (v \o e)[m + (k - m)] = e[k - m] /\ e[k - m] = p
      BY <1>6, <1>p, <3>1
    <3> QED
      BY <2>2, <3>1, <3>2
  <2> QED
    BY <2>1, <2>2
<1> QED
  BY <1>2, <1>4, <1>5, <1>6, <1>7 DEF m, M, p

-----------------------------------------------------------------------------
(***************************************************************************)
(* What a command does to the keyspace.                                    *)
(***************************************************************************)
Old(ks, key, type) ==
    IF key \in DOMAIN ks THEN ks[key]
    ELSE [type |-> type, val |-> Aof!EmptyOf(type), ms |-> 0]

Put(ks, key, e) == [k \in DOMAIN ks \cup {key} |-> IF k = key THEN e ELSE ks[k]]

Takes(val, m) == m.fields # {} /\ (val # << >> => val[Len(val)].id < m.id)

GrownBy(o, order, k, val) ==
    CASE o.type = "list" -> val \o o.val
      [] o.type = "set" -> val \cup o.val
      [] o.type = "zset" -> {x \in val : \A y \in o.val : x.m # y.m} \cup o.val
      [] o.type = "stream" -> Append(val, [id |-> o.val[k].id, fields |-> o.val[k].fields])
      [] OTHER ->
            IF k = 1 THEN Aof!Fields(val, {[f |-> x.f, v |-> x.v] : x \in o.val}, 0)
            ELSE Aof!Fields(val, {order[k - 1]}, order[k - 1].e)

LEMMA PutIs ==
    ASSUME NEW ks, NEW key, NEW e
    PROVE  /\ \A k : k \in DOMAIN Put(ks, key, e) <=> k \in DOMAIN ks \/ k = key
           /\ Put(ks, key, e)[key] = e
           /\ \A k \in DOMAIN ks : k # key => Put(ks, key, e)[k] = ks[k]
BY DEF Put

LEMMA ApplyCommand ==
    ASSUME NEW cmd, NEW type, cmd.name # "PEXPIREAT", cmd.name # "SET", Aof!TypeFor(cmd) = type
    PROVE  LET old == Old(keyspace, cmd.key, type)
           IN Aof!Applied(cmd) =
                  IF old.type # type \/ ~Aof!Accepted(old.val, cmd) THEN keyspace
                  ELSE Put(keyspace, cmd.key, [old EXCEPT !.val = Aof!Grown(old.val, cmd)])
<1> DEFINE old == Old(keyspace, cmd.key, type)
<1>1. old = IF cmd.key \in DOMAIN keyspace THEN keyspace[cmd.key]
            ELSE [type |-> type, val |-> Aof!EmptyOf(type), ms |-> 0]
  BY DEF Old
<1> HIDE DEF old
<1>2. Aof!Applied(cmd) =
          IF old.type # type \/ ~Aof!Accepted(old.val, cmd) THEN keyspace
          ELSE [k \in DOMAIN keyspace \cup {cmd.key} |->
                   IF k = cmd.key THEN [old EXCEPT !.val = Aof!Grown(old.val, cmd)]
                   ELSE keyspace[k]]
  BY <1>1 DEF Aof!Applied, Aof!Exists
<1> QED
  BY <1>2, Zenon DEF Put, old

LEMMA ApplySet ==
    ASSUME NEW key, NEW arg
    PROVE  Aof!Applied(Aof!Command("SET", key, arg)) =
               Put(keyspace, key, [type |-> "string", val |-> arg, ms |-> 0])
<1> DEFINE cmd == Aof!Command("SET", key, arg)
<1>1. cmd.name = "SET" /\ cmd.key = key /\ cmd.arg = arg
  BY DEF Aof!Command
<1> HIDE DEF cmd
<1>2. Aof!Applied(cmd) =
          [k \in DOMAIN keyspace \cup {key} |->
              IF k = key THEN [type |-> "string", val |-> arg, ms |-> 0] ELSE keyspace[k]]
  BY <1>1 DEF Aof!Applied
<1> QED
  BY <1>2 DEF Put, cmd

LEMMA ApplyExpire ==
    ASSUME NEW key, NEW arg
    PROVE  Aof!Applied(Aof!Command("PEXPIREAT", key, arg)) =
               IF key \in DOMAIN keyspace THEN [keyspace EXCEPT ![key].ms = arg] ELSE keyspace
<1> DEFINE cmd == Aof!Command("PEXPIREAT", key, arg)
<1>1. cmd.name = "PEXPIREAT" /\ cmd.key = key /\ cmd.arg = arg
  BY DEF Aof!Command
<1> HIDE DEF cmd
<1>2. Aof!Applied(cmd) =
          IF key \in DOMAIN keyspace THEN [keyspace EXCEPT ![key].ms = arg] ELSE keyspace
  BY <1>1 DEF Aof!Applied, Aof!Exists
<1> QED
  BY <1>2 DEF cmd

LEMMA ApplyMaker ==
    ASSUME NEW o, Aof!IsObject(o), NEW order \in Aof!Orders(o), NEW k \in 1 .. Makers(o, order)
    PROVE  LET old == Old(keyspace, o.key, o.type)
           IN Aof!Applied(Maker(o, order, k)) =
                  IF o.type = "string"
                  THEN Put(keyspace, o.key, [type |-> "string", val |-> o.val, ms |-> 0])
                  ELSE IF old.type # o.type \/ (o.type = "stream" /\ ~Takes(old.val, o.val[k]))
                  THEN keyspace
                  ELSE Put(keyspace, o.key, [old EXCEPT !.val = GrownBy(o, order, k, old.val)])
<1> DEFINE old == Old(keyspace, o.key, o.type)
           Goal(cmd) ==
               Aof!Applied(cmd) =
                  IF o.type = "string"
                  THEN Put(keyspace, o.key, [type |-> "string", val |-> o.val, ms |-> 0])
                  ELSE IF old.type # o.type \/ (o.type = "stream" /\ ~Takes(old.val, o.val[k]))
                  THEN keyspace
                  ELSE Put(keyspace, o.key, [old EXCEPT !.val = GrownBy(o, order, k, old.val)])
<1> SUFFICES Goal(Maker(o, order, k))
  OBVIOUS
<1>1. ASSUME NEW c, Maker(o, order, k) = c, c.key = o.key,
             o.type # "string", c.name # "PEXPIREAT", c.name # "SET",
             Aof!TypeFor(c) = o.type,
             Aof!Accepted(old.val, c) <=> ~(o.type = "stream" /\ ~Takes(old.val, o.val[k])),
             Aof!Grown(old.val, c) = GrownBy(o, order, k, old.val)
      PROVE  Goal(Maker(o, order, k))
  <2>1. Aof!Applied(c) =
            IF old.type # o.type \/ ~Aof!Accepted(old.val, c) THEN keyspace
            ELSE Put(keyspace, o.key, [old EXCEPT !.val = Aof!Grown(old.val, c)])
    <3>1. LET d == Old(keyspace, c.key, o.type)
          IN Aof!Applied(c) =
                 IF d.type # o.type \/ ~Aof!Accepted(d.val, c) THEN keyspace
                 ELSE Put(keyspace, c.key, [d EXCEPT !.val = Aof!Grown(d.val, c)])
      BY <1>1, ApplyCommand
    <3> QED
      BY <1>1, <3>1, Zenon
  <2> HIDE DEF old
  <2> QED
    BY <1>1, <2>1
<1>2. /\ o.type \in {"string", "list", "set", "zset", "hash", "stream", "module"}
      /\ o.type # "module"
  BY DEF Aof!IsObject, Makers
<1>3. CASE o.type = "string"
  <2>1. Maker(o, order, k) = Aof!Command("SET", o.key, o.val)
    BY <1>3 DEF Maker
  <2> QED
    BY <1>3, <2>1, ApplySet
<1> HIDE DEF old, Goal
<1>4. CASE o.type = "list"
  <2> DEFINE c == Aof!Command("RPUSH", o.key, o.val)
  <2>1. Maker(o, order, k) = c
    BY <1>4 DEF Maker
  <2>2. c.name = "RPUSH" /\ c.arg = o.val /\ c.key = o.key
    BY DEF Aof!Command
  <2> HIDE DEF c
  <2>3. /\ Aof!TypeFor(c) = o.type /\ Aof!Accepted(old.val, c)
        /\ Aof!Grown(old.val, c) = GrownBy(o, order, k, old.val)
    BY <1>4, <2>2 DEF Aof!TypeFor, Aof!Accepted, Aof!Grown, GrownBy
  <2> QED
    BY <1>1, <1>4, <2>1, <2>2, <2>3
<1>5. CASE o.type = "set"
  <2> DEFINE c == Aof!Command("SADD", o.key, o.val)
  <2>1. Maker(o, order, k) = c
    BY <1>5 DEF Maker
  <2>2. c.name = "SADD" /\ c.arg = o.val /\ c.key = o.key
    BY DEF Aof!Command
  <2> HIDE DEF c
  <2>3. /\ Aof!TypeFor(c) = o.type /\ Aof!Accepted(old.val, c)
        /\ Aof!Grown(old.val, c) = GrownBy(o, order, k, old.val)
    BY <1>5, <2>2 DEF Aof!TypeFor, Aof!Accepted, Aof!Grown, GrownBy
  <2> QED
    BY <1>1, <1>5, <2>1, <2>2, <2>3
<1>6. CASE o.type = "zset"
  <2> DEFINE c == Aof!Command("ZADD", o.key, o.val)
  <2>1. Maker(o, order, k) = c
    BY <1>6 DEF Maker
  <2>2. c.name = "ZADD" /\ c.arg = o.val /\ c.key = o.key
    BY DEF Aof!Command
  <2> HIDE DEF c
  <2>3. /\ Aof!TypeFor(c) = o.type /\ Aof!Accepted(old.val, c)
        /\ Aof!Grown(old.val, c) = GrownBy(o, order, k, old.val)
    BY <1>6, <2>2 DEF Aof!TypeFor, Aof!Accepted, Aof!Grown, GrownBy
  <2> QED
    BY <1>1, <1>6, <2>1, <2>2, <2>3
<1>7. CASE o.type = "stream"
  <2> DEFINE c == Aof!Command("XADD", o.key, o.val[k])
  <2>1. Maker(o, order, k) = c
    BY <1>7 DEF Maker
  <2>2. c.name = "XADD" /\ c.arg = o.val[k] /\ c.key = o.key
    BY DEF Aof!Command
  <2> HIDE DEF c
  <2>3. /\ Aof!TypeFor(c) = o.type
        /\ Aof!Accepted(old.val, c) <=> Takes(old.val, o.val[k])
        /\ Aof!Grown(old.val, c) = GrownBy(o, order, k, old.val)
    <3>1. Aof!TypeFor(c) = o.type
      BY <1>7, <2>2 DEF Aof!TypeFor
    <3>2. Aof!Accepted(old.val, c) <=> Takes(old.val, o.val[k])
      BY <2>2 DEF Aof!Accepted, Takes
    <3>3. Aof!Grown(old.val, c) = GrownBy(o, order, k, old.val)
      BY <1>7, <2>2 DEF Aof!Grown, GrownBy
    <3> QED
      BY <3>1, <3>2, <3>3
  <2> QED
    BY <1>1, <1>7, <2>1, <2>2, <2>3
<1>8. CASE o.type = "hash" /\ k = 1
  <2> DEFINE g == {[f |-> x.f, v |-> x.v] : x \in o.val}
             c == Aof!Command("HMSET", o.key, g)
  <2>1. Maker(o, order, k) = c
    BY <1>8 DEF Maker
  <2>2. c.name = "HMSET" /\ c.arg = g /\ c.key = o.key
    BY DEF Aof!Command
  <2>3. GrownBy(o, order, k, old.val) = Aof!Fields(old.val, g, 0)
    BY <1>8 DEF GrownBy
  <2> HIDE DEF c, g
  <2>4. /\ Aof!TypeFor(c) = o.type /\ Aof!Accepted(old.val, c)
        /\ Aof!Grown(old.val, c) = GrownBy(o, order, k, old.val)
    BY <1>8, <2>2, <2>3 DEF Aof!TypeFor, Aof!Accepted, Aof!Grown
  <2> QED
    BY <1>1, <1>8, <2>1, <2>2, <2>4
<1>9. CASE o.type = "hash" /\ k # 1
  <2> DEFINE x == order[k - 1]
             name == IF x.e = 0 THEN "HPERSIST" ELSE "HPEXPIREAT"
             c == Aof!Command(name, o.key, x)
  <2>1. Maker(o, order, k) = c
    BY <1>9 DEF Maker
  <2>2. c.name = name /\ c.arg = x /\ c.key = o.key
    BY DEF Aof!Command
  <2>3. GrownBy(o, order, k, old.val) = Aof!Fields(old.val, {x}, x.e)
    BY <1>9 DEF GrownBy
  <2>4. name \in {"HPERSIST", "HPEXPIREAT"} /\ (name = "HPERSIST" => x.e = 0)
    OBVIOUS
  <2> HIDE DEF c, x, name
  <2>5. Aof!TypeFor(c) = o.type /\ Aof!Accepted(old.val, c)
    BY <1>9, <2>2, <2>4 DEF Aof!TypeFor, Aof!Accepted
  <2>6. Aof!Grown(old.val, c) = GrownBy(o, order, k, old.val)
    BY <2>2, <2>3, <2>4 DEF Aof!Grown
  <2>7. c.name # "PEXPIREAT" /\ c.name # "SET" /\ o.type # "string" /\ o.type # "stream"
    BY <1>9, <2>2, <2>4
  <2> QED
    BY <1>1, <2>1, <2>2, <2>5, <2>6, <2>7
<1> QED
  BY <1>2, <1>3, <1>4, <1>5, <1>6, <1>7, <1>8, <1>9

-----------------------------------------------------------------------------
(***************************************************************************)
(* What the commands leave, object by object.                              *)
(***************************************************************************)
Places(f, key) == {i \in DOMAIN f : f[i].key = key}
Alike(f, key) == Aof!Understood(f, Places(f, key))

\* The places of a key among the first n objects.
FirstPlaces(f, key, n) == {i \in Places(f, key) : i <= n}
Mortal(f, key, n) == {i \in FirstPlaces(f, key, n) : f[i].ms # 0}

MsTo(f, key, n) ==
    IF Mortal(f, key, n) = {} THEN 0 ELSE Aof!MsLeft(f[Aof!Max(Mortal(f, key, n))])
ListTo(f, key, n) == Aof!Joined(f, Places(f, key))[n]

EntryTo(f, key, n) ==
    LET o == f[Aof!Max(FirstPlaces(f, key, n))]
    IN IF o.type = "list"
       THEN [type |-> "list", val |-> ListTo(f, key, n), ms |-> MsTo(f, key, n)]
       ELSE [type |-> o.type, val |-> Aof!LeftOf(o), ms |-> Aof!MsLeft(o)]

\* j[n] is the lists at the places of S among the first n.
JoinsTo(f, S, d, j) ==
    j = [n \in 0 .. d |->
            IF n = 0 THEN << >>
            ELSE IF n \in S THEN j[n - 1] \o f[n].val ELSE j[n - 1]]

\* Such a function exists: it is made step by step.
LEMMA JoinedExists ==
    ASSUME NEW f, NEW S, NEW d \in Nat
    PROVE  \E j : JoinsTo(f, S, d, j)
<1> DEFINE Made(j, m) == JoinsTo(f, S, m, j)
           T == {m \in Nat : \A j : ~Made(j, m)}
<1>1. SUFFICES ASSUME T # {} PROVE FALSE
  OBVIOUS
<1>2. T \in SUBSET Nat
  OBVIOUS
<1> HIDE DEF T
<1>3. PICK m \in T : \A y \in T : m <= y
  BY <1>1, <1>2, LeastNumber
<1> USE DEF T
<1>4. m \in Nat /\ \A j : ~Made(j, m)
  OBVIOUS
<1>5. m # 0
  <2> DEFINE j == [n \in 0 .. 0 |-> << >>]
             N(n) == IF n = 0 THEN << >>
                     ELSE IF n \in S THEN j[n - 1] \o f[n].val ELSE j[n - 1]
  <2>1. \A n \in 0 .. 0 : N(n) = << >>
    <3>1. \A n \in 0 .. 0 : n = 0
      OBVIOUS
    <3> QED
      BY <3>1, Zenon
  <2>2. Made(j, 0)
    <3> HIDE DEF N
    <3>1. j = [n \in 0 .. 0 |-> N(n)]
      BY <2>1
    <3> QED
      BY <3>1, Zenon DEF N, JoinsTo
  <2> QED
    BY <1>4, <2>2
<1>6. m - 1 \in Nat /\ ~(m <= m - 1)
  BY <1>4, <1>5
<1>7. m - 1 \notin T
  BY <1>3, <1>6
<1>8. PICK j : Made(j, m - 1)
  BY <1>6, <1>7
<1> DEFINE N(g, n) == IF n = 0 THEN << >>
                      ELSE IF n \in S THEN g[n - 1] \o f[n].val ELSE g[n - 1]
           k == [n \in 0 .. m |-> IF n = m THEN N(j, m) ELSE j[n]]
<1>9. DOMAIN j = 0 .. m - 1 /\ \A n \in 0 .. m - 1 : j[n] = N(j, n)
  <2>1. j = [n \in 0 .. m - 1 |-> N(j, n)]
    BY <1>8 DEF JoinsTo
  <2> HIDE DEF N, Made
  <2> QED
    BY <2>1
<1>10. \A n \in 0 .. m : k[n] = N(k, n)
  <2> TAKE n \in 0 .. m
  <2>1. CASE n = 0
    <3>1. n \in 0 .. m - 1 /\ n # m
      BY <1>4, <1>5, <2>1
    <3>2. k[n] = j[n] /\ j[n] = N(j, n)
      BY <1>9, <3>1
    <3> QED
      BY <2>1, <3>2
  <2>2. CASE n # 0
    <3>1. n - 1 \in 0 .. m /\ n - 1 # m
      BY <1>4, <2>2
    <3>2. k[n - 1] = j[n - 1]
      BY <3>1
    <3>3. N(k, n) = N(j, n)
      BY <2>2, <3>2
    <3>4. CASE n = m
      BY <3>3, <3>4
    <3>5. CASE n # m
      <4>1. n \in 0 .. m - 1
        BY <1>4, <3>5
      <4>2. k[n] = j[n] /\ j[n] = N(j, n)
        BY <1>9, <3>5, <4>1
      <4> QED
        BY <3>3, <4>2
    <3> QED
      BY <3>4, <3>5
  <2> QED
    BY <2>1, <2>2
<1>11. Made(k, m)
  <2>1. DOMAIN k = 0 .. m /\ k = [n \in 0 .. m |-> k[n]]
    OBVIOUS
  <2> HIDE DEF k, N
  <2>2. k = [n \in 0 .. m |-> N(k, n)]
    BY <1>10, <2>1
  <2> QED
    BY <2>2, Zenon DEF N, JoinsTo
<1> HIDE DEF k
<1> QED
  BY <1>4, <1>11

LEMMA ListGrows ==
    ASSUME NEW f, NEW key, Len(f) \in Nat
    PROVE  /\ ListTo(f, key, 0) = << >>
           /\ \A n \in 1 .. Len(f) :
                  ListTo(f, key, n) =
                      IF n \in Places(f, key) THEN ListTo(f, key, n - 1) \o f[n].val
                      ELSE ListTo(f, key, n - 1)
<1> DEFINE S == Places(f, key)
           d == Len(f)
           Made(j) == JoinsTo(f, S, d, j)
           J == CHOOSE j : Made(j)
<1>1. Aof!Joined(f, S) = J
  BY Zenon DEF Aof!Joined, JoinsTo
<1> HIDE DEF S, d
<1>2. \E j : Made(j)
  <2>1. d \in Nat
    BY DEF d
  <2> QED
    BY <2>1, JoinedExists, Zenon
<1> HIDE DEF Made
<1>3. Made(J)
  BY <1>2, Zenon
<1> HIDE DEF J
<1>4. J = [n \in 0 .. d |->
              IF n = 0 THEN << >>
              ELSE IF n \in S THEN J[n - 1] \o f[n].val ELSE J[n - 1]]
  BY <1>3, Zenon DEF Made, JoinsTo
<1>5. d \in Nat
  BY DEF d
<1>6. \A n \in 0 .. d : J[n] = IF n = 0 THEN << >>
                               ELSE IF n \in S THEN J[n - 1] \o f[n].val ELSE J[n - 1]
  <2> DEFINE N(n) == IF n = 0 THEN << >>
                     ELSE IF n \in S THEN J[n - 1] \o f[n].val ELSE J[n - 1]
  <2>1. J = [n \in 0 .. d |-> N(n)]
    BY <1>4
  <2> HIDE DEF N
  <2>2. \A n \in 0 .. d : J[n] = N(n)
    BY <2>1
  <2> QED
    BY <2>2 DEF N
<1>7. J[0] = << >>
  BY <1>5, <1>6
<1>8. \A n \in 1 .. d : J[n] = IF n \in S THEN J[n - 1] \o f[n].val ELSE J[n - 1]
  <2> TAKE n \in 1 .. d
  <2>1. n \in 0 .. d /\ n # 0
    BY <1>5
  <2> QED
    BY <1>6, <2>1
<1>9. \A n : ListTo(f, key, n) = J[n]
  BY <1>1 DEF ListTo, S
<1> QED
  BY <1>7, <1>8, <1>9 DEF S, d

LEMMA LargestIs ==
    ASSUME NEW S, NEW n \in S, n \in Nat, \A i \in S : i \in Nat /\ i <= n
    PROVE  Aof!Max(S) = n
<1>1. Aof!Max(S) = CHOOSE x \in S : \A y \in S : x >= y
  BY Zenon DEF Aof!Max
<1>2. n \in S /\ \A y \in S : n >= y
  OBVIOUS
<1>3. ASSUME NEW x \in S, \A y \in S : x >= y PROVE x = n
  BY <1>3
<1> QED
  BY <1>1, <1>2, <1>3

\* What an object more is to a key.
LEMMA PlacesGrow ==
    ASSUME NEW f, NEW key, Len(f) \in Nat, DOMAIN f = 1 .. Len(f), NEW n \in 0 .. Len(f) - 1
    PROVE  /\ n + 1 \in Places(f, key) <=> f[n + 1].key = key
           /\ FirstPlaces(f, key, n + 1) =
                  IF f[n + 1].key = key THEN FirstPlaces(f, key, n) \cup {n + 1}
                  ELSE FirstPlaces(f, key, n)
           /\ \A i \in FirstPlaces(f, key, n) : i \in 1 .. n
           /\ MsTo(f, key, n + 1) =
                  IF f[n + 1].key = key /\ f[n + 1].ms # 0 THEN Aof!MsLeft(f[n + 1])
                  ELSE MsTo(f, key, n)
<1>1. n + 1 \in Places(f, key) <=> f[n + 1].key = key
  BY DEF Places
<1>2. \A i : i \in FirstPlaces(f, key, n + 1) <=>
                 i \in FirstPlaces(f, key, n) \/ (i = n + 1 /\ f[n + 1].key = key)
  BY DEF Places, FirstPlaces
<1>3. \A i \in FirstPlaces(f, key, n) : i \in 1 .. n
  BY DEF Places, FirstPlaces
<1>4. \A i : i \in Mortal(f, key, n + 1) <=>
                 i \in Mortal(f, key, n) \/ (i = n + 1 /\ f[n + 1].key = key /\ f[n + 1].ms # 0)
  BY <1>2 DEF Mortal
<1>5. \A i \in Mortal(f, key, n) : i \in 1 .. n
  BY <1>3 DEF Mortal
<1>6. CASE f[n + 1].key = key /\ f[n + 1].ms # 0
  <2>1. n + 1 \in Mortal(f, key, n + 1) /\ n + 1 \in Nat
        /\ \A i \in Mortal(f, key, n + 1) : i \in Nat /\ i <= n + 1
    BY <1>4, <1>5, <1>6
  <2>2. Aof!Max(Mortal(f, key, n + 1)) = n + 1
    BY <2>1, LargestIs
  <2>3. MsTo(f, key, n + 1) = Aof!MsLeft(f[n + 1])
    BY <2>1, <2>2 DEF MsTo
  <2> QED
    BY <1>1, <1>2, <1>3, <1>6, <2>3
<1>7. CASE ~(f[n + 1].key = key /\ f[n + 1].ms # 0)
  <2>1. Mortal(f, key, n + 1) = Mortal(f, key, n)
    BY <1>4, <1>7
  <2>2. MsTo(f, key, n + 1) = MsTo(f, key, n)
    BY <2>1, Zenon DEF MsTo
  <2> QED
    BY <1>1, <1>2, <1>3, <1>7, <2>2
<1> QED
  BY <1>6, <1>7

\* The entry of a key: that of the object, if it is the object's.
LEMMA EntryGrows ==
    ASSUME NEW f, NEW key, Len(f) \in Nat, DOMAIN f = 1 .. Len(f), NEW n \in 0 .. Len(f) - 1
    PROVE  EntryTo(f, key, n + 1) =
               LET o == f[n + 1]
               IN IF o.key # key THEN EntryTo(f, key, n)
                  ELSE IF o.type = "list"
                  THEN [type |-> "list", val |-> ListTo(f, key, n) \o o.val,
                        ms |-> IF o.ms # 0 THEN Aof!MsLeft(o) ELSE MsTo(f, key, n)]
                  ELSE [type |-> o.type, val |-> Aof!LeftOf(o), ms |-> Aof!MsLeft(o)]
<1> DEFINE o == f[n + 1]
<1>1. /\ n + 1 \in Places(f, key) <=> o.key = key
      /\ FirstPlaces(f, key, n + 1) =
             IF o.key = key THEN FirstPlaces(f, key, n) \cup {n + 1} ELSE FirstPlaces(f, key, n)
      /\ \A i \in FirstPlaces(f, key, n) : i \in 1 .. n
      /\ MsTo(f, key, n + 1) =
             IF o.key = key /\ o.ms # 0 THEN Aof!MsLeft(o) ELSE MsTo(f, key, n)
  BY PlacesGrow
<1>2. ListTo(f, key, n + 1) =
          IF o.key = key THEN ListTo(f, key, n) \o o.val ELSE ListTo(f, key, n)
  <2>1. n + 1 \in 1 .. Len(f) /\ (n + 1) - 1 = n
    OBVIOUS
  <2>2. \A i \in 1 .. Len(f) :
            ListTo(f, key, i) =
                IF i \in Places(f, key) THEN ListTo(f, key, i - 1) \o f[i].val
                ELSE ListTo(f, key, i - 1)
    BY ListGrows, Zenon
  <2>3. ListTo(f, key, n + 1) =
            IF n + 1 \in Places(f, key) THEN ListTo(f, key, (n + 1) - 1) \o o.val
            ELSE ListTo(f, key, (n + 1) - 1)
    BY <2>1, <2>2, Zenon
  <2> QED
    BY ONLY <1>1, <2>1, <2>3
<1>3. CASE o.key = key
  <2>1. n + 1 \in FirstPlaces(f, key, n + 1) /\ n + 1 \in Nat
        /\ \A i \in FirstPlaces(f, key, n + 1) : i \in Nat /\ i <= n + 1
    BY <1>1, <1>3
  <2>2. Aof!Max(FirstPlaces(f, key, n + 1)) = n + 1
    BY <2>1, LargestIs
  <2> QED
    BY <1>1, <1>2, <1>3, <2>2 DEF EntryTo
<1>4. CASE o.key # key
  BY <1>1, <1>2, <1>4 DEF EntryTo
<1> QED
  BY <1>3, <1>4

LEMMA EntryAtEnd ==
    ASSUME NEW f, NEW key, Len(f) \in Nat, DOMAIN f = 1 .. Len(f)
    PROVE  EntryTo(f, key, Len(f)) = Aof!EntryOf(f, Places(f, key))
<1>1. FirstPlaces(f, key, Len(f)) = Places(f, key)
  BY DEF FirstPlaces, Places
<1> QED
  BY <1>1 DEF EntryTo, ListTo, MsTo, Mortal, Aof!EntryOf

\* The objects that share a key with one: none, or its like.
LEMMA AlikeAre ==
    ASSUME NEW f, Len(f) \in Nat, DOMAIN f = 1 .. Len(f), NEW n \in 0 .. Len(f) - 1,
           Alike(f, f[n + 1].key), FirstPlaces(f, f[n + 1].key, n) # {}
    PROVE  /\ f[n + 1].type \in {"string", "list"}
           /\ \A i \in FirstPlaces(f, f[n + 1].key, n) : f[i].type = f[n + 1].type
           /\ \E i \in 1 .. n : f[i].key = f[n + 1].key /\ Aof!HasCommands(f[i])
           /\ EntryTo(f, f[n + 1].key, n).type = f[n + 1].type
           /\ f[n + 1].type = "list" =>
                  EntryTo(f, f[n + 1].key, n) =
                      [type |-> "list", val |-> ListTo(f, f[n + 1].key, n),
                       ms |-> MsTo(f, f[n + 1].key, n)]
<1> DEFINE key == f[n + 1].key
           P == Places(f, key)
           F == FirstPlaces(f, key, n)
<1>1. n + 1 \in P /\ F \subseteq P /\ F \subseteq 1 .. n /\ \A i \in F : f[i].key = key
  BY DEF Places, FirstPlaces
<1>2. PICK i \in F : TRUE
  OBVIOUS
<1>3. Aof!Cardinality(P) # 1
  <2>1. SUFFICES ASSUME Cardinality(P) = 1 PROVE FALSE
    BY AofCount
  <2>2. IsFiniteSet(P)
    <3>1. P \subseteq 1 .. Len(f) /\ IsFiniteSet(1 .. Len(f))
      BY FS_Interval DEF Places
    <3> QED
      BY <3>1, FS_Subset
  <2>3. i \in P /\ n + 1 \in P /\ i # n + 1
    BY <1>1, <1>2
  <2> HIDE DEF P
  <2>4. PICK x : P = {x}
    BY <2>1, <2>2, FS_Singleton
  <2> QED
    BY <2>3, <2>4
<1>4. PICK t \in {"string", "list"} : \A k \in P : f[k].type = t
  BY <1>3, Zenon DEF Alike, Aof!Understood
<1>5. f[n + 1].type = t /\ \A k \in F : f[k].type = t
  BY <1>1, <1>4
<1>6. Aof!HasCommands(f[i])
  BY <1>5 DEF Aof!HasCommands
<1>7. Aof!Max(F) \in F
  <2>1. IsFiniteSet(F)
    <3>1. F \subseteq 1 .. n /\ IsFiniteSet(1 .. n)
      BY <1>1, FS_Interval
    <3> QED
      BY <3>1, FS_Subset
  <2>2. \E x \in F : \A y \in F : x >= y
    <3> DEFINE T == {n - y : y \in F}
    <3>1. T \in SUBSET Nat /\ T # {}
      BY <1>1
    <3>2. PICK x \in T : \A y \in T : x <= y
      BY <3>1, LeastNumber
    <3>3. PICK z \in F : x = n - z
      OBVIOUS
    <3>4. \A y \in F : n - z <= n - y
      BY <3>2, <3>3
    <3>5. \A y \in F : y \in Nat
      BY <1>1
    <3>6. \A y \in F : z >= y
      BY <3>4, <3>5
    <3> QED
      BY <3>6
  <2>3. Aof!Max(F) = CHOOSE x \in F : \A y \in F : x >= y
    BY Zenon DEF Aof!Max
  <2> QED
    BY <2>2, <2>3
<1>8. f[Aof!Max(F)].type = t
  BY <1>5, <1>7
<1>9. EntryTo(f, key, n).type = t
      /\ (t = "list" => EntryTo(f, key, n) = [type |-> "list", val |-> ListTo(f, key, n),
                                              ms |-> MsTo(f, key, n)])
  BY <1>8 DEF EntryTo
<1> QED
  BY <1>1, <1>2, <1>4, <1>5, <1>6, <1>9

-----------------------------------------------------------------------------
(***************************************************************************)
(* The two values that several commands make: a hash and a stream.         *)
(***************************************************************************)
LEMMA AofAscending == \A S : Aof!Ascending(S) = Ascending(S)
BY Zenon DEF Aof!Ascending, Ascending, Aof!Cardinality, Cardinality

NoExpiration(x) == [f |-> x.f, v |-> x.v, e |-> 0]

\* A hash after the command of k - 1 of its fields.
HashTo(o, order, k) ==
    {x \in o.val : \E i \in 1 .. k - 1 : order[i] = x}
    \cup {NoExpiration(x) : x \in {y \in o.val : \A i \in 1 .. k - 1 : order[i] # y}}

LEMMA HashGrows ==
    ASSUME NEW o, Aof!IsObject(o), o.type = "hash", NEW order \in Aof!Orders(o)
    PROVE  /\ Aof!Fields({}, {[f |-> x.f, v |-> x.v] : x \in o.val}, 0) = HashTo(o, order, 1)
           /\ o.ex => \A k \in 1 .. Len(order) :
                  Aof!Fields(HashTo(o, order, k), {order[k]}, order[k].e) = HashTo(o, order, k + 1)
           /\ HashTo(o, order, Makers(o, order)) = o.val
<1> DEFINE H(k) == HashTo(o, order, k)
           V == o.val
<1>1. /\ V \subseteq [f : Nat, v : Nat, e : Nat] /\ \A x, y \in V : x.f = y.f => x = y
      /\ ~o.ex => \A x \in V : x.e = 0
      /\ o.ex \in BOOLEAN
  BY DEF Aof!IsObject
<1>2. Len(order) \in Nat /\ DOMAIN order = 1 .. Len(order)
  BY AofOrder
<1>3. o.ex => /\ \A i \in 1 .. Len(order) : order[i] \in V
              /\ \A i, j \in 1 .. Len(order) : i # j => order[i] # order[j]
              /\ \A x \in V : \E i \in 1 .. Len(order) : order[i] = x
  BY AofOrder
<1> HIDE DEF V
<1>4. \A x \in V : x = [f |-> x.f, v |-> x.v, e |-> x.e]
  BY <1>1
<1>5. \A k, z : z \in H(k) <=>
          \/ z \in V /\ \E i \in 1 .. k - 1 : order[i] = z
          \/ \E x \in V : z = NoExpiration(x) /\ \A i \in 1 .. k - 1 : order[i] # x
  BY DEF HashTo, V
<1>6. Aof!Fields({}, {[f |-> x.f, v |-> x.v] : x \in V}, 0) = H(1)
  <2> DEFINE g == {[f |-> x.f, v |-> x.v] : x \in V}
             L == Aof!Fields({}, g, 0)
  <2>1. \A z : z \in L <=> \E y \in g : z = [f |-> y.f, v |-> y.v, e |-> 0]
    BY DEF Aof!Fields
  <2>2. \A y : y \in g <=> \E x \in V : y = [f |-> x.f, v |-> x.v]
    OBVIOUS
  <2>3. \A i : i \notin 1 .. 1 - 1
    OBVIOUS
  <2> HIDE DEF g, L, H
  <2>4. \A z : z \in L <=> \E x \in V : z = NoExpiration(x)
    <3> TAKE z
    <3>1. ASSUME z \in L PROVE \E x \in V : z = NoExpiration(x)
      <4>1. PICK y \in g : z = [f |-> y.f, v |-> y.v, e |-> 0]
        BY <2>1, <3>1
      <4>2. PICK x \in V : y = [f |-> x.f, v |-> x.v]
        BY <2>2
      <4>3. z = NoExpiration(x)
        BY <4>1, <4>2 DEF NoExpiration
      <4> QED
        BY <4>3
    <3>2. ASSUME NEW x \in V, z = NoExpiration(x) PROVE z \in L
      <4> DEFINE y == [f |-> x.f, v |-> x.v]
      <4>1. y \in g
        BY <2>2
      <4>2. z = [f |-> y.f, v |-> y.v, e |-> 0]
        BY <3>2 DEF NoExpiration
      <4> HIDE DEF y
      <4> QED
        BY <2>1, <4>1, <4>2
    <3> QED
      BY <3>1, <3>2
  <2>5. \A z : z \in L <=> z \in H(1)
    BY <1>5, <2>3, <2>4
  <2> QED
    BY <2>5 DEF L, g
<1>7. ASSUME o.ex, NEW k \in 1 .. Len(order)
      PROVE  Aof!Fields(H(k), {order[k]}, order[k].e) = H(k + 1)
  <2> DEFINE x == order[k]
             L == Aof!Fields(H(k), {x}, x.e)
  <2>1. x \in V /\ x = [f |-> x.f, v |-> x.v, e |-> x.e]
    BY <1>3, <1>4, <1>7
  <2> HIDE DEF H
  <2>2. \A z : z \in L <=> (z \in H(k) /\ z.f # x.f) \/ z = x
    BY <2>1 DEF Aof!Fields
  <2>3. \A i : i \in 1 .. (k + 1) - 1 <=> i \in 1 .. k - 1 \/ i = k
    BY <1>2
  <2>4. \A i \in 1 .. k - 1 : order[i] \in V /\ order[i] # x
    BY <1>2, <1>3, <1>7
  <2>5. \A y \in V : y.f = x.f => y = x
    BY <1>1, <2>1
  <2>6. \A y : NoExpiration(y).f = y.f
    BY DEF NoExpiration
  <2>7. \A z : z \in H(k + 1) <=>
            \/ z \in V /\ ((\E i \in 1 .. k - 1 : order[i] = z) \/ z = x)
            \/ \E y \in V : z = NoExpiration(y) /\ (\A i \in 1 .. k - 1 : order[i] # y) /\ y # x
    <3>1. \A y : (\E i \in 1 .. (k + 1) - 1 : order[i] = y) <=>
                     (\E i \in 1 .. k - 1 : order[i] = y) \/ y = x
      BY <2>3, Zenon
    <3>2. \A y : (\A i \in 1 .. (k + 1) - 1 : order[i] # y) <=>
                     (\A i \in 1 .. k - 1 : order[i] # y) /\ y # x
      BY <2>3, Zenon
    <3>3. \A z : z \in H(k + 1) <=>
              \/ z \in V /\ \E i \in 1 .. (k + 1) - 1 : order[i] = z
              \/ \E y \in V : z = NoExpiration(y) /\ \A i \in 1 .. (k + 1) - 1 : order[i] # y
      BY <1>5, Zenon
    <3> HIDE DEF x
    <3> QED
      BY ONLY <3>1, <3>2, <3>3
  <2> HIDE DEF L, x
  <2>8. ASSUME NEW z PROVE z \in L <=> z \in H(k + 1)
    <3>1. ASSUME z \in L PROVE z \in H(k + 1)
      <4>1. CASE z = x
        BY <2>1, <2>7, <4>1
      <4>2. CASE z \in H(k) /\ z.f # x.f
        <5>1. CASE z \in V /\ \E i \in 1 .. k - 1 : order[i] = z
          BY <2>7, <5>1
        <5>2. ASSUME NEW y \in V, z = NoExpiration(y), \A i \in 1 .. k - 1 : order[i] # y
              PROVE  z \in H(k + 1)
          <6>1. y # x
            BY <2>6, <4>2, <5>2
          <6> QED
            BY <2>7, <5>2, <6>1
        <5> QED
          BY <1>5, <4>2, <5>1, <5>2
      <4> QED
        BY <2>2, <3>1, <4>1, <4>2
    <3>2. ASSUME z \in H(k + 1) PROVE z \in L
      <4>1. CASE z \in V /\ ((\E i \in 1 .. k - 1 : order[i] = z) \/ z = x)
        <5>1. CASE z = x
          BY <2>2, <5>1
        <5>2. CASE z # x
          <6>1. z.f # x.f /\ z \in H(k)
            BY <1>5, <2>5, <4>1, <5>2
          <6> QED
            BY <2>2, <6>1
        <5> QED
          BY <5>1, <5>2
      <4>2. ASSUME NEW y \in V, z = NoExpiration(y), \A i \in 1 .. k - 1 : order[i] # y, y # x
            PROVE  z \in L
        <5>1. z.f # x.f
          BY <2>5, <2>6, <4>2
        <5>2. z \in H(k)
          BY <1>5, <4>2
        <5> QED
          BY <2>2, <5>1, <5>2
      <4> QED
        BY <2>7, <3>2, <4>1, <4>2
    <3> QED
      BY <3>1, <3>2
  <2>9. L = H(k + 1)
    BY <2>8
  <2> QED
    BY <2>9 DEF L, x
<1>8. H(Makers(o, order)) = V
  <2>1. CASE o.ex
    <3>1. Makers(o, order) - 1 = Len(order)
      BY <1>2, <2>1 DEF Makers
    <3> HIDE DEF H
    <3>2. \A z : z \in H(Makers(o, order)) <=> z \in V
      BY <1>3, <1>5, <2>1, <3>1
    <3> QED
      BY <3>2
  <2>2. CASE ~o.ex
    <3>1. Makers(o, order) = 1
      BY <2>2 DEF Makers
    <3>2. \A x \in V : NoExpiration(x) = x
      BY <1>1, <1>4, <2>2 DEF NoExpiration
    <3>3. \A i : i \notin 1 .. 1 - 1
      OBVIOUS
    <3> HIDE DEF H
    <3>4. \A z : z \in H(1) <=> z \in V
      BY <1>5, <3>2, <3>3
    <3> QED
      BY <3>1, <3>4
  <2> QED
    BY <2>1, <2>2
<1> QED
  BY <1>6, <1>7, <1>8 DEF V

\* A stream after the commands of its first k messages.
Fielded(o, k) == {i \in 1 .. k : o.val[i].fields # {}}
Kept(m) == [id |-> m.id, fields |-> m.fields]
AddedTo(o, k) ==
    [j \in DOMAIN Ascending(Fielded(o, k)) |-> Kept(o.val[Ascending(Fielded(o, k))[j]])]

LEMMA AddedGrows ==
    ASSUME NEW o, Aof!IsObject(o), o.type = "stream"
    PROVE  /\ Len(o.val) \in Nat
           /\ \A k \in 0 .. Len(o.val) : AddedTo(o, k) = << >> <=> Fielded(o, k) = {}
           /\ \A k \in 1 .. Len(o.val) :
                  IF o.val[k].fields # {}
                  THEN /\ AddedTo(o, k) = Append(AddedTo(o, k - 1), Kept(o.val[k]))
                       /\ Takes(AddedTo(o, k - 1), o.val[k])
                  ELSE AddedTo(o, k) = AddedTo(o, k - 1)
           /\ AddedTo(o, Len(o.val)) = Aof!LeftOf(o)
<1> DEFINE d == Len(o.val)
           S(k) == Fielded(o, k)
           A(k) == Ascending(S(k))
<1>1. /\ d \in Nat /\ DOMAIN o.val = 1 .. d
      /\ \A i, j \in 1 .. d : i < j => o.val[i].id < o.val[j].id
  BY DEF Aof!IsObject
<1> HIDE DEF d
<1>2. ASSUME NEW k \in 0 .. d
      PROVE  /\ A(k) \in Seq(Nat) /\ DOMAIN A(k) = 1 .. Len(A(k)) /\ Len(A(k)) \in Nat
             /\ \A j \in 1 .. Len(A(k)) : A(k)[j] \in S(k)
             /\ A(k) = << >> <=> S(k) = {}
             /\ Ascending(S(k) \cup {k + 1}) = Append(A(k), k + 1)
  <2>1. k \in Nat /\ S(k) \in SUBSET (1 .. k)
    BY <1>1 DEF Fielded
  <2> HIDE DEF S
  <2>2. /\ Cardinality(S(k)) \in Nat /\ DOMAIN A(k) = 1 .. Cardinality(S(k))
        /\ \A j \in 1 .. Cardinality(S(k)) : A(k)[j] \in S(k)
        /\ \A i \in S(k) : UpTo(S(k), i) \in 1 .. Cardinality(S(k))
        /\ A(k) \in Seq(Nat) /\ Len(A(k)) = Cardinality(S(k))
    BY <2>1, AscendingOf
  <2>3. Ascending(S(k) \cup {k + 1}) = Append(A(k), k + 1)
    BY <2>1, AscendingGrows
  <2>4. A(k) = << >> <=> S(k) = {}
    <3>1. A(k) = << >> <=> Len(A(k)) = 0
      BY <2>2
    <3>2. ASSUME S(k) # {} PROVE Len(A(k)) # 0
      BY <2>2, <3>2
    <3>3. ASSUME Len(A(k)) # 0 PROVE S(k) # {}
      <4>1. 1 \in 1 .. Cardinality(S(k))
        BY <2>2, <3>3
      <4> QED
        BY <2>2, <4>1
    <3> QED
      BY <3>1, <3>2, <3>3
  <2> QED
    BY <2>2, <2>3, <2>4
<1>3. \A k : AddedTo(o, k) = [j \in DOMAIN A(k) |-> Kept(o.val[A(k)[j]])]
  BY DEF AddedTo
<1>4. ASSUME NEW k \in 0 .. d
      PROVE  /\ AddedTo(o, k) \in Seq({Kept(o.val[i]) : i \in 1 .. d})
             /\ Len(AddedTo(o, k)) = Len(A(k)) /\ DOMAIN AddedTo(o, k) = 1 .. Len(A(k))
             /\ \A j \in 1 .. Len(A(k)) : AddedTo(o, k)[j] = Kept(o.val[A(k)[j]])
  <2> DEFINE R == {Kept(o.val[i]) : i \in 1 .. d}
  <2>1. DOMAIN A(k) = 1 .. Len(A(k)) /\ Len(A(k)) \in Nat
        /\ \A j \in 1 .. Len(A(k)) : A(k)[j] \in S(k)
    BY <1>2
  <2>2. \A i \in S(k) : i \in 1 .. d
    BY <1>1 DEF Fielded
  <2> HIDE DEF A, S
  <2>3. AddedTo(o, k) = [j \in 1 .. Len(A(k)) |-> Kept(o.val[A(k)[j]])]
    BY <1>3, <2>1
  <2>4. \A j \in 1 .. Len(A(k)) : Kept(o.val[A(k)[j]]) \in R
    BY <2>1, <2>2
  <2> HIDE DEF R
  <2>5. AddedTo(o, k) \in [1 .. Len(A(k)) -> R]
    BY <2>3, <2>4
  <2>6. AddedTo(o, k) \in Seq(R) /\ Len(AddedTo(o, k)) = Len(A(k))
    BY <2>1, <2>5, ArrayIsSeq
  <2> QED
    BY <2>3, <2>6 DEF R
<1>5. \A k \in 0 .. d : AddedTo(o, k) = << >> <=> S(k) = {}
  <2> TAKE k \in 0 .. d
  <2>1. A(k) = << >> <=> S(k) = {}
    BY <1>2
  <2>2. A(k) = << >> <=> Len(A(k)) = 0
    BY <1>2
  <2>3. AddedTo(o, k) = << >> <=> Len(AddedTo(o, k)) = 0
    BY <1>4
  <2>4. Len(AddedTo(o, k)) = Len(A(k))
    BY <1>4
  <2> QED
    BY <2>1, <2>2, <2>3, <2>4
<1>6. ASSUME NEW k \in 1 .. d
      PROVE  IF o.val[k].fields # {}
             THEN /\ AddedTo(o, k) = Append(AddedTo(o, k - 1), Kept(o.val[k]))
                  /\ Takes(AddedTo(o, k - 1), o.val[k])
             ELSE AddedTo(o, k) = AddedTo(o, k - 1)
  <2>1. k - 1 \in 0 .. d /\ k \in 0 .. d /\ (k - 1) + 1 = k
    BY <1>1
  <2>2. CASE o.val[k].fields # {}
    <3>1. S(k) = S(k - 1) \cup {k}
      BY <2>1, <2>2 DEF Fielded
    <3>2. A(k) = Append(A(k - 1), k)
      BY <1>2, <2>1, <3>1
    <3> DEFINE a == A(k - 1)
               b == A(k)
               c == AddedTo(o, k - 1)
               e == AddedTo(o, k)
               n == Len(a)
    <3>3. a \in Seq(Nat) /\ n \in Nat /\ \A j \in 1 .. n : a[j] \in S(k - 1)
      BY <1>2, <2>1
    <3>4. /\ c \in Seq({Kept(o.val[i]) : i \in 1 .. d}) /\ Len(c) = n /\ DOMAIN c = 1 .. n
          /\ \A j \in 1 .. n : c[j] = Kept(o.val[a[j]])
      BY <1>4, <2>1
    <3>5. /\ e \in Seq({Kept(o.val[i]) : i \in 1 .. d}) /\ Len(e) = Len(b)
          /\ DOMAIN e = 1 .. Len(b) /\ \A j \in 1 .. Len(b) : e[j] = Kept(o.val[b[j]])
      BY <1>4, <2>1
    <3>6. Kept(o.val[k]) \in {Kept(o.val[i]) : i \in 1 .. d}
      OBVIOUS
    <3>7. k \in Nat /\ \A i \in S(k - 1) : i \in 1 .. d /\ i < k
      BY <1>1 DEF Fielded
    <3> DEFINE R == {Kept(o.val[i]) : i \in 1 .. d}
    <3> HIDE DEF a, b, c, e, R, S, A, n
    <3>8. /\ Len(b) = n + 1 /\ b[n + 1] = k /\ \A j \in 1 .. n : b[j] = a[j]
      BY <3>2, <3>3, <3>7 DEF a, b, n
    <3>9. e = Append(c, Kept(o.val[k]))
      <4> DEFINE w == Append(c, Kept(o.val[k]))
      <4>1. c \in Seq(R) /\ Kept(o.val[k]) \in R /\ e \in Seq(R)
        BY <3>4, <3>5, <3>6 DEF R
      <4>2. /\ w \in Seq(R) /\ Len(w) = n + 1 /\ w[n + 1] = Kept(o.val[k])
            /\ \A j \in 1 .. n : w[j] = c[j]
        BY <3>4, <4>1, AppendProperties
      <4> HIDE DEF w
      <4>3. Len(e) = n + 1
        BY <3>5, <3>8
      <4>4. \A j \in 1 .. n + 1 : e[j] = w[j]
        <5> TAKE j \in 1 .. n + 1
        <5>1. e[j] = Kept(o.val[b[j]])
          BY <3>5, <3>8
        <5>2. CASE j = n + 1
          BY <3>8, <4>2, <5>1, <5>2
        <5>3. CASE j # n + 1
          <6>1. j \in 1 .. n
            BY <3>3, <5>3
          <6> QED
            BY <3>4, <3>8, <4>2, <5>1, <6>1
        <5> QED
          BY <5>2, <5>3
      <4>5. e = w
        BY <4>1, <4>2, <4>3, <4>4, SeqEqual
      <4> QED
        BY <4>5 DEF w
    <3>10. Takes(c, o.val[k])
      <4>1. SUFFICES ASSUME c # << >> PROVE c[Len(c)].id < o.val[k].id
        BY <2>2 DEF Takes
      <4>2. n \in 1 .. n /\ Len(c) = n
        BY <3>3, <3>4, <4>1
      <4>3. c[Len(c)] = Kept(o.val[a[n]]) /\ a[n] \in 1 .. d /\ a[n] < k
        BY <3>3, <3>4, <3>7, <4>2
      <4> QED
        BY <1>1, <4>3 DEF Kept
    <3> QED
      BY <2>2, <3>9, <3>10 DEF c, e
  <2>3. CASE o.val[k].fields = {}
    <3>1. S(k) = S(k - 1)
      BY <2>1, <2>3 DEF Fielded
    <3> QED
      BY <1>3, <2>3, <3>1
  <2> QED
    BY <2>2, <2>3
<1>7. AddedTo(o, d) = Aof!LeftOf(o)
  <2>1. S(d) = Aof!WithFields(o.val)
    BY <1>1 DEF Fielded, Aof!WithFields
  <2>2. Aof!LeftOf(o) = [j \in DOMAIN A(d) |-> Kept(o.val[A(d)[j]])]
    BY <2>1, AofAscending DEF Aof!LeftOf, Kept
  <2> QED
    BY <1>3, <2>2
<1> QED
  BY <1>1, <1>5, <1>6, <1>7 DEF d

-----------------------------------------------------------------------------
(***************************************************************************)
(* The keyspace when n objects and j commands of the next one are loaded.  *)
(***************************************************************************)
PartVal(f, n, order, j) ==
    LET o == f[n + 1]
    IN CASE o.type = "list" -> ListTo(f, o.key, n) \o o.val
         [] o.type = "hash" -> HashTo(o, order, j)
         [] o.type = "stream" -> AddedTo(o, j)
         [] OTHER -> o.val

PartMs(f, n) == IF f[n + 1].type = "list" THEN MsTo(f, f[n + 1].key, n) ELSE 0

PartEntry(f, n, order, j) ==
    LET o == f[n + 1]
    IN IF j > Makers(o, order) THEN EntryTo(f, o.key, n + 1)
       ELSE [type |-> o.type, val |-> PartVal(f, n, order, j), ms |-> PartMs(f, n)]

Begun(o, order, j) ==
    \E k \in 1 .. j : k <= Makers(o, order) /\ (o.type = "stream" => o.val[k].fields # {})

Has(f, n, key) == \E i \in 1 .. n : f[i].key = key /\ Aof!HasCommands(f[i])

Here(f, n, order, j, key) ==
    Has(f, n, key) \/ (j > 0 /\ f[n + 1].key = key /\ Begun(f[n + 1], order, j))

Expected(f, n, order, j, key) ==
    IF j > 0 /\ f[n + 1].key = key THEN PartEntry(f, n, order, j) ELSE EntryTo(f, key, n)

Loaded(f, ks, n, order, j) ==
    /\ \A key : key \in DOMAIN ks <=> Here(f, n, order, j, key)
    /\ \A key \in DOMAIN ks : Alike(f, key) => ks[key] = Expected(f, n, order, j, key)

\* What is assumed below: a file, and the commands of its next object.
NextIs(f, n, order) ==
    /\ Len(f) \in Nat /\ DOMAIN f = 1 .. Len(f) /\ n \in 0 .. Len(f) - 1
    /\ Aof!IsObject(f[n + 1]) /\ order \in Aof!Orders(f[n + 1])

\* A command changes the entry of its key alone.
LEMMA LoadsOn ==
    ASSUME NEW f, NEW ks, NEW kt, NEW n, NEW order, NEW j \in Nat,
           Loaded(f, ks, n, order, j),
           \A k : k # f[n + 1].key => (k \in DOMAIN kt <=> k \in DOMAIN ks),
           \A k \in DOMAIN ks : k # f[n + 1].key => kt[k] = ks[k],
           f[n + 1].key \in DOMAIN kt <=>
               Has(f, n, f[n + 1].key) \/ Begun(f[n + 1], order, j + 1),
           (f[n + 1].key \in DOMAIN kt /\ Alike(f, f[n + 1].key)) =>
               kt[f[n + 1].key] = PartEntry(f, n, order, j + 1)
    PROVE  Loaded(f, kt, n, order, j + 1)
<1> DEFINE a == f[n + 1].key
<1>1. /\ \A key : key \in DOMAIN ks <=> Here(f, n, order, j, key)
      /\ \A key \in DOMAIN ks : Alike(f, key) => ks[key] = Expected(f, n, order, j, key)
  BY DEF Loaded
<1>2. j + 1 > 0
  OBVIOUS
<1>3. ASSUME NEW key, key # a
      PROVE  /\ key \in DOMAIN kt <=> Here(f, n, order, j + 1, key)
             /\ (key \in DOMAIN kt /\ Alike(f, key)) =>
                    kt[key] = Expected(f, n, order, j + 1, key)
  <2>1. key \in DOMAIN kt <=> key \in DOMAIN ks
    BY <1>3
  <2>2. Here(f, n, order, j + 1, key) <=> Here(f, n, order, j, key)
    BY <1>3 DEF Here
  <2>3. Expected(f, n, order, j + 1, key) = Expected(f, n, order, j, key)
    BY <1>3 DEF Expected
  <2>4. key \in DOMAIN ks => kt[key] = ks[key]
    BY <1>3
  <2> QED
    BY ONLY <1>1, <2>1, <2>2, <2>3, <2>4
<1>4. /\ a \in DOMAIN kt <=> Here(f, n, order, j + 1, a)
      /\ (a \in DOMAIN kt /\ Alike(f, a)) => kt[a] = Expected(f, n, order, j + 1, a)
  <2>1. Here(f, n, order, j + 1, a) <=> Has(f, n, a) \/ Begun(f[n + 1], order, j + 1)
    BY <1>2 DEF Here
  <2>2. Expected(f, n, order, j + 1, a) = PartEntry(f, n, order, j + 1)
    BY <1>2 DEF Expected
  <2>3. /\ a \in DOMAIN kt <=> Has(f, n, a) \/ Begun(f[n + 1], order, j + 1)
        /\ (a \in DOMAIN kt /\ Alike(f, a)) => kt[a] = PartEntry(f, n, order, j + 1)
    OBVIOUS
  <2> HIDE DEF a
  <2> QED
    BY ONLY <2>1, <2>2, <2>3
<1> HIDE DEF a
<1>5. ASSUME NEW key
      PROVE  /\ key \in DOMAIN kt <=> Here(f, n, order, j + 1, key)
             /\ (key \in DOMAIN kt /\ Alike(f, key)) =>
                    kt[key] = Expected(f, n, order, j + 1, key)
  BY ONLY <1>3, <1>4
<1> QED
  BY <1>5 DEF Loaded

\* All commands that make the value make the whole of it.
LEMMA ValueDone ==
    ASSUME NEW f, NEW n, NEW order, NextIs(f, n, order)
    PROVE  EntryTo(f, f[n + 1].key, n + 1) =
               [type |-> f[n + 1].type, val |-> PartVal(f, n, order, Makers(f[n + 1], order)),
                ms |-> IF f[n + 1].ms = 0 THEN PartMs(f, n) ELSE Millis(f[n + 1].ms)]
<1> DEFINE o == f[n + 1]
           m == Makers(o, order)
<1>1. Aof!IsObject(o) /\ order \in Aof!Orders(o)
  BY DEF NextIs
<1>2. EntryTo(f, o.key, n + 1) =
          IF o.type = "list"
          THEN [type |-> "list", val |-> ListTo(f, o.key, n) \o o.val,
                ms |-> IF o.ms # 0 THEN Aof!MsLeft(o) ELSE MsTo(f, o.key, n)]
          ELSE [type |-> o.type, val |-> Aof!LeftOf(o), ms |-> Aof!MsLeft(o)]
  <2>1. LET x == f[n + 1]
        IN EntryTo(f, o.key, n + 1) =
               IF x.key # o.key THEN EntryTo(f, o.key, n)
               ELSE IF x.type = "list"
               THEN [type |-> "list", val |-> ListTo(f, o.key, n) \o x.val,
                     ms |-> IF x.ms # 0 THEN Aof!MsLeft(x) ELSE MsTo(f, o.key, n)]
               ELSE [type |-> x.type, val |-> Aof!LeftOf(x), ms |-> Aof!MsLeft(x)]
    BY EntryGrows DEF NextIs
  <2> QED
    BY <2>1
<1>3. Aof!MsLeft(o) = IF o.ms = 0 THEN 0 ELSE Millis(o.ms)
  BY DEF Aof!MsLeft
<1>4. o.type # "list" => Aof!LeftOf(o) = PartVal(f, n, order, m)
  <2>1. CASE o.type = "hash"
    <3>1. HashTo(o, order, m) = o.val
      BY <1>1, <2>1, HashGrows
    <3> QED
      BY <2>1, <3>1 DEF PartVal, Aof!LeftOf
  <2>2. CASE o.type = "stream"
    <3>1. m = Len(o.val)
      BY <2>2 DEF Makers
    <3>2. AddedTo(o, Len(o.val)) = Aof!LeftOf(o)
      BY <1>1, <2>2, AddedGrows
    <3> QED
      BY <2>2, <3>1, <3>2 DEF PartVal
  <2>3. CASE o.type \notin {"hash", "stream", "list"}
    BY <2>3 DEF PartVal, Aof!LeftOf
  <2> QED
    BY <2>1, <2>2, <2>3
<1>5. o.type = "list" => PartVal(f, n, order, m) = ListTo(f, o.key, n) \o o.val
                         /\ PartMs(f, n) = MsTo(f, o.key, n)
  BY DEF PartVal, PartMs
<1>6. o.type # "list" => PartMs(f, n) = 0
  BY DEF PartMs
<1> HIDE DEF o, m
<1> QED
  BY <1>2, <1>3, <1>4, <1>5, <1>6 DEF o, m

\* A key that no object had before has no elements and no expiration yet.
LEMMA NothingBefore ==
    ASSUME NEW f, NEW key, Len(f) \in Nat, DOMAIN f = 1 .. Len(f),
           NEW n \in 0 .. Len(f), FirstPlaces(f, key, n) = {}
    PROVE  ListTo(f, key, n) = << >> /\ MsTo(f, key, n) = 0 /\ ~Has(f, n, key)
<1> DEFINE T == {i \in 0 .. n : ListTo(f, key, i) # << >>}
<1>0. n \in Nat /\ \A i \in 1 .. n : i \in 1 .. Len(f)
  OBVIOUS
<1>1. \A i \in 1 .. n : i \notin Places(f, key)
  BY <1>0 DEF FirstPlaces
<1>2. /\ ListTo(f, key, 0) = << >>
      /\ \A i \in 1 .. Len(f) :
             ListTo(f, key, i) =
                 IF i \in Places(f, key) THEN ListTo(f, key, i - 1) \o f[i].val
                 ELSE ListTo(f, key, i - 1)
  BY ListGrows, Zenon
<1>3. ASSUME T # {} PROVE FALSE
  <2>1. T \in SUBSET Nat
    OBVIOUS
  <2> HIDE DEF T
  <2>2. PICK x \in T : \A y \in T : x <= y
    BY <1>3, <2>1, LeastNumber
  <2> USE DEF T
  <2>3. x \in 0 .. n /\ ListTo(f, key, x) # << >>
    OBVIOUS
  <2>4. x # 0
    BY <1>2, <2>3
  <2>5. x \in 1 .. n /\ x - 1 \in 0 .. n /\ ~(x <= x - 1)
    BY <2>3, <2>4
  <2>6. ListTo(f, key, x) = ListTo(f, key, x - 1)
    BY <1>0, <1>1, <1>2, <2>5
  <2>7. x - 1 \notin T
    BY <2>2, <2>5
  <2> QED
    BY <2>3, <2>5, <2>6, <2>7
<1>4. n \in 0 .. n
  BY <1>0
<1>5. Mortal(f, key, n) = {}
  BY DEF Mortal
<1> QED
  <2>1. ListTo(f, key, n) = << >>
    BY <1>3, <1>4
  <2>2. MsTo(f, key, n) = 0
    BY <1>5 DEF MsTo
  <2>3. ~Has(f, n, key)
    <3>1. SUFFICES ASSUME NEW i \in 1 .. n, f[i].key = key PROVE FALSE
      BY DEF Has
    <3> QED
      BY <1>0, <1>1, <3>1 DEF Places
  <2> QED
    BY <2>1, <2>2, <2>3

\* What the next command of a value finds.
OldVal(f, n, order, j) ==
    LET o == f[n + 1]
    IN CASE o.type = "list" -> ListTo(f, o.key, n)
         [] o.type = "hash" -> IF j = 0 THEN {} ELSE HashTo(o, order, j)
         [] o.type = "stream" -> AddedTo(o, j)
         [] OTHER -> {}

LEMMA OldIs ==
    ASSUME NEW f, NEW ks, NEW n, NEW order, NEW j \in Nat, NextIs(f, n, order),
           Loaded(f, ks, n, order, j), j < Makers(f[n + 1], order),
           f[n + 1].type # "string", Alike(f, f[n + 1].key)
    PROVE  Old(ks, f[n + 1].key, f[n + 1].type) =
               [type |-> f[n + 1].type, val |-> OldVal(f, n, order, j), ms |-> PartMs(f, n)]
<1> DEFINE o == f[n + 1]
           a == f[n + 1].key
           m == Makers(o, order)
           e == Old(ks, a, o.type)
           w == OldVal(f, n, order, j)
           Goal == e = [type |-> o.type, val |-> w, ms |-> PartMs(f, n)]
<1>1. /\ Len(f) \in Nat /\ DOMAIN f = 1 .. Len(f) /\ n \in 0 .. Len(f) - 1
      /\ Aof!IsObject(o) /\ order \in Aof!Orders(o)
  BY DEF NextIs
<1>2. /\ \A key : key \in DOMAIN ks <=> Here(f, n, order, j, key)
      /\ \A key \in DOMAIN ks : Alike(f, key) => ks[key] = Expected(f, n, order, j, key)
  BY DEF Loaded
<1>3. /\ a \in DOMAIN ks <=> Here(f, n, order, j, a)
      /\ a \in DOMAIN ks => ks[a] = Expected(f, n, order, j, a)
  BY <1>2
<1>4. /\ o.type \in {"list", "set", "zset", "hash", "stream"}
      /\ o.type \in {"list", "set", "zset"} => m = 1
      /\ m \in Nat
  <2>1. m \in Nat
    BY <1>1, CommandsAre
  <2>2. o.type \in {"string", "list", "set", "zset", "hash", "stream", "module"}
    BY <1>1 DEF Aof!IsObject
  <2>3. o.type = "module" => m = 0
    BY DEF Makers
  <2>4. o.type \in {"list", "set", "zset"} => m = 1
    BY DEF Makers
  <2> QED
    BY <2>1, <2>2, <2>3, <2>4
<1>5. /\ e = IF a \in DOMAIN ks THEN ks[a]
             ELSE [type |-> o.type, val |-> Aof!EmptyOf(o.type), ms |-> 0]
  BY DEF Old
<1>6. CASE FirstPlaces(f, a, n) # {}
  <2>1. /\ o.type \in {"string", "list"}
        /\ \E i \in 1 .. n : f[i].key = a /\ Aof!HasCommands(f[i])
        /\ o.type = "list" => EntryTo(f, a, n) = [type |-> "list", val |-> ListTo(f, a, n),
                                                  ms |-> MsTo(f, a, n)]
    BY <1>1, <1>6, AlikeAre
  <2>2. o.type = "list" /\ j = 0 /\ Has(f, n, a)
    BY <1>4, <2>1 DEF Has
  <2>3. Here(f, n, order, j, a) /\ Expected(f, n, order, j, a) = EntryTo(f, a, n)
    BY <2>2 DEF Here, Expected
  <2>4. e = EntryTo(f, a, n)
    BY <1>3, <1>5, <2>3
  <2>5. w = ListTo(f, a, n) /\ PartMs(f, n) = MsTo(f, a, n)
    BY <2>2 DEF OldVal, PartMs
  <2> QED
    BY <2>1, <2>2, <2>4, <2>5
<1>7. CASE FirstPlaces(f, a, n) = {}
  <2>1. ListTo(f, a, n) = << >> /\ MsTo(f, a, n) = 0 /\ ~Has(f, n, a)
    <3>1. n \in 0 .. Len(f)
      BY <1>1
    <3> QED
      BY <1>1, <1>7, <3>1, NothingBefore
  <2>2. PartMs(f, n) = 0
    BY <2>1 DEF PartMs
  <2>3. a \in DOMAIN ks <=> j > 0 /\ Begun(o, order, j)
    BY <1>3, <2>1 DEF Here
  <2>4. j > 0 => Expected(f, n, order, j, a) =
                     [type |-> o.type, val |-> PartVal(f, n, order, j), ms |-> 0]
    <3>1. ~(j > m)
      BY <1>4
    <3> QED
      BY <2>2, <3>1 DEF Expected, PartEntry
  <2>5. CASE o.type \in {"list", "set", "zset"}
    <3>1. j = 0 /\ a \notin DOMAIN ks
      BY <1>4, <2>3, <2>5
    <3>2. Aof!EmptyOf(o.type) = w
      BY <2>1, <2>5 DEF Aof!EmptyOf, OldVal
    <3> QED
      BY <1>5, <2>2, <3>1, <3>2
  <2>6. CASE o.type = "hash"
    <3>1. CASE j = 0
      <4>1. a \notin DOMAIN ks /\ Aof!EmptyOf(o.type) = w
        BY <2>3, <2>6, <3>1 DEF Aof!EmptyOf, OldVal
      <4> QED
        BY <1>5, <2>2, <4>1
    <3>2. CASE j # 0
      <4>1. j > 0 /\ 1 \in 1 .. j /\ 1 <= m
        BY <1>4, <3>2
      <4>2. Begun(o, order, j)
        BY <2>6, <4>1 DEF Begun
      <4>3. w = PartVal(f, n, order, j)
        BY <2>6, <3>2 DEF OldVal, PartVal
      <4> QED
        BY <1>3, <1>5, <2>2, <2>3, <2>4, <4>1, <4>2, <4>3
    <3> QED
      BY <3>1, <3>2
  <2>7. CASE o.type = "stream"
    <3>1. w = AddedTo(o, j) /\ PartVal(f, n, order, j) = AddedTo(o, j)
      BY <2>7 DEF OldVal, PartVal
    <3>2. CASE j > 0 /\ Begun(o, order, j)
      BY <1>3, <1>5, <2>2, <2>3, <2>4, <3>1, <3>2
    <3>3. CASE ~(j > 0 /\ Begun(o, order, j))
      <4>1. j \in 0 .. Len(o.val) /\ m = Len(o.val)
        BY <1>4, <2>7 DEF Makers
      <4>2. Fielded(o, j) = {}
        <5>1. SUFFICES ASSUME NEW i \in 1 .. j, o.val[i].fields # {} PROVE FALSE
          BY DEF Fielded
        <5>2. j > 0 /\ i <= m
          BY <1>4, <4>1
        <5> QED
          BY <3>3, <5>1, <5>2 DEF Begun
      <4>3. AddedTo(o, j) = << >>
        BY <1>1, <2>7, <4>1, <4>2, AddedGrows
      <4>4. Aof!EmptyOf(o.type) = << >>
        BY <2>7 DEF Aof!EmptyOf
      <4> QED
        BY <1>5, <2>2, <2>3, <3>1, <3>3, <4>3, <4>4
    <3> QED
      BY <3>2, <3>3
  <2> QED
    BY <1>4, <2>5, <2>6, <2>7
<1> QED
  BY <1>6, <1>7

\* A command of the value.
LEMMA ValueGrows ==
    ASSUME NEW f, NEW n, NEW order, NEW j \in Nat, NextIs(f, n, order),
           j < Makers(f[n + 1], order), f[n + 1].type # "string"
    PROVE  LET o == f[n + 1]
               w == OldVal(f, n, order, j)
           IN /\ (o.type = "stream" /\ o.val[j + 1].fields = {}) =>
                     /\ w = AddedTo(o, j) /\ PartVal(f, n, order, j + 1) = AddedTo(o, j)
                     /\ PartVal(f, n, order, j) = AddedTo(o, j)
              /\ (o.type = "stream" /\ o.val[j + 1].fields # {}) => Takes(w, o.val[j + 1])
              /\ (o.type = "stream" => o.val[j + 1].fields # {}) =>
                     GrownBy(o, order, j + 1, w) = PartVal(f, n, order, j + 1)
<1> DEFINE o == f[n + 1]
           m == Makers(o, order)
           w == OldVal(f, n, order, j)
<1>1. Aof!IsObject(o) /\ order \in Aof!Orders(o)
  BY DEF NextIs
<1>2. /\ m \in Nat /\ o.type \in {"list", "set", "zset", "hash", "stream"}
  <2>1. m \in Nat
    BY <1>1, CommandsAre
  <2>2. o.type \in {"string", "list", "set", "zset", "hash", "stream", "module"}
    BY <1>1 DEF Aof!IsObject
  <2>3. o.type = "module" => m = 0
    BY DEF Makers
  <2> QED
    BY <2>1, <2>2, <2>3, SMTT(20)
<1>3. CASE o.type = "list"
  BY <1>3 DEF OldVal, PartVal, GrownBy
<1>4. CASE o.type \in {"set", "zset"}
  <2>1. w = {} /\ PartVal(f, n, order, j + 1) = o.val
    BY <1>4 DEF OldVal, PartVal
  <2>2. GrownBy(o, order, j + 1, {}) = o.val
    BY <1>4 DEF GrownBy
  <2> QED
    BY <1>4, <2>1, <2>2
<1>5. CASE o.type = "hash"
  <2>1. PartVal(f, n, order, j + 1) = HashTo(o, order, j + 1)
    BY <1>5 DEF PartVal
  <2>2. CASE j = 0
    <3>1. w = {}
      BY <1>5, <2>2 DEF OldVal
    <3>2. GrownBy(o, order, j + 1, {}) = Aof!Fields({}, {[f |-> x.f, v |-> x.v] : x \in o.val}, 0)
      BY <1>5, <2>2 DEF GrownBy
    <3>3. Aof!Fields({}, {[f |-> x.f, v |-> x.v] : x \in o.val}, 0) = HashTo(o, order, 1)
      BY <1>1, <1>5, HashGrows
    <3>4. j + 1 = 1 /\ o.type # "stream"
      BY <1>5, <2>2
    <3>5. GrownBy(o, order, j + 1, w) = HashTo(o, order, 1)
      BY <3>1, <3>2, <3>3, Zenon
    <3>6. PartVal(f, n, order, j + 1) = HashTo(o, order, 1)
      BY <2>1, <3>4
    <3>7. GrownBy(o, order, j + 1, w) = PartVal(f, n, order, j + 1)
      BY <3>5, <3>6, Zenon
    <3> QED
      BY <3>4, <3>7
  <2>3. CASE j # 0
    <3>1. o.ex /\ j \in 1 .. Len(order)
      <4>1. m = IF o.ex THEN 1 + Len(order) ELSE 1
        BY <1>5 DEF Makers
      <4>2. Len(order) \in Nat
        BY <1>1, AofOrder
      <4> QED
        BY <2>3, <4>1, <4>2
    <3>2. w = HashTo(o, order, j)
      BY <1>5, <2>3 DEF OldVal
    <3>3. GrownBy(o, order, j + 1, w) = Aof!Fields(w, {order[j]}, order[j].e)
      <4>1. (j + 1) - 1 = j /\ j + 1 # 1
        BY <2>3
      <4>2. GrownBy(o, order, j + 1, w) = Aof!Fields(w, {order[(j + 1) - 1]}, order[(j + 1) - 1].e)
        BY <1>5, <4>1 DEF GrownBy
      <4> QED
        BY <4>1, <4>2
    <3>4. Aof!Fields(HashTo(o, order, j), {order[j]}, order[j].e) = HashTo(o, order, j + 1)
      BY <1>1, <1>5, <3>1, HashGrows
    <3> QED
      BY <1>5, <2>1, <3>2, <3>3, <3>4
  <2> QED
    BY <2>2, <2>3
<1>6. CASE o.type = "stream"
  <2>1. /\ w = AddedTo(o, j) /\ PartVal(f, n, order, j + 1) = AddedTo(o, j + 1)
        /\ PartVal(f, n, order, j) = AddedTo(o, j)
    BY <1>6 DEF OldVal, PartVal
  <2>2. j + 1 \in 1 .. Len(o.val) /\ (j + 1) - 1 = j
    <3>1. m = Len(o.val)
      BY <1>6 DEF Makers
    <3> QED
      BY <1>2, <3>1
  <2>3. IF o.val[j + 1].fields # {}
        THEN /\ AddedTo(o, j + 1) = Append(AddedTo(o, j), Kept(o.val[j + 1]))
             /\ Takes(AddedTo(o, j), o.val[j + 1])
        ELSE AddedTo(o, j + 1) = AddedTo(o, j)
    <3>1. \A k \in 1 .. Len(o.val) :
              IF o.val[k].fields # {}
              THEN /\ AddedTo(o, k) = Append(AddedTo(o, k - 1), Kept(o.val[k]))
                   /\ Takes(AddedTo(o, k - 1), o.val[k])
              ELSE AddedTo(o, k) = AddedTo(o, k - 1)
      BY <1>1, <1>6, AddedGrows
    <3> HIDE DEF o
    <3> QED
      BY <2>2, <3>1
  <2>4. GrownBy(o, order, j + 1, w) = Append(w, Kept(o.val[j + 1]))
    BY <1>6 DEF GrownBy, Kept
  <2> QED
    BY <1>6, <2>1, <2>3, <2>4
<1> QED
  BY <1>2, <1>3, <1>4, <1>5, <1>6

LEMMA MakerLoads ==
    ASSUME NEW f, NEW n, NEW order, NEW j \in Nat, NextIs(f, n, order),
           Loaded(f, keyspace, n, order, j), j < Makers(f[n + 1], order)
    PROVE  Loaded(f, Aof!Applied(Maker(f[n + 1], order, j + 1)), n, order, j + 1)
<1> DEFINE o == f[n + 1]
           a == f[n + 1].key
           m == Makers(o, order)
           old == Old(keyspace, a, o.type)
           kt == Aof!Applied(Maker(o, order, j + 1))
           w == OldVal(f, n, order, j)
           part == PartEntry(f, n, order, j + 1)
           new == [old EXCEPT !.val = GrownBy(o, order, j + 1, old.val)]
           text == [type |-> "string", val |-> o.val, ms |-> 0]
           Rejected == old.type # o.type \/ (o.type = "stream" /\ ~Takes(old.val, o.val[j + 1]))
<1>1. Aof!IsObject(o) /\ order \in Aof!Orders(o)
  BY DEF NextIs
<1>2. m \in Nat /\ j + 1 \in 1 .. m /\ j + 1 <= m /\ j + 1 \in 1 .. j + 1
  <2>1. m \in Nat
    BY <1>1, CommandsAre
  <2> HIDE DEF m
  <2>2. j < m
    BY DEF m
  <2> QED
    BY <2>1, <2>2
<1>3. kt = IF o.type = "string" THEN Put(keyspace, a, text)
           ELSE IF Rejected THEN keyspace ELSE Put(keyspace, a, new)
  <2>1. LET e == Old(keyspace, o.key, o.type)
        IN Aof!Applied(Maker(o, order, j + 1)) =
               IF o.type = "string"
               THEN Put(keyspace, o.key, [type |-> "string", val |-> o.val, ms |-> 0])
               ELSE IF e.type # o.type \/ (o.type = "stream" /\ ~Takes(e.val, o.val[j + 1]))
               THEN keyspace
               ELSE Put(keyspace, o.key, [e EXCEPT !.val = GrownBy(o, order, j + 1, e.val)])
    BY <1>1, <1>2, ApplyMaker
  <2> QED
    BY <2>1, Zenon
<1>4. /\ a \in DOMAIN keyspace <=> Has(f, n, a) \/ (j > 0 /\ Begun(o, order, j))
  <2>1. a \in DOMAIN keyspace <=> Here(f, n, order, j, a)
    BY DEF Loaded
  <2> QED
    BY <2>1 DEF Here
<1>5. Begun(o, order, j) => Begun(o, order, j + 1)
  <2>1. SUFFICES ASSUME NEW k \in 1 .. j, k <= m, o.type = "stream" => o.val[k].fields # {}
                 PROVE  Begun(o, order, j + 1)
    BY DEF Begun
  <2>2. k \in 1 .. j + 1
    OBVIOUS
  <2> QED
    BY <2>1, <2>2 DEF Begun
<1>6. (o.type = "stream" => o.val[j + 1].fields # {}) => Begun(o, order, j + 1)
  BY <1>2 DEF Begun
<1>7. (o.type = "stream" /\ o.val[j + 1].fields = {}) =>
          (Begun(o, order, j + 1) <=> Begun(o, order, j))
  <2>1. SUFFICES ASSUME o.type = "stream", o.val[j + 1].fields = {},
                        NEW k \in 1 .. j + 1, k <= m, o.val[k].fields # {}
                 PROVE  Begun(o, order, j)
    BY <1>5 DEF Begun
  <2>2. k \in 1 .. j
    BY <2>1
  <2> QED
    BY <2>1, <2>2 DEF Begun
<1>8. /\ o.type = "string" => text = part
      /\ part = [type |-> o.type, val |-> PartVal(f, n, order, j + 1), ms |-> PartMs(f, n)]
  <2>1. part = [type |-> o.type, val |-> PartVal(f, n, order, j + 1), ms |-> PartMs(f, n)]
    BY <1>2 DEF PartEntry
  <2>2. o.type = "string" => PartVal(f, n, order, j + 1) = o.val /\ PartMs(f, n) = 0
    BY DEF PartVal, PartMs
  <2> QED
    BY <2>1, <2>2
<1>9. Alike(f, a) /\ o.type # "string" =>
          old = [type |-> o.type, val |-> w, ms |-> PartMs(f, n)]
  BY OldIs
<1>10. o.type # "string" =>
           /\ (o.type = "stream" /\ o.val[j + 1].fields = {}) =>
                  /\ w = AddedTo(o, j) /\ PartVal(f, n, order, j + 1) = AddedTo(o, j)
                  /\ PartVal(f, n, order, j) = AddedTo(o, j)
           /\ (o.type = "stream" /\ o.val[j + 1].fields # {}) => Takes(w, o.val[j + 1])
           /\ (o.type = "stream" => o.val[j + 1].fields # {}) =>
                  GrownBy(o, order, j + 1, w) = PartVal(f, n, order, j + 1)
  BY ValueGrows
<1>11. a \notin DOMAIN keyspace => old.type = o.type /\ old.val = Aof!EmptyOf(o.type)
  BY DEF Old
<1>12. a \in DOMAIN keyspace => old = keyspace[a]
  BY DEF Old
<1>13. (o.type = "stream" /\ o.val[j + 1].fields = {}) => ~Takes(old.val, o.val[j + 1])
  BY DEF Takes
<1>14. o.type = "stream" => Aof!EmptyOf(o.type) = << >>
  BY DEF Aof!EmptyOf
<1>15. (o.type = "stream" /\ o.val[j + 1].fields # {}) => Takes(<< >>, o.val[j + 1])
  BY DEF Takes
<1> DEFINE v == PartVal(f, n, order, j + 1)
           p == PartMs(f, n)
           B == Begun(o, order, j + 1)
           C == Begun(o, order, j)
           H == Has(f, n, a)
           A == Alike(f, a)
           g == GrownBy(o, order, j + 1, w)
           S == o.type = "stream"
           E == o.val[j + 1].fields = {}
           t == o.type
<1>16. A /\ t # "string" /\ ~(S /\ E) => ~Rejected /\ new = part
  <2>1. SUFFICES ASSUME A, t # "string", ~(S /\ E) PROVE ~Rejected /\ new = part
    OBVIOUS
  <2>2. old = [type |-> t, val |-> w, ms |-> p]
    BY <1>9, <2>1
  <2>3. g = v /\ (S => Takes(w, o.val[j + 1]))
    BY <1>10, <2>1
  <2>4. part = [type |-> t, val |-> v, ms |-> p]
    BY <1>8
  <2> HIDE DEF w, v, p, t, part, old
  <2>5. old.type = t /\ old.val = w
    BY <2>2
  <2>6. ~Rejected
    BY <2>3, <2>5 DEF t
  <2>7. GrownBy(o, order, j + 1, old.val) = v
    BY <2>3, <2>5
  <2>8. new = [old EXCEPT !.val = v]
    BY <2>7
  <2>9. [old EXCEPT !.val = v] = [type |-> t, val |-> v, ms |-> p]
    BY <2>2
  <2> QED
    BY ONLY <2>4, <2>6, <2>8, <2>9
<1>17. A /\ t # "string" /\ S /\ E => old = part
  <2>1. SUFFICES ASSUME A, t # "string", S, E PROVE old = part
    OBVIOUS
  <2>2. w = v
    BY <1>10, <2>1
  <2> QED
    BY <1>8, <1>9, <2>1, <2>2
<1>18. S /\ E => Rejected
  BY <1>13
<1>19. a \notin DOMAIN keyspace /\ t # "string" /\ ~(S /\ E) => ~Rejected
  BY <1>11, <1>14, <1>15
<1> HIDE DEF Rejected, new, text, part, old
<1>20. /\ \A k : k # a => (k \in DOMAIN kt <=> k \in DOMAIN keyspace)
       /\ \A k \in DOMAIN keyspace : k # a => kt[k] = keyspace[k]
  <2>1. kt = keyspace \/ \E e : kt = Put(keyspace, a, e)
    BY <1>3
  <2> HIDE DEF kt, a
  <2> QED
    BY <2>1, PutIs
<1>21. a \in DOMAIN kt <=> H \/ B
  <2>1. CASE t = "string"
    <3>1. a \in DOMAIN Put(keyspace, a, text) /\ kt = Put(keyspace, a, text)
      BY <1>3, <2>1, PutIs
    <3> QED
      BY <1>6, <2>1, <3>1
  <2>2. CASE t # "string" /\ Rejected
    <3>1. kt = keyspace
      BY <1>3, <2>2
    <3>2. CASE a \in DOMAIN keyspace
      BY <1>4, <1>5, <3>1, <3>2
    <3>3. CASE a \notin DOMAIN keyspace
      <4>1. S /\ E
        BY <1>19, <2>2, <3>3
      <4>2. B <=> C
        BY <1>7, <4>1
      <4>3. C => j > 0
        BY DEF Begun
      <4> QED
        BY <1>4, <3>1, <3>3, <4>2, <4>3
    <3> QED
      BY <3>2, <3>3
  <2>3. CASE t # "string" /\ ~Rejected
    <3>1. a \in DOMAIN Put(keyspace, a, new) /\ kt = Put(keyspace, a, new)
      BY <1>3, <2>3, PutIs
    <3>2. B
      BY <1>6, <1>18, <2>3
    <3> QED
      BY <3>1, <3>2
  <2> QED
    BY <2>1, <2>2, <2>3
<1>22. a \in DOMAIN kt /\ A => kt[a] = part
  <2>1. SUFFICES ASSUME a \in DOMAIN kt, A PROVE kt[a] = part
    OBVIOUS
  <2>2. CASE t = "string"
    <3>1. kt[a] = text
      BY <1>3, <2>2, PutIs
    <3> QED
      BY <1>8, <2>2, <3>1
  <2>3. CASE t # "string" /\ S /\ E
    <3>1. kt = keyspace
      BY <1>3, <1>18, <2>3
    <3> QED
      BY <1>12, <1>17, <2>1, <2>3, <3>1
  <2>4. CASE t # "string" /\ ~(S /\ E)
    <3>1. kt = Put(keyspace, a, new) /\ new = part
      BY <1>3, <1>16, <2>1, <2>4
    <3>2. Put(keyspace, a, new)[a] = new
      BY PutIs
    <3> QED
      BY <3>1, <3>2
  <2> QED
    BY <2>2, <2>3, <2>4
<1> HIDE DEF kt
<1> QED
  <2>1. Loaded(f, kt, n, order, j + 1)
    BY <1>20, <1>21, <1>22, LoadsOn DEF part
  <2> QED
    BY <2>1 DEF kt

\* The expiration.
LEMMA ExpirationLoads ==
    ASSUME NEW f, NEW n, NEW order, NextIs(f, n, order), f[n + 1].ms # 0,
           Loaded(f, keyspace, n, order, Makers(f[n + 1], order))
    PROVE  Loaded(f, Aof!Applied(Aof!Command("PEXPIREAT", f[n + 1].key, Millis(f[n + 1].ms))),
                  n, order, Makers(f[n + 1], order) + 1)
<1> DEFINE o == f[n + 1]
           a == f[n + 1].key
           j == Makers(o, order)
           kt == Aof!Applied(Aof!Command("PEXPIREAT", a, Millis(o.ms)))
<1>1. /\ Aof!IsObject(o) /\ order \in Aof!Orders(o)
      /\ Len(f) \in Nat /\ DOMAIN f = 1 .. Len(f) /\ n \in 0 .. Len(f) - 1
  BY DEF NextIs
<1>2. j \in Nat
  BY <1>1, CommandsAre
<1>3. kt = IF a \in DOMAIN keyspace THEN [keyspace EXCEPT ![a].ms = Millis(o.ms)] ELSE keyspace
  BY ApplyExpire
<1>4. /\ a \in DOMAIN keyspace <=> Here(f, n, order, j, a)
      /\ (a \in DOMAIN keyspace /\ Alike(f, a)) => keyspace[a] = Expected(f, n, order, j, a)
  BY DEF Loaded
<1>5. Begun(o, order, j + 1) <=> j > 0 /\ Begun(o, order, j)
  <2>1. ASSUME NEW k \in 1 .. j + 1, k <= j PROVE j > 0 /\ k \in 1 .. j
    BY <1>2, <2>1
  <2>2. ASSUME NEW k \in 1 .. j PROVE k \in 1 .. j + 1
    BY <1>2
  <2> QED
    BY <2>1, <2>2 DEF Begun
<1>6. a \in DOMAIN keyspace <=> Has(f, n, a) \/ Begun(o, order, j + 1)
  BY <1>4, <1>5 DEF Here
<1>7. ASSUME a \in DOMAIN keyspace, Alike(f, a)
      PROVE  [keyspace[a] EXCEPT !.ms = Millis(o.ms)] = PartEntry(f, n, order, j + 1)
  <2>1. j # 0
    <3>1. SUFFICES ASSUME j = 0 PROVE FALSE
      OBVIOUS
    <3>2. Has(f, n, a)
      BY <1>4, <1>7, <3>1 DEF Here
    <3>3. FirstPlaces(f, a, n) # {}
      <4>1. n \in 0 .. Len(f)
        BY <1>1
      <4> QED
        BY <1>1, <3>2, <4>1, NothingBefore
    <3>4. o.type \in {"string", "list"}
      BY <1>1, <1>7, <3>3, AlikeAre
    <3> QED
      BY <3>1, <3>4 DEF Makers
  <2>2. keyspace[a] = PartEntry(f, n, order, j)
    BY <1>2, <1>4, <1>7, <2>1 DEF Expected
  <2>3. keyspace[a] = [type |-> o.type, val |-> PartVal(f, n, order, j), ms |-> PartMs(f, n)]
    BY <1>2, <2>2 DEF PartEntry
  <2>4. PartEntry(f, n, order, j + 1) = EntryTo(f, a, n + 1)
    BY <1>2 DEF PartEntry
  <2>5. EntryTo(f, a, n + 1) =
            [type |-> o.type, val |-> PartVal(f, n, order, j), ms |-> Millis(o.ms)]
    BY ValueDone
  <2> DEFINE v == PartVal(f, n, order, j)
             p == PartMs(f, n)
             q == Millis(o.ms)
             t == o.type
  <2> HIDE DEF v, p, q, t
  <2>6. keyspace[a] = [type |-> t, val |-> v, ms |-> p]
    BY <2>3 DEF t, v, p
  <2>7. [keyspace[a] EXCEPT !.ms = q] = [type |-> t, val |-> v, ms |-> q]
    BY <2>6
  <2> QED
    BY <2>4, <2>5, <2>7 DEF t, v, q
<1>8. /\ \A k : k # a => (k \in DOMAIN kt <=> k \in DOMAIN keyspace)
      /\ \A k \in DOMAIN keyspace : k # a => kt[k] = keyspace[k]
      /\ a \in DOMAIN kt <=> a \in DOMAIN keyspace
      /\ a \in DOMAIN keyspace => kt[a] = [keyspace[a] EXCEPT !.ms = Millis(o.ms)]
  <2> DEFINE q == Millis(o.ms)
  <2> HIDE DEF q, kt, a
  <2>1. kt = IF a \in DOMAIN keyspace THEN [keyspace EXCEPT ![a].ms = q] ELSE keyspace
    BY <1>3 DEF q
  <2>2. /\ \A k : k # a => (k \in DOMAIN kt <=> k \in DOMAIN keyspace)
        /\ \A k \in DOMAIN keyspace : k # a => kt[k] = keyspace[k]
        /\ a \in DOMAIN kt <=> a \in DOMAIN keyspace
        /\ a \in DOMAIN keyspace => kt[a] = [keyspace[a] EXCEPT !.ms = q]
    BY <2>1
  <2> QED
    BY <2>2 DEF q
<1>9. a \in DOMAIN kt /\ Alike(f, a) => kt[a] = PartEntry(f, n, order, j + 1)
  <2> HIDE DEF kt
  <2> QED
    BY <1>7, <1>8, Zenon
<1>10. a \in DOMAIN kt <=> Has(f, n, a) \/ Begun(o, order, j + 1)
  <2> HIDE DEF kt
  <2> QED
    BY <1>6, <1>8, Zenon
<1> HIDE DEF kt, j
<1> QED
  <2>1. Loaded(f, keyspace, n, order, j)
    BY DEF j
  <2>2. Loaded(f, kt, n, order, j + 1)
    BY <1>2, <1>8, <1>9, <1>10, <2>1, LoadsOn
  <2> QED
    BY <2>2 DEF kt, j

\* An object is loaded: the next one is next.
LEMMA ObjectLoaded ==
    ASSUME NEW f, NEW ks, NEW n, NEW order, NEW next, NextIs(f, n, order),
           Loaded(f, ks, n, order, CommandsOf(f[n + 1], order))
    PROVE  Loaded(f, ks, n + 1, next, 0)
<1> DEFINE o == f[n + 1]
           a == f[n + 1].key
           m == Makers(o, order)
           c == CommandsOf(o, order)
<1>1. /\ Aof!IsObject(o) /\ order \in Aof!Orders(o)
      /\ Len(f) \in Nat /\ DOMAIN f = 1 .. Len(f) /\ n \in 0 .. Len(f) - 1
  BY DEF NextIs
<1>2. m \in Nat /\ c \in Nat /\ (c = m \/ c = m + 1) /\ (c = m => o.ms = 0)
  BY <1>1, CommandsAre DEF CommandsOf
<1>3. c > 0 /\ Begun(o, order, c) <=> Aof!HasCommands(o)
  <2>1. CASE o.type = "stream"
    <3>1. m = Len(o.val) /\ DOMAIN o.val = 1 .. m
      BY <1>1, <2>1 DEF Makers, Aof!IsObject
    <3>2. Aof!HasCommands(o) <=> \E k \in 1 .. m : o.val[k].fields # {}
      BY <2>1, <3>1 DEF Aof!HasCommands, Aof!WithFields
    <3>3. Begun(o, order, c) <=> \E k \in 1 .. c : k <= m /\ o.val[k].fields # {}
      BY <2>1 DEF Begun
    <3>4. \A k : k \in 1 .. m <=> k \in 1 .. c /\ k <= m
      BY <1>2
    <3>5. (\E k : k \in 1 .. c) => c > 0
      BY <1>2
    <3> QED
      BY <3>2, <3>3, <3>4, <3>5, Zenon
  <2>2. CASE o.type = "module"
    <3>1. m = 0
      BY <2>2 DEF Makers
    <3>2. ~Begun(o, order, c)
      BY <3>1 DEF Begun
    <3> QED
      BY <2>2, <3>2 DEF Aof!HasCommands
  <2>3. CASE o.type \notin {"stream", "module"}
    <3>1. 1 <= m
      <4>1. o.type \in {"string", "list", "set", "zset", "hash"}
        BY <1>1, <2>3 DEF Aof!IsObject
      <4>2. Len(order) \in Nat
        BY <1>1, AofOrder
      <4> QED
        BY <4>1, <4>2 DEF Makers
    <3>2. c > 0 /\ 1 \in 1 .. c
      BY <1>2, <3>1
    <3>3. Begun(o, order, c)
      BY <2>3, <3>1, <3>2 DEF Begun
    <3> QED
      BY <2>3, <3>2, <3>3 DEF Aof!HasCommands
  <2> QED
    BY <2>1, <2>2, <2>3
<1>4. ASSUME NEW key
      PROVE  key \in DOMAIN ks <=> Here(f, n + 1, next, 0, key)
  <2>1. key \in DOMAIN ks <=> Has(f, n, key) \/ (c > 0 /\ a = key /\ Begun(o, order, c))
    BY DEF Loaded, Here
  <2>2. Has(f, n + 1, key) <=> Has(f, n, key) \/ (a = key /\ Aof!HasCommands(o))
    <3>1. n \in Nat
      BY <1>1
    <3>2. \A i : i \in 1 .. n + 1 <=> i \in 1 .. n \/ i = n + 1
      BY <3>1
    <3> QED
      BY <3>2, Zenon DEF Has
  <2>3. Here(f, n + 1, next, 0, key) <=> Has(f, n + 1, key)
    BY DEF Here
  <2> QED
    BY ONLY <1>3, <2>1, <2>2, <2>3
<1>5. ASSUME NEW key \in DOMAIN ks, Alike(f, key)
      PROVE  ks[key] = Expected(f, n + 1, next, 0, key)
  <2>1. ks[key] = Expected(f, n, order, c, key)
    BY <1>5 DEF Loaded
  <2>2. Expected(f, n + 1, next, 0, key) = EntryTo(f, key, n + 1)
    BY DEF Expected
  <2>3. CASE key # a
    <3>1. Expected(f, n, order, c, key) = EntryTo(f, key, n)
      BY <2>3 DEF Expected
    <3>2. EntryTo(f, key, n + 1) = EntryTo(f, key, n)
      BY <1>1, <2>3, EntryGrows
    <3> QED
      BY <2>1, <2>2, <3>1, <3>2
  <2>4. CASE key = a
    <3>1. c > 0
      <4>1. SUFFICES ASSUME c = 0 PROVE FALSE
        BY <1>2
      <4>2. m = 0
        BY <1>2, <4>1
      <4>3. Has(f, n, a)
        BY <2>4, <4>1 DEF Loaded, Here
      <4>4. FirstPlaces(f, a, n) # {}
        <5>1. n \in 0 .. Len(f)
          BY <1>1
        <5> QED
          BY <1>1, <4>3, <5>1, NothingBefore
      <4>5. o.type \in {"string", "list"}
        BY <1>1, <1>5, <2>4, <4>4, AlikeAre
      <4> QED
        BY <4>2, <4>5 DEF Makers
    <3>2. ks[key] = PartEntry(f, n, order, c)
      BY <2>1, <2>4, <3>1 DEF Expected
    <3>3. PartEntry(f, n, order, c) = EntryTo(f, a, n + 1)
      <4>1. CASE c = m
        <5>1. PartEntry(f, n, order, m) =
                  [type |-> o.type, val |-> PartVal(f, n, order, m), ms |-> PartMs(f, n)]
          BY <1>2 DEF PartEntry
        <5>2. EntryTo(f, a, n + 1) =
                  [type |-> o.type, val |-> PartVal(f, n, order, m), ms |-> PartMs(f, n)]
          BY <1>2, <4>1, ValueDone
        <5> QED
          BY <4>1, <5>1, <5>2
      <4>2. CASE c = m + 1
        BY <1>2, <4>2 DEF PartEntry
      <4> QED
        BY <1>2, <4>1, <4>2
    <3> QED
      BY <2>2, <2>4, <3>2, <3>3
  <2> QED
    BY <2>3, <2>4
<1> QED
  BY <1>4, <1>5 DEF Loaded

-----------------------------------------------------------------------------
(***************************************************************************)
(* The file: the commands of one object behind those of another; at[i] is  *)
(* where those of the first i objects end.                                 *)
(***************************************************************************)
Writing(f, a, at, ord) ==
    /\ IsRow(a) /\ Len(a) \in Nat
    /\ at \in [0 .. Len(f) -> Nat] /\ at[0] = 0 /\ at[Len(f)] = Len(a)
    /\ \A i \in 1 .. Len(f) :
           /\ ord[i] \in Aof!Orders(f[i])
           /\ at[i] = at[i - 1] + CommandsOf(f[i], ord[i])
           /\ \A k \in 1 .. CommandsOf(f[i], ord[i]) :
                  a[at[i - 1] + k] = Aof!ObjectToCmd(f[i], ord[i])[k]
    /\ \A i, k \in 0 .. Len(f) : i <= k => at[i] <= at[k]

ObjectsIn(f) ==
    Len(f) \in Nat /\ DOMAIN f = 1 .. Len(f) /\ \A i \in 1 .. Len(f) : Aof!IsObject(f[i])

LoadedAt(f, ks, l, at, ord) ==
    /\ \A n \in 0 .. Len(f) : at[n] = l => Loaded(f, ks, n, << >>, 0)
    /\ \A n \in 1 .. Len(f) : \A j \in 1 .. CommandsOf(f[n], ord[n]) :
           at[n - 1] + j = l => Loaded(f, ks, n - 1, ord[n], j)

LEMMA SameStart ==
    ASSUME NEW f, NEW ks, NEW n, NEW x, NEW y, Loaded(f, ks, n, x, 0)
    PROVE  Loaded(f, ks, n, y, 0)
<1>1. \A key : Here(f, n, x, 0, key) <=> Here(f, n, y, 0, key)
  BY DEF Here
<1>2. \A key : Expected(f, n, x, 0, key) = Expected(f, n, y, 0, key)
  BY DEF Expected
<1> QED
  BY <1>1, <1>2, Zenon DEF Loaded

LEMMA WritingIs ==
    ASSUME NEW f, NEW a, NEW at, NEW ord, ObjectsIn(f), Writing(f, a, at, ord),
           NEW n \in 1 .. Len(f)
    PROVE  /\ NextIs(f, n - 1, ord[n]) /\ (n - 1) + 1 = n /\ n \in Nat
           /\ CommandsOf(f[n], ord[n]) \in Nat
           /\ at[n - 1] \in Nat /\ at[n] \in Nat /\ at[n] = at[n - 1] + CommandsOf(f[n], ord[n])
<1>1. /\ Len(f) \in Nat /\ DOMAIN f = 1 .. Len(f) /\ Aof!IsObject(f[n])
      /\ ord[n] \in Aof!Orders(f[n])
      /\ at \in [0 .. Len(f) -> Nat] /\ at[n] = at[n - 1] + CommandsOf(f[n], ord[n])
  BY DEF ObjectsIn, Writing
<1>2. (n - 1) + 1 = n /\ n - 1 \in 0 .. Len(f) - 1 /\ n - 1 \in 0 .. Len(f) /\ n \in 0 .. Len(f)
      /\ n \in Nat
  BY <1>1
<1>3. CommandsOf(f[n], ord[n]) \in Nat
  BY <1>1, CommandsAre
<1>4. NextIs(f, n - 1, ord[n])
  <2>1. Aof!IsObject(f[(n - 1) + 1]) /\ ord[n] \in Aof!Orders(f[(n - 1) + 1])
    BY <1>1, <1>2
  <2> QED
    BY <1>1, <1>2, <2>1 DEF NextIs
<1> QED
  BY <1>1, <1>2, <1>3, <1>4

\* Objects without commands are loaded with the one before them.
LEMMA NothingToLoad ==
    ASSUME NEW f, NEW a, NEW at, NEW ord, NEW ks, ObjectsIn(f), Writing(f, a, at, ord),
           NEW m \in 0 .. Len(f), NEW n \in m .. Len(f), at[m] = at[n],
           Loaded(f, ks, m, << >>, 0)
    PROVE  Loaded(f, ks, n, << >>, 0)
<1> DEFINE T == {x \in m .. n : ~Loaded(f, ks, x, << >>, 0)}
<1>1. /\ Len(f) \in Nat /\ at \in [0 .. Len(f) -> Nat]
      /\ \A i, k \in 0 .. Len(f) : i <= k => at[i] <= at[k]
  BY DEF ObjectsIn, Writing
<1>2. m \in Nat /\ n \in Nat /\ m <= n /\ n <= Len(f)
  BY <1>1
<1>3. ASSUME T # {} PROVE FALSE
  <2>1. T \in SUBSET Nat
    BY <1>2
  <2> HIDE DEF T
  <2>2. PICK x \in T : \A y \in T : x <= y
    BY <1>3, <2>1, LeastNumber
  <2> USE DEF T
  <2>3. x \in m .. n /\ ~Loaded(f, ks, x, << >>, 0)
    OBVIOUS
  <2>4. x # m
    BY <2>3
  <2>5. /\ x - 1 \in m .. n /\ ~(x <= x - 1) /\ x \in 1 .. Len(f)
        /\ x \in 0 .. Len(f) /\ x - 1 \in 0 .. Len(f) /\ n \in 0 .. Len(f)
    BY <1>1, <1>2, <2>3, <2>4
  <2>6. Loaded(f, ks, x - 1, << >>, 0)
    <3>1. x - 1 \notin T
      BY <2>2, <2>5
    <3> QED
      BY <2>5, <3>1
  <2>7. at[m] <= at[x - 1] /\ at[x - 1] <= at[x] /\ at[x] <= at[n]
    BY <1>1, <1>2, <2>3, <2>5
  <2>8. /\ NextIs(f, x - 1, ord[x]) /\ (x - 1) + 1 = x
        /\ CommandsOf(f[x], ord[x]) \in Nat
        /\ at[x - 1] \in Nat /\ at[x] \in Nat /\ at[x] = at[x - 1] + CommandsOf(f[x], ord[x])
    BY <2>5, WritingIs
  <2>9. CommandsOf(f[x], ord[x]) = 0
    <3>1. at[m] \in Nat /\ at[n] \in Nat
      BY <1>1, <2>5
    <3> QED
      BY <2>7, <2>8, <3>1
  <2>10. Loaded(f, ks, x - 1, ord[x], CommandsOf(f[(x - 1) + 1], ord[x]))
    <3>1. Loaded(f, ks, x - 1, ord[x], 0)
      BY <2>6, SameStart
    <3> QED
      BY <2>8, <2>9, <3>1
  <2>11. Loaded(f, ks, (x - 1) + 1, << >>, 0)
    BY <2>8, <2>10, ObjectLoaded
  <2> QED
    BY <2>3, <2>8, <2>11
<1>4. n \in m .. n
  BY <1>2
<1> QED
  BY <1>3, <1>4

LEMMA LoadingStarts ==
    ASSUME NEW f, NEW a, NEW at, NEW ord, ObjectsIn(f), Writing(f, a, at, ord)
    PROVE  LoadedAt(f, << >>, 0, at, ord)
<1>1. Loaded(f, << >>, 0, << >>, 0)
  <2>1. \A key : ~Here(f, 0, << >>, 0, key)
    BY DEF Here, Has
  <2>2. \A key : key \notin DOMAIN << >>
    OBVIOUS
  <2> QED
    BY <2>1, <2>2 DEF Loaded
<1>2. Len(f) \in Nat /\ at[0] = 0 /\ at \in [0 .. Len(f) -> Nat]
  BY DEF ObjectsIn, Writing
<1>3. ASSUME NEW n \in 0 .. Len(f), at[n] = 0 PROVE Loaded(f, << >>, n, << >>, 0)
  <2>1. 0 \in 0 .. Len(f) /\ at[0] = at[n]
    BY <1>2, <1>3
  <2> QED
    BY <1>1, <2>1, NothingToLoad
<1>4. ASSUME NEW n \in 1 .. Len(f), NEW j \in 1 .. CommandsOf(f[n], ord[n])
      PROVE  at[n - 1] + j # 0
  <2>1. CommandsOf(f[n], ord[n]) \in Nat /\ at[n - 1] \in Nat
    BY WritingIs
  <2> QED
    BY <2>1
<1> QED
  BY <1>3, <1>4 DEF LoadedAt

LEMMA CommandLoaded ==
    ASSUME NEW f, NEW at, NEW ord, NEW l \in Nat, ObjectsIn(f), Writing(f, aof, at, ord),
           l < Len(aof), LoadedAt(f, keyspace, l, at, ord)
    PROVE  LoadedAt(f, Aof!Applied(aof[l + 1]), l + 1, at, ord)
<1> DEFINE kt == Aof!Applied(aof[l + 1])
<1>1. ASSUME NEW n \in 1 .. Len(f), NEW j \in 1 .. CommandsOf(f[n], ord[n]),
             at[n - 1] + j = l + 1
      PROVE  Loaded(f, kt, n - 1, ord[n], j)
  <2> DEFINE c == CommandsOf(f[n], ord[n])
             m == Makers(f[n], ord[n])
  <2>1. /\ NextIs(f, n - 1, ord[n]) /\ (n - 1) + 1 = n
        /\ c \in Nat /\ at[n - 1] \in Nat
    BY WritingIs
  <2>2. /\ m \in Nat /\ (c = m \/ (c = m + 1 /\ f[n].ms # 0))
        /\ \A k \in 1 .. c :
               Aof!ObjectToCmd(f[n], ord[n])[k] =
                   IF k <= m THEN Maker(f[n], ord[n], k)
                   ELSE Aof!Command("PEXPIREAT", f[n].key, Millis(f[n].ms))
    <3>1. Aof!IsObject(f[n]) /\ ord[n] \in Aof!Orders(f[n])
      BY <2>1 DEF NextIs
    <3>2. LET cmds == Aof!ObjectToCmd(f[n], ord[n])
          IN /\ m \in Nat /\ \A k \in 1 .. c :
                    cmds[k] = IF k <= m THEN Maker(f[n], ord[n], k)
                              ELSE Aof!Command("PEXPIREAT", f[n].key, Millis(f[n].ms))
      BY <3>1, CommandsAre
    <3>3. c = m + IF f[n].ms = 0 THEN 0 ELSE 1
      BY DEF CommandsOf
    <3> QED
      BY <3>2, <3>3
  <2>3. aof[l + 1] = Aof!ObjectToCmd(f[n], ord[n])[j]
    <3>1. \A k \in 1 .. c : aof[at[n - 1] + k] = Aof!ObjectToCmd(f[n], ord[n])[k]
      BY DEF Writing
    <3> QED
      BY <1>1, <3>1
  <2>4. j - 1 \in Nat /\ (j - 1) + 1 = j /\ at[n - 1] + (j - 1) = l
        /\ (j - 1 = 0 \/ j - 1 \in 1 .. c) /\ j \in 1 .. c
    <3>1. j \in 1 .. c /\ at[n - 1] + j = l + 1 /\ at[n - 1] \in Nat
      BY <1>1, <2>1
    <3> DEFINE a == at[n - 1]
    <3>2. j \in 1 .. c /\ a + j = l + 1 /\ a \in Nat /\ c \in Nat /\ l \in Nat
      BY <2>1, <3>1
    <3> HIDE DEF a, c, m, kt
    <3>3. j - 1 \in Nat /\ (j - 1) + 1 = j /\ a + (j - 1) = l
          /\ (j - 1 = 0 \/ j - 1 \in 1 .. c) /\ j \in 1 .. c
      BY ONLY <3>2
    <3> QED
      BY <3>3 DEF a
  <2>5. Loaded(f, keyspace, n - 1, ord[n], j - 1)
    <3>1. CASE j - 1 = 0
      <4>1. at[n - 1] = l /\ n - 1 \in 0 .. Len(f)
        <5>1. Len(f) \in Nat
          BY DEF ObjectsIn
        <5> QED
          BY <2>1, <2>4, <3>1, <5>1
      <4>2. Loaded(f, keyspace, n - 1, << >>, 0)
        BY <4>1 DEF LoadedAt
      <4> QED
        BY <3>1, <4>2, SameStart
    <3>2. CASE j - 1 \in 1 .. c
      BY <2>4, <3>2 DEF LoadedAt
    <3> QED
      BY <2>4, <3>1, <3>2
  <2> HIDE DEF c, m
  <2>6. CASE j <= m
    <3>1. aof[l + 1] = Maker(f[(n - 1) + 1], ord[n], (j - 1) + 1)
      BY <2>1, <2>2, <2>3, <2>4, <2>6
    <3>2. j - 1 < Makers(f[(n - 1) + 1], ord[n])
      BY <2>1, <2>2, <2>4, <2>6 DEF m
    <3>3. Loaded(f, Aof!Applied(Maker(f[(n - 1) + 1], ord[n], (j - 1) + 1)),
                 n - 1, ord[n], (j - 1) + 1)
      BY <2>1, <2>4, <2>5, <3>2, MakerLoads
    <3> QED
      BY <2>4, <3>1, <3>3
  <2>7. CASE ~(j <= m)
    <3>1. j - 1 = m /\ f[n].ms # 0
      BY <2>1, <2>2, <2>4, <2>7
    <3>2. aof[l + 1] = Aof!Command("PEXPIREAT", f[n].key, Millis(f[n].ms))
      BY <2>2, <2>3, <2>4, <2>7
    <3>3. Loaded(f, keyspace, n - 1, ord[n], Makers(f[(n - 1) + 1], ord[n]))
      BY <2>1, <2>5, <3>1 DEF m
    <3>4. Loaded(f, Aof!Applied(Aof!Command("PEXPIREAT", f[(n - 1) + 1].key,
                                            Millis(f[(n - 1) + 1].ms))),
                 n - 1, ord[n], Makers(f[(n - 1) + 1], ord[n]) + 1)
      BY <2>1, <3>1, <3>3, ExpirationLoads
    <3>5. Makers(f[(n - 1) + 1], ord[n]) + 1 = j
      BY <2>1, <2>4, <3>1 DEF m
    <3> QED
      BY <2>1, <3>2, <3>4, <3>5
  <2> QED
    BY <2>6, <2>7
<1>2. ASSUME NEW n \in 0 .. Len(f), at[n] = l + 1
      PROVE  Loaded(f, kt, n, << >>, 0)
  <2> HIDE DEF kt
  <2> DEFINE T == {x \in 0 .. n : at[x] = at[n]}
  <2>0. Len(f) \in Nat /\ n \in Nat /\ at[0] = 0 /\ at \in [0 .. Len(f) -> Nat]
        /\ \A i, k \in 0 .. Len(f) : i <= k => at[i] <= at[k]
    BY DEF ObjectsIn, Writing
  <2>1. T \in SUBSET Nat /\ T # {}
    <3>1. n \in T
      BY <2>0
    <3> QED
      BY <2>0, <3>1
  <2> HIDE DEF T
  <2>2. PICK x \in T : \A y \in T : x <= y
    BY <2>1, LeastNumber
  <2> USE DEF T
  <2>3. x \in 0 .. n /\ at[x] = at[n]
    OBVIOUS
  <2>4. x # 0
    BY <1>2, <2>0, <2>3
  <2>5. x \in 1 .. Len(f) /\ x - 1 \in 0 .. n /\ ~(x <= x - 1) /\ n \in x .. Len(f)
        /\ x \in 0 .. Len(f)
    BY <2>0, <2>3, <2>4
  <2>6. at[x - 1] # at[x]
    BY <2>2, <2>3, <2>5
  <2> DEFINE c == CommandsOf(f[x], ord[x])
  <2>7. /\ NextIs(f, x - 1, ord[x]) /\ (x - 1) + 1 = x
        /\ c \in Nat /\ at[x - 1] \in Nat /\ at[x] \in Nat /\ at[x] = at[x - 1] + c
    BY <2>5, WritingIs
  <2>8. c \in 1 .. c /\ at[x - 1] + c = l + 1
    BY <1>2, <2>3, <2>6, <2>7
  <2>9. Loaded(f, kt, x - 1, ord[x], c)
    BY <1>1, <2>5, <2>8 DEF kt
  <2>10. Loaded(f, kt, x, << >>, 0)
    <3>1. Loaded(f, kt, x - 1, ord[x], CommandsOf(f[(x - 1) + 1], ord[x]))
      BY <2>7, <2>9
    <3>2. Loaded(f, kt, (x - 1) + 1, << >>, 0)
      BY <2>7, <3>1, ObjectLoaded
    <3> QED
      BY <2>7, <3>2
  <2> QED
    BY <2>3, <2>5, <2>10, NothingToLoad
<1> HIDE DEF kt
<1>3. LoadedAt(f, kt, l + 1, at, ord)
  BY <1>1, <1>2 DEF LoadedAt
<1> QED
  BY <1>3 DEF kt

LEMMA AllLoaded ==
    ASSUME NEW f, NEW at, NEW ord, ObjectsIn(f), Writing(f, aof, at, ord),
           LoadedAt(f, keyspace, Len(aof), at, ord)
    PROVE  Aof!Rebuilt(f)
<1> DEFINE d == Len(f)
<1>1. d \in Nat /\ DOMAIN f = 1 .. d /\ d \in 0 .. d /\ at[d] = Len(aof)
  BY DEF ObjectsIn, Writing
<1>2. Loaded(f, keyspace, d, << >>, 0)
  BY <1>1 DEF LoadedAt
<1>3. \A key : key \in DOMAIN keyspace <=> Has(f, d, key)
  BY <1>2 DEF Loaded, Here
<1>4. \A key \in DOMAIN keyspace : Alike(f, key) => keyspace[key] = EntryTo(f, key, d)
  BY <1>2 DEF Loaded, Expected
<1>5. \A key : EntryTo(f, key, d) = Aof!EntryOf(f, Places(f, key))
  BY <1>1, EntryAtEnd
<1>6. DOMAIN keyspace = {f[i].key : i \in {j \in DOMAIN f : Aof!HasCommands(f[j])}}
  BY <1>1, <1>3 DEF Has
<1>7. \A key \in DOMAIN keyspace :
          Aof!Understood(f, Places(f, key)) => keyspace[key] = Aof!EntryOf(f, Places(f, key))
  BY <1>4, <1>5 DEF Alike
<1> QED
  BY <1>6, <1>7, Zenon DEF Aof!Rebuilt, Places

-----------------------------------------------------------------------------
(***************************************************************************)
(* The objects that ToAOF was handed, in their order.                      *)
(***************************************************************************)
HandedFrom(f, p) == [j \in DOMAIN p |-> f[p[j]]]
Handed == HandedFrom(file, ReachedPlaces)

LEMMA HandedStays ==
    ASSUME UNCHANGED <<file, options>>
    PROVE  Handed' = Handed
<1>1. ReachedPlaces' = ReachedPlaces
  BY Zenon DEF ReachedPlaces, Reaches
<1> QED
  BY <1>1 DEF Handed, HandedFrom

LEMMA HandedNext ==
    ASSUME NEW F, file \in Seq(F), Handed \in Seq(F), NEW o \in F, file' = Append(file, o),
           UNCHANGED options
    PROVE  /\ Reaches(o) => Handed' = Append(Handed, o)
           /\ ~Reaches(o) => Handed' = Handed
<1> DEFINE n == Len(file)
           p == ReachedPlaces
           m == Len(p)
           q == Append(p, n + 1)
<1>1. /\ p \in Seq(Nat) /\ \A j \in DOMAIN p : p[j] \in DOMAIN file
      /\ Reaches(o) => ReachedPlaces' = q
      /\ ~Reaches(o) => ReachedPlaces' = p
  BY PlacesNext
<1>2. /\ n \in Nat /\ DOMAIN file = 1 .. n /\ file'[n + 1] = o
      /\ \A i \in 1 .. n : file'[i] = file[i]
  BY AppendProperties
<1>3. /\ m \in Nat /\ DOMAIN p = 1 .. m
      /\ DOMAIN q = 1 .. m + 1 /\ q[m + 1] = n + 1 /\ \A j \in 1 .. m : q[j] = p[j]
  BY <1>1, <1>2, AppendProperties
<1>4. Handed' = HandedFrom(file', ReachedPlaces')
  BY Zenon DEF Handed, HandedFrom
<1>5. \A j \in 1 .. m : file'[p[j]] = file[p[j]]
  BY <1>1, <1>2, <1>3
<1>6. Handed = [j \in 1 .. m |-> file[p[j]]]
  BY <1>3 DEF Handed, HandedFrom
<1> HIDE DEF n, p, m, q
<1>7. ~Reaches(o) => Handed' = Handed
  BY <1>1, <1>3, <1>4, <1>5, <1>6 DEF HandedFrom
<1>8. ASSUME Reaches(o) PROVE Handed' = Append(Handed, o)
  <2> DEFINE b == Append(Handed, o)
  <2>1. Handed' = [j \in 1 .. m + 1 |-> file'[q[j]]]
    BY <1>1, <1>3, <1>4, <1>8 DEF HandedFrom
  <2>2. Len(Handed) = m
    BY <1>3, <1>6
  <2>3. /\ DOMAIN b = 1 .. m + 1 /\ b[m + 1] = o /\ b \in Seq(F)
        /\ \A j \in 1 .. m : b[j] = Handed[j]
    BY <1>3, <2>2, AppendProperties
  <2> HIDE DEF b
  <2>4. b = [j \in 1 .. m + 1 |-> b[j]]
    BY <1>3, <2>3
  <2>5. \A j \in 1 .. m + 1 : j \in 1 .. m \/ j = m + 1
    BY <1>3
  <2>6. \A j \in 1 .. m + 1 : b[j] = file'[q[j]]
    BY <1>2, <1>3, <1>5, <1>6, <2>3, <2>5
  <2> QED
    BY <2>1, <2>4, <2>6 DEF b
<1> QED
  BY <1>7, <1>8

\* Without filters every object is handed on, and asked for.
LEMMA NoFilters ==
    ASSUME AnalysesAssumption, options = NoOptions, asked = NoOptions, NEW o
    PROVE  Reaches(o) /\ Wanted(o)
<1>1. options \in OptionSets /\ Legal(options)
  BY DEF AnalysesAssumption, Legal, NoOptions
<1>2. /\ ~options.regex /\ ~options.noExpired /\ options.expire.kind = "off"
      /\ ~options.size.on /\ options = asked
  BY DEF NoOptions
<1>3. PassesExpire(options.expire, o)
  BY <1>2 DEF PassesExpire
<1>4. Reaches(o)
  BY <1>1, <1>2, <1>3, ReachesIs
<1>5. Wanted(o)
  BY <1>2 DEF Wanted
<1> QED
  BY <1>4, <1>5

LEMMA HandedAsWanted ==
    ASSUME AnalysesAssumption, AofAssumption, options \in OptionSets, options = asked,
           Legal(asked), file \in Seq(AofObjects), asked = NoOptions \/ AllRepresentable
    PROVE  Handed = WantedObjects
<1>1. \A i \in DOMAIN file : file[i].ms \in Nat
  BY DEF AofAssumption, Aof!IsObject
<1>2. ASSUME NEW i \in DOMAIN file PROVE Reaches(file[i]) <=> Wanted(file[i])
  <2>1. CASE asked = NoOptions
    BY <2>1, NoFilters
  <2>2. CASE AllRepresentable
    <3>1. file[i].ms \in Nat /\ Representable(file[i])
      BY <1>1, <1>2, <2>2 DEF AllRepresentable
    <3> QED
      BY <3>1, ReachesAsWanted
  <2> QED
    BY <2>1, <2>2
<1>3. {i \in DOMAIN file : Reaches(file[i])} = {i \in DOMAIN file : Wanted(file[i])}
  BY <1>2
<1>4. ReachedPlaces = WantedPlaces
  BY <1>3, Zenon DEF ReachedPlaces, WantedPlaces
<1> QED
  BY <1>4, Zenon DEF Handed, HandedFrom, WantedObjects

(***************************************************************************)
(* The steps of ToAOF: the file grows by the commands of an object, and is *)
(* loaded command by command.                                              *)
(***************************************************************************)
LEMMA ObjectsFrom ==
    ASSUME AofAssumption, NEW f \in Seq(AofObjects)
    PROVE  ObjectsIn(f)
<1>1. Len(f) \in Nat /\ DOMAIN f = 1 .. Len(f) /\ \A i \in 1 .. Len(f) : f[i] \in AofObjects
  OBVIOUS
<1> QED
  BY <1>1 DEF ObjectsIn, AofAssumption

LEMMA WritingGrows ==
    ASSUME AofAssumption, NEW f \in Seq(AofObjects), NEW a, NEW at, NEW ord,
           Writing(f, a, at, ord),
           NEW o \in AofObjects, NEW order \in Aof!Orders(o)
    PROVE  \E at2, ord2 : Writing(Append(f, o), a \o Aof!ObjectToCmd(o, order), at2, ord2)
<1> DEFINE n == Len(f)
           f2 == Append(f, o)
           c == CommandsOf(o, order)
           cmds == Aof!ObjectToCmd(o, order)
           a2 == a \o cmds
           at2 == [i \in 0 .. n + 1 |-> IF i = n + 1 THEN at[n] + c ELSE at[i]]
           ord2 == [i \in 1 .. n + 1 |-> IF i = n + 1 THEN order ELSE ord[i]]
<1>1. n \in Nat /\ Len(f2) = n + 1 /\ f2[n + 1] = o /\ \A i \in 1 .. n : f2[i] = f[i]
  BY AppendProperties
<1>2. ObjectsIn(f)
  BY ObjectsFrom
<1>3. c \in Nat /\ IsRow(cmds) /\ Len(cmds) = c
  <2>1. Aof!IsObject(o)
    BY DEF AofAssumption
  <2> QED
    BY <2>1, CommandsAre
<1>4. /\ IsRow(a) /\ Len(a) \in Nat
      /\ at \in [0 .. n -> Nat] /\ at[0] = 0 /\ at[n] = Len(a)
      /\ \A i \in 1 .. n :
             /\ ord[i] \in Aof!Orders(f[i])
             /\ at[i] = at[i - 1] + CommandsOf(f[i], ord[i])
             /\ \A k \in 1 .. CommandsOf(f[i], ord[i]) :
                    a[at[i - 1] + k] = Aof!ObjectToCmd(f[i], ord[i])[k]
      /\ \A i, k \in 0 .. n : i <= k => at[i] <= at[k]
  BY DEF Writing
<1> HIDE DEF n, f2, c, cmds
<1>5. /\ IsRow(a2) /\ Len(a2) \in Nat /\ Len(a2) = Len(a) + c
      /\ \A i \in 1 .. Len(a) : a2[i] = a[i]
      /\ \A i \in 1 .. c : a2[Len(a) + i] = cmds[i]
  <2>1. IsRow(a) /\ IsRow(cmds)
    BY <1>3, <1>4
  <2>2. /\ IsRow(a2) /\ Len(cmds) \in Nat /\ Len(a2) = Len(a) + Len(cmds)
        /\ \A i \in 1 .. Len(a) : a2[i] = a[i]
        /\ \A i \in 1 .. Len(cmds) : a2[Len(a) + i] = cmds[i]
    <3>1. \A t : IsRow(t) =>
              /\ IsRow(a \o t) /\ Len(t) \in Nat /\ Len(a \o t) = Len(a) + Len(t)
              /\ \A i \in 1 .. Len(a) : (a \o t)[i] = a[i]
              /\ \A i \in 1 .. Len(t) : (a \o t)[Len(a) + i] = t[i]
      BY ONLY <2>1, RowsJoin
    <3> QED
      BY ONLY <2>1, <3>1, Zenon DEF a2
  <2> HIDE DEF a2
  <2> QED
    BY <1>3, <1>4, <2>2
<1> HIDE DEF a2
<1>6. /\ at2 \in [0 .. n + 1 -> Nat] /\ at2[n + 1] = at[n] + c
      /\ \A i \in 0 .. n : at2[i] = at[i]
      /\ at2[0] = 0
  BY <1>1, <1>3, <1>4
<1>7. ord2[n + 1] = order /\ \A i \in 1 .. n : ord2[i] = ord[i]
  BY <1>1
<1> HIDE DEF at2, ord2
<1>8. ASSUME NEW i \in 1 .. n + 1
      PROVE  /\ ord2[i] \in Aof!Orders(f2[i])
             /\ at2[i] = at2[i - 1] + CommandsOf(f2[i], ord2[i])
             /\ \A k \in 1 .. CommandsOf(f2[i], ord2[i]) :
                    a2[at2[i - 1] + k] = Aof!ObjectToCmd(f2[i], ord2[i])[k]
  <2>1. CASE i = n + 1
    <3>1. i - 1 = n /\ n \in 0 .. n
      BY <1>1, <2>1
    <3>2. f2[i] = o /\ ord2[i] = order /\ at2[i - 1] = at[n] /\ at2[i] = at[n] + c
      BY <1>1, <1>6, <1>7, <2>1, <3>1
    <3> QED
      BY <1>4, <1>5, <3>2 DEF c, cmds
  <2>2. CASE i # n + 1
    <3>1. i \in 1 .. n /\ i \in 0 .. n /\ i - 1 \in 0 .. n /\ n \in 0 .. n /\ i <= n
      BY <1>1, <2>2
    <3>2. /\ f2[i] = f[i] /\ ord2[i] = ord[i]
          /\ at2[i - 1] = at[i - 1] /\ at2[i] = at[i]
      BY <1>1, <1>6, <1>7, <3>1
    <3> DEFINE d == CommandsOf(f[i], ord[i])
    <3>3. d \in Nat /\ at[i - 1] \in Nat
      BY <1>2, <3>1, WritingIs DEF n
    <3>4. at[i] = at[i - 1] + d /\ at[i] <= Len(a)
      BY <1>4, <3>1
    <3> HIDE DEF d
    <3>5. ASSUME NEW k \in 1 .. d
          PROVE  at[i - 1] + k \in 1 .. Len(a)
      BY <1>4, <3>3, <3>4
    <3> USE DEF d
    <3>6. \A k \in 1 .. d : a2[at[i - 1] + k] = a[at[i - 1] + k]
      BY <1>5, <3>5
    <3> QED
      BY ONLY <1>4, <3>1, <3>2, <3>6
  <2> QED
    BY <2>1, <2>2
<1>9. ASSUME NEW i \in 0 .. n + 1, NEW k \in 0 .. n + 1, i <= k PROVE at2[i] <= at2[k]
  <2>1. CASE k = n + 1 /\ i = n + 1
    BY <1>3, <1>4, <1>6, <2>1, <1>1
  <2>2. CASE k = n + 1 /\ i # n + 1
    <3>1. i \in 0 .. n /\ n \in 0 .. n /\ i <= n
      BY <1>1, <2>2
    <3>2. at[i] \in Nat /\ at[n] \in Nat /\ at[i] <= at[n] /\ at2[i] = at[i] /\ at2[k] = at[n] + c
      BY <1>4, <1>6, <2>2, <3>1
    <3> QED
      BY <1>3, <3>2
  <2>3. CASE k # n + 1
    <3>1. i \in 0 .. n /\ k \in 0 .. n
      BY <1>1, <1>9, <2>3
    <3> QED
      BY <1>4, <1>6, <1>9, <3>1
  <2> QED
    BY <2>1, <2>2, <2>3
<1>10. at2[n + 1] = Len(a2)
  BY <1>4, <1>5, <1>6
<1>11. Writing(f2, a2, at2, ord2)
  BY <1>1, <1>5, <1>6, <1>8, <1>9, <1>10 DEF Writing
<1> QED
  BY <1>11 DEF f2, a2, cmds

\* Where the loading of the file is, if no write of it failed.
AofAt(f, a, ks, l, done, at, ord) ==
    /\ Writing(f, a, at, ord)
    /\ IF done THEN l \in Nat /\ LoadedAt(f, ks, l, at, ord) ELSE ks = << >> /\ l = 0

AofInv ==
    Converting =>
        /\ file \in Seq(AofObjects) /\ Handed \in Seq(AofObjects)
        /\ faults \in Nat
        /\ faults = 0 =>
               \E at, ord : AofAt(Handed, aof, keyspace, loaded, state = "done", at, ord)

LEMMA AofPrimed ==
    ASSUME Converting', file' \in Seq(AofObjects) /\ Handed' \in Seq(AofObjects), faults' \in Nat,
           faults' = 0 =>
               \E at, ord : AofAt(Handed', aof', keyspace', loaded', state' = "done", at, ord)
    PROVE  AofInv'
BY Zenon DEF AofInv

LEMMA AofInvInit ==
    ASSUME AnalysesInit
    PROVE  AofInv
<1> DEFINE at == [i \in 0 .. 0 |-> 0]
<1>1. /\ aof = << >> /\ keyspace = << >> /\ loaded = 0 /\ faults = 0 /\ file = << >>
      /\ state # "done"
  BY DEF AnalysesInit, Init
<1>2. IsRow(<< >>) /\ Len(<< >>) = 0
  BY DEF IsRow
<1>3. at \in [0 .. 0 -> Nat] /\ at[0] = 0
  OBVIOUS
<1>4. \A i, k \in 0 .. 0 : i = 0 /\ k = 0
  OBVIOUS
<1> HIDE DEF at
<1>5. Writing(<< >>, << >>, at, << >>)
  BY <1>2, <1>3, <1>4 DEF Writing
<1>8. Handed = << >>
  <2>1. ReachedPlaces = << >>
    BY <1>1, NothingReached
  <2> QED
    BY <2>1 DEF Handed, HandedFrom
<1>6. AofAt(Handed, aof, keyspace, loaded, state = "done", at, << >>)
  BY <1>1, <1>5, <1>8, Zenon DEF AofAt
<1>7. file \in Seq(AofObjects) /\ Handed \in Seq(AofObjects) /\ faults \in Nat
  BY <1>1, <1>8
<1> QED
  BY <1>6, <1>7, Zenon DEF AofInv

\* Steps that are not of ToAOF, and those of it that leave the file alone.
LEMMA AofRests ==
    ASSUME AofInv, UNCHANGED command,
           Converting =>
               /\ UNCHANGED <<options, file, aof, keyspace, loaded, faults>>
               /\ state' = "done" <=> state = "done"
    PROVE  AofInv'
<1>1. CASE ~Converting
  BY <1>1, Zenon DEF AofInv, Converting
<1>2. CASE Converting
  <2>1. /\ file' = file /\ aof' = aof /\ keyspace' = keyspace /\ loaded' = loaded
        /\ faults' = faults /\ Converting' /\ (state' = "done") = (state = "done")
    BY <1>2 DEF Converting
  <2>3. Handed' = Handed
    BY <1>2, HandedStays
  <2>2. /\ file \in Seq(AofObjects) /\ Handed \in Seq(AofObjects) /\ faults \in Nat
        /\ faults = 0 =>
               \E at, ord : AofAt(Handed, aof, keyspace, loaded, state = "done", at, ord)
    BY <1>2, Zenon DEF AofInv
  <2> QED
    BY <2>1, <2>2, <2>3, AofPrimed
<1> QED
  BY <1>1, <1>2

LEMMA AofPasses ==
    ASSUME AofInv, NEW o, Converting => o \in AofObjects, Filtered(o)
    PROVE  AofInv'
<1>1. /\ command' = command /\ options' = options /\ file' = Append(file, o)
      /\ ~Reaches(o) /\ UNCHANGED <<aof, keyspace, loaded, faults, state>>
  BY DEF Filtered, FromFile, aofVars, vars
<1>2. CASE ~Converting
  BY <1>1, <1>2, Zenon DEF AofInv, Converting
<1>3. CASE Converting
  <2>1. /\ file \in Seq(AofObjects) /\ Handed \in Seq(AofObjects) /\ faults \in Nat
        /\ faults = 0 =>
               \E at, ord : AofAt(Handed, aof, keyspace, loaded, state = "done", at, ord)
    BY <1>3, Zenon DEF AofInv
  <2>2. Handed' = Handed
    BY <1>1, <1>3, <2>1, HandedNext
  <2>3. Converting' /\ file' \in Seq(AofObjects) /\ Handed' \in Seq(AofObjects)
    BY <1>1, <1>3, <2>1, <2>2, AppendProperties DEF Converting
  <2>4. /\ aof' = aof /\ keyspace' = keyspace /\ loaded' = loaded /\ faults' = faults
        /\ state' = state
    BY <1>1
  <2> QED
    BY <2>1, <2>2, <2>3, <2>4, AofPrimed
<1> QED
  BY <1>2, <1>3

LEMMA AofConverts ==
    ASSUME AofAssumption, AofInv, NEW o \in AofObjects, ConvertObject(o)
    PROVE  AofInv'
<1>1. /\ Converting /\ command' = command /\ state = "parse" /\ state' = state
      /\ file' = Append(file, o) /\ options' = options /\ Reaches(o)
      /\ Aof!Convert(o) \/ Aof!ConvertFails(o)
  BY DEF ConvertObject, FromFile
<1>2. /\ file \in Seq(AofObjects) /\ Handed \in Seq(AofObjects) /\ faults \in Nat
      /\ faults = 0 =>
             \E at, ord : AofAt(Handed, aof, keyspace, loaded, state = "done", at, ord)
  BY <1>1, Zenon DEF AofInv
<1>6. Handed' = Append(Handed, o)
  BY <1>1, <1>2, HandedNext
<1>3. Converting' /\ file' \in Seq(AofObjects) /\ Handed' \in Seq(AofObjects)
  BY <1>1, <1>2, <1>6, AppendProperties DEF Converting
<1>4. CASE Aof!Convert(o)
  <2>1. /\ UNCHANGED <<keyspace, loaded, faults>>
        /\ \E order \in Aof!Orders(o) : aof' = aof \o Aof!ObjectToCmd(o, order)
    BY <1>4 DEF Aof!Convert
  <2>2. PICK order \in Aof!Orders(o) : aof' = aof \o Aof!ObjectToCmd(o, order)
    BY <2>1
  <2>3. ASSUME faults = 0
        PROVE  \E at, ord : AofAt(Handed', aof', keyspace', loaded', state' = "done", at, ord)
    <3>1. PICK at, ord : AofAt(Handed, aof, keyspace, loaded, state = "done", at, ord)
      BY <1>2, <2>3
    <3>2. Writing(Handed, aof, at, ord) /\ keyspace = << >> /\ loaded = 0
      BY <1>1, <3>1, Zenon DEF AofAt
    <3>3. \E at2, ord2 : Writing(Append(Handed, o), aof \o Aof!ObjectToCmd(o, order), at2, ord2)
      BY <1>2, <3>2, WritingGrows, Zenon
    <3>4. PICK at2, ord2 : Writing(Handed', aof', at2, ord2)
      BY <1>6, <2>2, <3>3, Zenon
    <3>5. AofAt(Handed', aof', keyspace', loaded', state' = "done", at2, ord2)
      BY <1>1, <2>1, <3>2, <3>4 DEF AofAt
    <3> QED
      BY <3>5
  <2>4. faults' = faults
    BY <2>1
  <2> QED
    BY <1>2, <1>3, <2>3, <2>4, AofPrimed
<1>5. CASE Aof!ConvertFails(o)
  <2>1. faults' = faults + 1
    BY <1>5 DEF Aof!ConvertFails
  <2>2. faults' \in Nat /\ faults' # 0
    BY <1>2, <2>1
  <2> QED
    BY <1>3, <2>2, AofPrimed
<1> QED
  BY <1>1, <1>4, <1>5

LEMMA AofStarts ==
    ASSUME AofAssumption, AofInv, ConvertEnds
    PROVE  AofInv'
<1>1. /\ Converting /\ command' = command /\ state = "parse" /\ state' = "done"
      /\ UNCHANGED <<options, file, aof, keyspace, loaded, faults>>
  BY DEF ConvertEnds, Given, aofVars
<1>5. Handed' = Handed /\ Converting'
  BY <1>1, HandedStays DEF Converting
<1>2. /\ file \in Seq(AofObjects) /\ Handed \in Seq(AofObjects) /\ faults \in Nat
      /\ faults = 0 =>
             \E at, ord : AofAt(Handed, aof, keyspace, loaded, state = "done", at, ord)
  BY <1>1, Zenon DEF AofInv
<1>3. ASSUME faults = 0
      PROVE  \E at, ord : AofAt(Handed', aof', keyspace', loaded', state' = "done", at, ord)
  <2>1. PICK at, ord : AofAt(Handed, aof, keyspace, loaded, state = "done", at, ord)
    BY <1>2, <1>3
  <2>2. Writing(Handed, aof, at, ord) /\ keyspace = << >> /\ loaded = 0
    BY <1>1, <2>1, Zenon DEF AofAt
  <2>3. LoadedAt(Handed, << >>, 0, at, ord)
    BY <1>2, <2>2, ObjectsFrom, LoadingStarts, Zenon
  <2>4. AofAt(Handed, aof, keyspace, loaded, TRUE, at, ord)
    <3>1. LoadedAt(Handed, keyspace, loaded, at, ord) /\ loaded \in Nat
      BY <2>2, <2>3
    <3> QED
      BY <2>2, <3>1, Zenon DEF AofAt
  <2>5. /\ Handed' = Handed /\ aof' = aof /\ keyspace' = keyspace /\ loaded' = loaded
        /\ (state' = "done") = TRUE
    BY <1>1, <1>5
  <2> QED
    BY <2>4, <2>5
<1>4. Converting' /\ file' \in Seq(AofObjects) /\ Handed' \in Seq(AofObjects) /\ faults' \in Nat /\ faults' = faults
  BY <1>1, <1>2, <1>5
<1> QED
  BY <1>3, <1>4, AofPrimed

LEMMA AofLoads ==
    ASSUME AofAssumption, AofInv, LoadCommand
    PROVE  AofInv'
<1>1. /\ Converting /\ command' = command /\ state = "done" /\ state' = state
      /\ UNCHANGED <<options, file, aof, faults>>
      /\ loaded < Len(aof) /\ loaded' = loaded + 1
      /\ keyspace' = Aof!Applied(aof[loaded + 1])
  BY DEF LoadCommand, Given, Aof!Load, Aof!Loadable
<1>5. Handed' = Handed /\ Converting'
  BY <1>1, HandedStays DEF Converting
<1>2. /\ file \in Seq(AofObjects) /\ Handed \in Seq(AofObjects) /\ faults \in Nat
      /\ faults = 0 =>
             \E at, ord : AofAt(Handed, aof, keyspace, loaded, state = "done", at, ord)
  BY <1>1, Zenon DEF AofInv
<1>3. ASSUME faults = 0
      PROVE  \E at, ord : AofAt(Handed', aof', keyspace', loaded', state' = "done", at, ord)
  <2>1. PICK at, ord : AofAt(Handed, aof, keyspace, loaded, state = "done", at, ord)
    BY <1>2, <1>3
  <2>2. /\ Writing(Handed, aof, at, ord) /\ loaded \in Nat
        /\ LoadedAt(Handed, keyspace, loaded, at, ord)
    BY <1>1, <2>1, Zenon DEF AofAt
  <2>3. LoadedAt(Handed, Aof!Applied(aof[loaded + 1]), loaded + 1, at, ord)
    BY <1>1, <1>2, <2>2, ObjectsFrom, CommandLoaded, Zenon
  <2>4. LoadedAt(Handed, keyspace', loaded', at, ord) /\ loaded' \in Nat
    BY <1>1, <2>2, <2>3
  <2>5. AofAt(Handed, aof, keyspace', loaded', TRUE, at, ord)
    BY <2>2, <2>4, Zenon DEF AofAt
  <2>6. Handed' = Handed /\ aof' = aof /\ (state' = "done") = TRUE
    BY <1>1, <1>5
  <2> QED
    BY <2>5, <2>6
<1>4. Converting' /\ file' \in Seq(AofObjects) /\ Handed' \in Seq(AofObjects) /\ faults' \in Nat /\ faults' = faults
  BY <1>1, <1>2, <1>5
<1> QED
  BY <1>3, <1>4, AofPrimed

LEMMA AofInvNext ==
    ASSUME AofAssumption, AofInv, [AnalysesNext]_analysesVars
    PROVE  AofInv'
<1> USE DEF Given, aofVars, Converting
<1>1. CASE Refuse
  BY <1>1, AofRests DEF Refuse
<1>2. CASE StartRanking
  BY <1>2, AofRests DEF StartRanking, Ranking
<1>3. CASE StartPrefix
  BY <1>3, AofRests DEF StartPrefix
<1>4. CASE StartOther
  BY <1>4, AofRests DEF StartOther
<1>5. CASE ReportRanking
  BY <1>5, AofRests DEF ReportRanking, Ranking
<1>6. CASE ReportPrefix
  BY <1>6, AofRests DEF ReportPrefix
<1>7. CASE PlotEnds \/ TrimTurn
  BY <1>7, AofRests DEF PlotEnds, TrimTurn
<1>8. CASE ConvertEnds
  BY <1>8, AofStarts, Zenon
<1>9. CASE LoadCommand
  BY <1>9, AofLoads, Zenon
<1>10. ASSUME NEW o, RankObject(o) PROVE AofInv'
  BY <1>10, AofRests DEF RankObject, Ranking, FromFile
<1>11. ASSUME NEW o, GroupObject(o) PROVE AofInv'
  BY <1>11, AofRests DEF GroupObject, FromFile
<1>12. ASSUME NEW o, PlotObject(o) PROVE AofInv'
  BY <1>12, AofRests DEF PlotObject, FromFile
<1>13. ASSUME NEW o \in Objects, Filtered(o) PROVE AofInv'
  <2>1. Converting => o \in AofObjects
    BY <1>13 DEF Objects
  <2> QED
    BY <1>13, <2>1, AofPasses, Zenon
<1>14. ASSUME NEW o \in AofObjects, ConvertObject(o) PROVE AofInv'
  BY <1>14, AofConverts, Zenon
<1>15. CASE UNCHANGED analysesVars
  BY <1>15, AofRests DEF analysesVars, vars
<1> QED
  BY <1>1, <1>2, <1>3, <1>4, <1>5, <1>6, <1>7, <1>8, <1>9, <1>10, <1>11, <1>12, <1>13, <1>14,
     <1>15, AnalysesSteps

(***************************************************************************)
(* converter.go:35-47, resp.go: for any file, any filters, any clock and   *)
(* whatever order the fields of a hash come in, loading the whole file     *)
(* that ToAOF wrote leaves the keys asked for that have commands, no       *)
(* others, and under each what EntryOf says of its objects: the value, its *)
(* expiration as far as 64 bits carry it, and lists of one name joined.    *)
(* Unless a write failed, which ToAOF prints and does not return.  Of the  *)
(* command aof this is so without filters: they do not arrive.             *)
(***************************************************************************)
THEOREM AofFilesRebuild == AnalysesSpec => []AofRebuilds
<1>1. AnalysesInit => AofInv
  BY AofAssumption, AofInvInit, Zenon
<1>2. AofInv /\ [AnalysesNext]_analysesVars => AofInv'
  BY AofAssumption, AofInvNext, Zenon
<1>3. AofInv /\ AnalysesInv => AofRebuilds
  <2> SUFFICES ASSUME AofInv, AnalysesInv, options = asked, Converting, Legal(asked),
                      state = "done", loaded = Len(aof), faults = 0,
                      asked = NoOptions \/ AllRepresentable
               PROVE  Aof!Rebuilt(WantedObjects)
    BY Zenon DEF AofRebuilds, LoadedAsAsked
  <2>1. /\ file \in Seq(AofObjects) /\ Handed \in Seq(AofObjects)
        /\ \E at, ord : AofAt(Handed, aof, keyspace, loaded, state = "done", at, ord)
    BY Zenon DEF AofInv
  <2>2. PICK at, ord : AofAt(Handed, aof, keyspace, loaded, state = "done", at, ord)
    BY <2>1
  <2>3. Writing(Handed, aof, at, ord) /\ LoadedAt(Handed, keyspace, Len(aof), at, ord)
    BY <2>2 DEF AofAt
  <2>4. Aof!Rebuilt(Handed)
    BY <2>1, <2>3, AofAssumption, ObjectsFrom, AllLoaded, Zenon
  <2>5. options \in OptionSets
    BY DEF AnalysesInv, GivenInv
  <2>6. Handed = WantedObjects
    BY <2>1, <2>5, AnalysesAssumption, AofAssumption, HandedAsWanted
  <2> QED
    BY <2>4, <2>6, Zenon
<1> QED
  BY <1>1, <1>2, <1>3, AnalysesInvHolds, PTL DEF AnalysesSpec
=============================================================================
