------------------------ MODULE PrefixAnalysisProofs ------------------------
(***************************************************************************)
(* Proofs about PrefixAnalysis and the RadixTree under it: whatever words  *)
(* are inserted in whatever order, insert keeps the links of the tree, and *)
(* between two insertions there is one node for every word and every place *)
(* where words part, with the right counts; and for any file, any -n and   *)
(* any -max-depth the report names the largest prefixes at the depths      *)
(* asked for, though the walk stops at the first node too deep and the     *)
(* list drops nodes as it goes.                                            *)
(*                                                                         *)
(* First what is needed of numbers, sequences and common prefixes; then    *)
(* the links of any tree and the three things insert does to them, split,  *)
(* count and grow; then the invariant TreeInv, one lemma for each step of  *)
(* the loop, and what follows from it.  On top of the tree: what depth     *)
(* means, the queue of the breadth-first walk, the list of the largest     *)
(* nodes seen so far, one lemma for each action, and the names read back   *)
(* from the rows.                                                          *)
(***************************************************************************)
EXTENDS PrefixAnalysis, FiniteSetTheorems, SequenceTheorems, WellFoundedInduction, TLAPS

Less == {p \in Nat \X Nat : p[1] < p[2]}

\* There is no endless descent in the natural numbers.
LEMMA NatWellFounded == IsWellFoundedOn(Less, Nat)
<1>1. OpToRel(<, Nat) = Less
  BY Zenon DEF OpToRel, Less
<1> QED
  BY <1>1, NatLessThanWellFounded

\* Every set of natural numbers that is not empty has a least element.
LEMMA LeastNumber ==
    ASSUME NEW T \in SUBSET Nat, T # {}
    PROVE  \E x \in T : \A y \in T : x <= y
<1>1. \E x \in T : \A y \in T : ~(<<y, x>> \in Less)
  BY NatWellFounded, WFMin, Zenon
<1>2. \A x, y \in Nat : y < x => <<y, x>> \in Less
  BY DEF Less
<1>3. PICK x \in T : \A y \in T : ~(<<y, x>> \in Less)
  BY <1>1
<1>4. ASSUME NEW y \in T PROVE x <= y
  <2>1. x \in Nat /\ y \in Nat
    OBVIOUS
  <2>2. <<y, x>> \notin Less
    BY <1>3
  <2>3. ~(y < x)
    BY <1>2, <2>1, <2>2, Zenon
  <2> QED
    BY <2>1, <2>3
<1> QED
  BY <1>4

Digit(g, n) == IF n < 10 THEN <<n>> ELSE Append(g[n \div 10], n % 10)

\* A number of several digits is longer than what its first digits denote.
LEMMA Shorter == \A n \in Nat : n >= 10 => n \div 10 \in 0 .. n - 1
  OBVIOUS

\* The recursion of strconv.Itoa has a solution up to any number.
LEMMA DigitsSoFar ==
    ASSUME NEW n \in Nat
    PROVE  \E g \in [0 .. n -> Seq(Nat)] : \A k \in 0 .. n : g[k] = Digit(g, k)
<1> DEFINE Some(i) == \E g \in [0 .. i -> Seq(Nat)] : \A k \in 0 .. i : g[k] = Digit(g, k)
           T == {i \in Nat : ~Some(i)}
<1> SUFFICES ASSUME T # {} PROVE FALSE
  OBVIOUS
<1>1. PICK x \in T : \A y \in T : x <= y
  BY LeastNumber
<1>2. CASE x = 0
  <2> DEFINE g == [k \in 0 .. 0 |-> <<k>>]
  <2>1. g \in [0 .. x -> Seq(Nat)] /\ \A k \in 0 .. x : g[k] = Digit(g, k)
    BY <1>2 DEF Digit
  <2> QED
    BY <1>1, <2>1
<1>3. CASE x # 0
  <2>0. x \in Nat
    OBVIOUS
  <2>1. x - 1 \in Nat /\ x - 1 \notin T
    <3> HIDE DEF T
    <3> QED
      BY <1>1, <1>3, <2>0
  <2>2. PICK h \in [0 .. x - 1 -> Seq(Nat)] : \A k \in 0 .. x - 1 : h[k] = Digit(h, k)
    BY <2>1
  <2> DEFINE g == [k \in 0 .. x |-> IF k = x THEN Digit(h, x) ELSE h[k]]
  <2>3. Digit(h, x) \in Seq(Nat)
    BY <1>1, Shorter DEF Digit
  <2>4. g \in [0 .. x -> Seq(Nat)]
    BY <2>3
  <2>5. ASSUME NEW k \in 0 .. x PROVE g[k] = Digit(g, k)
    <3>1. k >= 10 => g[k \div 10] = h[k \div 10]
      BY <1>1, Shorter
    <3>2. Digit(g, k) = Digit(h, k)
      BY <3>1 DEF Digit
    <3> QED
      BY <2>2, <3>2, <1>1
  <2> QED
    BY <1>1, <2>4, <2>5
<1> QED
  BY <1>2, <1>3

\* strconv.Itoa: the recursion of Digits has a solution, and Digits is it.
LEMMA DigitsRecursion == \A n \in Nat : Digits[n] = Digit(Digits, n)
<1> DEFINE Good(g, n) == g \in [0 .. n -> Seq(Nat)] /\ \A k \in 0 .. n : g[k] = Digit(g, k)
           G(n) == CHOOSE g : Good(g, n)
           f == [n \in Nat |-> G(n)[n]]
<1>1. \A n \in Nat : Good(G(n), n)
  <2>1. \A n \in Nat : \E g : Good(g, n)
    BY DigitsSoFar
  <2> QED
    BY <2>1
<1> HIDE DEF G
<1>2. \A k, n \in Nat : k <= n => G(n)[k] = G(k)[k]
  <2> DEFINE T == {k \in Nat : \E n \in Nat : k <= n /\ G(n)[k] # G(k)[k]}
  <2> SUFFICES ASSUME T # {} PROVE FALSE
    OBVIOUS
  <2>1. PICK x \in T : \A y \in T : x <= y
    BY LeastNumber
  <2>2. PICK n \in Nat : x <= n /\ G(n)[x] # G(x)[x]
    BY <2>1
  <2>3. G(n)[x] = Digit(G(n), x) /\ G(x)[x] = Digit(G(x), x)
    BY <1>1, <2>1, <2>2
  <2>4. x >= 10 => G(n)[x \div 10] = G(x)[x \div 10]
    <3> SUFFICES ASSUME x >= 10 PROVE G(n)[x \div 10] = G(x)[x \div 10]
      OBVIOUS
    <3>1. x \div 10 \in Nat /\ x \div 10 < x
      BY Shorter, <2>1
    <3>2. x \div 10 \notin T
      BY <3>1, <2>1
    <3> QED
      BY <3>1, <3>2, <2>1, <2>2
  <2> QED
    BY <2>2, <2>3, <2>4 DEF Digit
<1>3. ASSUME NEW n \in Nat PROVE f[n] \in Seq(Nat) /\ f[n] = Digit(f, n)
  <2>1. G(n)[n] \in Seq(Nat) /\ G(n)[n] = Digit(G(n), n)
    BY <1>1, SMTT(60)
  <2>2. f[n] = G(n)[n]
    OBVIOUS
  <2>3. n >= 10 => n \div 10 \in Nat /\ n \div 10 <= n
    BY Shorter
  <2>4. n >= 10 => f[n \div 10] = G(n)[n \div 10]
    BY <1>2, <2>3
  <2> HIDE DEF f
  <2>5. Digit(f, n) = Digit(G(n), n)
    BY <2>4 DEF Digit
  <2> QED
    BY <2>1, <2>2, <2>5
<1>4. f = [n \in Nat |-> IF n < 10 THEN <<n>> ELSE Append(f[n \div 10], n % 10)]
  BY <1>3 DEF Digit
<1> HIDE DEF f
<1>5. \E h : h = [n \in Nat |-> IF n < 10 THEN <<n>> ELSE Append(h[n \div 10], n % 10)]
  BY <1>4
<1>6. Digits = [n \in Nat |-> IF n < 10 THEN <<n>> ELSE Append(Digits[n \div 10], n % 10)]
  BY <1>5 DEF Digits
<1> QED
  BY <1>6, Zenon DEF Digit

\* strconv.Itoa yields a string for every database number.
LEMMA DigitsOfNumber == \A n \in Nat : Digits[n] \in Seq(Nat)
<1> DEFINE T == {n \in Nat : Digits[n] \notin Seq(Nat)}
<1> SUFFICES ASSUME T # {} PROVE FALSE
  OBVIOUS
<1>1. PICK x \in T : \A y \in T : x <= y
  BY LeastNumber
<1>2. x \in Nat
  OBVIOUS
<1>3. x >= 10 => x \div 10 \in Nat /\ x \div 10 < x
  BY <1>2, Shorter
<1>4. x >= 10 => Digits[x \div 10] \in Seq(Nat)
  <2>1. \A n \in Nat : n < x => Digits[n] \in Seq(Nat)
    BY <1>1, <1>2
  <2> QED
    BY <2>1, <1>3
<1>5. Digit(Digits, x) \in Seq(Nat)
  <2> HIDE DEF T
  <2>1. x >= 10 => x % 10 \in Nat
    BY <1>2
  <2>2. x >= 10 => Append(Digits[x \div 10], x % 10) \in Seq(Nat)
    BY <1>4, <2>1
  <2>3. <<x>> \in Seq(Nat)
    BY <1>2
  <2> QED
    BY <2>2, <2>3, <1>2 DEF Digit
<1> QED
  BY DigitsRecursion, <1>2, <1>5

Begins(s, t) == Len(s) <= Len(t) /\ \A i \in 1 .. Len(s) : s[i] = t[i]

\* IsPrefix, character by character.
LEMMA PrefixBegins ==
    ASSUME NEW s \in Seq(Nat), NEW t \in Seq(Nat)
    PROVE  IsPrefix(s, t) <=> Begins(s, t)
<1>1. ASSUME Len(s) <= Len(t), SubSeq(s, 1, Len(s)) = SubSeq(t, 1, Len(s)),
             NEW i \in 1 .. Len(s)
      PROVE  s[i] = t[i]
  <2>1. SubSeq(s, 1, Len(s))[i] = s[i] /\ SubSeq(t, 1, Len(s))[i] = t[i]
    BY <1>1
  <2> QED
    BY <1>1, <2>1
<1>2. ASSUME Begins(s, t) PROVE SubSeq(s, 1, Len(s)) = SubSeq(t, 1, Len(s))
  <2>1. SubSeq(s, 1, Len(s)) \in Seq(Nat) /\ SubSeq(t, 1, Len(s)) \in Seq(Nat)
    BY <1>2 DEF Begins
  <2>2. Len(SubSeq(s, 1, Len(s))) = Len(s) /\ Len(SubSeq(t, 1, Len(s))) = Len(s)
    BY <1>2 DEF Begins
  <2>3. \A i \in 1 .. Len(s) : SubSeq(s, 1, Len(s))[i] = SubSeq(t, 1, Len(s))[i]
    BY <1>2 DEF Begins
  <2> QED
    BY <2>1, <2>2, <2>3, SeqEqual
<1> QED
  BY <1>1, <1>2 DEF IsPrefix, Begins

\* What begins a word, and what begins that.
LEMMA BeginsTwice ==
    ASSUME NEW s \in Seq(Nat), NEW t \in Seq(Nat), NEW u \in Seq(Nat)
    PROVE  /\ Begins(s, s)
           /\ Begins(s, t) /\ Begins(t, u) => Begins(s, u)
           /\ Begins(s, u) /\ Begins(t, u) /\ Len(s) <= Len(t) => Begins(s, t)
           /\ Begins(s, t) /\ Len(t) <= Len(s) => s = t
<1>1. ASSUME Begins(s, t), Len(t) <= Len(s) PROVE s = t
  <2>1. Len(s) = Len(t) /\ \A i \in 1 .. Len(s) : s[i] = t[i]
    BY <1>1 DEF Begins
  <2> QED
    BY <2>1, SeqEqual
<1> QED
  BY <1>1 DEF Begins

\* The common prefixes of two words.
LEMMA CommonOfTwo ==
    ASSUME NEW a \in Seq(Nat), NEW b \in Seq(Nat)
    PROVE  CommonPrefixes({a, b}) = {s \in Seq(Nat) : Begins(s, a) /\ Begins(s, b)}
<1>1. ASSUME NEW s \in CommonPrefixes({a, b})
      PROVE  s \in Seq(Nat) /\ Begins(s, a) /\ Begins(s, b)
  <2>1. s \in Prefixes(a) \cup Prefixes(b) /\ IsPrefix(s, a) /\ IsPrefix(s, b)
    BY DEF CommonPrefixes
  <2>2. s \in Seq(Nat)
    BY <2>1, SMTT(60) DEF Prefixes
  <2> QED
    BY <2>1, <2>2, PrefixBegins
<1>2. ASSUME NEW s \in Seq(Nat), Begins(s, a), Begins(s, b)
      PROVE  s \in CommonPrefixes({a, b})
  <2>1. s = SubSeq(a, 1, Len(s)) /\ Len(s) \in 0 .. Len(a)
    <3>1. SubSeq(s, 1, Len(s)) = s
      BY SeqEqual
    <3> QED
      BY <1>2, <3>1, PrefixBegins DEF IsPrefix
  <2>2. s \in Prefixes(a)
    BY <2>1 DEF Prefixes
  <2>3. IsPrefix(s, a) /\ IsPrefix(s, b)
    BY <1>2, PrefixBegins
  <2> QED
    BY <2>2, <2>3 DEF CommonPrefixes
<1> QED
  BY <1>1, <1>2

\* The longest common prefix is one and begins with every other.
LEMMA Longest ==
    ASSUME NEW a \in Seq(Nat), NEW b \in Seq(Nat)
    PROVE  LET l == LongestCommonPrefix({a, b}) IN
           /\ l \in Seq(Nat) /\ Begins(l, a) /\ Begins(l, b)
           /\ \A s \in Seq(Nat) : Begins(s, a) /\ Begins(s, b) => Begins(s, l)
<1> DEFINE C == CommonPrefixes({a, b})
           T == {Len(a) - Len(s) : s \in C}
           l == LongestCommonPrefix({a, b})
<1>1. C = {s \in Seq(Nat) : Begins(s, a) /\ Begins(s, b)}
  BY CommonOfTwo
<1> HIDE DEF C
<1>2. << >> \in C
  BY <1>1 DEF Begins
<1>3. T \in SUBSET Nat /\ T # {}
  <2>1. \A s \in C : Len(a) - Len(s) \in Nat
    BY <1>1 DEF Begins
  <2> QED
    BY <1>2, <2>1
<1>4. PICK d \in T : \A e \in T : d <= e
  <2> HIDE DEF T
  <2> QED
    BY <1>3, LeastNumber
<1>5. PICK m \in C : d = Len(a) - Len(m)
  BY <1>4
<1>6. \A s \in C : Len(s) <= Len(m)
  <2> TAKE s \in C
  <2>1. Len(a) - Len(m) <= Len(a) - Len(s)
    BY <1>4, <1>5
  <2>2. s \in Seq(Nat) /\ m \in Seq(Nat)
    BY <1>1
  <2> QED
    BY <2>1, <2>2
<1>7. l \in C /\ \A s \in C : Len(s) <= Len(l)
  <2>1. \E g \in C : \A s \in C : Len(s) <= Len(g)
    BY <1>6
  <2>2. l = CHOOSE g \in C : \A s \in C : Len(s) <= Len(g)
    BY Zenon DEF LongestCommonPrefix, C
  <2> HIDE DEF l
  <2> QED
    BY <2>1, <2>2
<1> HIDE DEF l
<1>8. l \in Seq(Nat) /\ Begins(l, a) /\ Begins(l, b)
  BY <1>1, <1>7
<1>9. \A s \in Seq(Nat) : Begins(s, a) /\ Begins(s, b) => Begins(s, l)
  BY <1>1, <1>7, <1>8, BeginsTwice
<1> QED
  BY <1>8, <1>9 DEF l

\* A common prefix after which the words differ is the longest.
LEMMA LongestIs ==
    ASSUME NEW a \in Seq(Nat), NEW b \in Seq(Nat), NEW s \in Seq(Nat),
           Begins(s, a), Begins(s, b),
           Len(s) < Len(a) /\ Len(s) < Len(b) => a[Len(s) + 1] # b[Len(s) + 1]
    PROVE  s = LongestCommonPrefix({a, b})
<1> DEFINE l == LongestCommonPrefix({a, b})
<1>1. l \in Seq(Nat) /\ Begins(l, a) /\ Begins(l, b) /\ Begins(s, l)
  BY Longest
<1> HIDE DEF l
<1>2. ASSUME Len(s) < Len(l) PROVE FALSE
  <2>0. /\ Len(l) <= Len(a) /\ \A i \in 1 .. Len(l) : l[i] = a[i]
        /\ Len(l) <= Len(b) /\ \A i \in 1 .. Len(l) : l[i] = b[i]
    BY ONLY <1>1 DEF Begins
  <2>1. /\ Len(s) + 1 \in 1 .. Len(l) /\ Len(s) < Len(a) /\ Len(s) < Len(b)
        /\ \A i \in 1 .. Len(l) : l[i] = a[i] /\ l[i] = b[i]
    BY <1>1, <1>2, <2>0, SMTT(60)
  <2>2. l[Len(s) + 1] = a[Len(s) + 1] /\ l[Len(s) + 1] = b[Len(s) + 1]
    BY <2>1
  <2> QED
    BY <2>1, <2>2
<1>3. s = l
  BY <1>1, <1>2, BeginsTwice
<1> QED
  BY <1>3 DEF l

\* What commonPrefixLen (radix.go:28) counts.
LEMMA CommonLength ==
    ASSUME NEW a \in Seq(Nat), NEW b \in Seq(Nat)
    PROVE  LET i == commonPrefixLen(a, b) IN
           /\ i \in Nat /\ i <= Len(a) /\ i <= Len(b)
           /\ \A j \in 1 .. i : a[j] = b[j]
           /\ i < Len(a) /\ i < Len(b) => a[i + 1] # b[i + 1]
<1> DEFINE l == LongestCommonPrefix({a, b})
           i == Len(l)
<1>1. /\ l \in Seq(Nat) /\ Begins(l, a) /\ Begins(l, b)
      /\ \A s \in Seq(Nat) : Begins(s, a) /\ Begins(s, b) => Begins(s, l)
  BY Longest
<1>2. commonPrefixLen(a, b) = i
  BY DEF commonPrefixLen, commonPrefix
<1> HIDE DEF l
<1>3. i \in Nat /\ i <= Len(a) /\ i <= Len(b) /\ \A j \in 1 .. i : a[j] = b[j]
  BY <1>1 DEF Begins
<1>4. ASSUME i < Len(a), i < Len(b), a[i + 1] = b[i + 1] PROVE FALSE
  <2> DEFINE s == SubSeq(a, 1, i + 1)
  <2>1. s \in Seq(Nat) /\ Len(s) = i + 1 /\ \A j \in 1 .. i + 1 : s[j] = a[j]
    BY <1>3, <1>4
  <2> HIDE DEF s
  <2>2. \A j \in 1 .. i + 1 : a[j] = b[j]
    BY <1>3, <1>4
  <2>3. Begins(s, a) /\ Begins(s, b)
    <3>1. i \in Nat /\ i + 1 <= Len(a) /\ i + 1 <= Len(b)
      BY <1>3, <1>4
    <3>2. \A j \in 1 .. i + 1 : s[j] = a[j] /\ s[j] = b[j]
      BY <2>1, <2>2
    <3> HIDE DEF i
    <3> QED
      BY ONLY <2>1, <3>1, <3>2 DEF Begins
  <2>4. Begins(s, l)
    BY <1>1, <2>1, <2>3
  <2>5. i \in Nat /\ Len(s) <= i
    BY ONLY <2>4, <1>3 DEF Begins
  <2> HIDE DEF i
  <2> QED
    BY <2>1, <2>5
<1> QED
  BY <1>2, <1>3, <1>4

\* Both pieces of a word cut after i characters.
LEMMA Cut ==
    ASSUME NEW s \in Seq(Nat), NEW i \in 0 .. Len(s)
    PROVE  /\ SubSeq(s, 1, i) \in Seq(Nat) /\ Len(SubSeq(s, 1, i)) = i
           /\ SubSeq(s, i + 1, Len(s)) \in Seq(Nat)
           /\ Len(SubSeq(s, i + 1, Len(s))) = Len(s) - i
           /\ \A j \in 1 .. i : SubSeq(s, 1, i)[j] = s[j]
           /\ \A j \in 1 .. Len(s) - i : SubSeq(s, i + 1, Len(s))[j] = s[i + j]
           /\ s = SubSeq(s, 1, i) \o SubSeq(s, i + 1, Len(s))
<1>1. i \in Nat /\ i <= Len(s) /\ Len(s) \in Nat
  OBVIOUS
<1>2. /\ SubSeq(s, 1, i) \in Seq(Nat) /\ Len(SubSeq(s, 1, i)) = i
      /\ \A j \in 1 .. i : SubSeq(s, 1, i)[j] = s[j]
  BY <1>1
<1>3. /\ SubSeq(s, i + 1, Len(s)) \in Seq(Nat)
      /\ Len(SubSeq(s, i + 1, Len(s))) = Len(s) - i
  BY <1>1
<1>4. \A j \in 1 .. Len(s) - i : SubSeq(s, i + 1, Len(s))[j] = s[i + j]
  BY <1>1
<1>5. SubSeq(s, 1, i) \o SubSeq(s, i + 1, Len(s)) = SubSeq(s, 1, Len(s))
  <2>1. 1 \in 1 .. Len(s) + 1 /\ i \in 1 - 1 .. Len(s) /\ Len(s) \in i .. Len(s)
    BY <1>1
  <2> QED
    BY <2>1, ConcatAdjacentSubSeq
<1>6. SubSeq(s, 1, Len(s)) = s
  BY SubSeqFull
<1> QED
  BY <1>2, <1>3, <1>4, <1>5, <1>6

\* The front of a concatenation.
LEMMA ConcatStart ==
    ASSUME NEW s \in Seq(Nat), NEW t \in Seq(Nat)
    PROVE  SubSeq(s \o t, 1, Len(s)) = s
<1>1. /\ s \o t \in Seq(Nat) /\ Len(s) \in 0 .. Len(s \o t)
      /\ \A j \in 1 .. Len(s) : (s \o t)[j] = s[j]
  BY ConcatProperties
<1> DEFINE u == s \o t
<1> HIDE DEF u
<1>2. /\ SubSeq(u, 1, Len(s)) \in Seq(Nat) /\ Len(SubSeq(u, 1, Len(s))) = Len(s)
      /\ \A j \in 1 .. Len(s) : SubSeq(u, 1, Len(s))[j] = u[j]
  BY <1>1, Cut DEF u
<1>3. SubSeq(u, 1, Len(s)) = s
  BY <1>1, <1>2, SeqEqual DEF u
<1> QED
  BY <1>3 DEF u

\* Concatenation is associative.
LEMMA Associative == \A s, t, u \in Seq(Nat) : (s \o t) \o u = s \o (t \o u)
  BY ONLY ConcatAssociative, SMTT(20)

\* A name cut within its path is the rest of the name with the path cut.
LEMMA CutEnd ==
    ASSUME NEW s \in Seq(Nat), NEW p \in Seq(Nat), NEW i \in 0 .. Len(p)
    PROVE  LET t == s \o p
               front == SubSeq(t, 1, Len(s) + i)
           IN
           /\ front = s \o SubSeq(p, 1, i)
           /\ t = front \o SubSeq(p, i + 1, Len(p))
<1> DEFINE b == SubSeq(p, 1, i)
           e == SubSeq(p, i + 1, Len(p))
           t == s \o p
<1>1. b \in Seq(Nat) /\ e \in Seq(Nat) /\ Len(b) = i /\ p = b \o e
  BY Cut
<1> HIDE DEF b, e
<1>2. t = (s \o b) \o e
  <2>1. (s \o b) \o e = s \o (b \o e)
    BY <1>1, Associative, ZenonT(60)
  <2> QED
    BY <1>1, <2>1
<1>3. s \o b \in Seq(Nat) /\ Len(s \o b) = Len(s) + i
  BY <1>1, ConcatProperties
<1>4. SubSeq(t, 1, Len(s) + i) = s \o b
  <2> HIDE DEF t
  <2>1. SubSeq(t, 1, Len(s \o b)) = s \o b
    BY <1>1, <1>2, <1>3, ConcatStart
  <2> QED
    BY <1>3, <2>1
<1> QED
  BY <1>2, <1>4 DEF b, e

Node == [path : Seq(Nat), end : BOOLEAN, children : Seq(Nat), totalSize : Nat,
         keyCount : Nat, fullpath : Seq(Nat)]

Name(ns, n) == ns[n].fullpath
Edge(ns, n) == ns[n].path
Kids(ns, n) == ns[n].children

IsChild(ns, m, k) == \E c \in DOMAIN Kids(ns, m) : Kids(ns, m)[c] = k

Typed(ns) == ns \in Seq(Node) /\ Root \in DOMAIN ns

RootEmpty(ns) == Edge(ns, Root) = << >> /\ Name(ns, Root) = << >>

ChildrenAreNodes(ns) ==
    \A m \in DOMAIN ns : \A c \in DOMAIN Kids(ns, m) : Kids(ns, m)[c] \in DOMAIN ns \ {Root}

ChildrenContinue(ns) ==
    \A m, k \in DOMAIN ns : IsChild(ns, m, k) =>
        Edge(ns, k) # << >> /\ Name(ns, k) = Name(ns, m) \o Edge(ns, k)

SiblingsDiffer(ns) ==
    \A m \in DOMAIN ns : \A c, d \in DOMAIN Kids(ns, m) :
        Edge(ns, Kids(ns, m)[c])[1] = Edge(ns, Kids(ns, m)[d])[1] => c = d

AllBelowRoot(ns) == \A k \in DOMAIN ns \ {Root} : \E m \in DOMAIN ns : IsChild(ns, m, k)

\* Where a node's name begins another's, a child leads there.
WayDown(ns) ==
    \A m, n \in DOMAIN ns :
        m # n /\ Begins(Name(ns, m), Name(ns, n)) =>
            \E k \in DOMAIN ns : IsChild(ns, m, k) /\ Begins(Name(ns, k), Name(ns, n))

Linked(ns) ==
    /\ Typed(ns) /\ RootEmpty(ns) /\ ChildrenAreNodes(ns) /\ ChildrenContinue(ns)
    /\ SiblingsDiffer(ns) /\ AllBelowRoot(ns) /\ WayDown(ns)

\* The fields of a node.
LEMMA NodeOf ==
    ASSUME NEW ns, Typed(ns), NEW n \in DOMAIN ns
    PROVE  /\ ns[n] \in Node /\ ns[n].end \in BOOLEAN
           /\ Edge(ns, n) \in Seq(Nat) /\ Kids(ns, n) \in Seq(Nat)
           /\ Name(ns, n) \in Seq(Nat)
           /\ ns[n].totalSize \in Nat /\ ns[n].keyCount \in Nat
<1>1. ns[n] \in Node
  BY DEF Typed
<1> QED
  BY <1>1 DEF Node, Edge, Kids, Name

\* What the links say of a child, character by character.
LEMMA ChildOf ==
    ASSUME NEW ns, Linked(ns), NEW m \in DOMAIN ns, NEW k \in DOMAIN ns, IsChild(ns, m, k)
    PROVE  /\ k # Root /\ k # m
           /\ Edge(ns, k) \in Seq(Nat) /\ Len(Edge(ns, k)) > 0
           /\ Len(Name(ns, k)) = Len(Name(ns, m)) + Len(Edge(ns, k))
           /\ Begins(Name(ns, m), Name(ns, k))
           /\ \A j \in 1 .. Len(Edge(ns, k)) :
                  Edge(ns, k)[j] = Name(ns, k)[Len(Name(ns, m)) + j]
           /\ Edge(ns, k)[1] = Name(ns, k)[Len(Name(ns, m)) + 1]
<1> DEFINE p == Edge(ns, k)
           s == Name(ns, m)
           t == Name(ns, k)
<1>1. p \in Seq(Nat) /\ s \in Seq(Nat) /\ t \in Seq(Nat)
  BY NodeOf DEF Linked
<1>2. k # Root /\ p # << >> /\ t = s \o p
  <2>1. ChildrenContinue(ns) /\ ChildrenAreNodes(ns)
    BY DEF Linked
  <2>2. k # Root
    BY <2>1 DEF ChildrenAreNodes, IsChild
  <2>3. p # << >> /\ t = s \o p
    BY <2>1 DEF ChildrenContinue
  <2> QED
    BY <2>2, <2>3
<1> HIDE DEF p, s, t
<1>3. Len(p) > 0 /\ Len(t) = Len(s) + Len(p) /\ \A j \in 1 .. Len(p) : p[j] = t[Len(s) + j]
  BY <1>1, <1>2
<1>4. p[1] = t[Len(s) + 1]
  <2>1. 1 \in 1 .. Len(p)
    BY <1>1, <1>3
  <2> QED
    BY <1>3, <2>1
<1>5. Begins(s, t)
  BY <1>1, <1>2 DEF Begins
<1>6. t # s
  BY <1>1, <1>3
<1> QED
  BY <1>1, <1>2, <1>3, <1>4, <1>5, <1>6 DEF p, s, t

\* No two nodes have the same name.
LEMMA OneName ==
    ASSUME NEW ns, Linked(ns), NEW m \in DOMAIN ns, NEW n \in DOMAIN ns,
           Name(ns, m) = Name(ns, n)
    PROVE  m = n
<1> SUFFICES ASSUME m # n PROVE FALSE
  OBVIOUS
<1>1. Name(ns, m) \in Seq(Nat) /\ Name(ns, n) \in Seq(Nat)
  BY NodeOf DEF Linked
<1>2. Begins(Name(ns, m), Name(ns, n))
  BY <1>1, BeginsTwice
<1>3. PICK k \in DOMAIN ns : IsChild(ns, m, k) /\ Begins(Name(ns, k), Name(ns, n))
  BY <1>2 DEF Linked, WayDown
<1>4. /\ Edge(ns, k) \in Seq(Nat) /\ Len(Edge(ns, k)) > 0
      /\ Len(Name(ns, k)) = Len(Name(ns, m)) + Len(Edge(ns, k))
  BY <1>3, ChildOf
<1>5. Len(Name(ns, k)) <= Len(Name(ns, n))
  BY <1>3 DEF Begins
<1> QED
  BY <1>1, <1>4, <1>5

\* Where the path of a node begins in its name.
PathAt(ns, q) == Len(Name(ns, q)) - Len(Edge(ns, q))

\* The parent of a node, where its path begins.
LEMMA ParentOf ==
    ASSUME NEW ns, Linked(ns), NEW q \in DOMAIN ns \ {Root}
    PROVE  \E r \in DOMAIN ns :
               IsChild(ns, r, q) /\ r # q /\ Len(Name(ns, r)) = PathAt(ns, q)
<1>1. PICK r \in DOMAIN ns : IsChild(ns, r, q)
  BY DEF Linked, AllBelowRoot
<1>2. Name(ns, r) \in Seq(Nat)
  BY NodeOf DEF Linked
<1>3. /\ r # q /\ Edge(ns, q) \in Seq(Nat)
      /\ Len(Name(ns, q)) = Len(Name(ns, r)) + Len(Edge(ns, q))
  BY <1>1, ChildOf
<1> QED
  BY <1>1, <1>2, <1>3 DEF PathAt

\* The path of a node is the end of its name.
LEMMA PathOf ==
    ASSUME NEW ns, Linked(ns), NEW q \in DOMAIN ns \ {Root}
    PROVE  \A j \in 1 .. Len(Edge(ns, q)) : Edge(ns, q)[j] = Name(ns, q)[PathAt(ns, q) + j]
<1>1. PICK r \in DOMAIN ns : IsChild(ns, r, q) /\ Len(Name(ns, r)) = PathAt(ns, q)
  BY ParentOf
<1>2. \A j \in 1 .. Len(Edge(ns, q)) : Edge(ns, q)[j] = Name(ns, q)[Len(Name(ns, r)) + j]
  BY <1>1, ChildOf, SMTT(20)
<1> QED
  BY ONLY <1>1, <1>2

(***************************************************************************)
(* Two nodes below the same parent part at their first character: what     *)
(* agrees with the first character of a path has all of the path.          *)
(***************************************************************************)
LEMMA SameWay ==
    ASSUME NEW ns, Linked(ns), NEW q \in DOMAIN ns \ {Root}, NEW m \in DOMAIN ns,
           Len(Name(ns, m)) > PathAt(ns, q),
           \A j \in 1 .. PathAt(ns, q) + 1 : Name(ns, m)[j] = Name(ns, q)[j]
    PROVE  Begins(Name(ns, q), Name(ns, m))
<1> DEFINE s == PathAt(ns, q)
<1>1. PICK r \in DOMAIN ns : IsChild(ns, r, q) /\ r # q /\ Len(Name(ns, r)) = s
  BY ParentOf
<1>2. /\ Name(ns, r) \in Seq(Nat) /\ Name(ns, m) \in Seq(Nat) /\ Name(ns, q) \in Seq(Nat)
      /\ s \in Nat
  BY <1>1, NodeOf DEF Linked
<1>3. Begins(Name(ns, r), Name(ns, q)) /\ Edge(ns, q)[1] = Name(ns, q)[s + 1]
  BY <1>1, ChildOf
<1>4. Begins(Name(ns, r), Name(ns, m)) /\ r # m
  <2>1. \A j \in 1 .. s : Name(ns, r)[j] = Name(ns, q)[j]
    BY <1>1, <1>3 DEF Begins
  <2>2. \A j \in 1 .. s : Name(ns, m)[j] = Name(ns, q)[j]
    BY <1>2
  <2>3. Len(Name(ns, r)) < Len(Name(ns, m))
    BY <1>1
  <2>4. r # m
    BY <1>1, <1>2, <2>3
  <2> QED
    BY ONLY <1>1, <1>2, <2>1, <2>2, <2>3, <2>4 DEF Begins
<1>5. PICK k \in DOMAIN ns : IsChild(ns, r, k) /\ Begins(Name(ns, k), Name(ns, m))
  BY <1>4 DEF Linked, WayDown
<1>6. /\ Len(Edge(ns, k)) > 0 /\ Edge(ns, k) \in Seq(Nat)
      /\ Len(Name(ns, k)) = s + Len(Edge(ns, k))
      /\ Edge(ns, k)[1] = Name(ns, k)[s + 1]
  BY <1>1, <1>5, ChildOf
<1>7. Name(ns, k)[s + 1] = Name(ns, m)[s + 1] /\ Name(ns, m)[s + 1] = Name(ns, q)[s + 1]
  <2>1. s + 1 \in 1 .. Len(Name(ns, k))
    BY <1>2, <1>6
  <2>2. s + 1 \in 1 .. s + 1
    BY <1>2
  <2> QED
    BY <1>5, <2>1, <2>2 DEF Begins
<1>8. Edge(ns, k)[1] = Edge(ns, q)[1]
  BY <1>3, <1>6, <1>7
<1>9. k = q
  BY <1>1, <1>5, <1>8 DEF IsChild, SiblingsDiffer, Linked
<1> QED
  BY <1>5, <1>9

(***************************************************************************)
(* Splitting (radix.go:43-58), node by node.                               *)
(***************************************************************************)
IsSplit(z, ns, n, i) ==
    LET N == Len(ns) + 1 IN
    /\ z \in Seq(Node) /\ DOMAIN z = 1 .. N /\ Len(z) = N
    /\ \A k \in DOMAIN ns \ {n} : z[k] = ns[k]
    /\ Kids(z, n) = <<N>> /\ Kids(z, N) = Kids(ns, n)
    /\ Edge(z, n) = SubSeq(Edge(ns, n), 1, i)
    /\ Edge(z, N) = SubSeq(Edge(ns, n), i + 1, Len(Edge(ns, n)))
    /\ Name(z, n) = SubSeq(Name(ns, n), 1, PathAt(ns, n) + i)
    /\ Name(z, N) = Name(ns, n)
    /\ z[n].end = FALSE /\ z[N].end = ns[n].end
    /\ z[n].totalSize = ns[n].totalSize /\ z[N].totalSize = ns[n].totalSize
    /\ z[n].keyCount = ns[n].keyCount /\ z[N].keyCount = ns[n].keyCount

\* What the split leaves, field by field.
LEMMA SplitNodes ==
    ASSUME NEW ns, Typed(ns), NEW n \in DOMAIN ns, NEW i \in 0 .. Len(Edge(ns, n)),
           Len(Edge(ns, n)) <= Len(Name(ns, n))
    PROVE  IsSplit(Split(ns, n, i), ns, n, i)
<1> DEFINE N == Len(ns) + 1
           kept == Kept(ns[n], i, N)
           child == [ns[n] EXCEPT !.path = SubSeq(@, i + 1, Len(@))]
           z == Append([ns EXCEPT ![n] = kept], child)
<1>1. /\ ns[n] \in Node /\ Edge(ns, n) \in Seq(Nat) /\ Name(ns, n) \in Seq(Nat)
      /\ ns \in Seq(Node) /\ N \in Nat \ {0} /\ DOMAIN ns = 1 .. Len(ns)
  BY NodeOf DEF Typed
<1>2. Len(Name(ns, n)) - (Len(Edge(ns, n)) - i) = PathAt(ns, n) + i
  BY <1>1 DEF PathAt
<1>3. /\ SubSeq(Edge(ns, n), 1, i) \in Seq(Nat)
      /\ SubSeq(Edge(ns, n), i + 1, Len(Edge(ns, n))) \in Seq(Nat)
      /\ SubSeq(Name(ns, n), 1, PathAt(ns, n) + i) \in Seq(Nat) /\ <<N>> \in Seq(Nat)
  <2>1. i \in Nat /\ i <= Len(Edge(ns, n)) /\ Len(Edge(ns, n)) \in Nat
    BY <1>1
  <2>2. PathAt(ns, n) + i \in 0 .. Len(Name(ns, n))
    BY <1>1, <2>1 DEF PathAt
  <2>3. SubSeq(Edge(ns, n), 1, i) \in Seq(Nat)
    BY ONLY <1>1, <2>1
  <2>4. SubSeq(Edge(ns, n), i + 1, Len(Edge(ns, n))) \in Seq(Nat)
    BY <1>1, <2>1
  <2>5. SubSeq(Name(ns, n), 1, PathAt(ns, n) + i) \in Seq(Nat)
    BY <1>1, <2>2
  <2> QED
    BY <1>1, <2>3, <2>4, <2>5
<1>4. kept = [ns[n] EXCEPT !.path = SubSeq(Edge(ns, n), 1, i),
                           !.fullpath = SubSeq(Name(ns, n), 1, PathAt(ns, n) + i),
                           !.children = <<N>>,
                           !.end = FALSE]
  <2>1. kept = [ns[n] EXCEPT !.path = SubSeq(Edge(ns, n), 1, i),
                             !.fullpath = SubSeq(@, 1, Len(@) - (Len(Edge(ns, n)) - i)),
                             !.children = <<N>>,
                             !.end = FALSE]
    BY Zenon DEF Kept, Edge
  <2>2. ns[n].fullpath = Name(ns, n)
    BY DEF Name
  <2> QED
    BY <1>2, <2>1, <2>2
<1>5. /\ kept \in Node
      /\ kept.path = SubSeq(Edge(ns, n), 1, i) /\ kept.end = FALSE
      /\ kept.children = <<N>> /\ kept.totalSize = ns[n].totalSize
      /\ kept.keyCount = ns[n].keyCount
      /\ kept.fullpath = SubSeq(Name(ns, n), 1, PathAt(ns, n) + i)
  <2> DEFINE p == SubSeq(Edge(ns, n), 1, i)
             f == SubSeq(Name(ns, n), 1, PathAt(ns, n) + i)
             c == <<N>>
             nd == ns[n]
  <2>1. nd \in Node /\ p \in Seq(Nat) /\ f \in Seq(Nat) /\ c \in Seq(Nat)
    BY <1>1, <1>3
  <2>2. kept = [nd EXCEPT !.path = p, !.fullpath = f, !.children = c, !.end = FALSE]
    BY <1>4
  <2> HIDE DEF p, f, c, nd, kept
  <2>3. /\ kept \in Node /\ kept.path = p /\ kept.fullpath = f /\ kept.children = c
        /\ kept.end = FALSE /\ kept.totalSize = nd.totalSize /\ kept.keyCount = nd.keyCount
    BY <2>1, <2>2 DEF Node
  <2> QED
    BY <2>3 DEF p, f, c, nd
<1>6. /\ child \in Node
      /\ child.path = SubSeq(Edge(ns, n), i + 1, Len(Edge(ns, n)))
      /\ child.end = ns[n].end /\ child.children = Kids(ns, n)
      /\ child.totalSize = ns[n].totalSize /\ child.keyCount = ns[n].keyCount
      /\ child.fullpath = Name(ns, n)
  <2> DEFINE p == SubSeq(Edge(ns, n), i + 1, Len(Edge(ns, n)))
             nd == ns[n]
  <2>1. nd \in Node /\ p \in Seq(Nat)
    BY <1>1, <1>3
  <2>2. child = [nd EXCEPT !.path = p]
    BY DEF Edge
  <2> HIDE DEF p, nd, child
  <2>3. /\ child \in Node /\ child.path = p /\ child.fullpath = nd.fullpath
        /\ child.children = nd.children /\ child.end = nd.end
        /\ child.totalSize = nd.totalSize /\ child.keyCount = nd.keyCount
    BY <2>1, <2>2 DEF Node
  <2> QED
    BY <2>3 DEF p, nd, Name, Kids
<1> HIDE DEF kept, child
<1> DEFINE y == [ns EXCEPT ![n] = kept]
<1>9. /\ y \in Seq(Node) /\ Len(y) = Len(ns) /\ DOMAIN y = DOMAIN ns
      /\ y[n] = kept /\ \A k \in DOMAIN ns \ {n} : y[k] = ns[k]
  BY <1>1, <1>5
<1> HIDE DEF y
<1>10. /\ z \in Seq(Node) /\ Len(z) = N /\ DOMAIN z = 1 .. N
       /\ z[N] = child /\ \A k \in DOMAIN ns : z[k] = y[k]
  BY <1>1, <1>6, <1>9 DEF y
<1>11. z = Split(ns, n, i)
  BY Zenon DEF Split, kept, child
<1> HIDE DEF z
<1>12. z[n] = kept /\ \A k \in DOMAIN ns \ {n} : z[k] = ns[k]
  BY <1>9, <1>10
<1> QED
  BY <1>5, <1>6, <1>10, <1>11, <1>12 DEF IsSplit, Name, Edge, Kids, N

\* What a split does to the characters of the names.
SplitCut(z, ns, n, i) ==
    LET N == Len(ns) + 1
        a == PathAt(ns, n)
    IN
    /\ DOMAIN z = DOMAIN ns \cup {N} /\ N \notin DOMAIN ns
    /\ a \in Nat /\ Name(ns, n) \in Seq(Nat) /\ Name(z, n) \in Seq(Nat)
    /\ Len(Name(z, n)) = a + i /\ a + i < Len(Name(ns, n))
    /\ Begins(Name(z, n), Name(ns, n))
    /\ Edge(z, n) \in Seq(Nat) /\ Len(Edge(z, n)) = i
    /\ Edge(z, n)[1] = Edge(ns, n)[1]
    /\ Edge(z, N) \in Seq(Nat) /\ Edge(z, N) # << >>
    /\ \A m \in DOMAIN ns : IsChild(ns, m, n) => Name(z, n) = Name(ns, m) \o Edge(z, n)
    /\ Name(ns, n) = Name(z, n) \o Edge(z, N)

\* Where the names and paths of the split node are cut.
LEMMA SplitLetters ==
    ASSUME NEW ns, Linked(ns), NEW n \in DOMAIN ns \ {Root},
           NEW i \in 1 .. Len(Edge(ns, n)) - 1, NEW z, IsSplit(z, ns, n, i)
    PROVE  SplitCut(z, ns, n, i)
<1> DEFINE N == Len(ns) + 1
           a == PathAt(ns, n)
           p == Edge(ns, n)
           s == Name(ns, n)
<1>1. PICK r \in DOMAIN ns : IsChild(ns, r, n) /\ Len(Name(ns, r)) = a
  BY ParentOf
<1>2. /\ DOMAIN ns = 1 .. Len(ns) /\ DOMAIN z = DOMAIN ns \cup {N} /\ N \notin DOMAIN ns
  <2>1. ns \in Seq(Node)
    BY DEF Linked, Typed
  <2>2. DOMAIN z = 1 .. N
    BY DEF IsSplit
  <2>3. Len(ns) \in Nat /\ DOMAIN ns = 1 .. Len(ns)
    BY <2>1
  <2> QED
    BY <2>2, <2>3
<1>3. /\ p \in Seq(Nat) /\ s \in Seq(Nat) /\ Name(ns, r) \in Seq(Nat)
      /\ s = Name(ns, r) \o p
  BY <1>1, NodeOf DEF Linked, ChildrenContinue
<1>4. /\ Edge(z, n) = SubSeq(p, 1, i) /\ Edge(z, N) = SubSeq(p, i + 1, Len(p))
      /\ Name(z, n) = SubSeq(s, 1, a + i)
  BY DEF IsSplit
<1>5. i \in Nat /\ i > 0 /\ i < Len(p) /\ i \in 0 .. Len(p) /\ a \in Nat
  BY <1>1, <1>3
<1> HIDE DEF p, s, a, N
<1>6. /\ Edge(z, n) \in Seq(Nat) /\ Len(Edge(z, n)) = i /\ Edge(z, N) \in Seq(Nat)
      /\ Len(Edge(z, N)) = Len(p) - i /\ \A j \in 1 .. i : Edge(z, n)[j] = p[j]
  <2>1. /\ SubSeq(p, 1, i) \in Seq(Nat) /\ Len(SubSeq(p, 1, i)) = i
        /\ SubSeq(p, i + 1, Len(p)) \in Seq(Nat)
        /\ Len(SubSeq(p, i + 1, Len(p))) = Len(p) - i
        /\ \A j \in 1 .. i : SubSeq(p, 1, i)[j] = p[j]
    BY <1>3, <1>5, Cut
  <2> QED
    BY <1>4, <2>1
<1>7. Name(z, n) = Name(ns, r) \o Edge(z, n) /\ s = Name(z, n) \o Edge(z, N)
  <2> DEFINE u == Name(ns, r)
  <2>1. u \in Seq(Nat) /\ Len(u) = a /\ s = u \o p
    BY <1>1, <1>3
  <2> HIDE DEF u
  <2>2. /\ SubSeq(u \o p, 1, Len(u) + i) = u \o SubSeq(p, 1, i)
        /\ u \o p = SubSeq(u \o p, 1, Len(u) + i) \o SubSeq(p, i + 1, Len(p))
    BY <1>3, <1>5, <2>1, CutEnd
  <2> QED
    BY <1>4, <2>1, <2>2 DEF u
<1>8. Edge(z, n)[1] = p[1] /\ Edge(z, N) # << >>
  <2>1. 1 \in 1 .. i /\ Len(Edge(z, N)) > 0
    BY <1>3, <1>5, <1>6
  <2> QED
    BY <1>6, <2>1
<1>9. /\ Name(z, n) \in Seq(Nat) /\ Len(Name(z, n)) = a + i
      /\ Len(s) = a + i + Len(Edge(z, N)) /\ Len(Edge(z, N)) > 0
      /\ \A j \in 1 .. Len(Name(z, n)) : s[j] = Name(z, n)[j]
  <2>1. Name(z, n) \in Seq(Nat) /\ Len(Name(z, n)) = a + i
    BY <1>1, <1>3, <1>6, <1>7, ConcatProperties
  <2>2. /\ Len(s) = Len(Name(z, n)) + Len(Edge(z, N))
        /\ \A j \in 1 .. Len(Name(z, n)) : s[j] = Name(z, n)[j]
    BY <1>6, <1>7, <2>1, ConcatProperties
  <2>3. Len(Edge(z, N)) > 0
    BY <1>3, <1>5, <1>6
  <2> QED
    BY <2>1, <2>2, <2>3
<1>10. Begins(Name(z, n), s) /\ a + i < Len(s)
  <2>1. Len(Edge(z, N)) \in Nat
    BY <1>6
  <2> QED
    BY <1>5, <1>9, <2>1 DEF Begins
<1>11. ASSUME NEW m \in DOMAIN ns, IsChild(ns, m, n)
       PROVE  Name(z, n) = Name(ns, m) \o Edge(z, n)
  <2>1. /\ Name(ns, m) \in Seq(Nat) /\ s = Name(ns, m) \o p
    BY <1>11, NodeOf DEF Linked, ChildrenContinue, p, s
  <2>2. Len(Name(ns, m)) = a
    <3>1. Len(s) = Len(Name(ns, m)) + Len(p)
      BY <1>3, <2>1, ConcatProperties
    <3>2. Len(s) = Len(Name(ns, r)) + Len(p)
      BY <1>3, ConcatProperties
    <3>3. Len(Name(ns, m)) \in Nat /\ Len(Name(ns, r)) \in Nat /\ Len(p) \in Nat
      BY <1>3, <2>1
    <3> QED
      BY ONLY <1>1, <3>1, <3>2, <3>3
  <2> DEFINE u == Name(ns, m)
  <2>3. u \in Seq(Nat) /\ Len(u) = a /\ s = u \o p
    BY <2>1, <2>2
  <2> HIDE DEF u
  <2>4. SubSeq(u \o p, 1, Len(u) + i) = u \o SubSeq(p, 1, i)
    BY <1>3, <1>5, <2>3, CutEnd
  <2> QED
    BY <1>4, <2>3, <2>4 DEF u
<1> QED
  BY <1>2, <1>3, <1>5, <1>6, <1>7, <1>8, <1>9, <1>10, <1>11 DEF p, s, a, N, SplitCut

\* Nothing in the tree leaves the path of a node half way.
LEMMA NoneHalfWay ==
    ASSUME NEW ns, Linked(ns), NEW n \in DOMAIN ns \ {Root}, NEW m \in DOMAIN ns,
           NEW s \in Seq(Nat), Len(s) > PathAt(ns, n), Begins(s, Name(ns, n)),
           Begins(s, Name(ns, m))
    PROVE  Begins(Name(ns, n), Name(ns, m))
<1>1. Name(ns, n) \in Seq(Nat) /\ Name(ns, m) \in Seq(Nat) /\ Edge(ns, n) \in Seq(Nat)
  BY NodeOf DEF Linked
<1>2. PathAt(ns, n) \in Int
  BY <1>1 DEF PathAt
<1>3. /\ Len(s) <= Len(Name(ns, m))
      /\ \A j \in 1 .. Len(s) : Name(ns, m)[j] = Name(ns, n)[j]
  BY DEF Begins
<1>4. Len(Name(ns, m)) > PathAt(ns, n)
  BY <1>1, <1>2, <1>3
<1>5. \A j \in 1 .. PathAt(ns, n) + 1 : j \in 1 .. Len(s)
  BY <1>2
<1> QED
  BY <1>3, <1>4, <1>5, SameWay

\* Who is whose child after the split.
LEMMA SplitChildren ==
    ASSUME NEW ns, Linked(ns), NEW n \in DOMAIN ns \ {Root},
           NEW i \in 1 .. Len(Edge(ns, n)) - 1, NEW z, IsSplit(z, ns, n, i)
    PROVE  LET N == Len(ns) + 1 IN
           /\ \A k \in DOMAIN ns \ {n} : /\ Name(z, k) = Name(ns, k)
                                         /\ Edge(z, k) = Edge(ns, k)
                                         /\ Kids(z, k) = Kids(ns, k)
           /\ \A m \in DOMAIN ns \ {n}, k \in DOMAIN z : IsChild(z, m, k) <=> IsChild(ns, m, k)
           /\ \A k \in DOMAIN z : IsChild(z, N, k) <=> IsChild(ns, n, k)
           /\ \A k \in DOMAIN z : IsChild(z, n, k) <=> k = N
           /\ \A m \in DOMAIN ns, k \in DOMAIN z : IsChild(ns, m, k) => k \in DOMAIN ns \ {Root}
<1> DEFINE N == Len(ns) + 1
<1>1. \A k \in DOMAIN ns \ {n} : /\ Name(z, k) = Name(ns, k)
                                 /\ Edge(z, k) = Edge(ns, k)
                                 /\ Kids(z, k) = Kids(ns, k)
  BY DEF IsSplit, Name, Edge, Kids
<1>2. Kids(z, N) = Kids(ns, n) /\ Kids(z, n) = <<N>>
  BY DEF IsSplit
<1> HIDE DEF N
<1>3. \A m \in DOMAIN ns \ {n}, k \in DOMAIN z : IsChild(z, m, k) <=> IsChild(ns, m, k)
  BY <1>1 DEF IsChild
<1>4. \A k \in DOMAIN z : IsChild(z, N, k) <=> IsChild(ns, n, k)
  BY <1>2 DEF IsChild
<1>5. \A k \in DOMAIN z : IsChild(z, n, k) <=> k = N
  BY <1>2 DEF IsChild
<1>6. \A m \in DOMAIN ns, k \in DOMAIN z : IsChild(ns, m, k) => k \in DOMAIN ns \ {Root}
  BY DEF IsChild, Linked, ChildrenAreNodes
<1> QED
  BY <1>1, <1>3, <1>4, <1>5, <1>6 DEF N

\* A split keeps the links.
LEMMA SplitLinked ==
    ASSUME NEW ns, Linked(ns), NEW n \in DOMAIN ns \ {Root},
           NEW i \in 1 .. Len(Edge(ns, n)) - 1, NEW z, IsSplit(z, ns, n, i)
    PROVE  Linked(z)
<1> DEFINE N == Len(ns) + 1
           a == PathAt(ns, n)
<1>1. /\ DOMAIN z = DOMAIN ns \cup {N} /\ N \notin DOMAIN ns /\ n \in DOMAIN ns
      /\ a \in Nat /\ Name(ns, n) \in Seq(Nat) /\ Name(z, n) \in Seq(Nat)
      /\ Len(Name(z, n)) = a + i /\ a + i < Len(Name(ns, n))
      /\ Begins(Name(z, n), Name(ns, n))
      /\ Edge(z, n) \in Seq(Nat) /\ Len(Edge(z, n)) = i
      /\ Edge(z, n)[1] = Edge(ns, n)[1]
      /\ Edge(z, N) # << >>
      /\ \A m \in DOMAIN ns : IsChild(ns, m, n) => Name(z, n) = Name(ns, m) \o Edge(z, n)
      /\ Name(ns, n) = Name(z, n) \o Edge(z, N)
  <2>1. n \in DOMAIN ns
    OBVIOUS
  <2> QED
    <3>1. SplitCut(z, ns, n, i)
      BY SplitLetters
    <3> QED
      BY <2>1, <3>1, Zenon DEF SplitCut
<1>2. /\ \A k \in DOMAIN ns \ {n} : /\ Name(z, k) = Name(ns, k)
                                    /\ Edge(z, k) = Edge(ns, k)
                                    /\ Kids(z, k) = Kids(ns, k)
      /\ \A m \in DOMAIN ns \ {n}, k \in DOMAIN z : IsChild(z, m, k) <=> IsChild(ns, m, k)
      /\ \A k \in DOMAIN z : IsChild(z, N, k) <=> IsChild(ns, n, k)
      /\ \A k \in DOMAIN z : IsChild(z, n, k) <=> k = N
      /\ \A m \in DOMAIN ns, k \in DOMAIN z : IsChild(ns, m, k) => k \in DOMAIN ns \ {Root}
  BY SplitChildren
<1>3. /\ Kids(z, N) = Kids(ns, n) /\ Kids(z, n) = <<N>> /\ Name(z, N) = Name(ns, n)
      /\ Root \in DOMAIN ns /\ z \in Seq(Node)
  BY DEF IsSplit, Linked, Typed
<1>4. i \in Nat /\ i > 0
  OBVIOUS
<1> HIDE DEF N, a
<1>5. Typed(z) /\ RootEmpty(z)
  BY <1>1, <1>2, <1>3 DEF Linked, Typed, RootEmpty
<1>6. ChildrenAreNodes(z)
  <2>1. ASSUME NEW m \in DOMAIN z, NEW c \in DOMAIN Kids(z, m)
        PROVE  Kids(z, m)[c] \in DOMAIN z \ {Root}
    <3>1. CASE m \in DOMAIN ns \ {n}
      BY <1>1, <1>2, <3>1 DEF Linked, ChildrenAreNodes
    <3>2. CASE m = N
      BY <1>1, <1>3, <3>2 DEF Linked, ChildrenAreNodes
    <3>3. CASE m = n
      BY <1>1, <1>3, <3>3
    <3> QED
      BY <1>1, <3>1, <3>2, <3>3
  <2> QED
    BY <2>1 DEF ChildrenAreNodes
<1>7. ChildrenContinue(z)
  <2>1. ASSUME NEW m \in DOMAIN z, NEW k \in DOMAIN z, IsChild(z, m, k)
        PROVE  Edge(z, k) # << >> /\ Name(z, k) = Name(z, m) \o Edge(z, k)
    <3>1. CASE m = n
      BY <1>1, <1>2, <1>3, <2>1, <3>1
    <3>2. CASE m = N
      <4>1. IsChild(ns, n, k) /\ k \in DOMAIN ns
        BY <1>1, <1>2, <2>1, <3>2
      <4>2. k # n
        BY <1>1, <4>1, ChildOf
      <4> QED
        <5>1. Edge(ns, k) # << >> /\ Name(ns, k) = Name(ns, n) \o Edge(ns, k)
          BY <1>1, <4>1 DEF Linked, ChildrenContinue
        <5> QED
          BY <1>2, <1>3, <3>2, <4>1, <4>2, <5>1
    <3>3. CASE m \in DOMAIN ns \ {n}
      <4>1. IsChild(ns, m, k) /\ k \in DOMAIN ns
        BY <1>1, <1>2, <2>1, <3>3
      <4>2. CASE k = n
        <5>1. Edge(z, n) # << >>
          BY <1>1, <1>4
        <5> QED
          BY <1>1, <1>2, <3>3, <4>1, <4>2, <5>1
      <4>3. CASE k # n
        BY <1>2, <3>3, <4>1, <4>3 DEF Linked, ChildrenContinue
      <4> QED
        BY <4>2, <4>3
    <3> QED
      BY <1>1, <3>1, <3>2, <3>3
  <2> QED
    BY <2>1 DEF ChildrenContinue
<1>8. SiblingsDiffer(z)
  <2>1. \A k \in DOMAIN ns : Edge(z, k)[1] = Edge(ns, k)[1]
    BY <1>1, <1>2
  <2>2. ASSUME NEW m \in DOMAIN z, NEW c \in DOMAIN Kids(z, m), NEW d \in DOMAIN Kids(z, m),
               Edge(z, Kids(z, m)[c])[1] = Edge(z, Kids(z, m)[d])[1]
        PROVE  c = d
    <3>1. CASE m = n
      BY <1>3, <3>1
    <3>2. ASSUME NEW r \in DOMAIN ns, Kids(z, m) = Kids(ns, r) PROVE c = d
      <4>1. Kids(z, m)[c] \in DOMAIN ns /\ Kids(z, m)[d] \in DOMAIN ns
        BY <3>2 DEF Linked, ChildrenAreNodes
      <4> QED
        BY <2>1, <2>2, <3>2, <4>1 DEF Linked, SiblingsDiffer
    <3> QED
      BY <1>1, <1>2, <1>3, <3>1, <3>2
  <2> QED
    BY <2>2 DEF SiblingsDiffer
<1>9. AllBelowRoot(z)
  <2>1. ASSUME NEW k \in DOMAIN z \ {Root} PROVE \E m \in DOMAIN z : IsChild(z, m, k)
    <3>1. CASE k = N
      BY <1>1, <1>2, <3>1
    <3>2. CASE k # N
      <4>1. PICK m \in DOMAIN ns : IsChild(ns, m, k)
        BY <1>1, <3>2 DEF Linked, AllBelowRoot
      <4> QED
        BY <1>1, <1>2, <4>1, SMTT(60)
    <3> QED
      BY <3>1, <3>2
  <2> QED
    BY <2>1 DEF AllBelowRoot
<1>10. \A k \in DOMAIN ns : Name(ns, k) \in Seq(Nat) /\ Name(z, k) \in Seq(Nat)
  BY <1>1, <1>2, NodeOf DEF Linked
<1>11. \A k \in DOMAIN ns : Begins(Name(z, k), Name(ns, k))
  BY <1>1, <1>2, <1>10, BeginsTwice
<1>12. ASSUME NEW m \in DOMAIN ns, Begins(Name(z, n), Name(ns, m))
       PROVE  Begins(Name(ns, n), Name(ns, m))
  <2>1. Len(Name(z, n)) > PathAt(ns, n)
    BY <1>1, <1>4 DEF a
  <2> QED
    BY <1>1, <1>12, <2>1, NoneHalfWay
<1>13. WayDown(z)
  <2>1. ASSUME NEW m \in DOMAIN z, NEW b \in DOMAIN z, m # b, Begins(Name(z, m), Name(z, b))
        PROVE  \E k \in DOMAIN z : IsChild(z, m, k) /\ Begins(Name(z, k), Name(z, b))
    <3>1. CASE m = n
      <4>1. CASE b = N
        BY <1>1, <1>2, <1>3, <1>10, <3>1, <4>1, BeginsTwice
      <4>2. CASE b # N
        <5>1. b \in DOMAIN ns \ {n} /\ Name(z, b) = Name(ns, b)
          BY <1>1, <1>2, <2>1, <3>1, <4>2
        <5>2. Begins(Name(ns, n), Name(ns, b))
          BY <1>12, <2>1, <3>1, <5>1
        <5> QED
          BY <1>1, <1>2, <1>3, <3>1, <5>1, <5>2
      <4> QED
        BY <4>1, <4>2
    <3>2. CASE m = N
      <4>1. b \in DOMAIN ns
        BY <1>1, <2>1, <3>2
      <4>2. b # n
        BY <1>1, <1>3, <2>1, <3>2 DEF Begins
      <4>3. Name(z, b) = Name(ns, b)
        BY <1>2, <4>1, <4>2
      <4>4. PICK k \in DOMAIN ns : IsChild(ns, n, k) /\ Begins(Name(ns, k), Name(ns, b))
        BY <1>1, <1>3, <2>1, <3>2, <4>1, <4>2, <4>3 DEF Linked, WayDown
      <4>5. k # n
        BY <1>1, <4>4, ChildOf
      <4> QED
        BY <1>1, <1>2, <3>2, <4>3, <4>4, <4>5
    <3>3. CASE m \in DOMAIN ns \ {n}
      <4>1. Name(z, m) = Name(ns, m)
        BY <1>2, <3>3
      <4>2. CASE b = N
        <5>1. PICK k \in DOMAIN ns : IsChild(ns, m, k) /\ Begins(Name(ns, k), Name(ns, n))
          BY <1>1, <1>3, <2>1, <3>3, <4>1, <4>2 DEF Linked, WayDown
        <5>2. Begins(Name(z, k), Name(ns, n))
          BY <1>1, <1>10, <1>11, <5>1, BeginsTwice
        <5> QED
          BY <1>1, <1>2, <1>3, <3>3, <4>2, <5>1, <5>2
      <4>3. CASE b \in DOMAIN ns \ {n}
        <5>1. PICK k \in DOMAIN ns : IsChild(ns, m, k) /\ Begins(Name(ns, k), Name(ns, b))
          BY <1>2, <2>1, <3>3, <4>1, <4>3 DEF Linked, WayDown
        <5>2. Begins(Name(z, k), Name(ns, b))
          BY <1>10, <1>11, <4>3, <5>1, BeginsTwice
        <5> QED
          BY <1>1, <1>2, <3>3, <4>3, <5>1, <5>2
      <4>4. CASE b = n
        <5>1. Begins(Name(ns, m), Name(ns, n))
          BY <1>1, <1>10, <2>1, <3>3, <4>1, <4>4, BeginsTwice
        <5>2. PICK k \in DOMAIN ns : IsChild(ns, m, k) /\ Begins(Name(ns, k), Name(ns, n))
          BY <1>1, <3>3, <5>1 DEF Linked, WayDown
        <5>3. IsChild(z, m, k) /\ k \in DOMAIN z
          BY <1>1, <1>2, <3>3, <5>2
        <5>4. Begins(Name(z, k), Name(z, n))
          <6>1. CASE k = n
            BY <1>1, <6>1, BeginsTwice
          <6>2. CASE k # n /\ Len(Name(ns, k)) <= Len(Name(z, n))
            BY <1>1, <1>2, <1>10, <5>2, <6>2, BeginsTwice
          <6>3. CASE k # n /\ Len(Name(z, n)) <= Len(Name(ns, k))
            <7>1. Begins(Name(z, n), Name(ns, k))
              BY <1>1, <1>10, <5>2, <6>3, BeginsTwice
            <7>2. Begins(Name(ns, n), Name(ns, k))
              BY <1>12, <7>1
            <7>3. Name(ns, k) = Name(ns, n)
              BY <1>1, <1>10, <5>2, <7>2, BeginsTwice DEF Begins
            <7> QED
              BY <1>1, <6>3, <7>3, OneName
          <6>4. Len(Name(ns, k)) \in Nat /\ Len(Name(z, n)) \in Nat
            BY <1>1, <1>10
          <6> QED
            BY <6>1, <6>2, <6>3, <6>4
        <5> QED
          BY <4>4, <5>3, <5>4
      <4> QED
        BY <1>1, <4>2, <4>3, <4>4
    <3> QED
      BY <1>1, <3>1, <3>2, <3>3
  <2> QED
    BY <2>1 DEF WayDown
<1> QED
  BY <1>5, <1>6, <1>7, <1>8, <1>9, <1>13 DEF Linked

SameShape(z, ns) ==
    /\ z \in Seq(Node) /\ DOMAIN z = DOMAIN ns
    /\ \A k \in DOMAIN ns : /\ Name(z, k) = Name(ns, k)
                            /\ Edge(z, k) = Edge(ns, k)
                            /\ Kids(z, k) = Kids(ns, k)

\* The counts and the end marks do not matter to the links.
LEMMA SameShapeLinked ==
    ASSUME NEW ns, Linked(ns), NEW z, SameShape(z, ns)
    PROVE  Linked(z)
<1>1. /\ z \in Seq(Node) /\ DOMAIN z = DOMAIN ns /\ Root \in DOMAIN ns
      /\ \A k \in DOMAIN ns : /\ Name(z, k) = Name(ns, k)
                              /\ Edge(z, k) = Edge(ns, k)
                              /\ Kids(z, k) = Kids(ns, k)
  BY DEF SameShape, Linked, Typed
<1>2. \A m \in DOMAIN ns, k \in DOMAIN ns : IsChild(z, m, k) <=> IsChild(ns, m, k)
  BY <1>1 DEF IsChild
<1>3. Typed(z) /\ RootEmpty(z)
  BY <1>1 DEF Linked, Typed, RootEmpty
<1>4. ChildrenAreNodes(z)
  BY <1>1 DEF Linked, ChildrenAreNodes
<1>5. ChildrenContinue(z)
  BY <1>1, <1>2 DEF Linked, ChildrenContinue
<1>6. SiblingsDiffer(z)
  BY <1>1 DEF Linked, SiblingsDiffer, ChildrenAreNodes
<1>7. AllBelowRoot(z)
  BY <1>1, <1>2 DEF Linked, AllBelowRoot
<1>8. WayDown(z)
  BY <1>1, <1>2 DEF Linked, WayDown
<1> QED
  BY <1>3, <1>4, <1>5, <1>6, <1>7, <1>8 DEF Linked

(***************************************************************************)
(* A new leaf (radix.go:80-88): below q, with path p and name w.           *)
(***************************************************************************)
IsGrown(z, ns, q, p, w) ==
    LET N == Len(ns) + 1 IN
    /\ z \in Seq(Node) /\ DOMAIN z = DOMAIN ns \cup {N} /\ N \notin DOMAIN ns
    /\ \A k \in DOMAIN ns : Name(z, k) = Name(ns, k) /\ Edge(z, k) = Edge(ns, k)
    /\ \A k \in DOMAIN ns \ {q} : Kids(z, k) = Kids(ns, k)
    /\ Kids(z, q) = Append(Kids(ns, q), N) /\ Kids(z, N) = << >>
    /\ Edge(z, N) = p /\ Name(z, N) = w

NoContinuation(ns, q, p) == \A k \in DOMAIN ns : IsChild(ns, q, k) => Edge(ns, k)[1] # p[1]

\* Where no child goes on as p does, no node further down does.
LEMMA NoneBeyond ==
    ASSUME NEW ns, Linked(ns), NEW q \in DOMAIN ns, NEW p, NoContinuation(ns, q, p),
           NEW m \in DOMAIN ns, Begins(Name(ns, q), Name(ns, m)), m # q
    PROVE  /\ Len(Name(ns, m)) > Len(Name(ns, q))
           /\ Name(ns, m)[Len(Name(ns, q)) + 1] # p[1]
<1>1. PICK k \in DOMAIN ns : IsChild(ns, q, k) /\ Begins(Name(ns, k), Name(ns, m))
  BY DEF Linked, WayDown
<1>2. /\ Edge(ns, k) \in Seq(Nat) /\ Len(Edge(ns, k)) > 0
      /\ Len(Name(ns, k)) = Len(Name(ns, q)) + Len(Edge(ns, k))
      /\ Edge(ns, k)[1] = Name(ns, k)[Len(Name(ns, q)) + 1]
  BY <1>1, ChildOf
<1>3. Edge(ns, k)[1] # p[1]
  BY <1>1 DEF NoContinuation
<1>4. Name(ns, q) \in Seq(Nat) /\ Name(ns, k) \in Seq(Nat) /\ Name(ns, m) \in Seq(Nat)
  BY NodeOf DEF Linked
<1>5. Len(Name(ns, q)) + 1 \in 1 .. Len(Name(ns, k))
  BY <1>2, <1>4
<1>6. /\ Len(Name(ns, k)) <= Len(Name(ns, m))
      /\ Name(ns, k)[Len(Name(ns, q)) + 1] = Name(ns, m)[Len(Name(ns, q)) + 1]
  BY <1>1, <1>5 DEF Begins
<1> QED
  BY <1>2, <1>3, <1>4, <1>6

\* A new leaf keeps the links.
LEMMA GrownLinked ==
    ASSUME NEW ns, Linked(ns), NEW q \in DOMAIN ns, NEW p \in Seq(Nat), p # << >>,
           NEW w \in Seq(Nat), w = Name(ns, q) \o p, NoContinuation(ns, q, p),
           NEW z, IsGrown(z, ns, q, p, w)
    PROVE  Linked(z)
<1> DEFINE N == Len(ns) + 1
<1>1. /\ z \in Seq(Node) /\ DOMAIN z = DOMAIN ns \cup {N} /\ N \notin DOMAIN ns
      /\ \A k \in DOMAIN ns : Name(z, k) = Name(ns, k) /\ Edge(z, k) = Edge(ns, k)
      /\ \A k \in DOMAIN ns \ {q} : Kids(z, k) = Kids(ns, k)
      /\ Kids(z, q) = Append(Kids(ns, q), N) /\ Kids(z, N) = << >>
      /\ Edge(z, N) = p /\ Name(z, N) = w
  BY DEF IsGrown
<1>2. Root \in DOMAIN ns /\ Kids(ns, q) \in Seq(Nat) /\ Name(ns, q) \in Seq(Nat)
  BY NodeOf DEF Linked, Typed
<1>3. N # Root
  BY <1>1, <1>2
<1> HIDE DEF N
<1>4. /\ DOMAIN Kids(z, q) = DOMAIN Kids(ns, q) \cup {Len(Kids(ns, q)) + 1}
      /\ \A c \in DOMAIN Kids(ns, q) : Kids(z, q)[c] = Kids(ns, q)[c]
      /\ Kids(z, q)[Len(Kids(ns, q)) + 1] = N
  BY <1>1, <1>2
<1>5. /\ \A m, k \in DOMAIN ns : IsChild(z, m, k) <=> IsChild(ns, m, k)
      /\ IsChild(z, q, N) /\ \A m \in DOMAIN ns \ {q} : ~IsChild(z, m, N)
      /\ \A k \in DOMAIN z : ~IsChild(z, N, k)
  <2>1. \A m \in DOMAIN ns \ {q}, k \in DOMAIN z : IsChild(z, m, k) <=> IsChild(ns, m, k)
    BY <1>1 DEF IsChild
  <2>2. \A k \in DOMAIN ns : IsChild(z, q, k) <=> IsChild(ns, q, k)
    BY <1>1, <1>4 DEF IsChild
  <2>3. IsChild(z, q, N)
    BY <1>4 DEF IsChild
  <2>4. \A m \in DOMAIN ns : ~IsChild(ns, m, N)
    BY <1>1 DEF IsChild, Linked, ChildrenAreNodes
  <2>5. \A k \in DOMAIN z : ~IsChild(z, N, k)
    BY <1>1 DEF IsChild
  <2>6. \A m, k \in DOMAIN ns : IsChild(z, m, k) <=> IsChild(ns, m, k)
    BY <1>1, <2>1, <2>2
  <2>7. \A m \in DOMAIN ns \ {q} : ~IsChild(z, m, N)
    BY <1>1, <2>1, <2>4
  <2> QED
    BY <2>3, <2>5, <2>6, <2>7
<1>6. Typed(z) /\ RootEmpty(z)
  BY <1>1, <1>2, <1>3 DEF Linked, Typed, RootEmpty
<1>7. ChildrenAreNodes(z)
  <2>1. ASSUME NEW m \in DOMAIN z, NEW c \in DOMAIN Kids(z, m)
        PROVE  Kids(z, m)[c] \in DOMAIN z \ {Root}
    <3>1. CASE m = q
      BY <1>1, <1>3, <1>4, <3>1 DEF Linked, ChildrenAreNodes
    <3>2. CASE m = N
      BY <1>1, <3>2
    <3>3. CASE m \in DOMAIN ns \ {q}
      BY <1>1, <3>3 DEF Linked, ChildrenAreNodes
    <3> QED
      BY <1>1, <3>1, <3>2, <3>3
  <2> QED
    BY <2>1 DEF ChildrenAreNodes
<1>8. ChildrenContinue(z)
  <2>1. ASSUME NEW m \in DOMAIN z, NEW k \in DOMAIN z, IsChild(z, m, k)
        PROVE  Edge(z, k) # << >> /\ Name(z, k) = Name(z, m) \o Edge(z, k)
    <3>1. CASE k = N
      BY <1>1, <1>5, <2>1, <3>1
    <3>2. CASE k # N
      <4>1. m \in DOMAIN ns /\ k \in DOMAIN ns /\ IsChild(ns, m, k)
        BY <1>1, <1>5, <2>1, <3>2
      <4>2. Edge(ns, k) # << >> /\ Name(ns, k) = Name(ns, m) \o Edge(ns, k)
        BY <4>1 DEF Linked, ChildrenContinue
      <4> QED
        BY <1>1, <4>1, <4>2
    <3> QED
      BY <3>1, <3>2
  <2> QED
    BY <2>1 DEF ChildrenContinue
<1>9. SiblingsDiffer(z)
  <2>1. \A m \in DOMAIN ns : \A c \in DOMAIN Kids(ns, m) : Kids(ns, m)[c] \in DOMAIN ns
    BY DEF Linked, ChildrenAreNodes
  <2>2. \A c \in DOMAIN Kids(ns, q) : Edge(z, Kids(z, q)[c])[1] # p[1]
    BY <1>1, <1>4, <2>1 DEF NoContinuation, IsChild
  <2>3. Edge(z, Kids(z, q)[Len(Kids(ns, q)) + 1])[1] = p[1]
    BY <1>1, <1>4
  <2>4. ASSUME NEW m \in DOMAIN z, NEW c \in DOMAIN Kids(z, m), NEW d \in DOMAIN Kids(z, m),
               Edge(z, Kids(z, m)[c])[1] = Edge(z, Kids(z, m)[d])[1]
        PROVE  c = d
    <3>1. CASE m = N
      BY <1>1, <3>1
    <3>2. CASE m \in DOMAIN ns \ {q}
      <4>1. Kids(z, m) = Kids(ns, m)
        BY <1>1, <3>2
      <4>2. Edge(ns, Kids(ns, m)[c])[1] = Edge(ns, Kids(ns, m)[d])[1]
        BY <1>1, <2>1, <2>4, <3>2, <4>1
      <4> QED
        BY <3>2, <4>1, <4>2 DEF Linked, SiblingsDiffer
    <3>3. CASE m = q /\ c \in DOMAIN Kids(ns, q) /\ d \in DOMAIN Kids(ns, q)
      <4>1. Edge(ns, Kids(ns, q)[c])[1] = Edge(ns, Kids(ns, q)[d])[1]
        BY <1>1, <1>4, <2>1, <2>4, <3>3
      <4> QED
        BY <3>3, <4>1 DEF Linked, SiblingsDiffer
    <3>4. CASE m = q
      <4> DEFINE e == Len(Kids(ns, q)) + 1
      <4>1. c \in DOMAIN Kids(ns, q) \cup {e} /\ d \in DOMAIN Kids(ns, q) \cup {e}
        BY <1>4, <3>4
      <4>2. c \in DOMAIN Kids(ns, q) => d # e
        BY <2>2, <2>3, <2>4, <3>4
      <4>3. d \in DOMAIN Kids(ns, q) => c # e
        BY <2>2, <2>3, <2>4, <3>4
      <4> HIDE DEF e
      <4> QED
        BY <3>3, <3>4, <4>1, <4>2, <4>3
    <3> QED
      BY <1>1, <3>1, <3>2, <3>4
  <2> QED
    BY <2>4 DEF SiblingsDiffer
<1>10. AllBelowRoot(z)
  <2>1. ASSUME NEW k \in DOMAIN z \ {Root} PROVE \E m \in DOMAIN z : IsChild(z, m, k)
    <3>1. CASE k = N
      BY <1>1, <1>5, <3>1
    <3>2. CASE k # N
      BY <1>1, <1>5, <3>2 DEF Linked, AllBelowRoot
    <3> QED
      BY <3>1, <3>2
  <2> QED
    BY <2>1 DEF AllBelowRoot
<1>11. \A k \in DOMAIN ns : Name(ns, k) \in Seq(Nat)
  BY NodeOf DEF Linked
<1>12. /\ Begins(Name(ns, q), w) /\ Len(w) > Len(Name(ns, q))
       /\ w[Len(Name(ns, q)) + 1] = p[1]
  <2>1. /\ Len(w) = Len(Name(ns, q)) + Len(p)
        /\ \A j \in 1 .. Len(Name(ns, q)) : w[j] = Name(ns, q)[j]
    BY <1>2
  <2>2. Len(p) > 0
    OBVIOUS
  <2>3. w[Len(Name(ns, q)) + 1] = p[1]
    BY <1>2, <2>2
  <2> QED
    BY <1>2, <2>1, <2>2, <2>3 DEF Begins
<1>13. WayDown(z)
  <2>1. ASSUME NEW m \in DOMAIN z, NEW b \in DOMAIN z, m # b, Begins(Name(z, m), Name(z, b))
        PROVE  \E k \in DOMAIN z : IsChild(z, m, k) /\ Begins(Name(z, k), Name(z, b))
    <3>1. CASE m \in DOMAIN ns /\ b \in DOMAIN ns
      BY <1>1, <1>5, <2>1, <3>1 DEF Linked, WayDown
    <3>2. CASE m = q /\ b = N
      BY <1>1, <1>5, <3>2, BeginsTwice, ZenonT(60)
    <3>3. CASE m \in DOMAIN ns \ {q} /\ b = N
      <4>1. Begins(Name(ns, m), w)
        BY <1>1, <2>1, <3>3
      <4>2. CASE Len(Name(ns, m)) <= Len(Name(ns, q))
        <5>1. Begins(Name(ns, m), Name(ns, q))
          BY <1>2, <1>11, <1>12, <3>3, <4>1, <4>2, BeginsTwice
        <5>2. PICK k \in DOMAIN ns : IsChild(ns, m, k) /\ Begins(Name(ns, k), Name(ns, q))
          BY <3>3, <5>1 DEF Linked, WayDown
        <5>3. Begins(Name(ns, k), w)
          BY <1>2, <1>11, <1>12, <5>2, BeginsTwice
        <5> QED
          BY <1>1, <1>5, <3>3, <5>2, <5>3, ZenonT(60)
      <4>3. CASE Len(Name(ns, q)) <= Len(Name(ns, m))
        <5>1. Begins(Name(ns, q), Name(ns, m))
          BY <1>2, <1>11, <1>12, <3>3, <4>1, <4>3, BeginsTwice
        <5>2. /\ Len(Name(ns, m)) > Len(Name(ns, q))
              /\ Name(ns, m)[Len(Name(ns, q)) + 1] # p[1]
          BY <3>3, <5>1, NoneBeyond
        <5>3. Len(Name(ns, q)) + 1 \in 1 .. Len(Name(ns, m))
          BY <1>2, <1>11, <3>3, <5>2
        <5>4. Name(ns, m)[Len(Name(ns, q)) + 1] = w[Len(Name(ns, q)) + 1]
          BY <4>1, <5>3 DEF Begins
        <5> QED
          BY <1>12, <5>2, <5>4
      <4>4. Len(Name(ns, m)) \in Nat /\ Len(Name(ns, q)) \in Nat
        BY <1>11, <3>3
      <4> QED
        BY <4>2, <4>3, <4>4
    <3>4. CASE m = N
      <4>1. b \in DOMAIN ns /\ Begins(w, Name(ns, b))
        BY <1>1, <2>1, <3>4
      <4>2. Begins(Name(ns, q), Name(ns, b)) /\ Len(w) <= Len(Name(ns, b))
        BY <1>2, <1>11, <1>12, <4>1, BeginsTwice DEF Begins
      <4>3. b # q
        BY <1>2, <1>12, <4>2
      <4>4. Name(ns, b)[Len(Name(ns, q)) + 1] # p[1]
        BY <4>1, <4>2, <4>3, NoneBeyond
      <4>5. Len(Name(ns, q)) + 1 \in 1 .. Len(w)
        BY <1>2, <1>12
      <4>6. w[Len(Name(ns, q)) + 1] = Name(ns, b)[Len(Name(ns, q)) + 1]
        BY <4>1, <4>5 DEF Begins
      <4> QED
        BY <1>12, <4>4, <4>6
    <3> QED
      BY <1>1, <2>1, <3>1, <3>2, <3>3, <3>4
  <2> QED
    BY <2>1 DEF WayDown
<1> QED
  BY <1>6, <1>7, <1>8, <1>9, <1>10, <1>13 DEF Linked

(***************************************************************************)
(* The inductive invariant of insert.  While a word is on its way down the *)
(* tree already has every word before it, but its own nodes have counted   *)
(* it only as far as it has come.                                          *)
(***************************************************************************)
Placed == {inserted[i].word : i \in {j \in DOMAIN inserted : pc = "walk" => j < Len(inserted)}}

Ended(ns, ws) ==
    /\ \A w \in ws : \E n \in DOMAIN ns : Name(ns, n) = w /\ ns[n].end
    /\ \A n \in DOMAIN ns : ns[n].end => Name(ns, n) \in ws
    /\ \A n \in DOMAIN ns \ {Root} : \E w \in ws : Begins(Name(ns, n), w)

\* A node that is no word is where two words part.
Forked(ns, n) == n = Root \/ ns[n].end \/ Len(Kids(ns, n)) >= 2

\* The objects a node called p has counted, the last one if p is not longer than `passed'.
Tally(ins, p, passed) ==
    {i \in DOMAIN ins : /\ Begins(p, ins[i].word)
                        /\ i = Len(ins) => Len(p) <= passed}

Tallied(ns, ins, passed) ==
    \A n \in DOMAIN ns :
        /\ ns[n].keyCount = Cardinality(Tally(ins, Name(ns, n), passed))
        /\ ns[n].totalSize = Cardinality(BytesOf(ins, Tally(ins, Name(ns, n), passed)))

\* Only the last word may be left out of a tally.
LEMMA TallyOf ==
    ASSUME NEW ins, NEW p, NEW passed
    PROVE  /\ ~(Len(p) <= passed) => Len(ins) \notin Tally(ins, p, passed)
           /\ Len(p) <= passed => (Len(ins) \in Tally(ins, p, passed)
                  <=> Len(ins) \in DOMAIN ins /\ Begins(p, ins[Len(ins)].word))
           /\ \A i \in DOMAIN ins : i # Len(ins) =>
                  (i \in Tally(ins, p, passed) <=> Begins(p, ins[i].word))
<1>1. \A i : i \in Tally(ins, p, passed)
                 <=> /\ i \in DOMAIN ins /\ Begins(p, ins[i].word)
                     /\ i = Len(ins) => Len(p) <= passed
  BY DEF Tally
<1>2. ASSUME NEW i \in DOMAIN ins, i # Len(ins)
      PROVE  i \in Tally(ins, p, passed) <=> Begins(p, ins[i].word)
  BY <1>1, <1>2, Zenon
<1>3. ~(Len(p) <= passed) => Len(ins) \notin Tally(ins, p, passed)
  BY <1>1, Zenon
<1>4. Len(p) <= passed => (Len(ins) \in Tally(ins, p, passed)
                  <=> Len(ins) \in DOMAIN ins /\ Begins(p, ins[Len(ins)].word))
  BY <1>1, Zenon
<1> QED
  BY <1>2, <1>3, <1>4, Zenon

Off == Len(fullword) - Len(word)

Passed ==
    IF pc = "idle"
    THEN IF inserted = << >> THEN 0 ELSE Len(inserted[Len(inserted)].word)
    ELSE IF node = Root THEN -1 ELSE Off

OnTheWay ==
    /\ inserted # << >>
    /\ fullword = inserted[Len(inserted)].word /\ size = inserted[Len(inserted)].size
    /\ word \in Seq(Nat) /\ Len(word) <= Len(fullword)
    /\ \A j \in 1 .. Len(word) : word[j] = fullword[Off + j]
    /\ Len(Name(nodes, node)) = Off + Len(Edge(nodes, node))
    /\ \A j \in 1 .. Off : Name(nodes, node)[j] = fullword[j]
    /\ node # Root => word # << >> /\ Edge(nodes, node)[1] = word[1]

TreeTyped ==
    /\ pc \in {"idle", "walk"}
    /\ node \in DOMAIN nodes
    /\ size \in Sizes \cup {0}
    /\ inserted \in Seq([word : Seq(Nat), size : Sizes])
    /\ Len(inserted) <= MaxInserts

TreeInv ==
    /\ TreeTyped /\ Linked(nodes) /\ Ended(nodes, Placed) /\ Tallied(nodes, inserted, Passed)
    /\ \A n \in DOMAIN nodes : Forked(nodes, n)
    /\ pc = "walk" => OnTheWay

\* Where the word stands before the node is opened.
LEMMA AtNode ==
    ASSUME TreeInv, pc = "walk"
    PROVE  /\ node \in DOMAIN nodes /\ nodes \in Seq(Node)
           /\ word \in Seq(Nat) /\ fullword \in Seq(Nat)
           /\ Off \in Nat /\ Len(fullword) = Off + Len(word)
           /\ PathAt(nodes, node) = Off
           /\ Matched \in Nat /\ Matched <= Len(word) /\ Matched <= Len(Edge(nodes, node))
           /\ \A j \in 1 .. Matched : word[j] = Edge(nodes, node)[j]
           /\ Matched < Len(word) /\ Matched < Len(Edge(nodes, node)) =>
                  word[Matched + 1] # Edge(nodes, node)[Matched + 1]
           /\ node # Root => Matched > 0
           /\ node = Root => Off = 0 /\ Matched = 0
           /\ Matched < Len(Edge(nodes, node)) => node # Root
<1>1. /\ TreeTyped /\ Linked(nodes) /\ OnTheWay
  BY DEF TreeInv
<1>2. inserted[Len(inserted)] \in [word : Seq(Nat), size : Sizes]
  <2> DEFINE R == [word : Seq(Nat), size : Sizes]
  <2>1. inserted \in Seq(R) /\ inserted # << >>
    BY <1>1 DEF TreeTyped, OnTheWay
  <2> HIDE DEF R
  <2>2. inserted[Len(inserted)] \in R
    BY <2>1
  <2> QED
    BY <2>2 DEF R
<1>3. node \in DOMAIN nodes /\ nodes \in Seq(Node) /\ word \in Seq(Nat) /\ fullword \in Seq(Nat)
  BY <1>1, <1>2 DEF TreeTyped, OnTheWay, Linked, Typed
<1>4. Off \in Nat /\ Len(fullword) = Off + Len(word)
  BY <1>1, <1>3 DEF OnTheWay, Off
<1>5. Edge(nodes, node) \in Seq(Nat) /\ Name(nodes, node) \in Seq(Nat)
  BY <1>1, <1>3, NodeOf DEF Linked
<1>6. PathAt(nodes, node) = Off
  BY <1>1, <1>3, <1>4, <1>5 DEF OnTheWay, PathAt
<1>7. /\ Matched \in Nat /\ Matched <= Len(word) /\ Matched <= Len(Edge(nodes, node))
      /\ \A j \in 1 .. Matched : word[j] = Edge(nodes, node)[j]
      /\ Matched < Len(word) /\ Matched < Len(Edge(nodes, node)) =>
             word[Matched + 1] # Edge(nodes, node)[Matched + 1]
  <2>1. Matched = commonPrefixLen(word, Edge(nodes, node))
    BY Zenon DEF Matched, Edge
  <2> QED
    BY <1>3, <1>5, <2>1, CommonLength
<1>8. ASSUME node # Root PROVE Matched > 0
  <2>1. word # << >> /\ Edge(nodes, node)[1] = word[1]
    BY <1>1, <1>8 DEF OnTheWay
  <2>2. Len(Edge(nodes, node)) > 0
    BY <1>1, <1>3, <1>8, ChildOf DEF Linked, AllBelowRoot
  <2>3. Len(word) > 0
    BY <1>3, <2>1
  <2> QED
    BY <1>7, <2>1, <2>2, <2>3
<1>9. ASSUME node = Root PROVE Off = 0 /\ Matched = 0 /\ Len(Edge(nodes, node)) = 0
  <2>1. Name(nodes, node) = << >> /\ Edge(nodes, node) = << >>
    BY <1>1, <1>9 DEF Linked, RootEmpty
  <2>2. Len(Name(nodes, node)) = 0 /\ Len(Edge(nodes, node)) = 0
    BY <2>1
  <2> QED
    BY <1>4, <1>6, <1>7, <2>2 DEF PathAt
<1> QED
  BY <1>3, <1>4, <1>6, <1>7, <1>8, <1>9

\* A split keeps the marks, and no word ends within the path it cuts.
LEMMA SplitEnded ==
    ASSUME NEW ns, Linked(ns), NEW n \in DOMAIN ns \ {Root},
           NEW i \in 1 .. Len(Edge(ns, n)) - 1, NEW z, IsSplit(z, ns, n, i),
           NEW ws \in SUBSET Seq(Nat), Ended(ns, ws)
    PROVE  /\ Ended(z, ws)
           /\ \A w \in ws : Begins(Name(z, n), w) => Begins(Name(ns, n), w)
<1> DEFINE N == Len(ns) + 1
<1>1. /\ DOMAIN z = DOMAIN ns \cup {N} /\ N \notin DOMAIN ns /\ n \in DOMAIN ns
      /\ Name(ns, n) \in Seq(Nat) /\ Name(z, n) \in Seq(Nat)
      /\ Len(Name(z, n)) = PathAt(ns, n) + i /\ PathAt(ns, n) \in Nat
      /\ Begins(Name(z, n), Name(ns, n))
  <2>1. SplitCut(z, ns, n, i) /\ n \in DOMAIN ns
    BY SplitLetters
  <2> QED
    BY <2>1, Zenon DEF SplitCut
<1>2. /\ z[N].end = ns[n].end /\ z[n].end = FALSE /\ Name(z, N) = Name(ns, n)
      /\ \A k \in DOMAIN ns \ {n} : z[k] = ns[k] /\ Name(z, k) = Name(ns, k)
  BY DEF IsSplit, Name
<1> HIDE DEF N
<1>3. ASSUME NEW w \in ws PROVE \E k \in DOMAIN z : Name(z, k) = w /\ z[k].end
  <2>1. PICK k \in DOMAIN ns : Name(ns, k) = w /\ ns[k].end
    BY DEF Ended
  <2> QED
    BY <1>1, <1>2, <2>1
<1>4. ASSUME NEW k \in DOMAIN z, z[k].end PROVE Name(z, k) \in ws
  BY <1>1, <1>2, <1>4 DEF Ended
<1>5. ASSUME NEW k \in DOMAIN z \ {Root} PROVE \E w \in ws : Begins(Name(z, k), w)
  <2>1. PICK w \in ws : Begins(Name(ns, IF k = N THEN n ELSE k), w)
    BY <1>1 DEF Ended
  <2>2. CASE k = n
    BY <1>1, <2>1, <2>2, BeginsTwice
  <2>3. CASE k # n
    BY <1>1, <1>2, <2>1, <2>3
  <2> QED
    BY <2>2, <2>3
<1>6. ASSUME NEW w \in ws, Begins(Name(z, n), w) PROVE Begins(Name(ns, n), w)
  <2>1. PICK k \in DOMAIN ns : Name(ns, k) = w
    BY DEF Ended
  <2>2. Len(Name(z, n)) > PathAt(ns, n)
    BY <1>1
  <2> QED
    BY <1>1, <1>6, <2>1, <2>2, NoneHalfWay
<1> QED
  BY <1>3, <1>4, <1>5, <1>6 DEF Ended

(***************************************************************************)
(* The tree when the node is opened: split if the word leaves its path.    *)
(***************************************************************************)
IsOpened(ns) ==
    /\ Linked(ns) /\ node \in DOMAIN ns
    /\ Name(ns, node) \in Seq(Nat) /\ Len(Name(ns, node)) = Off + Matched
    /\ Begins(Name(ns, node), fullword) /\ PathAt(ns, node) = Off
    /\ Ended(ns, Placed) /\ Tallied(ns, inserted, Passed)
    /\ \A n \in DOMAIN ns \ {node} : Forked(ns, n)

\* What the way below the node is, split or not.
OpenEnd(ns) ==
    \/ ns = nodes /\ Forked(ns, node)
    \/ /\ Len(Kids(ns, node)) = 1
       /\ Matched < Len(word) => NoContinuation(ns, node, Rest)

\* The words are strings; all but the last are placed.
LEMMA PlacedWords ==
    ASSUME TreeTyped, pc = "walk"
    PROVE  /\ Placed \in SUBSET Seq(Nat)
           /\ \A i \in DOMAIN inserted : inserted[i].word \in Seq(Nat) /\ inserted[i].size \in Nat
           /\ \A i \in DOMAIN inserted : i # Len(inserted) => inserted[i].word \in Placed
<1> DEFINE R == [word : Seq(Nat), size : Sizes]
<1>1. inserted \in Seq(R)
  BY DEF TreeTyped
<1>2. \A r \in R : r.word \in Seq(Nat) /\ r.size \in Nat
  BY RadixAssumption
<1> HIDE DEF R
<1>3. \A i \in DOMAIN inserted : inserted[i] \in R
  BY <1>1
<1>4. \A i \in DOMAIN inserted : i # Len(inserted) => i < Len(inserted)
  BY <1>1
<1> QED
  BY <1>2, <1>3, <1>4 DEF Placed

\* The node reached ends, once opened, where the word leaves its path.
LEMMA Opening ==
    ASSUME TreeInv, pc = "walk"
    PROVE  IsOpened(Opened) /\ OpenEnd(Opened)
<1> DEFINE p == Edge(nodes, node)
           s == Name(nodes, node)
<1>1. /\ TreeTyped /\ Linked(nodes) /\ OnTheWay /\ Ended(nodes, Placed)
      /\ Tallied(nodes, inserted, Passed) /\ \A n \in DOMAIN nodes : Forked(nodes, n)
  BY DEF TreeInv
<1>2. /\ node \in DOMAIN nodes /\ word \in Seq(Nat) /\ fullword \in Seq(Nat)
      /\ Off \in Nat /\ Len(fullword) = Off + Len(word) /\ PathAt(nodes, node) = Off
      /\ Matched \in Nat /\ Matched <= Len(word) /\ Matched <= Len(p)
      /\ \A j \in 1 .. Matched : word[j] = p[j]
      /\ Matched < Len(word) /\ Matched < Len(p) => word[Matched + 1] # p[Matched + 1]
      /\ node # Root => Matched > 0
      /\ node = Root => Off = 0 /\ Matched = 0
      /\ Matched < Len(p) => node # Root
  BY AtNode
<1>3. p \in Seq(Nat) /\ s \in Seq(Nat) /\ Len(s) = Off + Len(p)
  BY <1>1, <1>2, NodeOf DEF Linked, OnTheWay
<1>4. /\ \A j \in 1 .. Off : s[j] = fullword[j]
      /\ \A j \in 1 .. Len(word) : word[j] = fullword[Off + j]
  BY <1>1 DEF OnTheWay
<1>5. \A j \in 1 .. Len(p) : p[j] = s[Off + j]
  <2>1. CASE node = Root
    BY <1>2, <1>3, <2>1
  <2>2. CASE node # Root
    <3>1. \A j \in 1 .. Len(Edge(nodes, node)) :
              Edge(nodes, node)[j] = Name(nodes, node)[PathAt(nodes, node) + j]
      BY ONLY <1>1, <1>2, <2>2, PathOf
    <3> QED
      BY <1>2, <3>1
  <2> QED
    BY <2>1, <2>2
<1> HIDE DEF p, s
<1>6. \A j \in 1 .. Off + Matched : s[j] = fullword[j]
  <2>1. ASSUME NEW j \in 1 .. Off + Matched, j > Off PROVE s[j] = fullword[j]
    <3>1. j - Off \in 1 .. Matched /\ Off + (j - Off) = j
      BY <1>2, <2>1, SMTT(60)
    <3>2. j - Off \in 1 .. Len(p) /\ j - Off \in 1 .. Len(word)
      <4>1. /\ Matched \in Nat /\ Matched <= Len(p) /\ Matched <= Len(word)
            /\ Len(p) \in Nat /\ Len(word) \in Nat
        <5>1. Matched \in Nat /\ Matched <= Len(p) /\ Matched <= Len(word)
          BY ONLY <1>2
        <5>2. p \in Seq(Nat) /\ word \in Seq(Nat)
          BY ONLY <1>2, <1>3
        <5>3. Len(p) \in Nat /\ Len(word) \in Nat
          BY ONLY <5>2
        <5> QED
          BY ONLY <5>1, <5>3
      <4> HIDE DEF Matched, Off
      <4> QED
        BY ONLY <3>1, <4>1
    <3>3. p[j - Off] = s[j] /\ word[j - Off] = fullword[j]
      BY <1>4, <1>5, <3>1, <3>2
    <3> QED
      BY <1>2, <3>1, <3>3
  <2>2. \A j \in 1 .. Off + Matched : j > Off \/ j \in 1 .. Off
    BY <1>2
  <2> QED
    BY <1>4, <2>1, <2>2
<1>7. Off + Matched \in Nat /\ Off + Matched <= Len(fullword)
  BY <1>2
<1>8. CASE Matched = Len(p)
  <2>1. Opened = nodes
    <3>1. ~(Matched < Len(nodes[node].path))
      BY <1>2, <1>8 DEF p, Edge
    <3> QED
      BY <3>1, Zenon DEF Opened
  <2>2. Begins(s, fullword) /\ Len(s) = Off + Matched
    BY <1>3, <1>6, <1>7, <1>8 DEF Begins
  <2>3. IsOpened(nodes)
    BY <1>1, <1>2, <1>3, <2>2 DEF IsOpened, s
  <2>4. OpenEnd(nodes)
    BY <1>1, <1>2 DEF OpenEnd
  <2> QED
    BY <2>1, <2>3, <2>4
<1>9. CASE Matched < Len(p)
  <2> DEFINE z == Split(nodes, node, Matched)
             N == Len(nodes) + 1
  <2>1. Opened = z
    BY <1>9, Zenon DEF Opened, p, Edge
  <2>2. /\ node \in DOMAIN nodes \ {Root} /\ Matched \in 1 .. Len(p) - 1
        /\ Matched \in 0 .. Len(p) /\ Len(p) <= Len(s)
    <3>1. node # Root /\ node \in DOMAIN nodes
      BY <1>2, <1>9
    <3>2. Matched \in Nat /\ Matched > 0 /\ Len(p) \in Nat /\ Off \in Nat /\ Len(s) = Off + Len(p)
      BY <1>2, <1>3, <3>1
    <3>3. Matched \in 1 .. Len(p) - 1 /\ Matched \in 0 .. Len(p) /\ Len(p) <= Len(s)
      BY ONLY <1>9, <3>2
    <3> QED
      BY <3>1, <3>3
  <2>3. IsSplit(z, nodes, node, Matched)
    BY <1>1, <2>2, SplitNodes DEF Linked, p, s
  <2> HIDE DEF z
  <2>4. Linked(z)
    BY <1>1, <2>2, <2>3, SplitLinked DEF p
  <2>5. SplitCut(z, nodes, node, Matched)
    BY <1>1, <2>2, <2>3, SplitLetters DEF p
  <2>6. /\ DOMAIN z = DOMAIN nodes \cup {N} /\ N \notin DOMAIN nodes
        /\ Name(z, node) \in Seq(Nat) /\ Len(Name(z, node)) = Off + Matched
        /\ Begins(Name(z, node), s) /\ Len(Edge(z, node)) = Matched
    BY <1>2, <2>5, Zenon DEF SplitCut, s
  <2>7. PathAt(z, node) = Off
    BY <1>2, <2>6 DEF PathAt
  <2>8. Begins(Name(z, node), fullword)
    <3>1. \A j \in 1 .. Off + Matched : Name(z, node)[j] = s[j]
      BY <2>6 DEF Begins
    <3> QED
      BY <1>6, <1>7, <2>6, <3>1 DEF Begins
  <2>9. /\ Ended(z, Placed)
        /\ \A w \in Placed : Begins(Name(z, node), w) => Begins(s, w)
    BY <1>1, <2>2, <2>3, PlacedWords, SplitEnded DEF p, s
  <2>10. /\ \A k \in DOMAIN nodes \ {node} : z[k] = nodes[k] /\ Name(z, k) = Name(nodes, k)
         /\ Kids(z, node) = <<N>> /\ Kids(z, N) = Kids(nodes, node) /\ Name(z, N) = s
         /\ z[N].end = nodes[node].end
         /\ z[N].totalSize = nodes[node].totalSize /\ z[N].keyCount = nodes[node].keyCount
         /\ z[node].totalSize = nodes[node].totalSize
         /\ z[node].keyCount = nodes[node].keyCount
         /\ Edge(z, N) = SubSeq(p, Matched + 1, Len(p))
    BY <2>3 DEF IsSplit, Name, p, s
  <2> HIDE DEF N
  <2>11. \A k \in DOMAIN z \ {node} : Forked(z, k)
    <3>1. Forked(nodes, node) => Forked(z, N)
      BY <2>2, <2>10 DEF Forked
    <3>2. \A k \in DOMAIN nodes \ {node} : Forked(z, k)
      BY <1>1, <2>10 DEF Forked, Kids
    <3> QED
      BY <1>1, <1>2, <2>6, <3>1, <3>2
  <2>12. Tally(inserted, Name(z, node), Passed) = Tally(inserted, s, Passed)
    <3>1. Passed = Off
      BY <2>2, Zenon DEF Passed
    <3>2. Len(Name(z, node)) > Off /\ Len(s) > Off
      BY <1>2, <1>3, <1>9, <2>2, <2>6
    <3>3. ASSUME NEW i \in DOMAIN inserted, i # Len(inserted)
          PROVE  Begins(Name(z, node), inserted[i].word) <=> Begins(s, inserted[i].word)
      BY <1>1, <1>3, <2>6, <2>9, <3>3, PlacedWords, BeginsTwice
    <3>4. ~(Len(Name(z, node)) <= Off) /\ ~(Len(s) <= Off)
      BY <1>2, <1>3, <2>6, <3>2
    <3>5. ASSUME NEW i \in DOMAIN inserted
          PROVE  i \in Tally(inserted, Name(z, node), Off) <=> i \in Tally(inserted, s, Off)
      <4>1. i = Len(inserted) => i \notin Tally(inserted, Name(z, node), Off)
        BY ONLY <3>4, TallyOf
      <4>2. i = Len(inserted) => i \notin Tally(inserted, s, Off)
        BY ONLY <3>4, TallyOf
      <4>3. i # Len(inserted) => (i \in Tally(inserted, Name(z, node), Off)
                                      <=> i \in Tally(inserted, s, Off))
        BY <3>3, TallyOf
      <4> QED
        BY <4>1, <4>2, <4>3
    <3>6. Tally(inserted, Name(z, node), Off) \subseteq DOMAIN inserted /\ Tally(inserted, s, Off) \subseteq DOMAIN inserted
      BY DEF Tally
    <3>7. Tally(inserted, Name(z, node), Off) = Tally(inserted, s, Off)
      BY <3>5, <3>6
    <3> QED
      BY <3>1, <3>7
  <2>13. Tallied(z, inserted, Passed)
    <3>1. \A k \in DOMAIN nodes \ {node} :
              /\ z[k].keyCount = Cardinality(Tally(inserted, Name(z, k), Passed))
              /\ z[k].totalSize = Cardinality(BytesOf(inserted, Tally(inserted, Name(z, k), Passed)))
      BY <1>1, <2>10 DEF Tallied
    <3>2. /\ nodes[node].keyCount = Cardinality(Tally(inserted, s, Passed))
          /\ nodes[node].totalSize = Cardinality(BytesOf(inserted, Tally(inserted, s, Passed)))
      BY <1>1, <1>2 DEF Tallied, s
    <3> QED
      BY <2>6, <2>10, <2>12, <3>1, <3>2 DEF Tallied
  <2>14. Len(Kids(z, node)) = 1
    BY <2>10
  <2>15. ASSUME Matched < Len(word) PROVE NoContinuation(z, node, Rest)
    <3>1. Rest[1] = word[Matched + 1]
      <4>1. Rest = SubSeq(word, Matched + 1, Len(word)) /\ 1 \in 1 .. Len(word) - Matched
        BY <1>2, <2>15 DEF Rest
      <4> QED
        BY <1>2, <2>15, <4>1, Cut
    <3>2. Edge(z, N)[1] = p[Matched + 1]
      <4>1. 1 \in 1 .. Len(p) - Matched /\ Matched \in 0 .. Len(p)
        BY <1>2, <1>3, <1>9
      <4> QED
        BY <1>3, <2>10, <4>1, Cut
    <3>3. \A k \in DOMAIN z : IsChild(z, node, k) => k = N
      BY <2>10 DEF IsChild
    <3> QED
      BY <1>2, <1>9, <2>15, <3>1, <3>2, <3>3 DEF NoContinuation
  <2>16. IsOpened(z)
    BY <1>2, <2>4, <2>6, <2>7, <2>8, <2>9, <2>11, <2>13 DEF IsOpened
  <2> QED
    BY <2>1, <2>14, <2>15, <2>16 DEF OpenEnd
<1> QED
  BY <1>2, <1>3, <1>8, <1>9

(***************************************************************************)
(* Counting the word in a node (radix.go:60-63).                           *)
(***************************************************************************)
IsCounted(z, ns, n, sz) ==
    /\ SameShape(z, ns)
    /\ \A k \in DOMAIN ns : z[k].end = ns[k].end
    /\ \A k \in DOMAIN ns \ {n} : z[k] = ns[k]
    /\ z[n].totalSize = ns[n].totalSize + sz /\ z[n].keyCount = ns[n].keyCount + 1

\* The node reached counts the word, all else stays.
LEMMA CountNode ==
    ASSUME NEW ns, Typed(ns), NEW n \in DOMAIN ns, NEW sz \in Nat
    PROVE  IsCounted([ns EXCEPT ![n].totalSize = @ + sz, ![n].keyCount = @ + 1], ns, n, sz)
<1> DEFINE a == [ns[n] EXCEPT !.totalSize = @ + sz]
           b == [a EXCEPT !.keyCount = @ + 1]
           y == [ns EXCEPT ![n] = a]
           z == [y EXCEPT ![n] = b]
<1>1. ns[n] \in Node /\ ns \in Seq(Node)
  BY NodeOf DEF Typed
<1>2. /\ a \in Node /\ a.path = ns[n].path /\ a.children = ns[n].children
      /\ a.fullpath = ns[n].fullpath /\ a.end = ns[n].end
      /\ a.totalSize = ns[n].totalSize + sz /\ a.keyCount = ns[n].keyCount
  <2> DEFINE nd == ns[n]
             v == nd.totalSize + sz
  <2>1. nd \in Node /\ v \in Nat
    BY <1>1, SMTT(60) DEF Node
  <2>2. a = [nd EXCEPT !.totalSize = v]
    OBVIOUS
  <2> HIDE DEF a, nd, v
  <2>3. /\ a \in Node /\ a.path = nd.path /\ a.children = nd.children
        /\ a.fullpath = nd.fullpath /\ a.end = nd.end
        /\ a.totalSize = v /\ a.keyCount = nd.keyCount
    BY <2>1, <2>2 DEF Node
  <2> QED
    BY <2>3 DEF nd, v
<1> HIDE DEF a
<1>3. /\ b \in Node /\ b.path = ns[n].path /\ b.children = ns[n].children
      /\ b.fullpath = ns[n].fullpath /\ b.end = ns[n].end
      /\ b.totalSize = ns[n].totalSize + sz /\ b.keyCount = ns[n].keyCount + 1
  <2> DEFINE v == a.keyCount + 1
  <2>1. a \in Node /\ v \in Nat
    BY <1>2 DEF Node
  <2>2. b = [a EXCEPT !.keyCount = v]
    OBVIOUS
  <2> HIDE DEF b, v
  <2>3. /\ b \in Node /\ b.path = a.path /\ b.children = a.children
        /\ b.fullpath = a.fullpath /\ b.end = a.end
        /\ b.totalSize = a.totalSize /\ b.keyCount = v
    BY <2>1, <2>2 DEF Node
  <2> QED
    BY <1>2, <2>3 DEF v
<1> HIDE DEF b
<1>4. y \in Seq(Node) /\ DOMAIN y = DOMAIN ns /\ \A k \in DOMAIN ns \ {n} : y[k] = ns[k]
  BY <1>1, <1>2
<1>5. y[n] = a
  BY <1>1
<1>6. z \in Seq(Node) /\ DOMAIN z = DOMAIN ns /\ \A k \in DOMAIN ns \ {n} : z[k] = ns[k]
  <2> HIDE DEF y
  <2> QED
    BY <1>3, <1>4
<1>7. z[n] = b
  <2> HIDE DEF y
  <2> QED
    BY <1>4
<1>8. IsCounted(z, ns, n, sz)
  <2> HIDE DEF z
  <2>1. SameShape(z, ns)
    BY <1>3, <1>6, <1>7 DEF SameShape, Name, Edge, Kids
  <2> QED
    BY <1>3, <1>6, <1>7, <2>1 DEF IsCounted
<1>9. [ns EXCEPT ![n].totalSize = @ + sz, ![n].keyCount = @ + 1] = z
  <2>1. [ns EXCEPT ![n].totalSize = @ + sz, ![n].keyCount = @ + 1]
            = [y EXCEPT ![n] = [y[n] EXCEPT !.keyCount = @ + 1]]
    BY <1>1 DEF a
  <2> QED
    BY <1>5, <2>1 DEF b
<1> QED
  BY <1>8, <1>9

\* An object more is its bytes more.
LEMMA BytesGrow ==
    ASSUME NEW T \in SUBSET DOMAIN inserted, NEW i \in DOMAIN inserted, i \notin T,
           \A j \in DOMAIN inserted : inserted[j].size \in Nat,
           IsFiniteSet(DOMAIN inserted)
    PROVE  /\ Cardinality(T \cup {i}) = Cardinality(T) + 1
           /\ Cardinality(BytesOf(inserted, T \cup {i})) = Cardinality(BytesOf(inserted, T)) + inserted[i].size
           /\ Cardinality(T) \in Nat /\ Cardinality(BytesOf(inserted, T)) \in Nat
<1> DEFINE B(j) == {j} \X (1 .. inserted[j].size)
           U == {B(j) : j \in T}
<1>1. IsFiniteSet(T)
  BY FS_Subset
<1>2. \A j \in DOMAIN inserted : IsFiniteSet(B(j)) /\ Cardinality(B(j)) = inserted[j].size
  <2> TAKE j \in DOMAIN inserted
  <2>1. IsFiniteSet({j}) /\ Cardinality({j}) = 1
    BY FS_Singleton
  <2>2. inserted[j].size \in Nat
    OBVIOUS
  <2>3. IsFiniteSet(1 .. inserted[j].size) /\ Cardinality(1 .. inserted[j].size) = inserted[j].size
    BY <2>2, FS_Interval, SMTT(60)
  <2>4. IsFiniteSet(B(j)) /\ Cardinality(B(j)) = Cardinality({j}) * Cardinality(1 .. inserted[j].size)
    BY <2>1, <2>3, FS_Product
  <2> QED
    BY <2>1, <2>2, <2>3, <2>4
<1>3. IsFiniteSet(U)
  <2>1. [j \in T |-> B(j)] \in Surjection(T, U)
    BY DEF Surjection
  <2> QED
    BY <1>1, <2>1, FS_Surjection
<1>4. IsFiniteSet(UNION U)
  BY <1>2, <1>3, FS_UNION
<1>5. UNION U = BytesOf(inserted, T)
  BY DEF BytesOf
<1>6. BytesOf(inserted, T \cup {i}) = BytesOf(inserted, T) \cup B(i)
  BY DEF BytesOf
<1>7. BytesOf(inserted, T) \cap B(i) = {}
  BY DEF BytesOf
<1>8. Cardinality(T \cup {i}) = Cardinality(T) + 1 /\ Cardinality(T) \in Nat
  BY <1>1, FS_AddElement, FS_CardinalityType
<1> HIDE DEF B, U
<1>9. /\ Cardinality(BytesOf(inserted, T) \cup B(i))
           = Cardinality(BytesOf(inserted, T)) + Cardinality(B(i)) - Cardinality(BytesOf(inserted, T) \cap B(i))
      /\ Cardinality(BytesOf(inserted, T)) \in Nat
  BY <1>2, <1>4, <1>5, FS_Union, FS_CardinalityType
<1>10. Cardinality(BytesOf(inserted, T) \cap B(i)) = 0
  BY <1>7, FS_EmptySet
<1>11. Cardinality(B(i)) = inserted[i].size /\ inserted[i].size \in Nat
  BY <1>2
<1>12. Cardinality(BytesOf(inserted, T \cup {i})) = Cardinality(BytesOf(inserted, T)) + inserted[i].size
  <2> DEFINE x == Cardinality(BytesOf(inserted, T))
             y == Cardinality(B(i))
             v == Cardinality(BytesOf(inserted, T) \cap B(i))
             u == Cardinality(BytesOf(inserted, T) \cup B(i))
  <2>1. u = x + y - v /\ x \in Nat /\ v = 0 /\ y = inserted[i].size /\ y \in Nat
    BY <1>9, <1>10, <1>11
  <2>2. Cardinality(BytesOf(inserted, T \cup {i})) = u
    BY <1>6
  <2> HIDE DEF x, y, v, u
  <2>3. u = x + y
    BY <2>1
  <2> QED
    BY <2>1, <2>2, <2>3 DEF x
<1> QED
  BY <1>8, <1>9, <1>12

\* What the nodes have counted once the node reached has counted the word.
LEMMA TallyCounted ==
    ASSUME TreeInv, pc = "walk", NEW ns, IsOpened(ns), NEW z, IsCounted(z, ns, node, size)
    PROVE  Tallied(z, inserted, Off + Matched)
<1> DEFINE L == Len(inserted)
           M == Off + Matched
<1>1. TreeTyped /\ OnTheWay
  BY DEF TreeInv
<1>2. /\ Linked(ns) /\ node \in DOMAIN ns /\ Name(ns, node) \in Seq(Nat)
      /\ Len(Name(ns, node)) = M /\ Begins(Name(ns, node), fullword)
      /\ PathAt(ns, node) = Off /\ Tallied(ns, inserted, Passed)
  BY DEF IsOpened
<1>3. /\ DOMAIN z = DOMAIN ns /\ \A k \in DOMAIN ns : Name(z, k) = Name(ns, k)
      /\ \A k \in DOMAIN ns \ {node} : z[k] = ns[k]
      /\ z[node].totalSize = ns[node].totalSize + size
      /\ z[node].keyCount = ns[node].keyCount + 1
  BY DEF IsCounted, SameShape
<1>4. /\ Off \in Nat /\ Matched \in Nat /\ fullword \in Seq(Nat)
      /\ node # Root => Matched > 0
      /\ node = Root => Off = 0 /\ Matched = 0
  BY AtNode
<1>5. \A i \in DOMAIN inserted : inserted[i].word \in Seq(Nat) /\ inserted[i].size \in Nat
  BY <1>1, PlacedWords
<1>6. /\ L \in DOMAIN inserted /\ IsFiniteSet(DOMAIN inserted)
      /\ inserted[L].word = fullword /\ inserted[L].size = size
  <2>1. inserted \in Seq([word : Seq(Nat), size : Sizes]) /\ inserted # << >>
    BY <1>1 DEF TreeTyped, OnTheWay
  <2>2. DOMAIN inserted = 1 .. L /\ L \in Nat /\ L # 0
    BY <2>1
  <2>3. IsFiniteSet(1 .. L)
    BY <2>2, FS_Interval
  <2> QED
    BY <1>1, <2>2, <2>3 DEF OnTheWay
<1>7. Passed = IF node = Root THEN -1 ELSE Off
  BY Zenon DEF Passed
<1> HIDE DEF L, M
<1>8. \A k \in DOMAIN ns : Name(ns, k) \in Seq(Nat)
  BY <1>2, NodeOf DEF Linked
<1>9. ASSUME NEW k \in DOMAIN ns, k # node, Begins(Name(ns, k), fullword),
             Len(Name(ns, k)) <= M
      PROVE  Len(Name(ns, k)) <= Passed
  <2>1. Begins(Name(ns, k), Name(ns, node))
    BY <1>2, <1>4, <1>8, <1>9, BeginsTwice
  <2>2. ASSUME Len(Name(ns, node)) <= Len(Name(ns, k)) PROVE FALSE
    <3>1. Name(ns, k) = Name(ns, node)
      BY <1>2, <1>8, <2>1, <2>2, BeginsTwice
    <3> QED
      BY <1>2, <1>9, <3>1, OneName
  <2>3. CASE node = Root
    BY <1>2, <1>4, <1>8, <2>2, <2>3 DEF M
  <2>4. CASE node # Root
    <3>1. ASSUME Len(Name(ns, k)) > Off PROVE FALSE
      <4>1. Begins(Name(ns, k), Name(ns, k))
        BY <1>8, BeginsTwice
      <4>2. Begins(Name(ns, node), Name(ns, k))
        BY <1>2, <1>8, <2>1, <2>4, <3>1, <4>1, NoneHalfWay
      <4> QED
        BY <2>2, <4>2 DEF Begins
    <3> QED
      BY <1>4, <1>7, <1>8, <2>4, <3>1
  <2> QED
    BY <2>3, <2>4
<1>10. ASSUME NEW k \in DOMAIN ns, k # node
       PROVE  Tally(inserted, Name(ns, k), M) = Tally(inserted, Name(ns, k), Passed)
  <2>1. Passed <= M /\ Passed \in Int /\ M \in Int
    BY <1>4, <1>7 DEF M
  <2>2. Len(Name(ns, k)) \in Nat
    BY <1>8
  <2>3. L = Len(inserted)
    BY DEF L
  <2>4. ASSUME Begins(Name(ns, k), fullword)
        PROVE  Len(Name(ns, k)) <= M <=> Len(Name(ns, k)) <= Passed
    BY <1>9, <1>10, <2>1, <2>2, <2>4
  <2>5. ASSUME NEW i \in DOMAIN inserted
        PROVE  i \in Tally(inserted, Name(ns, k), M) <=> i \in Tally(inserted, Name(ns, k), Passed)
    BY <1>6, <2>3, <2>4 DEF Tally
  <2> QED
    BY <2>5 DEF Tally
<1>11. /\ Tally(inserted, Name(ns, node), M) = Tally(inserted, Name(ns, node), Passed) \cup {L}
       /\ L \notin Tally(inserted, Name(ns, node), Passed)
  <2>1. Len(Name(ns, node)) <= M /\ ~(Len(Name(ns, node)) <= Passed)
    BY <1>2, <1>4, <1>7 DEF M
  <2>2. L = Len(inserted)
    BY DEF L
  <2>3. L \notin Tally(inserted, Name(ns, node), Passed)
    BY ONLY <2>1, <2>2, TallyOf
  <2>4. ASSUME NEW i \in DOMAIN inserted
        PROVE  i \in Tally(inserted, Name(ns, node), M)
                   <=> i = L \/ i \in Tally(inserted, Name(ns, node), Passed)
    BY <1>2, <1>6, <2>1, <2>2 DEF Tally
  <2> QED
    BY <1>6, <2>3, <2>4 DEF Tally
<1>12. Tally(inserted, Name(ns, node), Passed) \in SUBSET DOMAIN inserted
  BY DEF Tally
<1>13. /\ Cardinality(Tally(inserted, Name(ns, node), M)) = ns[node].keyCount + 1
       /\ Cardinality(BytesOf(inserted, Tally(inserted, Name(ns, node), M))) = ns[node].totalSize + size
  <2> DEFINE T == Tally(inserted, Name(ns, node), Passed)
  <2>1. T \in SUBSET DOMAIN inserted /\ L \notin T /\ Tally(inserted, Name(ns, node), M) = T \cup {L}
    BY <1>11, <1>12
  <2>2. ns[node].keyCount = Cardinality(T) /\ ns[node].totalSize = Cardinality(BytesOf(inserted, T))
    BY <1>2 DEF Tallied
  <2> HIDE DEF T
  <2>3. /\ Cardinality(T \cup {L}) = Cardinality(T) + 1
        /\ Cardinality(BytesOf(inserted, T \cup {L})) = Cardinality(BytesOf(inserted, T)) + inserted[L].size
    BY <1>5, <1>6, <2>1, BytesGrow
  <2> QED
    BY <1>6, <2>1, <2>2, <2>3
<1>14. ASSUME NEW k \in DOMAIN ns
       PROVE  /\ z[k].keyCount = Cardinality(Tally(inserted, Name(z, k), M))
              /\ z[k].totalSize = Cardinality(BytesOf(inserted, Tally(inserted, Name(z, k), M)))
  <2>1. CASE k = node
    BY <1>2, <1>3, <1>13, <2>1
  <2>2. CASE k # node
    <3>1. /\ ns[k].keyCount = Cardinality(Tally(inserted, Name(ns, k), Passed))
          /\ ns[k].totalSize = Cardinality(BytesOf(inserted, Tally(inserted, Name(ns, k), Passed)))
      BY <1>2 DEF Tallied
    <3> QED
      BY <1>3, <1>10, <2>2, <3>1
  <2> QED
    BY <2>1, <2>2
<1> QED
  BY <1>3, <1>14 DEF Tallied, M

(***************************************************************************)
(* The tree z once the node reached is opened and has counted the word.    *)
(***************************************************************************)
IsReached(z) ==
    /\ Linked(z) /\ node \in DOMAIN z
    /\ Len(Name(z, node)) = Off + Matched /\ Begins(Name(z, node), fullword)
    /\ Ended(z, Placed) /\ Tallied(z, inserted, Off + Matched)
    /\ \A n \in DOMAIN z \ {node} : Forked(z, n)
    /\ \/ Forked(z, node)
       \/ /\ Len(Kids(z, node)) = 1
          /\ Matched < Len(word) => NoContinuation(z, node, Rest)

\* What holds of the tree when the loop looks for a child to go on with.
LEMMA Reaching ==
    ASSUME TreeInv, pc = "walk"
    PROVE  IsReached(Counted)
<1> DEFINE ns == Opened
           z == Counted
<1>1. IsOpened(ns) /\ OpenEnd(ns)
  BY Opening
<1>2. z = [ns EXCEPT ![node].totalSize = @ + size, ![node].keyCount = @ + 1]
  <2>1. Matched > 0 \/ node = Root
    BY AtNode
  <2> QED
    BY <2>1, Zenon DEF Counted
<1>3. TreeTyped /\ OnTheWay /\ (\A n \in DOMAIN nodes : Forked(nodes, n))
  BY DEF TreeInv
<1>4. size \in Nat
  BY <1>3, RadixAssumption DEF TreeTyped
<1> HIDE DEF ns, z
<1>5. /\ Linked(ns) /\ node \in DOMAIN ns /\ Len(Name(ns, node)) = Off + Matched
      /\ Begins(Name(ns, node), fullword) /\ Ended(ns, Placed)
      /\ \A n \in DOMAIN ns \ {node} : Forked(ns, n)
  BY <1>1 DEF IsOpened
<1>6. IsCounted(z, ns, node, size)
  BY <1>2, <1>4, <1>5, CountNode DEF Linked
<1>7. Tallied(z, inserted, Off + Matched)
  BY <1>1, <1>6, TallyCounted
<1>8. SameShape(z, ns)
  BY <1>6 DEF IsCounted
<1>9. /\ DOMAIN z = DOMAIN ns
      /\ \A k \in DOMAIN ns : /\ Name(z, k) = Name(ns, k) /\ Edge(z, k) = Edge(ns, k)
                              /\ Kids(z, k) = Kids(ns, k) /\ z[k].end = ns[k].end
  BY <1>6, <1>8 DEF IsCounted, SameShape
<1>10. Linked(z)
  BY <1>5, <1>8, SameShapeLinked
<1>11. Ended(z, Placed)
  BY <1>5, <1>9 DEF Ended
<1>12. \A k \in DOMAIN ns : Forked(ns, k) => Forked(z, k)
  BY <1>9 DEF Forked
<1>13. \/ Forked(z, node)
       \/ /\ Len(Kids(z, node)) = 1
          /\ Matched < Len(word) => NoContinuation(z, node, Rest)
  <2>1. CASE Forked(ns, node)
    BY <1>5, <1>12, <2>1
  <2>2. CASE /\ Len(Kids(ns, node)) = 1
             /\ Matched < Len(word) => NoContinuation(ns, node, Rest)
    <3>1. Len(Kids(z, node)) = 1
      BY <1>5, <1>9, <2>2
    <3>2. NoContinuation(ns, node, Rest) => NoContinuation(z, node, Rest)
      BY <1>5, <1>9 DEF NoContinuation, IsChild
    <3> QED
      BY <2>2, <3>1, <3>2
  <2> QED
    BY <1>1, <2>1, <2>2 DEF OpenEnd
<1>14. IsReached(z)
  BY <1>5, <1>7, <1>9, <1>10, <1>11, <1>12, <1>13 DEF IsReached
<1> QED
  BY <1>14 DEF z

\* A word is what begins it and the rest.
LEMMA Joined ==
    ASSUME NEW s \in Seq(Nat), NEW t \in Seq(Nat), NEW u \in Seq(Nat),
           Len(u) = Len(s) + Len(t), Begins(s, u),
           \A j \in 1 .. Len(t) : t[j] = u[Len(s) + j]
    PROVE  u = s \o t
<1>1. s \o t \in Seq(Nat) /\ Len(s \o t) = Len(u)
  OBVIOUS
<1>2. ASSUME NEW j \in 1 .. Len(u) PROVE u[j] = (s \o t)[j]
  <2>1. CASE j <= Len(s)
    BY <2>1 DEF Begins
  <2>2. CASE j > Len(s)
    <3>1. j - Len(s) \in 1 .. Len(t) /\ Len(s) + (j - Len(s)) = j
      BY <2>2
    <3>2. (s \o t)[j] = t[j - Len(s)]
      BY <2>2
    <3> QED
      BY <3>1, <3>2
  <2> QED
    BY <2>1, <2>2
<1> QED
  BY <1>1, <1>2, SMTT(60)

\* What is left of the word where it does not end.
LEMMA RestOfWord ==
    ASSUME TreeInv, pc = "walk", Matched < Len(word), NEW s \in Seq(Nat),
           Len(s) = Off + Matched, Begins(s, fullword)
    PROVE  /\ Rest \in Seq(Nat) /\ Rest # << >> /\ Len(Rest) > 0
           /\ Len(fullword) = Off + Matched + Len(Rest)
           /\ fullword = s \o Rest
           /\ \A j \in 1 .. Len(Rest) : Rest[j] = fullword[Off + Matched + j]
<1>1. /\ word \in Seq(Nat) /\ fullword \in Seq(Nat) /\ Off \in Nat /\ Matched \in Nat
      /\ Len(fullword) = Off + Len(word)
  BY AtNode
<1>2. \A j \in 1 .. Len(word) : word[j] = fullword[Off + j]
  BY DEF TreeInv, OnTheWay
<1> DEFINE M == Matched
           o == Off
<1>3. M \in 0 .. Len(word) /\ M \in Nat /\ M < Len(word) /\ o \in Nat
  BY <1>1
<1>4. Rest = SubSeq(word, M + 1, Len(word))
  BY DEF Rest
<1> HIDE DEF M, o
<1>5. /\ Rest \in Seq(Nat) /\ Len(Rest) = Len(word) - M
      /\ \A j \in 1 .. Len(word) - M : Rest[j] = word[M + j]
  BY <1>1, <1>3, <1>4, Cut
<1>6. \A j \in 1 .. Len(word) - M : Rest[j] = fullword[o + M + j]
  <2> TAKE j \in 1 .. Len(word) - M
  <2>1. M + j \in 1 .. Len(word) /\ o + (M + j) = o + M + j
    BY <1>1, <1>3
  <2> QED
    BY <1>2, <1>5, <2>1 DEF o
<1>7. Len(fullword) = o + M + Len(Rest) /\ Len(Rest) > 0 /\ Len(word) \in Nat
  BY <1>1, <1>3, <1>5, SMTT(60) DEF o
<1>8. fullword = s \o Rest
  <2>1. Len(s) = o + M /\ \A j \in 1 .. o + M : s[j] = fullword[j]
    BY DEF Begins, o, M
  <2>2. \A j \in 1 .. Len(Rest) : Rest[j] = fullword[Len(s) + j]
    BY <1>5, <1>6, <2>1
  <2>3. Len(fullword) = Len(s) + Len(Rest)
    BY <1>7, <2>1
  <2> QED
    BY <1>1, <1>5, <2>2, <2>3, Joined
<1> QED
  BY <1>5, <1>6, <1>7, <1>8 DEF o, M

\* The words once the last one is placed.
LEMMA AllPlaced ==
    ASSUME TreeTyped, OnTheWay, pc = "walk", pc' = "idle", UNCHANGED inserted
    PROVE  /\ Placed' = Placed \cup {fullword}
           /\ Passed' = Len(fullword)
<1> DEFINE L == Len(inserted)
<1>1. inserted \in Seq([word : Seq(Nat), size : Sizes]) /\ inserted # << >>
  BY DEF TreeTyped, OnTheWay
<1>2. L \in DOMAIN inserted /\ \A j \in DOMAIN inserted : j < L \/ j = L
  BY <1>1
<1>3. Placed = {inserted[i].word : i \in {j \in DOMAIN inserted : j < L}}
  BY DEF Placed
<1>4. Placed' = {inserted[i].word : i \in DOMAIN inserted}
  BY DEF Placed
<1>5. inserted[L].word = fullword
  BY DEF OnTheWay
<1>6. Passed' = Len(fullword)
  BY <1>1, <1>5 DEF Passed
<1> HIDE DEF L
<1>7. Placed' = Placed \cup {fullword}
  BY <1>2, <1>3, <1>4, <1>5
<1> QED
  BY <1>6, <1>7

\* The same counts, whichever way the end of the count is written.
LEMMA TalliedNext ==
    ASSUME NEW ns, NEW M, Tallied(ns, inserted, M), NEW z, DOMAIN z = DOMAIN ns,
           \A k \in DOMAIN ns : /\ Name(z, k) = Name(ns, k)
                                /\ z[k].keyCount = ns[k].keyCount
                                /\ z[k].totalSize = ns[k].totalSize
    PROVE  Tallied(z, inserted, M)
  BY DEF Tallied

\* The end mark is set, all else stays.
LEMMA EndNodes ==
    ASSUME NEW ns, Typed(ns), NEW n \in DOMAIN ns
    PROVE  LET z == [ns EXCEPT ![n].end = TRUE] IN
           /\ SameShape(z, ns) /\ z[n].end = TRUE
           /\ \A k \in DOMAIN ns \ {n} : z[k] = ns[k]
           /\ \A k \in DOMAIN ns : /\ z[k].keyCount = ns[k].keyCount
                                   /\ z[k].totalSize = ns[k].totalSize
<1> DEFINE a == [ns[n] EXCEPT !.end = TRUE]
           z == [ns EXCEPT ![n].end = TRUE]
<1>1. ns[n] \in Node /\ ns \in Seq(Node)
  BY NodeOf DEF Typed
<1>2. /\ a \in Node /\ a.path = ns[n].path /\ a.children = ns[n].children
      /\ a.fullpath = ns[n].fullpath /\ a.end = TRUE
      /\ a.totalSize = ns[n].totalSize /\ a.keyCount = ns[n].keyCount
  <2> DEFINE nd == ns[n]
  <2>1. nd \in Node
    BY <1>1
  <2>2. a = [nd EXCEPT !.end = TRUE]
    OBVIOUS
  <2> HIDE DEF a, nd
  <2>3. /\ a \in Node /\ a.path = nd.path /\ a.children = nd.children
        /\ a.fullpath = nd.fullpath /\ a.end = TRUE
        /\ a.totalSize = nd.totalSize /\ a.keyCount = nd.keyCount
    BY <2>1, <2>2 DEF Node
  <2> QED
    BY <2>3 DEF nd
<1>3. z = [ns EXCEPT ![n] = a]
  OBVIOUS
<1> HIDE DEF a, z
<1>4. z \in Seq(Node) /\ DOMAIN z = DOMAIN ns /\ \A k \in DOMAIN ns \ {n} : z[k] = ns[k]
  BY <1>1, <1>2, <1>3
<1>5. z[n] = a
  BY <1>1, <1>3
<1>6. SameShape(z, ns)
  BY <1>2, <1>4, <1>5 DEF SameShape, Name, Edge, Kids
<1>7. /\ SameShape(z, ns) /\ z[n].end = TRUE
      /\ \A k \in DOMAIN ns \ {n} : z[k] = ns[k]
      /\ \A k \in DOMAIN ns : /\ z[k].keyCount = ns[k].keyCount
                              /\ z[k].totalSize = ns[k].totalSize
  BY <1>2, <1>4, <1>5, <1>6
<1> QED
  BY <1>7 DEF z

\* The word ends at the node (radix.go:64-68).
LEMMA EndAtNodeInv ==
    ASSUME TreeInv, EndAtNode
    PROVE  TreeInv'
<1> DEFINE z == Counted
           y == nodes'
<1>1. /\ pc = "walk" /\ pc' = "idle" /\ Matched = Len(word)
      /\ y = [z EXCEPT ![node].end = TRUE]
      /\ UNCHANGED <<node, word, fullword, size, inserted>>
  BY Zenon DEF EndAtNode
<1>2. IsReached(z)
  BY <1>1, Reaching
<1>3. TreeTyped /\ OnTheWay
  BY <1>1 DEF TreeInv
<1> HIDE DEF z
<1>4. /\ Linked(z) /\ node \in DOMAIN z
      /\ Len(Name(z, node)) = Off + Matched /\ Begins(Name(z, node), fullword)
      /\ Ended(z, Placed) /\ Tallied(z, inserted, Off + Matched)
      /\ \A n \in DOMAIN z \ {node} : Forked(z, n)
  BY <1>2 DEF IsReached
<1>5. /\ SameShape(y, z) /\ y[node].end = TRUE
      /\ \A k \in DOMAIN z \ {node} : y[k] = z[k]
      /\ \A k \in DOMAIN z : /\ y[k].keyCount = z[k].keyCount
                             /\ y[k].totalSize = z[k].totalSize
  BY <1>1, <1>4, EndNodes DEF Linked
<1>6. /\ DOMAIN y = DOMAIN z
      /\ \A k \in DOMAIN z : /\ Name(y, k) = Name(z, k) /\ Kids(y, k) = Kids(z, k)
                             /\ Edge(y, k) = Edge(z, k)
  BY <1>5 DEF SameShape
<1>7. Off + Matched = Len(fullword) /\ fullword \in Seq(Nat)
  BY <1>1, AtNode
<1>8. Name(z, node) = fullword
  <2>1. Name(z, node) \in Seq(Nat)
    BY <1>4, NodeOf DEF Linked
  <2> QED
    BY <1>4, <1>7, <2>1, BeginsTwice
<1>9. Placed' = Placed \cup {fullword} /\ Passed' = Off + Matched
  BY <1>1, <1>3, <1>7, AllPlaced
<1>10. Linked(y)
  BY <1>4, <1>5, SameShapeLinked
<1>11. Ended(y, Placed \cup {fullword})
  <2>1. \A k \in DOMAIN z \ {node} : y[k].end = z[k].end
    BY <1>5
  <2>2. \A w \in Placed : \E n \in DOMAIN z : Name(z, n) = w /\ z[n].end
    BY <1>4 DEF Ended
  <2>3. \A w \in Placed : \E n \in DOMAIN y : Name(y, n) = w /\ y[n].end
    BY <1>5, <1>6, <2>1, <2>2
  <2> HIDE DEF y
  <2>4. \E n \in DOMAIN y : Name(y, n) = fullword /\ y[n].end
    BY <1>4, <1>5, <1>6, <1>8
  <2>5. \A n \in DOMAIN y : y[n].end => Name(y, n) \in Placed \cup {fullword}
    BY <1>4, <1>6, <1>8, <2>1 DEF Ended
  <2>6. \A n \in DOMAIN y \ {Root} : \E w \in Placed : Begins(Name(y, n), w)
    BY <1>4, <1>6 DEF Ended
  <2> QED
    BY <2>3, <2>4, <2>5, <2>6 DEF Ended
<1>12. \A n \in DOMAIN y : Forked(y, n)
  BY <1>4, <1>5, <1>6 DEF Forked
<1>13. Tallied(y, inserted, Off + Matched)
  BY <1>4, <1>5, <1>6, TalliedNext
<1>14. Tallied(nodes, inserted, Passed)'
  BY <1>1, <1>9, <1>13
<1>15. TreeTyped'
  <2>1. node' \in DOMAIN nodes'
    BY <1>1, <1>4, <1>6
  <2> QED
    BY <1>1, <1>3, <2>1 DEF TreeTyped
<1> QED
  BY <1>1, <1>9, <1>10, <1>11, <1>12, <1>14, <1>15
     DEF TreeInv

\* The loop goes on with a child (radix.go:69-77).
LEMMA DescendInv ==
    ASSUME TreeInv, Descend
    PROVE  TreeInv'
<1> DEFINE z == Counted
           M == Off + Matched
           q == node'
<1>1. /\ pc = "walk" /\ pc' = "walk" /\ Matched < Len(word) /\ Continuations # {}
      /\ nodes' = z /\ word' = Rest
      /\ q = z[node].children[CHOOSE c \in Continuations : \A d \in Continuations : c <= d]
      /\ UNCHANGED <<fullword, size, inserted>>
  BY Zenon DEF Descend
<1>2. IsReached(z)
  BY <1>1, Reaching
<1>3. TreeTyped /\ OnTheWay
  BY <1>1 DEF TreeInv
<1>4. Continuations = {c \in DOMAIN Kids(z, node) : Edge(z, Kids(z, node)[c])[1] = Rest[1]}
  BY Zenon DEF Continuations, Kids, Edge
<1>5. q = Kids(z, node)[CHOOSE c \in Continuations : \A d \in Continuations : c <= d]
  BY <1>1 DEF Kids
<1> HIDE DEF z, q
<1>6. /\ Linked(z) /\ node \in DOMAIN z
      /\ Len(Name(z, node)) = M /\ Begins(Name(z, node), fullword)
      /\ Ended(z, Placed) /\ Tallied(z, inserted, M)
      /\ \A n \in DOMAIN z \ {node} : Forked(z, n)
  BY <1>2 DEF IsReached
<1>7. Kids(z, node) \in Seq(Nat) /\ Name(z, node) \in Seq(Nat)
  BY <1>6, NodeOf DEF Linked
<1>8. PICK c \in Continuations : q = Kids(z, node)[c]
  <2>1. Continuations \in SUBSET Nat
    BY <1>4, <1>7
  <2>2. \E c \in Continuations : \A d \in Continuations : c <= d
    BY <1>1, <2>1, LeastNumber
  <2> QED
    BY <1>5, <2>2
<1>9. c \in DOMAIN Kids(z, node) /\ Edge(z, q)[1] = Rest[1]
  BY <1>4, <1>8
<1>10. q \in DOMAIN z \ {Root} /\ IsChild(z, node, q)
  BY <1>6, <1>8, <1>9 DEF Linked, ChildrenAreNodes, IsChild
<1>11. /\ Edge(z, q) \in Seq(Nat) /\ Len(Name(z, q)) = M + Len(Edge(z, q))
       /\ Begins(Name(z, node), Name(z, q))
  BY <1>6, <1>10, ChildOf
<1>12. /\ Rest \in Seq(Nat) /\ Rest # << >> /\ Len(fullword) = M + Len(Rest)
       /\ \A j \in 1 .. Len(Rest) : Rest[j] = fullword[M + j]
  BY <1>1, <1>6, <1>7, RestOfWord
<1>13. M \in Nat /\ fullword \in Seq(Nat)
  BY <1>1, AtNode
<1>14. \A j \in 1 .. M : Name(z, q)[j] = fullword[j]
  BY <1>6, <1>11 DEF Begins
<1>15. \A n \in DOMAIN z : Forked(z, n)
  <2>1. ~NoContinuation(z, node, Rest)
    BY <1>9, <1>10 DEF NoContinuation
  <2> QED
    BY <1>1, <1>2, <1>6, <2>1 DEF IsReached
<1> HIDE DEF M
<1>16. Off' = M
  <2>1. Off' = Len(fullword') - Len(word')
    BY DEF Off
  <2> QED
    BY <1>1, <1>12, <1>13, <2>1
<1>17. OnTheWay'
  <2>1. node' = q
    BY DEF q
  <2>2. /\ inserted' # << >> /\ fullword' = inserted'[Len(inserted')].word
        /\ size' = inserted'[Len(inserted')].size
    BY <1>1, <1>3 DEF OnTheWay
  <2>3. /\ word' \in Seq(Nat) /\ Len(word') <= Len(fullword')
        /\ \A j \in 1 .. Len(word') : word'[j] = fullword'[Off' + j]
    BY <1>1, <1>12, <1>13, <1>16
  <2>4. Len(Name(nodes', node')) = Off' + Len(Edge(nodes', node'))
    BY <1>1, <1>11, <1>16, <2>1
  <2>5. \A j \in 1 .. Off' : Name(nodes', node')[j] = fullword'[j]
    BY <1>1, <1>14, <1>16, <2>1
  <2>6. word' # << >> /\ Edge(nodes', node')[1] = word'[1]
    BY <1>1, <1>9, <1>12, <2>1
  <2> QED
    BY <2>2, <2>3, <2>4, <2>5, <2>6 DEF OnTheWay
<1>18. Passed' = M
  <2>1. node' # Root
    BY <1>10 DEF q
  <2> QED
    BY <1>1, <1>16, <2>1 DEF Passed
<1>19. Placed' = Placed
  BY <1>1 DEF Placed
<1>20. TreeTyped'
  <2>1. node' \in DOMAIN nodes'
    BY <1>1, <1>10 DEF q
  <2> QED
    BY <1>1, <1>3, <2>1 DEF TreeTyped
<1> QED
  BY <1>1, <1>6, <1>15, <1>17, <1>18, <1>19, <1>20 DEF TreeInv

\* The tree with the leaf, field by field.
LEMMA GrownNodes ==
    ASSUME NEW ns, Typed(ns), NEW q \in DOMAIN ns, NEW leaf \in Node,
           leaf.children = << >>
    PROVE  LET z == Append([ns EXCEPT ![q].children = Append(@, Len(ns) + 1)], leaf)
               N == Len(ns) + 1
           IN
           /\ IsGrown(z, ns, q, leaf.path, leaf.fullpath)
           /\ z[N] = leaf
           /\ \A k \in DOMAIN ns : /\ z[k].end = ns[k].end
                                   /\ z[k].keyCount = ns[k].keyCount
                                   /\ z[k].totalSize = ns[k].totalSize
<1> DEFINE N == Len(ns) + 1
           a == [ns[q] EXCEPT !.children = Append(@, N)]
           y == [ns EXCEPT ![q] = a]
           z == Append(y, leaf)
<1>1. ns[q] \in Node /\ ns \in Seq(Node) /\ DOMAIN ns = 1 .. Len(ns) /\ N \in Nat
  BY NodeOf DEF Typed
<1>2. /\ a \in Node /\ a.path = ns[q].path /\ a.children = Append(ns[q].children, N)
      /\ a.fullpath = ns[q].fullpath /\ a.end = ns[q].end
      /\ a.totalSize = ns[q].totalSize /\ a.keyCount = ns[q].keyCount
  <2> DEFINE nd == ns[q]
             v == Append(nd.children, N)
  <2>1. nd \in Node
    BY <1>1
  <2>2. nd.children \in Seq(Nat)
    BY <2>1 DEF Node
  <2>3. v \in Seq(Nat)
    <3> HIDE DEF nd, N
    <3> QED
      BY <1>1, <2>2
  <2>4. a = [nd EXCEPT !.children = v]
    OBVIOUS
  <2> HIDE DEF a, nd, v
  <2>5. /\ a \in Node /\ a.path = nd.path /\ a.children = v
        /\ a.fullpath = nd.fullpath /\ a.end = nd.end
        /\ a.totalSize = nd.totalSize /\ a.keyCount = nd.keyCount
    BY <2>1, <2>3, <2>4 DEF Node
  <2> QED
    BY <2>5 DEF nd, v
<1>3. y = [ns EXCEPT ![q].children = Append(@, Len(ns) + 1)]
  OBVIOUS
<1>4. N \notin DOMAIN ns
  BY <1>1
<1> HIDE DEF a, N
<1>5. /\ y \in Seq(Node) /\ DOMAIN y = DOMAIN ns /\ Len(y) = Len(ns)
      /\ \A k \in DOMAIN ns \ {q} : y[k] = ns[k]
      /\ y[q] = a
  BY <1>1, <1>2
<1> HIDE DEF y
<1>6. /\ z \in Seq(Node) /\ DOMAIN z = DOMAIN ns \cup {N} /\ z[N] = leaf
      /\ \A k \in DOMAIN ns : z[k] = y[k]
  <2>1. /\ z \in Seq(Node) /\ Len(z) = N /\ z[N] = leaf
        /\ \A k \in 1 .. Len(y) : z[k] = y[k]
    BY <1>5 DEF N
  <2> HIDE DEF z
  <2>2. DOMAIN z = 1 .. N
    BY <2>1
  <2> QED
    BY <1>1, <1>5, <2>1, <2>2 DEF N
<1> HIDE DEF z
<1>7. IsGrown(z, ns, q, leaf.path, leaf.fullpath)
  <2>1. \A k \in DOMAIN ns \ {q} : z[k] = ns[k]
    BY <1>5, <1>6
  <2>2. z[q] = a
    BY <1>5, <1>6
  <2>3. \A k \in DOMAIN ns : Name(z, k) = Name(ns, k) /\ Edge(z, k) = Edge(ns, k)
    BY <1>2, <2>1, <2>2 DEF Name, Edge
  <2>4. \A k \in DOMAIN ns \ {q} : Kids(z, k) = Kids(ns, k)
    BY <2>1 DEF Kids
  <2>5. Kids(z, q) = Append(Kids(ns, q), N)
    BY <1>2, <2>2 DEF Kids
  <2>6. Kids(z, N) = << >> /\ Edge(z, N) = leaf.path /\ Name(z, N) = leaf.fullpath
    BY <1>6 DEF Kids, Edge, Name
  <2> QED
    BY <1>4, <1>6, <2>3, <2>4, <2>5, <2>6 DEF IsGrown, N
<1>8. \A k \in DOMAIN ns : /\ z[k].end = ns[k].end
                           /\ z[k].keyCount = ns[k].keyCount
                           /\ z[k].totalSize = ns[k].totalSize
  <2>1. \A k \in DOMAIN ns \ {q} : z[k] = ns[k]
    BY <1>5, <1>6
  <2>2. z[q] = a
    BY <1>5, <1>6
  <2> QED
    BY <1>2, <2>1, <2>2
<1> QED
  BY <1>3, <1>6, <1>7, <1>8 DEF z, N

(***************************************************************************)
(* Where the word goes on as no child of the node does, no other node and  *)
(* no other word goes on with it.                                          *)
(***************************************************************************)
LEMMA WordIsNew ==
    ASSUME NEW z, Linked(z), NEW q \in DOMAIN z, NEW p \in Seq(Nat), p # << >>,
           NEW w \in Seq(Nat), w = Name(z, q) \o p, NoContinuation(z, q, p),
           NEW m \in DOMAIN z
    PROVE  /\ ~Begins(w, Name(z, m))
           /\ Begins(Name(z, m), w) => Len(Name(z, m)) <= Len(Name(z, q))
<1>1. Name(z, q) \in Seq(Nat) /\ Name(z, m) \in Seq(Nat)
  BY NodeOf DEF Linked
<1> DEFINE s == Name(z, q)
           t == Name(z, m)
           i == Len(s) + 1
<1>2. /\ Len(w) = Len(s) + Len(p) /\ \A j \in 1 .. Len(s) : w[j] = s[j]
      /\ w[i] = p[1] /\ Len(p) > 0
  <2>1. Len(p) > 0
    OBVIOUS
  <2>2. w[i] = p[1]
    BY <1>1, <2>1
  <2> QED
    BY <1>1, <2>1, <2>2
<1>3. Begins(s, w) /\ i \in 1 .. Len(w)
  BY <1>1, <1>2 DEF Begins
<1>4. Begins(s, t) /\ m # q => Len(t) > Len(s) /\ t[i] # p[1]
  BY NoneBeyond
<1> HIDE DEF s, t, i
<1>5. ASSUME Begins(w, t) PROVE FALSE
  <2>1. Begins(s, t)
    BY <1>1, <1>3, <1>5, BeginsTwice DEF s, t
  <2>2. m # q
    <3>1. Len(w) <= Len(t)
      BY <1>5 DEF Begins
    <3>2. Len(s) < Len(w)
      BY <1>1, <1>2 DEF s
    <3> QED
      BY <1>1, <3>1, <3>2 DEF s, t
  <2>3. w[i] = t[i]
    BY <1>3, <1>5 DEF Begins
  <2> QED
    BY <1>2, <1>4, <2>1, <2>2, <2>3
<1>6. ASSUME Begins(t, w), Len(t) > Len(s) PROVE FALSE
  <2>1. Begins(s, t)
    <3>1. s \in Seq(Nat) /\ t \in Seq(Nat)
      BY <1>1 DEF s, t
    <3>2. Len(s) <= Len(t)
      BY <1>6, <3>1
    <3> QED
      BY <1>3, <1>6, <3>1, <3>2, BeginsTwice
  <2>2. m # q
    BY <1>1, <1>6 DEF s, t
  <2>3. i \in 1 .. Len(t)
    BY <1>1, <1>6 DEF s, t, i
  <2>4. t[i] = w[i]
    BY <1>6, <2>3 DEF Begins
  <2> QED
    BY <1>2, <1>4, <2>1, <2>2, <2>4
<1>7. Len(s) \in Nat /\ Len(t) \in Nat
  BY <1>1 DEF s, t
<1> QED
  BY <1>5, <1>6, <1>7 DEF s, t

\* A leaf for the rest of the word (radix.go:80-90).
LEMMA AddChildInv ==
    ASSUME TreeInv, AddChild
    PROVE  TreeInv'
<1> DEFINE z == Counted
           y == nodes'
           M == Off + Matched
           N == Len(z) + 1
           L == Len(inserted)
           leaf == Leaf(Rest, fullword, size)
<1>1. /\ pc = "walk" /\ pc' = "idle" /\ Matched < Len(word) /\ Continuations = {}
      /\ y = Append([z EXCEPT ![node].children = Append(@, N)], leaf)
      /\ UNCHANGED <<node, fullword, size, inserted>>
  BY Zenon DEF AddChild
<1>2. IsReached(z)
  BY <1>1, Reaching
<1>3. TreeTyped /\ OnTheWay
  BY <1>1 DEF TreeInv
<1>4. Continuations = {c \in DOMAIN Kids(z, node) : Edge(z, Kids(z, node)[c])[1] = Rest[1]}
  BY Zenon DEF Continuations, Kids, Edge
<1>5. size \in Nat
  BY <1>3, RadixAssumption DEF TreeTyped
<1> HIDE DEF z
<1>6. /\ Linked(z) /\ node \in DOMAIN z
      /\ Len(Name(z, node)) = M /\ Begins(Name(z, node), fullword)
      /\ Ended(z, Placed) /\ Tallied(z, inserted, M)
      /\ \A n \in DOMAIN z \ {node} : Forked(z, n)
      /\ Forked(z, node) \/ Len(Kids(z, node)) = 1
  BY <1>2 DEF IsReached
<1>7. NoContinuation(z, node, Rest)
  BY <1>1, <1>4 DEF NoContinuation, IsChild
<1>8. \A k \in DOMAIN z : Name(z, k) \in Seq(Nat) /\ Kids(z, k) \in Seq(Nat)
  BY <1>6, NodeOf DEF Linked
<1>9. /\ Rest \in Seq(Nat) /\ Rest # << >> /\ Len(fullword) = M + Len(Rest)
      /\ Len(Rest) > 0 /\ fullword = Name(z, node) \o Rest
  BY <1>1, <1>6, <1>8, RestOfWord
<1>10. M \in Nat /\ fullword \in Seq(Nat)
  BY <1>1, AtNode, SMTT(60)
<1> HIDE DEF M
<1>11. /\ leaf \in Node /\ leaf.children = << >> /\ leaf.path = Rest
       /\ leaf.fullpath = fullword /\ leaf.end = TRUE
       /\ leaf.totalSize = size /\ leaf.keyCount = 1
  <2> DEFINE r == Rest
  <2>1. r \in Seq(Nat) /\ fullword \in Seq(Nat) /\ size \in Nat
    BY <1>5, <1>9, <1>10
  <2>2. leaf = Leaf(r, fullword, size)
    OBVIOUS
  <2> HIDE DEF leaf, r
  <2>3. /\ leaf \in Node /\ leaf.children = << >> /\ leaf.path = r
        /\ leaf.fullpath = fullword /\ leaf.end = TRUE
        /\ leaf.totalSize = size /\ leaf.keyCount = 1
    BY ONLY <2>1, <2>2 DEF Leaf, Node
  <2> QED
    BY <2>3 DEF r
<1> HIDE DEF leaf
<1>12. /\ IsGrown(y, z, node, Rest, fullword) /\ y[N] = leaf
       /\ \A k \in DOMAIN z : /\ y[k].end = z[k].end
                              /\ y[k].keyCount = z[k].keyCount
                              /\ y[k].totalSize = z[k].totalSize
  BY <1>1, <1>6, <1>11, GrownNodes DEF Linked
<1>13. /\ DOMAIN y = DOMAIN z \cup {N} /\ N \notin DOMAIN z
       /\ \A k \in DOMAIN z : Name(y, k) = Name(z, k)
       /\ \A k \in DOMAIN z \ {node} : Kids(y, k) = Kids(z, k)
       /\ Kids(y, node) = Append(Kids(z, node), N) /\ Name(y, N) = fullword
  BY <1>12 DEF IsGrown
<1> HIDE DEF y, N
<1>14. Linked(y)
  BY <1>6, <1>7, <1>9, <1>10, <1>12, GrownLinked
<1>15. \A m \in DOMAIN z : /\ ~Begins(fullword, Name(z, m))
                           /\ Begins(Name(z, m), fullword) => Len(Name(z, m)) <= M
  BY <1>6, <1>7, <1>9, <1>10, WordIsNew
<1>16. Placed' = Placed \cup {fullword} /\ Passed' = Len(fullword)
  BY <1>1, <1>3, AllPlaced
<1>17. Ended(y, Placed \cup {fullword})
  <2>1. ASSUME NEW w \in Placed PROVE \E n \in DOMAIN y : Name(y, n) = w /\ y[n].end
    <3>1. PICK n \in DOMAIN z : Name(z, n) = w /\ z[n].end
      BY <1>6 DEF Ended
    <3> QED
      BY <1>12, <1>13, <3>1
  <2>2. Name(y, N) = fullword /\ y[N].end /\ N \in DOMAIN y
    BY <1>11, <1>12, <1>13
  <2>3. \A n \in DOMAIN y : y[n].end => Name(y, n) \in Placed \cup {fullword}
    BY <1>6, <1>12, <1>13 DEF Ended
  <2>4. \A n \in DOMAIN z \ {Root} : \E w \in Placed : Begins(Name(y, n), w)
    BY <1>6, <1>13 DEF Ended
  <2>5. Begins(Name(y, N), fullword)
    BY <1>10, <1>13, BeginsTwice
  <2>6. \A n \in DOMAIN y \ {Root} : \E w \in Placed \cup {fullword} : Begins(Name(y, n), w)
    BY <1>13, <2>4, <2>5
  <2> QED
    BY <2>1, <2>2, <2>3, <2>6 DEF Ended
<1>18. \A n \in DOMAIN y : Forked(y, n)
  <2>1. Forked(y, N)
    BY <1>11, <1>12 DEF Forked
  <2>2. \A n \in DOMAIN z \ {node} : Forked(y, n)
    BY <1>6, <1>12, <1>13 DEF Forked
  <2>3. Len(Kids(y, node)) = Len(Kids(z, node)) + 1 /\ Len(Kids(z, node)) \in Nat
    BY <1>6, <1>8, <1>13
  <2>4. Forked(y, node)
    BY <1>6, <1>12, <2>3 DEF Forked
  <2> QED
    BY <1>13, <2>1, <2>2, <2>4
<1>19. /\ L \in DOMAIN inserted /\ IsFiniteSet(DOMAIN inserted)
       /\ inserted[L].word = fullword /\ inserted[L].size = size
  <2>1. inserted \in Seq([word : Seq(Nat), size : Sizes]) /\ inserted # << >>
    BY <1>3 DEF TreeTyped, OnTheWay
  <2>2. DOMAIN inserted = 1 .. L /\ L \in Nat /\ L # 0
    BY <2>1
  <2>3. IsFiniteSet(1 .. L)
    BY <2>2, FS_Interval
  <2> QED
    BY <1>3, <2>2, <2>3 DEF OnTheWay
<1>20. ASSUME NEW k \in DOMAIN z
       PROVE  Tally(inserted, Name(z, k), Len(fullword)) = Tally(inserted, Name(z, k), M)
  <2>1. Begins(Name(z, k), fullword) => Len(Name(z, k)) <= M /\ Len(Name(z, k)) <= Len(fullword)
    BY <1>15 DEF Begins
  <2>2. ASSUME NEW i \in DOMAIN inserted
        PROVE  i \in Tally(inserted, Name(z, k), Len(fullword))
                   <=> i \in Tally(inserted, Name(z, k), M)
    BY <1>19, <2>1 DEF Tally
  <2> QED
    BY <2>2 DEF Tally
<1>21. Tally(inserted, fullword, Len(fullword)) = {L}
  <2>1. L \in Tally(inserted, fullword, Len(fullword))
    <3>1. Len(fullword) <= Len(fullword) /\ Begins(fullword, fullword)
      BY <1>10, BeginsTwice
    <3> QED
      BY <1>19, <3>1, TallyOf
  <2>2. ASSUME NEW i \in DOMAIN inserted, i # L
        PROVE  i \notin Tally(inserted, fullword, Len(fullword))
    <3>1. inserted[i].word \in Placed
      BY <1>1, <1>3, <2>2, PlacedWords
    <3>2. PICK m \in DOMAIN z : Name(z, m) = inserted[i].word
      BY <1>6, <3>1 DEF Ended
    <3>3. ~Begins(fullword, inserted[i].word)
      BY <1>15, <3>2
    <3> QED
      BY <2>2, <3>3, TallyOf
  <2>3. Tally(inserted, fullword, Len(fullword)) \subseteq DOMAIN inserted
    BY DEF Tally
  <2> QED
    BY <2>1, <2>2, <2>3
<1>22. Cardinality({L}) = 1 /\ Cardinality(BytesOf(inserted, {L})) = size
  <2> DEFINE T == {}
  <2>1. T \in SUBSET DOMAIN inserted /\ L \notin T /\ {L} = T \cup {L}
    OBVIOUS
  <2>2. \A j \in DOMAIN inserted : inserted[j].size \in Nat
    BY <1>1, <1>3, PlacedWords
  <2>3. /\ Cardinality(T \cup {L}) = Cardinality(T) + 1
        /\ Cardinality(BytesOf(inserted, T \cup {L})) = Cardinality(BytesOf(inserted, T)) + inserted[L].size
    BY <1>19, <2>1, <2>2, BytesGrow
  <2>4. Cardinality(T) = 0 /\ BytesOf(inserted, T) = {}
    BY FS_EmptySet DEF BytesOf
  <2>5. Cardinality({}) = 0
    BY FS_EmptySet
  <2> HIDE DEF T
  <2>6. Cardinality({L}) = Cardinality(T) + 1
    BY <2>1, <2>3
  <2>7. Cardinality(BytesOf(inserted, {L})) = Cardinality(BytesOf(inserted, T)) + size
    BY <1>19, <2>1, <2>3
  <2>8. Cardinality(T) = 0 /\ Cardinality(BytesOf(inserted, T)) = 0
    BY <2>4, <2>5
  <2> QED
    BY <1>5, <2>6, <2>7, <2>8
<1>23. Tallied(y, inserted, Len(fullword))
  <2>1. ASSUME NEW k \in DOMAIN z
        PROVE  /\ y[k].keyCount = Cardinality(Tally(inserted, Name(y, k), Len(fullword)))
               /\ y[k].totalSize
                      = Cardinality(BytesOf(inserted, Tally(inserted, Name(y, k), Len(fullword))))
    <3>1. /\ z[k].keyCount = Cardinality(Tally(inserted, Name(z, k), M))
          /\ z[k].totalSize = Cardinality(BytesOf(inserted, Tally(inserted, Name(z, k), M)))
      BY <1>6 DEF Tallied
    <3> QED
      BY <1>12, <1>13, <1>20, <3>1
  <2>2. /\ y[N].keyCount = Cardinality(Tally(inserted, Name(y, N), Len(fullword)))
        /\ y[N].totalSize
               = Cardinality(BytesOf(inserted, Tally(inserted, Name(y, N), Len(fullword))))
    BY <1>11, <1>12, <1>13, <1>21, <1>22
  <2> QED
    BY <1>13, <2>1, <2>2 DEF Tallied
<1>24. TreeTyped'
  <2>1. node' \in DOMAIN nodes'
    BY <1>1, <1>6, <1>13 DEF y
  <2> QED
    BY <1>1, <1>3, <2>1 DEF TreeTyped
<1> QED
  BY <1>1, <1>14, <1>16, <1>17, <1>18, <1>23, <1>24 DEF TreeInv, y

\* The tree of newRadixTree has the invariant.
LEMMA TreeStart ==
    ASSUME TreeInit
    PROVE  TreeInv
<1> DEFINE root == [path |-> << >>, end |-> FALSE, children |-> << >>, totalSize |-> 0,
                    keyCount |-> 0, fullpath |-> << >>]
<1>1. /\ nodes = <<root>> /\ pc = "idle" /\ node = Root /\ word = << >> /\ size = 0
      /\ inserted = << >>
  BY DEF TreeInit, newRadixTree
<1>2. /\ root \in Node /\ root.path = << >> /\ root.end = FALSE /\ root.children = << >>
      /\ root.fullpath = << >> /\ root.totalSize = 0 /\ root.keyCount = 0
  BY DEF Node
<1> HIDE DEF root
<1>3. nodes \in Seq(Node) /\ DOMAIN nodes = {Root} /\ nodes[Root] = root
  BY <1>1, <1>2 DEF Root
<1>4. Edge(nodes, Root) = << >> /\ Name(nodes, Root) = << >> /\ Kids(nodes, Root) = << >>
  BY <1>2, <1>3 DEF Edge, Name, Kids
<1>5. \A m, k : m \in DOMAIN nodes => ~IsChild(nodes, m, k)
  BY <1>3, <1>4 DEF IsChild
<1>6. Linked(nodes)
  <2>1. Typed(nodes) /\ RootEmpty(nodes)
    BY <1>3, <1>4 DEF Typed, RootEmpty
  <2>2. ChildrenAreNodes(nodes) /\ SiblingsDiffer(nodes)
    BY <1>3, <1>4 DEF ChildrenAreNodes, SiblingsDiffer
  <2>3. ChildrenContinue(nodes)
    BY <1>5 DEF ChildrenContinue
  <2>4. AllBelowRoot(nodes) /\ WayDown(nodes)
    BY <1>3 DEF AllBelowRoot, WayDown
  <2> QED
    BY <2>1, <2>2, <2>3, <2>4 DEF Linked
<1>7. Placed = {}
  BY <1>1 DEF Placed
<1>8. Ended(nodes, {})
  BY <1>2, <1>3 DEF Ended
<1>9. \A n \in DOMAIN nodes : Forked(nodes, n)
  BY <1>3 DEF Forked
<1>10. Tallied(nodes, inserted, Passed)
  <2>1. \A p, m : Tally(inserted, p, m) = {} /\ BytesOf(inserted, {}) = {}
    BY <1>1 DEF Tally, BytesOf
  <2> QED
    BY <1>2, <1>3, <2>1, FS_EmptySet DEF Tallied
<1>11. TreeTyped
  <2>1. inserted \in Seq([word : Seq(Nat), size : Sizes]) /\ Len(inserted) <= MaxInserts
    BY <1>1, RadixAssumption
  <2> QED
    BY <1>1, <1>3, <2>1 DEF TreeTyped
<1> QED
  BY <1>1, <1>6, <1>7, <1>8, <1>9, <1>10, <1>11 DEF TreeInv

\* insert begins: the word is known, and no node has counted it.
LEMMA InsertInv ==
    ASSUME TreeInv, NEW o \in Objects, NEW sz \in Sizes, Insert(o[1], o[2], sz)
    PROVE  TreeInv'
<1> DEFINE w == genKey(o[1], o[2])
           R == [word : Seq(Nat), size : Sizes]
           L == Len(inserted)
           new == [word |-> w, size |-> sz]
<1>1. /\ pc = "idle" /\ Len(inserted) < MaxInserts /\ pc' = "walk" /\ node' = Root
      /\ word' = w /\ fullword' = w /\ size' = sz
      /\ inserted' = Append(inserted, new)
      /\ nodes' = nodes
  BY Zenon DEF Insert
<1>2. /\ TreeTyped /\ Linked(nodes) /\ Ended(nodes, Placed) /\ Tallied(nodes, inserted, Passed)
      /\ \A n \in DOMAIN nodes : Forked(nodes, n)
  BY DEF TreeInv
<1>3. w \in Seq(Nat)
  <2>1. o[1] \in Nat /\ o[2] \in Seq(Nat)
    BY RadixAssumption
  <2>2. Digits[o[1]] \in Seq(Nat)
    BY <2>1, DigitsOfNumber
  <2>3. <<Space>> \in Seq(Nat)
    BY DEF Space
  <2> DEFINE d == Digits[o[1]]
             k == o[2]
  <2>4. w = d \o <<Space>> \o k
    BY DEF genKey
  <2> HIDE DEF d, k
  <2> QED
    BY <2>1, <2>2, <2>3, <2>4 DEF d, k
<1> HIDE DEF w
<1>4. new \in R /\ new.word = w /\ new.size = sz
  BY <1>3
<1> HIDE DEF new, R
<1>5. inserted \in Seq(R)
  BY <1>2 DEF TreeTyped, R
<1>6. /\ inserted' \in Seq(R) /\ Len(inserted') = L + 1 /\ L \in Nat
      /\ DOMAIN inserted = 1 .. L /\ DOMAIN inserted' = 1 .. L + 1
      /\ inserted'[L + 1] = new
      /\ \A i \in DOMAIN inserted : inserted'[i] = inserted[i]
  BY <1>1, <1>4, <1>5
<1> HIDE DEF L
<1>7. Placed' = Placed
  <2>1. Placed = {inserted[i].word : i \in DOMAIN inserted}
    BY <1>1 DEF Placed
  <2>2. Placed' = {inserted'[i].word : i \in {j \in DOMAIN inserted' : j < Len(inserted')}}
    BY <1>1 DEF Placed
  <2>3. {j \in DOMAIN inserted' : j < Len(inserted')} = DOMAIN inserted
    BY <1>6
  <2> QED
    BY <1>6, <2>1, <2>2, <2>3
<1>8. Passed' = -1
  BY <1>1 DEF Passed
<1>9. ASSUME NEW p \in Seq(Nat)
      PROVE  /\ Tally(inserted', p, -1) = Tally(inserted, p, Passed)
             /\ BytesOf(inserted', Tally(inserted', p, -1))
                    = BytesOf(inserted, Tally(inserted, p, Passed))
  <2>1. ASSUME NEW i \in DOMAIN inserted
        PROVE  i \in Tally(inserted', p, -1) <=> i \in Tally(inserted, p, Passed)
    <3>1. i \in Tally(inserted', p, -1) <=> Begins(p, inserted[i].word)
      <4>1. i \in DOMAIN inserted' /\ i # Len(inserted')
        BY <1>6
      <4>2. i \in Tally(inserted', p, -1) <=> Begins(p, inserted'[i].word)
        BY <4>1, TallyOf
      <4> QED
        BY <1>6, <4>2
    <3>2. i \in Tally(inserted, p, Passed) <=> Begins(p, inserted[i].word)
      <4>1. CASE i # Len(inserted)
        BY <4>1, TallyOf
      <4>2. CASE i = Len(inserted)
        <5>1. Passed = Len(inserted[i].word)
          BY <1>1, <4>2, <1>6 DEF Passed
        <5>2. Begins(p, inserted[i].word) => Len(p) <= Passed
          BY <5>1 DEF Begins
        <5> QED
          BY <4>2, <5>2, TallyOf
      <4> QED
        BY <4>1, <4>2
    <3> QED
      BY <3>1, <3>2
  <2>2. L + 1 \notin Tally(inserted', p, -1)
    <3>1. ~(Len(p) <= -1)
      OBVIOUS
    <3> QED
      BY <1>6, <3>1, TallyOf
  <2>3. Tally(inserted', p, -1) \subseteq DOMAIN inserted' /\ Tally(inserted, p, Passed) \subseteq DOMAIN inserted
    BY DEF Tally
  <2>4. DOMAIN inserted' = DOMAIN inserted \cup {L + 1}
    BY <1>6
  <2>5. Tally(inserted', p, -1) = Tally(inserted, p, Passed)
    BY <2>1, <2>2, <2>3, <2>4
  <2> DEFINE T == Tally(inserted, p, Passed)
  <2>6. \A i \in T : inserted'[i].size = inserted[i].size
    BY <1>6, <2>3
  <2> HIDE DEF T
  <2>7. BytesOf(inserted', T) = BytesOf(inserted, T)
    BY <2>6 DEF BytesOf
  <2> QED
    BY <2>5, <2>7 DEF T
<1>10. Tallied(nodes', inserted', -1)
  <2>1. \A n \in DOMAIN nodes : Name(nodes, n) \in Seq(Nat)
    BY <1>2, NodeOf DEF Linked
  <2> QED
    BY <1>1, <1>2, <1>9, <2>1 DEF Tallied
<1>11. OnTheWay'
  <2>1. Off' = 0
    <3>1. Off' = Len(fullword') - Len(word')
      BY DEF Off
    <3> QED
      BY <1>1, <1>3, <3>1
  <2>2. /\ inserted' # << >> /\ fullword' = inserted'[Len(inserted')].word
        /\ size' = inserted'[Len(inserted')].size
    BY <1>1, <1>4, <1>6
  <2>3. /\ word' \in Seq(Nat) /\ Len(word') <= Len(fullword')
        /\ \A j \in 1 .. Len(word') : word'[j] = fullword'[Off' + j]
    BY <1>1, <1>3, <2>1
  <2>4. Name(nodes', node') = << >> /\ Edge(nodes', node') = << >>
    BY <1>1, <1>2 DEF Linked, RootEmpty
  <2>5. Len(Name(nodes', node')) = Off' + Len(Edge(nodes', node'))
    BY <2>1, <2>4
  <2>6. \A j \in 1 .. Off' : Name(nodes', node')[j] = fullword'[j]
    BY <2>1
  <2>7. node' = Root
    BY <1>1
  <2> QED
    BY <2>2, <2>3, <2>5, <2>6, <2>7 DEF OnTheWay
<1>12. TreeTyped'
  <2>1. node' \in DOMAIN nodes' /\ size' \in Sizes \cup {0}
    BY <1>1, <1>2 DEF Linked, Typed
  <2>2. Len(inserted') <= MaxInserts
    BY <1>1, <1>6, RadixAssumption DEF L
  <2> QED
    BY <1>1, <1>6, <2>1, <2>2 DEF TreeTyped, R
<1> QED
  BY <1>1, <1>2, <1>7, <1>8, <1>10, <1>11, <1>12 DEF TreeInv

\* The invariant is about the variables of the tree only.
LEMMA SameTree ==
    ASSUME TreeInv, UNCHANGED treeVars
    PROVE  TreeInv'
<1>1. /\ nodes' = nodes /\ pc' = pc /\ node' = node /\ word' = word
      /\ fullword' = fullword /\ size' = size /\ inserted' = inserted
  BY DEF treeVars
<1>2. Placed' = Placed /\ Passed' = Passed /\ (OnTheWay => OnTheWay') /\ (TreeTyped => TreeTyped')
  <2>1. Placed' = Placed
    BY <1>1 DEF Placed
  <2>2. Off' = Off
    BY <1>1 DEF Off
  <2>3. Passed' = Passed
    BY <1>1, <2>2 DEF Passed
  <2>4. OnTheWay => OnTheWay'
    BY <1>1, <2>2 DEF OnTheWay
  <2>5. TreeTyped => TreeTyped'
    BY <1>1 DEF TreeTyped
  <2> QED
    BY <2>1, <2>3, <2>4, <2>5
<1> QED
  BY <1>1, <1>2 DEF TreeInv

\* The invariant implies the type invariant of the tree.
LEMMA TreeTypes ==
    ASSUME TreeInv
    PROVE  TreeTypeOK
<1>1. TreeTyped /\ Linked(nodes)
  BY DEF TreeInv
<1>2. ASSUME NEW n \in DOMAIN nodes
      PROVE  /\ Children(n) \subseteq DOMAIN nodes
             /\ nodes[n].end \in BOOLEAN
             /\ nodes[n].totalSize \in Nat /\ nodes[n].keyCount \in Nat
  <2>1. Children(n) = {Kids(nodes, n)[c] : c \in DOMAIN Kids(nodes, n)}
    BY DEF Children, Kids
  <2>2. Children(n) \subseteq DOMAIN nodes
    BY <1>1, <2>1 DEF Linked, ChildrenAreNodes
  <2> QED
    BY <1>1, <2>2, NodeOf DEF Linked
<1> QED
  BY <1>1, <1>2 DEF TreeTyped, TreeTypeOK

\* No node is the child of two.
LEMMA OneParent ==
    ASSUME NEW ns, Linked(ns), NEW n \in DOMAIN ns, NEW m \in DOMAIN ns, NEW k \in DOMAIN ns,
           IsChild(ns, m, n), IsChild(ns, k, n)
    PROVE  m = k
<1>1. Name(ns, m) \in Seq(Nat) /\ Name(ns, k) \in Seq(Nat) /\ Name(ns, n) \in Seq(Nat)
  BY NodeOf DEF Linked
<1>2. /\ Len(Name(ns, n)) = Len(Name(ns, m)) + Len(Edge(ns, n))
      /\ Begins(Name(ns, m), Name(ns, n)) /\ Edge(ns, n) \in Seq(Nat)
  BY ChildOf
<1>3. /\ Len(Name(ns, n)) = Len(Name(ns, k)) + Len(Edge(ns, n))
      /\ Begins(Name(ns, k), Name(ns, n))
  BY ChildOf
<1>4. Len(Name(ns, m)) = Len(Name(ns, k))
  BY <1>1, <1>2, <1>3
<1>5. Name(ns, m) = Name(ns, k)
  <2>1. Begins(Name(ns, m), Name(ns, k))
    BY <1>1, <1>2, <1>3, <1>4, BeginsTwice
  <2> QED
    BY <1>1, <1>4, <2>1, BeginsTwice
<1> QED
  BY <1>5, OneName

\* The invariant implies that the tree is well linked.
LEMMA TreeLinks ==
    ASSUME TreeInv
    PROVE  WellLinked
<1>1. Linked(nodes)
  BY DEF TreeInv
<1>2. nodes[Root].fullpath = << >> /\ nodes[Root].path = << >>
  BY <1>1 DEF Linked, RootEmpty, Name, Edge
<1>3. ASSUME NEW n \in DOMAIN nodes \ {Root}
      PROVE  \E m \in DOMAIN nodes :
                 /\ {m} = {k \in DOMAIN nodes : n \in Children(k)}
                 /\ nodes[n].path # << >>
                 /\ nodes[n].fullpath = nodes[m].fullpath \o nodes[n].path
  <2>1. PICK m \in DOMAIN nodes : IsChild(nodes, m, n)
    BY <1>1 DEF Linked, AllBelowRoot
  <2>2. \A k : n \in Children(k) <=> IsChild(nodes, k, n)
    BY DEF Children, IsChild, Kids
  <2>3. \A k \in DOMAIN nodes : IsChild(nodes, k, n) => k = m
    BY <1>1, <2>1, OneParent
  <2>4. {m} = {k \in DOMAIN nodes : n \in Children(k)}
    BY <2>1, <2>2, <2>3
  <2>5. Edge(nodes, n) # << >> /\ Name(nodes, n) = Name(nodes, m) \o Edge(nodes, n)
    BY <1>1, <2>1 DEF Linked, ChildrenContinue
  <2> QED
    BY <2>4, <2>5 DEF Name, Edge
<1>4. \A n \in DOMAIN nodes : \A c, d \in DOMAIN nodes[n].children :
          nodes[nodes[n].children[c]].path[1] = nodes[nodes[n].children[d]].path[1]
              => c = d
  <2>1. SiblingsDiffer(nodes)
    BY <1>1 DEF Linked
  <2> QED
    BY <2>1, Zenon DEF SiblingsDiffer, Edge, Kids
<1> QED
  BY <1>2, <1>3, <1>4 DEF WellLinked

\* The invariant implies the assertions in the comments of insert.
LEMMA TreeAsserts ==
    ASSUME TreeInv
    PROVE  WalkAsserts
<1> SUFFICES ASSUME pc = "walk"
             PROVE  /\ Matched < Len(nodes[node].path) => node = Root \/ Matched > 0
                    /\ Matched = Len(word) => Opened[node].fullpath = fullword
                    /\ Matched = Len(nodes[node].path) =>
                           IsPrefix(nodes[node].fullpath, fullword)
  BY Zenon DEF WalkAsserts
<1>1. /\ fullword \in Seq(Nat) /\ Len(fullword) = Off + Len(word)
      /\ node # Root => Matched > 0
  BY AtNode
<1>2. IsOpened(Opened)
  BY Opening
<1>3. /\ Name(Opened, node) \in Seq(Nat) /\ Len(Name(Opened, node)) = Off + Matched
      /\ Begins(Name(Opened, node), fullword)
  BY <1>2, Zenon DEF IsOpened
<1>4. ASSUME Matched = Len(word) PROVE Opened[node].fullpath = fullword
  <2>1. Len(fullword) <= Len(Name(Opened, node))
    BY <1>1, <1>3, <1>4
  <2>2. Name(Opened, node) = fullword
    BY <1>1, <1>3, <2>1, BeginsTwice
  <2> QED
    BY <2>2, Zenon DEF Name
<1>5. ASSUME Matched = Len(nodes[node].path)
      PROVE  IsPrefix(nodes[node].fullpath, fullword)
  <2>1. ~(Matched < Len(nodes[node].path))
    <3>1. Matched \in Nat
      BY AtNode
    <3> QED
      BY <1>5, <3>1
  <2>2. Opened = nodes
    BY <2>1, Zenon DEF Opened
  <2>3. IsPrefix(Name(nodes, node), fullword)
    BY <1>1, <1>3, <2>2, PrefixBegins
  <2> QED
    BY <2>3, Zenon DEF Name
<1> QED
  BY <1>1, <1>4, <1>5

(***************************************************************************)
(* The nodes are the words and the places where words part.                *)
(***************************************************************************)
LEMMA NodeIsPrefix ==
    ASSUME NEW ns, Linked(ns), NEW ws \in SUBSET Seq(Nat), Ended(ns, ws),
           NEW n \in DOMAIN ns, Forked(ns, n)
    PROVE  \/ Name(ns, n) = << >> \/ Name(ns, n) \in ws
           \/ \E v, w \in ws : Name(ns, n) = commonPrefix(v, w)
<1>1. CASE n = Root
  BY <1>1 DEF Linked, RootEmpty
<1>2. CASE ns[n].end
  BY <1>2 DEF Ended
<1>3. CASE Len(Kids(ns, n)) >= 2
  <2> DEFINE s == Name(ns, n)
             i == Len(s) + 1
  <2>1. Kids(ns, n) \in Seq(Nat) /\ s \in Seq(Nat)
    BY NodeOf DEF Linked
  <2>2. 1 \in DOMAIN Kids(ns, n) /\ 2 \in DOMAIN Kids(ns, n)
    BY <1>3, <2>1
  <2>3. PICK a, b \in DOMAIN ns \ {Root} :
            /\ IsChild(ns, n, a) /\ IsChild(ns, n, b)
            /\ Edge(ns, a)[1] # Edge(ns, b)[1]
    <3>1. /\ Kids(ns, n)[1] \in DOMAIN ns \ {Root} /\ Kids(ns, n)[2] \in DOMAIN ns \ {Root}
          /\ IsChild(ns, n, Kids(ns, n)[1]) /\ IsChild(ns, n, Kids(ns, n)[2])
      BY <2>2 DEF Linked, ChildrenAreNodes, IsChild
    <3>2. Edge(ns, Kids(ns, n)[1])[1] # Edge(ns, Kids(ns, n)[2])[1]
      <4>1. SiblingsDiffer(ns)
        BY DEF Linked
      <4> QED
        BY <2>2, <4>1 DEF SiblingsDiffer
    <3> QED
      BY <3>1, <3>2
  <2>4. PICK v \in ws : Begins(Name(ns, a), v)
    BY DEF Ended
  <2>5. PICK w \in ws : Begins(Name(ns, b), w)
    BY DEF Ended
  <2>6. /\ Name(ns, a) \in Seq(Nat) /\ Name(ns, b) \in Seq(Nat)
        /\ v \in Seq(Nat) /\ w \in Seq(Nat)
    BY NodeOf DEF Linked
  <2>7. /\ Len(Name(ns, a)) = Len(s) + Len(Edge(ns, a)) /\ Len(Edge(ns, a)) > 0
        /\ Edge(ns, a) \in Seq(Nat)
        /\ Edge(ns, a)[1] = Name(ns, a)[i] /\ Begins(s, Name(ns, a))
    BY <2>3, ChildOf
  <2>8. /\ Len(Name(ns, b)) = Len(s) + Len(Edge(ns, b)) /\ Len(Edge(ns, b)) > 0
        /\ Edge(ns, b) \in Seq(Nat)
        /\ Edge(ns, b)[1] = Name(ns, b)[i] /\ Begins(s, Name(ns, b))
    BY <2>3, ChildOf
  <2> HIDE DEF s, i
  <2>9. i \in 1 .. Len(Name(ns, a)) /\ i \in 1 .. Len(Name(ns, b))
    BY <2>1, <2>7, <2>8 DEF i
  <2>10. v[i] # w[i]
    BY <2>3, <2>4, <2>5, <2>7, <2>8, <2>9 DEF Begins
  <2>11. Begins(s, v) /\ Begins(s, w)
    BY <2>1, <2>4, <2>5, <2>6, <2>7, <2>8, BeginsTwice
  <2>12. s = commonPrefix(v, w)
    BY <2>1, <2>6, <2>10, <2>11, LongestIs DEF i, commonPrefix
  <2> QED
    BY <2>12 DEF s
<1> QED
  BY <1>1, <1>2, <1>3 DEF Forked

\* Where the names of two nodes part there is a node.
LEMMA PrefixIsNode ==
    ASSUME NEW ns, Linked(ns), NEW a \in DOMAIN ns, NEW b \in DOMAIN ns
    PROVE  \E m \in DOMAIN ns : Name(ns, m) = commonPrefix(Name(ns, a), Name(ns, b))
<1> DEFINE v == Name(ns, a)
           w == Name(ns, b)
           l == commonPrefix(v, w)
           i == Len(l) + 1
           T == {Len(l) - Len(Name(ns, m)) : m \in {k \in DOMAIN ns : Begins(Name(ns, k), l)}}
<1>1. \A k \in DOMAIN ns : Name(ns, k) \in Seq(Nat)
  BY NodeOf DEF Linked
<1>2. v \in Seq(Nat) /\ w \in Seq(Nat)
  BY <1>1
<1> HIDE DEF v, w
<1>3. l \in Seq(Nat) /\ Begins(l, v) /\ Begins(l, w)
  BY <1>2, Longest DEF commonPrefix
<1>4. Len(l) < Len(v) /\ Len(l) < Len(w) => v[i] # w[i]
  <2>1. Len(l) = commonPrefixLen(v, w)
    BY DEF commonPrefixLen
  <2> HIDE DEF l
  <2> QED
    BY <1>2, <2>1, CommonLength
<1> HIDE DEF l, i
<1>5. Root \in DOMAIN ns /\ Begins(Name(ns, Root), l)
  <2>1. Root \in DOMAIN ns /\ Name(ns, Root) = << >>
    BY DEF Linked, Typed, RootEmpty
  <2> QED
    BY <1>3, <2>1 DEF Begins
<1>6. T \in SUBSET Nat /\ T # {}
  <2>1. \A k \in DOMAIN ns : Begins(Name(ns, k), l) => Len(l) - Len(Name(ns, k)) \in Nat
    BY <1>1, <1>3 DEF Begins
  <2> QED
    BY <1>5, <2>1
<1>7. PICK d \in T : \A e \in T : d <= e
  BY <1>6, LeastNumber
<1>8. PICK m \in DOMAIN ns : Begins(Name(ns, m), l) /\ d = Len(l) - Len(Name(ns, m))
  OBVIOUS
<1>9. ASSUME NEW k \in DOMAIN ns, Begins(Name(ns, k), l)
      PROVE  Len(Name(ns, k)) <= Len(Name(ns, m))
  <2>1. Len(l) - Len(Name(ns, m)) <= Len(l) - Len(Name(ns, k))
    BY <1>7, <1>8, <1>9
  <2> QED
    BY <1>1, <1>3, <2>1
<1> DEFINE s == Name(ns, m)
<1>10. s \in Seq(Nat) /\ Begins(s, l)
  BY <1>1, <1>8
<1>11. Begins(s, v) /\ Begins(s, w)
  BY <1>2, <1>3, <1>10, BeginsTwice
<1>12. CASE l = v \/ l = w
  BY <1>12 DEF l, v, w
<1>13. CASE l # v /\ l # w
  <2>1. Len(l) < Len(v) /\ Len(l) < Len(w)
    <3>1. ~(Len(v) <= Len(l)) /\ ~(Len(w) <= Len(l))
      BY <1>2, <1>3, <1>13, BeginsTwice
    <3> QED
      BY <1>2, <1>3, <3>1
  <2>2. SUFFICES ASSUME Len(s) < Len(l) PROVE FALSE
    <3>1. ~(Len(s) < Len(l)) => s = l
      BY <1>3, <1>10, BeginsTwice
    <3> QED
      BY <2>2, <3>1 DEF l, v, w
  <2>3. m # a
    BY <1>2, <1>10, <2>1, <2>2, <1>3 DEF v
  <2>4. PICK k \in DOMAIN ns : IsChild(ns, m, k) /\ Begins(Name(ns, k), v)
    BY <1>11, <2>3 DEF Linked, WayDown, v
  <2>5. /\ k # Root /\ Len(Name(ns, k)) = Len(s) + Len(Edge(ns, k)) /\ Len(Edge(ns, k)) > 0
        /\ Edge(ns, k) \in Seq(Nat) /\ Name(ns, k) \in Seq(Nat)
    BY <1>1, <2>4, ChildOf
  <2>6. PathAt(ns, k) = Len(s) /\ Len(Name(ns, k)) > Len(s)
    BY <1>10, <2>5 DEF PathAt
  <2>7. Len(Name(ns, k)) > Len(l)
    <3>1. ASSUME Len(Name(ns, k)) <= Len(l) PROVE FALSE
      <4>1. Begins(Name(ns, k), l)
        BY <1>2, <1>3, <2>4, <2>5, <3>1, BeginsTwice
      <4>2. Len(Name(ns, k)) <= Len(s)
        BY <1>9, <4>1
      <4> QED
        BY <1>10, <2>5, <2>6, <4>2
    <3> QED
      BY <1>3, <2>5, <3>1
  <2>8. \A j \in 1 .. Len(l) : v[j] = l[j] /\ w[j] = l[j]
    BY <1>3 DEF Begins
  <2>9. \A j \in 1 .. Len(Name(ns, k)) : v[j] = Name(ns, k)[j]
    BY <2>4 DEF Begins
  <2>10. \A j \in 1 .. PathAt(ns, k) + 1 : w[j] = Name(ns, k)[j]
    <3> TAKE j \in 1 .. PathAt(ns, k) + 1
    <3>1. j \in 1 .. Len(l) /\ j \in 1 .. Len(Name(ns, k))
      BY <1>3, <1>10, <2>2, <2>5, <2>6, SMTT(60)
    <3> QED
      BY <2>8, <2>9, <3>1
  <2>11. Len(w) > PathAt(ns, k)
    BY <1>2, <1>3, <1>10, <2>1, <2>2, <2>6
  <2>12. Begins(Name(ns, k), w)
    BY <2>5, <2>10, <2>11, SameWay DEF w
  <2>13. i \in 1 .. Len(Name(ns, k))
    BY <1>3, <2>5, <2>7 DEF i
  <2>14. v[i] = w[i]
    BY <2>9, <2>12, <2>13 DEF Begins
  <2> QED
    BY <1>4, <2>1, <2>14
<1> QED
  BY <1>12, <1>13

\* The invariant implies that every prefix is counted.
LEMMA TreeCounts ==
    ASSUME TreeInv
    PROVE  CountsEveryPrefix
<1> SUFFICES ASSUME pc = "idle"
             PROVE  /\ {nodes[n].fullpath : n \in DOMAIN nodes} = Prefixed
                    /\ Len(nodes) = Cardinality(Prefixed)
                    /\ \A n \in DOMAIN nodes :
                           LET p == nodes[n].fullpath IN
                           /\ nodes[n].end = (p \in Words)
                           /\ nodes[n].totalSize = SizeOf(p)
                           /\ nodes[n].keyCount = Cardinality(Below(p))
  BY Zenon DEF CountsEveryPrefix
<1> DEFINE R == [word : Seq(Nat), size : Sizes]
           Names == {Name(nodes, n) : n \in DOMAIN nodes}
<1>1. /\ TreeTyped /\ Linked(nodes) /\ Ended(nodes, Placed)
      /\ Tallied(nodes, inserted, Passed) /\ \A n \in DOMAIN nodes : Forked(nodes, n)
  BY DEF TreeInv
<1>2. inserted \in Seq(R)
  BY <1>1 DEF TreeTyped
<1>3. \A r \in R : r.word \in Seq(Nat)
  OBVIOUS
<1> HIDE DEF R
<1>4. \A i \in DOMAIN inserted : inserted[i].word \in Seq(Nat)
  BY <1>2, <1>3
<1>5. Words = Placed /\ Words \in SUBSET Seq(Nat)
  BY <1>4 DEF Words, Placed
<1>6. \A n \in DOMAIN nodes : Name(nodes, n) \in Seq(Nat)
  BY <1>1, NodeOf DEF Linked
<1>7. Ended(nodes, Words)
  BY <1>1, <1>5
<1>8. Names = Prefixed
  <2>1. ASSUME NEW n \in DOMAIN nodes PROVE Name(nodes, n) \in Prefixed
    <3>1. \/ Name(nodes, n) = << >> \/ Name(nodes, n) \in Words
          \/ \E v, w \in Words : Name(nodes, n) = commonPrefix(v, w)
      BY <1>1, <1>5, <1>7, NodeIsPrefix
    <3> QED
      BY <3>1 DEF Prefixed
  <2>2. << >> \in Names
    BY <1>1 DEF Linked, Typed, RootEmpty
  <2>3. Words \subseteq Names
    BY <1>7 DEF Ended
  <2>4. ASSUME NEW v \in Words, NEW w \in Words
        PROVE  commonPrefix(v, w) \in Names
    <3>1. PICK a, b \in DOMAIN nodes : Name(nodes, a) = v /\ Name(nodes, b) = w
      BY <2>3
    <3> QED
      BY <1>1, <3>1, PrefixIsNode
  <2>5. Prefixed \subseteq Names
    <3> SUFFICES ASSUME NEW p \in Prefixed PROVE p \in Names
      OBVIOUS
    <3> HIDE DEF Names
    <3>1. \/ p = << >> \/ p \in Words
          \/ \E v, w \in Words : p = commonPrefix(v, w)
      BY DEF Prefixed
    <3> QED
      BY <2>2, <2>3, <2>4, <3>1, Zenon
  <2> QED
    BY <2>1, <2>5
<1>9. Len(nodes) = Cardinality(Names)
  <2>1. nodes \in Seq(Node)
    BY <1>1 DEF Linked, Typed
  <2>2. DOMAIN nodes = 1 .. Len(nodes) /\ Len(nodes) \in Nat
    BY <2>1
  <2>3. IsFiniteSet(DOMAIN nodes) /\ Cardinality(DOMAIN nodes) = Len(nodes)
    <3> DEFINE N == Len(nodes)
    <3>1. N \in Nat /\ DOMAIN nodes = 1 .. N
      BY <2>2
    <3> HIDE DEF N
    <3>2. IsFiniteSet(1 .. N) /\ Cardinality(1 .. N) = IF 1 > N THEN 0 ELSE N - 1 + 1
      BY <3>1, FS_Interval
    <3>3. Cardinality(1 .. N) = N
      BY <3>1, <3>2
    <3> QED
      BY <3>1, <3>2, <3>3 DEF N
  <2> DEFINE f == [n \in DOMAIN nodes |-> Name(nodes, n)]
  <2>4. f \in Bijection(DOMAIN nodes, Names)
    <3>1. \A m, n \in DOMAIN nodes : Name(nodes, m) = Name(nodes, n) => m = n
      BY <1>1, OneName
    <3>2. f \in [DOMAIN nodes -> Names] /\ \A n \in DOMAIN nodes : f[n] = Name(nodes, n)
      OBVIOUS
    <3>3. \A t \in Names : \E n \in DOMAIN nodes : f[n] = t
      BY <3>2
    <3> HIDE DEF f, Names
    <3>4. f \in Surjection(DOMAIN nodes, Names)
      BY <3>2, <3>3 DEF Surjection
    <3>5. f \in Injection(DOMAIN nodes, Names)
      BY <3>1, <3>2 DEF Injection, IsInjective
    <3> QED
      BY <3>4, <3>5 DEF Bijection
  <2>5. ExistsBijection(DOMAIN nodes, Names)
    BY <2>4, Zenon DEF ExistsBijection
  <2> HIDE DEF Names
  <2> QED
    BY <2>3, <2>5, FS_Bijection
<1>10. ASSUME NEW p \in Seq(Nat) PROVE Below(p) = Tally(inserted, p, Passed)
  <2>1. \A i \in DOMAIN inserted : IsPrefix(p, inserted[i].word) <=> Begins(p, inserted[i].word)
    BY <1>4, PrefixBegins
  <2>2. ASSUME NEW i \in DOMAIN inserted, i = Len(inserted), Begins(p, inserted[i].word)
        PROVE  Len(p) <= Passed
    <3>1. Passed = Len(inserted[i].word)
      <4>1. inserted # << >>
        BY <1>2
      <4> QED
        BY <2>2, <4>1 DEF Passed
    <3> QED
      BY <2>2, <3>1 DEF Begins
  <2> QED
    BY <2>1, <2>2 DEF Below, Tally
<1>11. ASSUME NEW n \in DOMAIN nodes
       PROVE  /\ nodes[n].end = (Name(nodes, n) \in Words)
              /\ nodes[n].totalSize = SizeOf(Name(nodes, n))
              /\ nodes[n].keyCount = Cardinality(Below(Name(nodes, n)))
  <2>1. nodes[n].end => Name(nodes, n) \in Words
    BY <1>7 DEF Ended
  <2>2. ASSUME Name(nodes, n) \in Words PROVE nodes[n].end
    <3>1. PICK m \in DOMAIN nodes : Name(nodes, m) = Name(nodes, n) /\ nodes[m].end
      BY <1>7, <2>2 DEF Ended
    <3>2. m = n
      BY <1>1, <3>1, OneName
    <3> QED
      BY <3>1, <3>2
  <2>3. nodes[n].end \in BOOLEAN
    BY <1>1, NodeOf DEF Linked
  <2>4. Below(Name(nodes, n)) = Tally(inserted, Name(nodes, n), Passed)
    BY <1>6, <1>10
  <2>5. /\ nodes[n].totalSize = SizeOf(Name(nodes, n))
        /\ nodes[n].keyCount = Cardinality(Below(Name(nodes, n)))
    BY <1>1, <2>4 DEF Tallied, SizeOf
  <2>6. nodes[n].end = (Name(nodes, n) \in Words)
    BY <2>1, <2>2, <2>3
  <2> QED
    BY <2>5, <2>6
<1>12. Names = {nodes[n].fullpath : n \in DOMAIN nodes}
  BY DEF Name
<1>13. \A n \in DOMAIN nodes : LET p == nodes[n].fullpath IN
           /\ nodes[n].end = (p \in Words)
           /\ nodes[n].totalSize = SizeOf(p)
           /\ nodes[n].keyCount = Cardinality(Below(p))
  BY <1>11, Zenon DEF Name
<1> QED
  BY <1>8, <1>9, <1>12, <1>13

-----------------------------------------------------------------------------

(***************************************************************************)
(* The depth of a node: how many names begin its name, its own included.   *)
(***************************************************************************)
Above(ns, n) == {m \in DOMAIN ns : Begins(Name(ns, m), Name(ns, n))}
Depth(ns, n) == Cardinality(Above(ns, n))

\* A node to print, if the list has room for it.
Shown(ns, n, max) == 2 < Depth(ns, n) /\ Depth(ns, n) <= max

\* The nodes traverse has still to come to: those in the queue and all below.
Pending(ns, q, n) == \E i \in DOMAIN q : Begins(Name(ns, q[i].node), Name(ns, n))
Seen(ns, q) == {n \in DOMAIN ns : ~Pending(ns, q, n)}

(***************************************************************************)
(* The queue of the breadth-first walk holds separate subtrees, each at    *)
(* its depth, the depths in order and no two more than one apart.          *)
(***************************************************************************)
QueueInv(ns, q) ==
    /\ q \in Seq([node : DOMAIN ns, depth : Nat])
    /\ \A i \in DOMAIN q : q[i].depth = Depth(ns, q[i].node)
    /\ \A i, j \in DOMAIN q : Begins(Name(ns, q[i].node), Name(ns, q[j].node)) => i = j
    /\ \A i, j \in DOMAIN q : i < j => q[i].depth <= q[j].depth
    /\ \A j \in DOMAIN q : q[j].depth <= q[1].depth + 1

\* n is in the list, or the list is full of nodes that are not smaller.
Settled(ns, list, cap, n) ==
    \/ \E k \in DOMAIN list : list[k].node = n
    \/ Len(list) = cap /\ \A k \in DOMAIN list : list[k].size >= ns[n].totalSize

(***************************************************************************)
(* The list holds the largest of the nodes the walk has seen.              *)
(***************************************************************************)
ListInv(ns, seen, list, cap, max) ==
    /\ list \in Seq([node : DOMAIN ns, size : Nat])
    /\ Len(list) <= cap
    /\ \A k \in DOMAIN list : /\ list[k].size = ns[list[k].node].totalSize
                              /\ Shown(ns, list[k].node, max)
                              /\ list[k].node \in seen
    /\ \A j, k \in DOMAIN list : j < k => list[j].size >= list[k].size
    /\ \A j, k \in DOMAIN list : list[j].node = list[k].node => j = k
    /\ \A n \in seen : Shown(ns, n, max) => Settled(ns, list, cap, n)

\* The row of a node.
RowOf(nd) ==
    [db |-> parseNodeKey(nd.fullpath).db, prefix |-> parseNodeKey(nd.fullpath).key,
     size |-> nd.totalSize, keyCount |-> nd.keyCount]

RowsInv ==
    /\ DOMAIN rows = 1 .. Len(rows) /\ Len(rows) \in Nat
    /\ Len(rows) <= Len(toplist)
    /\ \A i \in DOMAIN rows :
           /\ HasDatabase(nodes[toplist[i].node].fullpath)
           /\ rows[i] = RowOf(nodes[toplist[i].node])

\* Every word inserted comes from genKey.
WordsAreKeys == \A i \in DOMAIN inserted : \E o \in Objects : inserted[i].word = genKey(o[1], o[2])

Phases == {"start", "parse", "traverse", "print", "done", "refused", "panic"}

ReportInv ==
    /\ phase \in Phases /\ topN \in Int /\ maxDepth \in Int
    /\ phase \notin {"start", "refused"} => topN > 0
    /\ phase # "parse" => pc = "idle"
    /\ phase \in {"start", "parse", "refused"} =>
           queue = << >> /\ toplist = << >> /\ rows = << >>
    /\ phase \in {"print", "done", "panic"} => queue = << >>
    /\ phase = "traverse" => rows = << >>
    /\ phase \in {"traverse", "print", "done", "panic"} =>
           /\ QueueInv(nodes, queue)
           /\ ListInv(nodes, Seen(nodes, queue), toplist, topN, maxDepth)
    /\ RowsInv
    /\ phase = "done" => Len(rows) = Len(toplist)

(***************************************************************************)
(* The inductive invariant of the analysis.                                *)
(***************************************************************************)
IInv == TreeInv /\ WordsAreKeys /\ ReportInv

\* Every action of the analysis is a step of insert or leaves the tree alone.
LEMMA TreeStep ==
    ASSUME TreeInv, [Next]_vars
    PROVE  TreeInv'
<1>1. CASE InsertStep
  <2>1. Walk
    BY <1>1 DEF InsertStep
  <2> QED
    BY <2>1, EndAtNodeInv, DescendInv, AddChildInv DEF Walk
<1>2. CASE \E o \in Objects, sz \in Sizes : ParseObject(o, sz)
  BY <1>2, InsertInv DEF ParseObject
<1>3. CASE \/ Start \/ ParseReturns \/ StopTraversal \/ SkipNode \/ ListNode
           \/ TraversalEnds \/ PrintRow \/ Panic \/ Finish \/ UNCHANGED vars
  <2>1. UNCHANGED treeVars
    BY <1>3, Zenon DEF Start, ParseReturns, StopTraversal, SkipNode, ListNode, TraversalEnds,
                PrintRow, Panic, Finish, vars
  <2> QED
    BY <2>1, SameTree
<1> QED
  BY <1>1, <1>2, <1>3 DEF Next

\* What QueueInv and ListInv count with: the sets of Depth are finite.
LEMMA AboveFinite ==
    ASSUME NEW ns, Typed(ns), NEW n
    PROVE  IsFiniteSet(Above(ns, n)) /\ Depth(ns, n) \in Nat
<1>1. DOMAIN ns = 1 .. Len(ns) /\ Len(ns) \in Nat
  BY DEF Typed
<1>2. IsFiniteSet(DOMAIN ns)
  <2> DEFINE l == Len(ns)
  <2>1. l \in Int /\ DOMAIN ns = 1 .. l
    BY <1>1
  <2> HIDE DEF l
  <2> QED
    BY <2>1, FS_Interval
<1>3. Above(ns, n) \subseteq DOMAIN ns
  BY DEF Above
<1>4. IsFiniteSet(Above(ns, n))
  BY <1>2, <1>3, FS_Subset
<1> QED
  BY <1>4, FS_CardinalityType DEF Depth

\* The root is at depth 1.
LEMMA RootDepth ==
    ASSUME NEW ns, Linked(ns)
    PROVE  Depth(ns, Root) = 1
<1>1. Typed(ns) /\ Root \in DOMAIN ns /\ Name(ns, Root) = << >>
  BY DEF Linked, Typed, RootEmpty
<1>2. ASSUME NEW m \in Above(ns, Root) PROVE m = Root
  <2>1. m \in DOMAIN ns /\ Begins(Name(ns, m), Name(ns, Root))
    BY DEF Above
  <2>2. Name(ns, m) \in Seq(Nat) /\ Name(ns, Root) \in Seq(Nat)
    BY <1>1, <2>1, NodeOf
  <2>3. Len(Name(ns, Root)) <= Len(Name(ns, m))
    BY <1>1, <2>2
  <2>4. Name(ns, m) = Name(ns, Root)
    BY <2>1, <2>2, <2>3, BeginsTwice
  <2> QED
    BY <1>1, <2>1, <2>4, OneName
<1>3. Root \in Above(ns, Root)
  <2>1. Name(ns, Root) \in Seq(Nat)
    BY <1>1, NodeOf
  <2> QED
    BY <1>1, <2>1, BeginsTwice DEF Above
<1>4. Above(ns, Root) = {Root}
  BY <1>2, <1>3
<1> QED
  BY <1>4, FS_Singleton DEF Depth

\* What begins the name of a child begins that of the parent, or is the child's.
LEMMA AboveChild ==
    ASSUME NEW ns, Linked(ns), NEW m \in DOMAIN ns, NEW k \in DOMAIN ns, IsChild(ns, m, k),
           NEW q \in DOMAIN ns, Begins(Name(ns, q), Name(ns, k))
    PROVE  q = k \/ Begins(Name(ns, q), Name(ns, m))
<1>1. Typed(ns) /\ k # Root
  BY ChildOf DEF Linked
<1>2. Name(ns, q) \in Seq(Nat) /\ Name(ns, k) \in Seq(Nat) /\ Name(ns, m) \in Seq(Nat)
  BY <1>1, NodeOf
<1>3. /\ Begins(Name(ns, m), Name(ns, k)) /\ Edge(ns, k) \in Seq(Nat)
      /\ Len(Name(ns, k)) = Len(Name(ns, m)) + Len(Edge(ns, k))
  BY ChildOf
<1>4. PathAt(ns, k) = Len(Name(ns, m))
  BY <1>2, <1>3 DEF PathAt
<1>5. CASE Len(Name(ns, q)) > PathAt(ns, k)
  <2>1. Begins(Name(ns, q), Name(ns, q))
    BY <1>2, BeginsTwice
  <2>2. Begins(Name(ns, k), Name(ns, q))
    BY <1>1, <1>2, <1>5, <2>1, NoneHalfWay
  <2>3. Len(Name(ns, k)) <= Len(Name(ns, q))
    BY <2>2 DEF Begins
  <2>4. Name(ns, q) = Name(ns, k)
    BY <1>2, <2>3, BeginsTwice
  <2> QED
    BY <2>4, OneName
<1>6. CASE Len(Name(ns, q)) <= Len(Name(ns, m))
  BY <1>2, <1>3, <1>6, BeginsTwice
<1> QED
  BY <1>2, <1>4, <1>5, <1>6

\* The walk of traverse (radix.go:108-111) gives a child its depth.
LEMMA ChildDepth ==
    ASSUME NEW ns, Linked(ns), NEW m \in DOMAIN ns, NEW k \in DOMAIN ns, IsChild(ns, m, k)
    PROVE  Depth(ns, k) = Depth(ns, m) + 1
<1>1. Typed(ns)
  BY DEF Linked
<1>2. Name(ns, k) \in Seq(Nat) /\ Name(ns, m) \in Seq(Nat)
  BY <1>1, NodeOf
<1>3. /\ Begins(Name(ns, m), Name(ns, k)) /\ Edge(ns, k) \in Seq(Nat)
      /\ Len(Name(ns, k)) = Len(Name(ns, m)) + Len(Edge(ns, k)) /\ Len(Edge(ns, k)) > 0
  BY ChildOf
<1>4. k \notin Above(ns, m)
  BY <1>2, <1>3 DEF Above, Begins
<1>5. ASSUME NEW q \in Above(ns, m) PROVE q \in Above(ns, k)
  <2>1. q \in DOMAIN ns /\ Begins(Name(ns, q), Name(ns, m))
    BY DEF Above
  <2>2. Name(ns, q) \in Seq(Nat)
    BY <1>1, <2>1, NodeOf
  <2>3. Begins(Name(ns, q), Name(ns, k))
    BY <1>2, <1>3, <2>1, <2>2, BeginsTwice
  <2> QED
    BY <2>1, <2>3 DEF Above
<1>6. k \in Above(ns, k)
  BY <1>2, BeginsTwice DEF Above
<1>7. ASSUME NEW q \in Above(ns, k) PROVE q \in Above(ns, m) \cup {k}
  <2>1. q \in DOMAIN ns /\ Begins(Name(ns, q), Name(ns, k))
    BY DEF Above
  <2> QED
    BY <2>1, AboveChild DEF Above
<1>8. Above(ns, k) = Above(ns, m) \cup {k}
  BY <1>5, <1>6, <1>7
<1>9. IsFiniteSet(Above(ns, m)) /\ Depth(ns, m) \in Nat
  BY <1>1, AboveFinite
<1> QED
  BY <1>4, <1>8, <1>9, FS_AddElement DEF Depth

\* What is below a node is at least as deep.
LEMMA BelowDeeper ==
    ASSUME NEW ns, Linked(ns), NEW m \in DOMAIN ns, NEW n \in DOMAIN ns,
           Begins(Name(ns, m), Name(ns, n))
    PROVE  Depth(ns, m) <= Depth(ns, n)
<1>1. Typed(ns)
  BY DEF Linked
<1>2. Name(ns, n) \in Seq(Nat) /\ Name(ns, m) \in Seq(Nat)
  BY <1>1, NodeOf
<1>3. ASSUME NEW q \in Above(ns, m) PROVE q \in Above(ns, n)
  <2>1. q \in DOMAIN ns /\ Begins(Name(ns, q), Name(ns, m))
    BY DEF Above
  <2>2. Name(ns, q) \in Seq(Nat)
    BY <1>1, <2>1, NodeOf
  <2>3. Begins(Name(ns, q), Name(ns, n))
    BY <1>2, <2>1, <2>2, BeginsTwice
  <2> QED
    BY <2>1, <2>3 DEF Above
<1>4. Above(ns, m) \subseteq Above(ns, n)
  BY <1>3
<1>5. IsFiniteSet(Above(ns, n))
  BY <1>1, AboveFinite
<1> QED
  BY <1>4, <1>5, FS_Subset DEF Depth

(***************************************************************************)
(* The queue once its first node was visited (radix.go:102-111): what was  *)
(* behind it, then its children.                                           *)
(***************************************************************************)
KidsOf(ns, v) ==
    [c \in DOMAIN Kids(ns, v.node) |-> [node |-> Kids(ns, v.node)[c], depth |-> v.depth + 1]]
After(ns, q) == Tail(q) \o KidsOf(ns, q[1])

IsAfter(z, ns, q) ==
    LET t == Len(q) - 1
        v == q[1]
    IN
    /\ t \in Nat /\ v.node \in DOMAIN ns /\ v.depth \in Nat
    /\ z \in Seq([node : DOMAIN ns, depth : Nat])
    /\ DOMAIN z = 1 .. Len(z) /\ Len(z) = t + Len(Kids(ns, v.node))
    /\ Len(Kids(ns, v.node)) \in Nat /\ DOMAIN Kids(ns, v.node) = 1 .. Len(Kids(ns, v.node))
    /\ \A i \in 1 .. t : z[i] = q[i + 1]
    /\ \A c \in 1 .. Len(Kids(ns, v.node)) :
           z[t + c].node = Kids(ns, v.node)[c] /\ z[t + c].depth = v.depth + 1

\* The new queue, place by place.
LEMMA AfterVisit ==
    ASSUME NEW ns, Linked(ns), NEW q, QueueInv(ns, q), q # << >>
    PROVE  IsAfter(After(ns, q), ns, q)
<1> DEFINE E == [node : DOMAIN ns, depth : Nat]
           v == q[1]
           kids == Kids(ns, v.node)
           f == KidsOf(ns, v)
           u == Tail(q)
           z == u \o f
<1>1. q \in Seq(E) /\ Len(q) \in Nat /\ Len(q) > 0
  BY DEF QueueInv
<1>2. v \in E /\ v.node \in DOMAIN ns /\ v.depth \in Nat
  <2>1. \A e \in E : e.node \in DOMAIN ns /\ e.depth \in Nat
    OBVIOUS
  <2> HIDE DEF E
  <2>2. q[1] \in E
    BY <1>1
  <2> QED
    BY <2>1, <2>2
<1>3. kids \in Seq(Nat) /\ DOMAIN kids = 1 .. Len(kids) /\ Len(kids) \in Nat
  BY <1>2, NodeOf DEF Linked
<1>4. \A c \in DOMAIN kids : kids[c] \in DOMAIN ns
  BY <1>2 DEF Linked, ChildrenAreNodes
<1>5. /\ f \in Seq(E) /\ Len(f) = Len(kids)
      /\ \A c \in 1 .. Len(kids) : f[c] = [node |-> kids[c], depth |-> v.depth + 1]
  <2> HIDE DEF v, kids
  <2>1. f = [c \in 1 .. Len(kids) |-> [node |-> kids[c], depth |-> v.depth + 1]]
    BY <1>3 DEF KidsOf, v, kids
  <2>2. \A c \in 1 .. Len(kids) : [node |-> kids[c], depth |-> v.depth + 1] \in E
    BY <1>2, <1>3, <1>4
  <2> HIDE DEF f, E
  <2>3. f \in [1 .. Len(kids) -> E]
    BY <2>1, <2>2
  <2> QED
    BY ONLY <1>3, <2>1, <2>3
<1>6. /\ u \in Seq(E) /\ Len(u) = Len(q) - 1
      /\ \A i \in 1 .. Len(q) - 1 : u[i] = q[i + 1]
  <2> HIDE DEF E
  <2> QED
    BY <1>1
<1> HIDE DEF E, f, u
<1>7. /\ z \in Seq(E) /\ Len(z) = Len(u) + Len(f)
      /\ \A i \in 1 .. Len(u) : z[i] = u[i]
      /\ \A c \in 1 .. Len(f) : z[Len(u) + c] = f[c]
  <2>1. u \in Seq(E) /\ f \in Seq(E)
    BY <1>5, <1>6
  <2> QED
    BY <2>1, ConcatProperties, SMTT(60)
<1> HIDE DEF z, v, kids
<1>8. /\ Len(z) = Len(q) - 1 + Len(kids) /\ DOMAIN z = 1 .. Len(z)
      /\ \A i \in 1 .. Len(q) - 1 : z[i] = q[i + 1]
      /\ \A c \in 1 .. Len(kids) : z[Len(q) - 1 + c] = [node |-> kids[c], depth |-> v.depth + 1]
  <2> DEFINE t == Len(q) - 1
             l == Len(kids)
  <2>1. t \in Nat /\ l \in Nat /\ Len(u) = t /\ Len(f) = l
    BY <1>1, <1>3, <1>5, <1>6
  <2>2. /\ \A i \in 1 .. t : u[i] = q[i + 1]
        /\ \A c \in 1 .. l : f[c] = [node |-> kids[c], depth |-> v.depth + 1]
    BY <1>5, <1>6
  <2> HIDE DEF t, l
  <2>3. /\ Len(z) = t + l /\ DOMAIN z = 1 .. Len(z)
        /\ \A i \in 1 .. t : z[i] = q[i + 1]
        /\ \A c \in 1 .. l : z[t + c] = [node |-> kids[c], depth |-> v.depth + 1]
    BY <1>7, <2>1, <2>2
  <2> QED
    BY <2>3 DEF t, l
<1>9. Len(q) - 1 \in Nat
  BY <1>1
<1>10. ASSUME NEW c \in 1 .. Len(kids)
       PROVE  z[Len(q) - 1 + c].node = kids[c] /\ z[Len(q) - 1 + c].depth = v.depth + 1
  <2>1. z[Len(q) - 1 + c] = [node |-> kids[c], depth |-> v.depth + 1]
    BY <1>8
  <2> QED
    BY <2>1
<1>11. After(ns, q) = z
  BY DEF After, z, u, f, v
<1> QED
  BY <1>2, <1>3, <1>7, <1>8, <1>9, <1>10, <1>11 DEF IsAfter, E, v, kids

\* Which nodes the walk has still to come to.
LEMMA PendingAfter ==
    ASSUME NEW ns, Linked(ns), NEW q, QueueInv(ns, q), q # << >>, NEW n \in DOMAIN ns
    PROVE  Pending(ns, After(ns, q), n) <=> Pending(ns, q, n) /\ n # q[1].node
<1> DEFINE z == After(ns, q)
           t == Len(q) - 1
           v == q[1].node
           kids == Kids(ns, v)
<1>1. IsAfter(z, ns, q)
  BY AfterVisit
<1>2. /\ t \in Nat /\ v \in DOMAIN ns
      /\ DOMAIN z = 1 .. t + Len(kids) /\ Len(kids) \in Nat /\ DOMAIN kids = 1 .. Len(kids)
      /\ \A i \in 1 .. t : z[i] = q[i + 1]
      /\ \A c \in 1 .. Len(kids) : z[t + c].node = kids[c]
  BY <1>1 DEF IsAfter
<1>3. /\ DOMAIN q = 1 .. t + 1
      /\ \A i \in DOMAIN q : q[i].node \in DOMAIN ns
      /\ \A i, j \in DOMAIN q : Begins(Name(ns, q[i].node), Name(ns, q[j].node)) => i = j
  <2> DEFINE E == [node : DOMAIN ns, depth : Nat]
  <2>1. q \in Seq(E)
    BY DEF QueueInv
  <2>2. \A e \in E : e.node \in DOMAIN ns
    OBVIOUS
  <2> HIDE DEF E
  <2>3. Len(q) \in Nat /\ DOMAIN q = 1 .. Len(q)
    BY <2>1
  <2>4. Len(q) = t + 1
    BY <2>3
  <2>5. \A i \in DOMAIN q : q[i] \in E
    BY <2>1
  <2> HIDE DEF t
  <2> QED
    BY <2>2, <2>3, <2>4, <2>5 DEF QueueInv
<1>4. \A c \in 1 .. Len(kids) : kids[c] \in DOMAIN ns /\ IsChild(ns, v, kids[c])
  BY <1>2 DEF Linked, ChildrenAreNodes, IsChild
<1>5. Typed(ns)
  BY DEF Linked
<1>6. \A m \in DOMAIN ns : Name(ns, m) \in Seq(Nat)
  BY <1>5, NodeOf
<1> HIDE DEF z, t, v, kids
<1>7. ASSUME NEW i \in DOMAIN z, Begins(Name(ns, z[i].node), Name(ns, n))
      PROVE  Pending(ns, q, n) /\ n # v
  <2>1. CASE i \in 1 .. t
    <3>1. i + 1 \in DOMAIN q /\ 1 \in DOMAIN q /\ i + 1 # 1 /\ z[i] = q[i + 1]
      BY <1>2, <1>3, <2>1
    <3>2. n # v
      BY <1>3, <1>7, <3>1 DEF v
    <3> QED
      BY <1>7, <3>1, <3>2 DEF Pending
  <2>2. CASE i \notin 1 .. t
    <3>1. PICK c \in 1 .. Len(kids) : i = t + c
      <4>1. i - t \in 1 .. Len(kids) /\ i = t + (i - t)
        BY <1>2, <2>2
      <4> QED
        BY <4>1
    <3> DEFINE k == kids[c]
    <3>2. z[i].node = k /\ k \in DOMAIN ns /\ IsChild(ns, v, k)
      BY <1>2, <1>4, <3>1
    <3> HIDE DEF k
    <3>3. /\ Begins(Name(ns, v), Name(ns, k)) /\ Len(Edge(ns, k)) > 0 /\ Edge(ns, k) \in Seq(Nat)
          /\ Len(Name(ns, k)) = Len(Name(ns, v)) + Len(Edge(ns, k))
      BY <1>2, <3>2, ChildOf
    <3>4. Begins(Name(ns, k), Name(ns, n))
      BY <1>7, <3>2
    <3>5. Begins(Name(ns, v), Name(ns, n))
      BY <1>2, <1>6, <3>2, <3>3, <3>4, BeginsTwice
    <3>6. Len(Name(ns, n)) > Len(Name(ns, v))
      BY <1>2, <1>6, <3>2, <3>3, <3>4 DEF Begins
    <3>7. n # v
      BY <1>6, <3>6
    <3>8. 1 \in DOMAIN q
      BY <1>2, <1>3
    <3> QED
      BY <3>5, <3>7, <3>8 DEF Pending, v
  <2> QED
    BY <2>1, <2>2
<1>8. ASSUME NEW j \in DOMAIN q, Begins(Name(ns, q[j].node), Name(ns, n)), n # v
      PROVE  Pending(ns, z, n)
  <2>1. CASE j # 1
    <3>1. j - 1 \in 1 .. t /\ j - 1 \in DOMAIN z /\ z[j - 1] = q[j]
      <4>1. j - 1 \in 1 .. t /\ (j - 1) + 1 = j
        BY <1>2, <1>3, <2>1
      <4> QED
        BY <1>2, <4>1
    <3> QED
      BY <1>8, <3>1 DEF Pending
  <2>2. CASE j = 1
    <3>1. Begins(Name(ns, v), Name(ns, n))
      BY <1>8, <2>2 DEF v
    <3>2. PICK k \in DOMAIN ns : IsChild(ns, v, k) /\ Begins(Name(ns, k), Name(ns, n))
      BY <1>2, <1>8, <3>1 DEF Linked, WayDown
    <3>3. PICK c \in DOMAIN kids : kids[c] = k
      BY <3>2 DEF IsChild, kids
    <3>4. t + c \in DOMAIN z /\ z[t + c].node = k
      BY <1>2, <3>3
    <3> QED
      BY <3>2, <3>4 DEF Pending
  <2> QED
    BY <2>1, <2>2
<1> QED
  BY <1>7, <1>8 DEF Pending, z, v

\* The queue, entry by entry.
LEMMA QueueOf ==
    ASSUME NEW ns, NEW q, QueueInv(ns, q)
    PROVE  /\ Len(q) \in Nat /\ DOMAIN q = 1 .. Len(q)
           /\ \A i \in DOMAIN q : q[i].node \in DOMAIN ns /\ q[i].depth \in Nat
<1> DEFINE E == [node : DOMAIN ns, depth : Nat]
<1>1. q \in Seq(E)
  BY DEF QueueInv
<1>2. \A e \in E : e.node \in DOMAIN ns /\ e.depth \in Nat
  OBVIOUS
<1> HIDE DEF E
<1>3. \A i \in DOMAIN q : q[i] \in E
  BY <1>1
<1> QED
  BY <1>1, <1>2, <1>3

\* Two children of a node have separate subtrees.
LEMMA ChildrenApart ==
    ASSUME NEW ns, Linked(ns), NEW m \in DOMAIN ns,
           NEW c \in DOMAIN Kids(ns, m), NEW d \in DOMAIN Kids(ns, m),
           Begins(Name(ns, Kids(ns, m)[c]), Name(ns, Kids(ns, m)[d]))
    PROVE  c = d
<1> DEFINE k == Kids(ns, m)[c]
           l == Kids(ns, m)[d]
<1>1. /\ k \in DOMAIN ns /\ IsChild(ns, m, k) /\ l \in DOMAIN ns /\ IsChild(ns, m, l)
  BY DEF Linked, ChildrenAreNodes, IsChild
<1>2. /\ Name(ns, k) \in Seq(Nat) /\ Name(ns, l) \in Seq(Nat) /\ Name(ns, m) \in Seq(Nat)
  BY <1>1, NodeOf DEF Linked
<1>3. Begins(Name(ns, k), Name(ns, l))
  OBVIOUS
<1>4. Edge(ns, k)[1] = Edge(ns, l)[1] => c = d
  BY DEF Linked, SiblingsDiffer
<1> HIDE DEF k, l
<1>5. /\ Edge(ns, k)[1] = Name(ns, k)[Len(Name(ns, m)) + 1]
      /\ Edge(ns, l)[1] = Name(ns, l)[Len(Name(ns, m)) + 1]
      /\ Len(Name(ns, k)) = Len(Name(ns, m)) + Len(Edge(ns, k))
      /\ Len(Edge(ns, k)) > 0 /\ Edge(ns, k) \in Seq(Nat)
  BY <1>1, ChildOf
<1>6. Len(Name(ns, m)) + 1 \in 1 .. Len(Name(ns, k))
  BY ONLY <1>2, <1>5, SMTT(20)
<1>7. Name(ns, k)[Len(Name(ns, m)) + 1] = Name(ns, l)[Len(Name(ns, m)) + 1]
  BY <1>3, <1>6 DEF Begins
<1> QED
  BY <1>4, <1>5, <1>7

\* A visit keeps the queue in order and its subtrees separate.
LEMMA QueueAfter ==
    ASSUME NEW ns, Linked(ns), NEW q, QueueInv(ns, q), q # << >>
    PROVE  QueueInv(ns, After(ns, q))
<1> DEFINE z == After(ns, q)
           t == Len(q) - 1
           v == q[1].node
           d == q[1].depth
           kids == Kids(ns, v)
           l == Len(kids)
<1>1. IsAfter(z, ns, q)
  BY AfterVisit
<1>2. /\ t \in Nat /\ v \in DOMAIN ns /\ d \in Nat
      /\ z \in Seq([node : DOMAIN ns, depth : Nat])
      /\ DOMAIN z = 1 .. t + l /\ l \in Nat /\ DOMAIN kids = 1 .. l
      /\ \A i \in 1 .. t : z[i] = q[i + 1]
      /\ \A c \in 1 .. l : z[t + c].node = kids[c] /\ z[t + c].depth = d + 1
  BY <1>1 DEF IsAfter
<1>3. /\ DOMAIN q = 1 .. t + 1
      /\ \A i \in DOMAIN q : q[i].node \in DOMAIN ns /\ q[i].depth \in Nat
  <2>1. Len(q) \in Nat /\ DOMAIN q = 1 .. Len(q)
    BY QueueOf
  <2>2. Len(q) = t + 1
    BY <2>1
  <2> HIDE DEF t
  <2> QED
    BY <2>1, <2>2, QueueOf
<1>4. /\ \A i \in DOMAIN q : q[i].depth = Depth(ns, q[i].node)
      /\ \A i, j \in DOMAIN q : Begins(Name(ns, q[i].node), Name(ns, q[j].node)) => i = j
      /\ \A i, j \in DOMAIN q : i < j => q[i].depth <= q[j].depth
      /\ \A j \in DOMAIN q : q[j].depth <= d + 1
  BY DEF QueueInv
<1>5. \A c \in 1 .. l : kids[c] \in DOMAIN ns /\ IsChild(ns, v, kids[c])
  BY <1>2 DEF Linked, ChildrenAreNodes, IsChild
<1>6. \A c, e \in 1 .. l : Begins(Name(ns, kids[c]), Name(ns, kids[e])) => c = e
  BY <1>2, ChildrenApart
<1>7. Typed(ns)
  BY DEF Linked
<1>8. \A m \in DOMAIN ns : Name(ns, m) \in Seq(Nat)
  BY <1>7, NodeOf
<1>9. d = Depth(ns, v)
  BY <1>3, <1>2, <1>4
<1> HIDE DEF z, t, v, d, kids, l
\* Every place is one of those two kinds.
<1>10. \A i \in DOMAIN z : i \in 1 .. t \/ \E c \in 1 .. l : i = t + c
  <2> SUFFICES ASSUME NEW i \in DOMAIN z, i \notin 1 .. t PROVE \E c \in 1 .. l : i = t + c
    OBVIOUS
  <2>1. i - t \in 1 .. l /\ i = t + (i - t)
    BY <1>2
  <2> QED
    BY <2>1
<1>11. \A i \in 1 .. t : i + 1 \in DOMAIN q /\ i + 1 # 1
  BY <1>2, <1>3
<1>12. 1 \in DOMAIN q /\ q[1].node = v /\ q[1].depth = d
  BY <1>2, <1>3 DEF v, d
<1>13. ASSUME NEW i \in DOMAIN z PROVE z[i].depth = Depth(ns, z[i].node)
  <2>1. CASE i \in 1 .. t
    BY <1>2, <1>4, <1>11, <2>1
  <2>2. ASSUME NEW c \in 1 .. l, i = t + c PROVE z[i].depth = Depth(ns, z[i].node)
    <3>1. z[i].node = kids[c] /\ z[i].depth = d + 1
      BY <1>2, <2>2
    <3>2. Depth(ns, kids[c]) = Depth(ns, v) + 1
      BY <1>2, <1>5, ChildDepth
    <3> QED
      BY <1>9, <3>1, <3>2
  <2> QED
    BY <1>10, <2>1, <2>2
<1>14. ASSUME NEW i \in DOMAIN z
       PROVE  z[i].depth \in Nat /\ d <= z[i].depth /\ z[i].depth <= d + 1
  <2>1. CASE i \in 1 .. t
    <3>1. z[i] = q[i + 1] /\ i + 1 \in DOMAIN q /\ 1 < i + 1
      BY <1>2, <1>11, <2>1
    <3> QED
      BY <1>3, <1>4, <1>12, <3>1
  <2>2. ASSUME NEW c \in 1 .. l, i = t + c PROVE z[i].depth = d + 1
    BY <1>2, <2>2
  <2> QED
    BY <1>2, <1>10, <2>1, <2>2
<1>15. ASSUME NEW i \in DOMAIN z, NEW j \in DOMAIN z, i < j PROVE z[i].depth <= z[j].depth
  <2>1. CASE j \in 1 .. t
    <3>1. i \in 1 .. t /\ z[i] = q[i + 1] /\ z[j] = q[j + 1] /\ i + 1 < j + 1
      BY ONLY <1>2, <1>15, <2>1, SMTT(20)
    <3> QED
      BY <1>4, <1>11, <2>1, <3>1
  <2>2. ASSUME NEW c \in 1 .. l, j = t + c PROVE z[i].depth <= z[j].depth
    <3>1. z[j].depth = d + 1
      BY <1>2, <2>2
    <3> QED
      BY <1>14, <3>1
  <2> QED
    BY <1>10, <2>1, <2>2
<1>16. ASSUME NEW j \in DOMAIN z PROVE z[j].depth <= z[1].depth + 1
  <2>1. 1 \in DOMAIN z
    BY <1>2
  <2>2. z[1].depth \in Nat /\ d <= z[1].depth
    BY <1>14, <2>1
  <2>3. z[j].depth \in Nat /\ z[j].depth <= d + 1
    BY <1>14
  <2>4. d \in Nat
    BY <1>2
  <2> QED
    BY ONLY <2>2, <2>3, <2>4
<1>17. ASSUME NEW i \in DOMAIN z, NEW j \in DOMAIN z,
             Begins(Name(ns, z[i].node), Name(ns, z[j].node))
       PROVE  i = j
  <2>1. CASE i \in 1 .. t /\ j \in 1 .. t
    <3>1. i + 1 = j + 1
      BY <1>2, <1>4, <1>11, <1>17, <2>1
    <3> QED
      BY <1>2, <2>1, <3>1
  <2>2. ASSUME NEW c \in 1 .. l, j = t + c, i \in 1 .. t PROVE FALSE
    <3> DEFINE k == kids[c]
               p == q[i + 1].node
    <3>1. k \in DOMAIN ns /\ IsChild(ns, v, k) /\ p \in DOMAIN ns
      BY <1>3, <1>5, <1>11, <2>2
    <3>2. Begins(Name(ns, p), Name(ns, k))
      BY <1>2, <1>17, <2>2
    <3>3. ~Begins(Name(ns, p), Name(ns, v))
      BY <1>4, <1>11, <1>12, <2>2
    <3>4. ~Begins(Name(ns, v), Name(ns, p))
      BY <1>4, <1>11, <1>12, <2>2
    <3> HIDE DEF k, p
    <3>5. p = k
      BY <1>2, <3>1, <3>2, <3>3, AboveChild
    <3>6. Begins(Name(ns, v), Name(ns, k))
      BY <1>2, <3>1, ChildOf
    <3> QED
      BY <3>4, <3>5, <3>6
  <2>3. ASSUME NEW c \in 1 .. l, i = t + c, j \in 1 .. t PROVE FALSE
    <3> DEFINE k == kids[c]
               p == q[j + 1].node
    <3>1. k \in DOMAIN ns /\ IsChild(ns, v, k) /\ p \in DOMAIN ns
      BY <1>3, <1>5, <1>11, <2>3
    <3>2. Begins(Name(ns, k), Name(ns, p))
      BY <1>2, <1>17, <2>3
    <3>3. ~Begins(Name(ns, v), Name(ns, p))
      BY <1>4, <1>11, <1>12, <2>3
    <3> HIDE DEF k, p
    <3>4. Begins(Name(ns, v), Name(ns, k))
      BY <1>2, <3>1, ChildOf
    <3> QED
      BY <1>2, <1>8, <3>1, <3>2, <3>3, <3>4, BeginsTwice
  <2>4. ASSUME NEW c \in 1 .. l, i = t + c, NEW e \in 1 .. l, j = t + e PROVE i = j
    <3>1. Begins(Name(ns, kids[c]), Name(ns, kids[e]))
      BY <1>2, <1>17, <2>4
    <3> QED
      BY <1>6, <2>4, <3>1
  <2> QED
    BY <1>10, <2>1, <2>2, <2>3, <2>4
<1>18. QueueInv(ns, z)
  BY <1>2, <1>13, <1>15, <1>16, <1>17 DEF QueueInv
<1> QED
  BY <1>18 DEF z

\* The node visited is seen from then on, and no other.
LEMMA SeenAfter ==
    ASSUME NEW ns, Linked(ns), NEW q, QueueInv(ns, q), q # << >>
    PROVE  /\ Seen(ns, After(ns, q)) = Seen(ns, q) \cup {q[1].node}
           /\ q[1].node \in DOMAIN ns /\ q[1].node \notin Seen(ns, q)
<1>1. 1 \in DOMAIN q /\ q[1].node \in DOMAIN ns
  BY QueueOf
<1>2. Name(ns, q[1].node) \in Seq(Nat)
  BY <1>1, NodeOf DEF Linked
<1>3. Pending(ns, q, q[1].node)
  BY <1>1, <1>2, BeginsTwice DEF Pending
<1>4. \A n \in DOMAIN ns : Pending(ns, After(ns, q), n) <=> Pending(ns, q, n) /\ n # q[1].node
  BY PendingAfter
<1> QED
  BY <1>1, <1>3, <1>4 DEF Seen

(***************************************************************************)
(* What add (toplist.go:16-26) does to the entries: x and those before its *)
(* place stay where they are, those from its place on move up, and at most *)
(* the last one falls off.                                                 *)
(***************************************************************************)
IsAdded(new, lst, i, x, capacity) ==
    /\ Len(new) = IF Len(lst) < capacity THEN Len(lst) + 1 ELSE capacity
    /\ DOMAIN new = 1 .. Len(new)
    /\ \A k \in DOMAIN new : /\ k < i => new[k] = lst[k]
                             /\ k = i => new[k] = x
                             /\ k > i => new[k] = lst[k - 1]

\* The list after an add.
LEMMA AddedAt ==
    ASSUME NEW S, NEW lst \in Seq(S), NEW i \in 1 .. Len(lst) + 1, NEW x \in S,
           NEW capacity \in Nat, Len(lst) <= capacity
    PROVE  /\ AddAt(lst, i, x, capacity) \in Seq(S)
           /\ IsAdded(AddAt(lst, i, x, capacity), lst, i, x, capacity)
<1> DEFINE n == IF Len(lst) < capacity THEN Len(lst) + 1 ELSE capacity
           new == AddAt(lst, i, x, capacity)
<1>1. n \in Nat /\ n <= Len(lst) + 1
  OBVIOUS
<1>2. new = [k \in 1 .. n |-> CASE k < i -> lst[k] [] k = i -> x [] k > i -> lst[k - 1]]
  BY DEF AddAt
<1>3. \A k \in 1 .. n : (CASE k < i -> lst[k] [] k = i -> x [] k > i -> lst[k - 1]) \in S
  BY <1>1
<1>4. new \in [1 .. n -> S]
  BY <1>2, <1>3
<1>5. new \in Seq(S) /\ Len(new) = n /\ DOMAIN new = 1 .. n
  BY <1>1, <1>4
<1>6. ASSUME NEW k \in 1 .. n
      PROVE  /\ k < i => new[k] = lst[k]
             /\ k = i => new[k] = x
             /\ k > i => new[k] = lst[k - 1]
  <2>1. new[k] = CASE k < i -> lst[k] [] k = i -> x [] k > i -> lst[k - 1]
    BY <1>2
  <2> QED
    BY <1>1, <2>1
<1> HIDE DEF new
<1> QED
  BY <1>5, <1>6 DEF IsAdded, new

\* A place of sort.Search in a list in descending size parts the larger from the rest.
LEMMA PlaceParts ==
    ASSUME NEW lst, NEW l \in Nat, DOMAIN lst = 1 .. l, Len(lst) = l, NEW x, x.size \in Int,
           NEW i \in Positions(lst, x), \A k \in DOMAIN lst : lst[k].size \in Int,
           \A j, k \in DOMAIN lst : j < k => lst[j].size >= lst[k].size
    PROVE  /\ i \in 1 .. l + 1
           /\ \A k \in DOMAIN lst : k < i => lst[k].size > x.size
           /\ \A k \in DOMAIN lst : k >= i => lst[k].size <= x.size
<1>1. /\ i \in 1 .. l + 1
      /\ i > 1 => lst[i - 1].size > x.size
      /\ i <= l => lst[i].size <= x.size
  BY DEF Positions
<1>2. ASSUME NEW k \in DOMAIN lst, k < i
      PROVE  lst[k].size > x.size
  <2>1. CASE k = i - 1
    BY <1>1, <1>2, <2>1
  <2>2. CASE k < i - 1
    <3>1. i - 1 \in DOMAIN lst
      BY <1>1, <1>2
    <3>2. lst[k].size >= lst[i - 1].size
      BY <2>2, <3>1
    <3> QED
      BY <1>1, <1>2, <3>1, <3>2
  <2> QED
    BY <1>1, <1>2, <2>1, <2>2
<1>3. ASSUME NEW k \in DOMAIN lst, k >= i
      PROVE  lst[k].size <= x.size
  <2>1. i \in DOMAIN lst
    BY <1>1, <1>3
  <2>2. k = i \/ lst[i].size >= lst[k].size
    BY <1>3, <2>1, <1>1
  <2> QED
    BY <1>1, <1>3, <2>1, <2>2
<1> QED
  BY <1>1, <1>2, <1>3

\* The list, entry by entry.
LEMMA ListOf ==
    ASSUME NEW ns, NEW seen, NEW list, NEW cap, NEW max, ListInv(ns, seen, list, cap, max)
    PROVE  /\ Len(list) \in Nat /\ DOMAIN list = 1 .. Len(list)
           /\ \A k \in DOMAIN list : list[k].node \in DOMAIN ns /\ list[k].size \in Nat
<1> DEFINE E == [node : DOMAIN ns, size : Nat]
<1>1. list \in Seq(E)
  BY DEF ListInv
<1>2. \A e \in E : e.node \in DOMAIN ns /\ e.size \in Nat
  OBVIOUS
<1> HIDE DEF E
<1>3. \A i \in DOMAIN list : list[i] \in E
  BY <1>1
<1> QED
  BY <1>1, <1>2, <1>3

\* A node that is not shown leaves the list what it was (prefix.go:63-66).
LEMMA SkipKeeps ==
    ASSUME NEW ns, NEW seen, NEW list, NEW cap, NEW max, ListInv(ns, seen, list, cap, max),
           NEW v, ~Shown(ns, v, max)
    PROVE  ListInv(ns, seen \cup {v}, list, cap, max)
BY DEF ListInv

(***************************************************************************)
(* A node that is shown (prefix.go:67): the list keeps its order and names *)
(* each node once, and what is not in it any more is not larger than what  *)
(* is.                                                                     *)
(***************************************************************************)
LEMMA AddKeeps ==
    ASSUME NEW ns, Typed(ns), NEW seen \in SUBSET DOMAIN ns, NEW list, NEW cap \in Nat, NEW max,
           ListInv(ns, seen, list, cap, max), NEW v \in DOMAIN ns \ seen, Shown(ns, v, max),
           NEW i \in Positions(list, [node |-> v, size |-> ns[v].totalSize])
    PROVE  ListInv(ns, seen \cup {v},
                   AddAt(list, i, [node |-> v, size |-> ns[v].totalSize], cap), cap, max)
<1> DEFINE E == [node : DOMAIN ns, size : Nat]
           x == [node |-> v, size |-> ns[v].totalSize]
           z == AddAt(list, i, x, cap)
           l == Len(list)
<1>1. l \in Nat /\ DOMAIN list = 1 .. l /\ l <= cap /\ list \in Seq(E)
  BY ListOf DEF ListInv
<1>2. \A k \in DOMAIN list : list[k].node \in seen /\ list[k].node # v /\ list[k].size \in Nat
  <2>1. \A k \in DOMAIN list : list[k].node \in seen
    BY DEF ListInv
  <2> QED
    BY <2>1, ListOf
<1>3. x \in E /\ x.node = v /\ x.size = ns[v].totalSize /\ x.size \in Nat
  BY NodeOf
<1>4. \A j, k \in DOMAIN list : j < k => list[j].size >= list[k].size
  BY DEF ListInv
<1>5. /\ i \in 1 .. l + 1
      /\ \A k \in DOMAIN list : k < i => list[k].size > x.size
      /\ \A k \in DOMAIN list : k >= i => list[k].size <= x.size
  <2>1. i \in Positions(list, x) /\ \A k \in DOMAIN list : list[k].size \in Int
    BY <1>2
  <2>2. x.size \in Int /\ Len(list) = l
    BY <1>3
  <2> HIDE DEF x, l
  <2> QED
    BY <1>1, <1>4, <2>1, <2>2, PlaceParts
<1>6. z \in Seq(E) /\ IsAdded(z, list, i, x, cap)
  <2> HIDE DEF x, E
  <2> QED
    BY <1>1, <1>3, <1>5, AddedAt
<1> DEFINE m == Len(z)
<1>7. /\ m = (IF l < cap THEN l + 1 ELSE cap) /\ DOMAIN z = 1 .. m
      /\ \A k \in DOMAIN z : /\ k < i => z[k] = list[k]
                             /\ k = i => z[k] = x
                             /\ k > i => z[k] = list[k - 1]
  BY <1>6 DEF IsAdded
<1> HIDE DEF E, x, z, l, m
<1>8. /\ m \in Nat /\ l <= m /\ m <= l + 1 /\ m <= cap
      /\ m = l => l = cap
      /\ m = l + 1 => l < cap
  BY <1>1, <1>7
\* Every entry of the new list is x or was in the list.
<1>9. \A k \in DOMAIN z : /\ k < i => k \in DOMAIN list
                          /\ k > i => k - 1 \in DOMAIN list /\ k - 1 >= i
  BY <1>1, <1>5, <1>7, <1>8
<1>10. ASSUME NEW k \in DOMAIN z
       PROVE  \/ k = i /\ z[k] = x
              \/ \E j \in DOMAIN list : z[k] = list[j]
  <2>1. k < i \/ k = i \/ k > i
    BY <1>5, <1>7
  <2> QED
    BY <1>7, <1>9, <2>1
<1>11. ASSUME NEW k \in DOMAIN z
       PROVE  /\ z[k].size \in Nat
              /\ z[k].size = ns[z[k].node].totalSize
              /\ Shown(ns, z[k].node, max)
              /\ z[k].node \in seen \cup {v}
  <2>1. CASE z[k] = x
    BY <1>3, <2>1
  <2>2. CASE \E j \in DOMAIN list : z[k] = list[j]
    <3>1. PICK j \in DOMAIN list : z[k] = list[j]
      BY <2>2
    <3> QED
      BY <1>2, <3>1 DEF ListInv
  <2> QED
    BY <1>10, <2>1, <2>2
<1>12. ASSUME NEW j \in DOMAIN z, NEW k \in DOMAIN z, j < k
       PROVE  z[j].size >= z[k].size /\ z[j].node # z[k].node
  <2>0. \A a, b \in DOMAIN list : a < b => list[a].node # list[b].node /\ list[a].size >= list[b].size
    <3>1. \A a, b \in DOMAIN list : list[a].node = list[b].node => a = b
      BY DEF ListInv
    <3>2. \A a, b \in DOMAIN list : a < b => a # b
      BY <1>1
    <3> QED
      BY <1>4, <3>1, <3>2
  <2>1. CASE k < i
    <3>1. j \in DOMAIN list /\ k \in DOMAIN list /\ z[j] = list[j] /\ z[k] = list[k]
      BY <1>5, <1>7, <1>9, <1>12, <2>1
    <3> QED
      BY <1>12, <2>0, <3>1
  <2>2. CASE k = i
    <3>1. j < i /\ j \in DOMAIN list /\ z[j] = list[j] /\ z[k] = x
      BY <1>7, <1>9, <1>12, <2>2
    <3>2. list[j].size > x.size
      BY <1>5, <3>1
    <3> QED
      BY <1>2, <1>3, <3>1, <3>2
  <2>3. CASE k > i
    <3>1. k - 1 \in DOMAIN list /\ k - 1 >= i /\ z[k] = list[k - 1]
      BY <1>7, <1>9, <2>3
    <3>2. CASE j < i
      <4>1. j \in DOMAIN list /\ z[j] = list[j] /\ j < k - 1
        BY <1>5, <1>7, <1>9, <3>1, <3>2
      <4> QED
        BY <2>0, <3>1, <4>1
    <3>3. CASE j = i
      <4>1. z[j] = x /\ list[k - 1].size <= x.size
        BY <1>5, <1>7, <3>1, <3>3
      <4> QED
        BY <1>2, <1>3, <3>1, <4>1
    <3>4. CASE j > i
      <4>1. j - 1 \in DOMAIN list /\ z[j] = list[j - 1] /\ j - 1 < k - 1
        BY <1>5, <1>7, <1>9, <1>12, <3>4
      <4> QED
        BY <2>0, <3>1, <4>1
    <3> QED
      BY <1>5, <1>7, <3>2, <3>3, <3>4
  <2> QED
    BY <1>5, <1>7, <2>1, <2>2, <2>3
<1>13. ASSUME NEW j \in DOMAIN z, NEW k \in DOMAIN z, z[j].node = z[k].node PROVE j = k
  <2>1. j < k \/ j = k \/ k < j
    BY <1>7, <1>8
  <2> QED
    BY <1>12, <1>13, <2>1
\* Where an entry of the old list is now.
<1>14. ASSUME NEW k \in DOMAIN list, ~ \E j \in DOMAIN z : z[j] = list[k]
       PROVE  k = l /\ l = cap /\ k >= i
  <2>1. k >= i
    <3> SUFFICES ASSUME k < i PROVE FALSE
      BY <1>1, <1>5
    <3>1. k \in DOMAIN z
      BY <1>1, <1>7, <1>8
    <3> QED
      BY <1>7, <1>14, <3>1
  <2>2. k + 1 \notin DOMAIN z
    <3> SUFFICES ASSUME k + 1 \in DOMAIN z PROVE FALSE
      OBVIOUS
    <3>1. k + 1 > i /\ (k + 1) - 1 = k
      BY <1>1, <1>5, <2>1
    <3>2. z[k + 1] = list[(k + 1) - 1]
      BY <1>7, <3>1
    <3> QED
      BY <1>14, <3>1, <3>2
  <2> QED
    BY <1>1, <1>7, <1>8, <2>1, <2>2
\* What all of a full list is at least as large as, all of the new one is too.
<1>15. ASSUME NEW s \in Nat, l = cap, \A k \in DOMAIN list : list[k].size >= s
       PROVE  m = cap /\ \A p \in DOMAIN z : z[p].size >= s
  <2>1. m = cap
    BY <1>1, <1>7, <1>8, <1>15
  <2>2. ASSUME NEW p \in DOMAIN z PROVE z[p].size >= s
    <3>1. CASE p = i
      <4>1. i \in DOMAIN list /\ z[p] = x
        BY <1>1, <1>7, <1>15, <2>1, <3>1
      <4>2. list[i].size <= x.size /\ list[i].size >= s /\ list[i].size \in Nat
        BY <1>1, <1>2, <1>5, <1>15, <4>1
      <4>3. x.size >= s
        BY <1>3, <4>2
      <4> QED
        BY <4>1, <4>3
    <3>2. CASE p # i
      <4>1. PICK j \in DOMAIN list : z[p] = list[j]
        BY <1>10, <3>2
      <4> QED
        BY <1>15, <4>1
    <3> QED
      BY <3>1, <3>2
  <2> QED
    BY <2>1, <2>2
<1>16. ASSUME NEW n \in seen \cup {v}, Shown(ns, n, max) PROVE Settled(ns, z, cap, n)
  <2>1. CASE n = v
    <3>1. CASE i \in DOMAIN z
      BY <1>3, <1>7, <2>1, <3>1 DEF Settled
    <3>2. CASE i \notin DOMAIN z
      <4>1. m = cap /\ \A p \in DOMAIN z : p < i
        BY <1>1, <1>5, <1>7, <1>8, <3>2
      <4>2. \A p \in DOMAIN z : z[p].size >= x.size
        <5> TAKE p \in DOMAIN z
        <5>1. p < i /\ p \in DOMAIN list /\ z[p] = list[p]
          BY <1>7, <1>9, <4>1
        <5>2. list[p].size > x.size /\ list[p].size \in Nat
          BY <1>2, <1>5, <5>1
        <5> QED
          BY <1>3, <5>1, <5>2
      <4> QED
        BY <1>3, <2>1, <4>1, <4>2 DEF Settled, m
    <3> QED
      BY <3>1, <3>2
  <2>2. CASE n \in seen
    <3>1. ns[n].totalSize \in Nat
      BY <2>2, NodeOf
    <3>2. Settled(ns, list, cap, n)
      BY <1>16, <2>2 DEF ListInv
    <3>3. CASE l = cap /\ \A k \in DOMAIN list : list[k].size >= ns[n].totalSize
      BY <1>15, <3>1, <3>3 DEF Settled, m
    <3>4. ASSUME NEW k \in DOMAIN list, list[k].node = n PROVE Settled(ns, z, cap, n)
      <4>1. CASE \E j \in DOMAIN z : z[j] = list[k]
        BY <3>4, <4>1 DEF Settled
      <4>2. CASE ~ \E j \in DOMAIN z : z[j] = list[k]
        <5>1. k = l /\ l = cap
          BY <1>14, <4>2
        <5>2. list[k].size = ns[n].totalSize
          BY <3>4 DEF ListInv
        <5>3. \A j \in DOMAIN list : list[j].size >= ns[n].totalSize
          <6> TAKE j \in DOMAIN list
          <6>1. j = k \/ j < k
            BY <1>1, <5>1
          <6> QED
            BY <1>2, <1>4, <5>2, <6>1
        <5> QED
          BY <1>15, <3>1, <5>1, <5>3 DEF Settled, m
      <4> QED
        BY <4>1, <4>2
    <3> QED
      BY <3>2, <3>3, <3>4 DEF Settled, l
  <2> QED
    BY <2>1, <2>2
<1>17. ListInv(ns, seen \cup {v}, z, cap, max)
  <2>1. Len(z) <= cap
    BY <1>8 DEF m
  <2>2. \A j, k \in DOMAIN z : j < k => z[j].size >= z[k].size
    BY <1>12
  <2> QED
    BY <1>6, <1>11, <1>13, <1>16, <2>1, <2>2 DEF ListInv, E
<1> QED
  BY <1>17 DEF z, x

\* Nothing but an insertion touches the words.
LEMMA WordsStep ==
    ASSUME TreeInv, WordsAreKeys, [Next]_vars
    PROVE  WordsAreKeys'
<1>1. CASE \E o \in Objects, sz \in Sizes : ParseObject(o, sz)
  <2>1. PICK o \in Objects, sz \in Sizes : Insert(o[1], o[2], sz)
    BY <1>1 DEF ParseObject
  <2> DEFINE e == [word |-> genKey(o[1], o[2]), size |-> sz]
  <2>2. inserted' = Append(inserted, e)
    BY <2>1 DEF Insert
  <2>3. e.word = genKey(o[1], o[2])
    OBVIOUS
  <2>4. inserted \in Seq([word : Seq(Nat), size : Sizes])
    BY DEF TreeInv, TreeTyped
  <2> HIDE DEF e
  <2>5. \A i \in DOMAIN inserted' : (i \in DOMAIN inserted /\ inserted'[i] = inserted[i]) \/ inserted'[i] = e
    BY <2>2, <2>4
  <2> QED
    BY <2>3, <2>5 DEF WordsAreKeys
<1>2. CASE InsertStep
  <2>1. UNCHANGED inserted
    BY <1>2 DEF InsertStep, Walk, EndAtNode, Descend, AddChild
  <2> QED
    BY <2>1 DEF WordsAreKeys
<1>3. CASE \/ Start \/ ParseReturns \/ StopTraversal \/ SkipNode \/ ListNode
           \/ TraversalEnds \/ PrintRow \/ Panic \/ Finish \/ UNCHANGED vars
  <2>1. UNCHANGED treeVars
    BY <1>3, Zenon DEF Start, ParseReturns, StopTraversal, SkipNode, ListNode, TraversalEnds,
                PrintRow, Panic, Finish, vars
  <2> QED
    BY <2>1 DEF treeVars, WordsAreKeys
<1> QED
  BY <1>1, <1>2, <1>3 DEF Next

\* No rows are printed while there is no list.
LEMMA NoRows ==
    ASSUME rows = << >>, toplist = << >>
    PROVE  RowsInv
<1>1. Len(rows) = 0 /\ Len(toplist) = 0 /\ DOMAIN rows = {}
  OBVIOUS
<1> QED
  BY <1>1 DEF RowsInv

\* Before the analysis starts there is nothing.
LEMMA ReportStart ==
    ASSUME Init
    PROVE  ReportInv /\ WordsAreKeys
<1>1. WordsAreKeys
  BY DEF Init, TreeInit, WordsAreKeys
<1>2. RowsInv
  BY NoRows DEF Init
<1> QED
  BY <1>1, <1>2, PrefixAssumption DEF Init, TreeInit, ReportInv, Phases

\* While the file is parsed there is nothing to report.
LEMMA Parsing ==
    ASSUME ReportInv, phase = "parse", UNCHANGED <<topN, maxDepth, reportVars>>
    PROVE  ReportInv'
<1>1. UNCHANGED <<phase, queue, toplist, rows, topN, maxDepth>>
  BY DEF reportVars
<1>2. queue = << >> /\ toplist = << >> /\ rows = << >> /\ topN > 0 /\ topN \in Int /\ maxDepth \in Int
  BY DEF ReportInv
<1>3. queue' = << >> /\ toplist' = << >> /\ rows' = << >> /\ phase' = "parse"
  BY <1>1, <1>2
<1>4. RowsInv'
  <2>1. Len(rows') = 0 /\ Len(toplist') = 0 /\ DOMAIN rows' = {}
    BY <1>3
  <2> QED
    BY <2>1 DEF RowsInv
<1> QED
  BY <1>1, <1>2, <1>3, <1>4 DEF ReportInv, Phases

\* The options of the command (prefix.go:22-31).
LEMMA StartReport ==
    ASSUME ReportInv, Start
    PROVE  ReportInv'
<1>1. /\ phase = "start" /\ phase' = IF topN < 0 THEN "refused" ELSE "parse"
      /\ topN' = IF topN = 0 THEN Unlimited ELSE topN
      /\ maxDepth' = IF maxDepth = 0 THEN Unlimited ELSE maxDepth + 2
      /\ UNCHANGED <<nodes, pc, queue, toplist, rows>>
  BY DEF Start, treeVars
<1>2. /\ queue = << >> /\ toplist = << >> /\ rows = << >> /\ pc = "idle"
      /\ topN \in Int /\ maxDepth \in Int
  BY <1>1 DEF ReportInv
<1>3. Unlimited \in Int /\ Unlimited > 0
  BY RadixAssumption DEF Unlimited
<1>4. topN' \in Int /\ maxDepth' \in Int /\ (phase' # "refused" => topN' > 0)
  BY <1>1, <1>2, <1>3
<1>5. RowsInv'
  <2>1. Len(rows') = 0 /\ Len(toplist') = 0 /\ DOMAIN rows' = {}
    BY <1>1, <1>2
  <2> QED
    BY <2>1 DEF RowsInv
<1>6. phase' \in {"refused", "parse"}
  BY <1>1
<1> QED
  BY <1>1, <1>2, <1>4, <1>5, <1>6 DEF ReportInv, Phases

\* The walk begins with the root (radix.go:100).
LEMMA WalkBegins ==
    ASSUME TreeInv, ReportInv, ParseReturns
    PROVE  ReportInv'
<1> DEFINE r == [node |-> Root, depth |-> 1]
<1>1. /\ phase = "parse" /\ pc = "idle" /\ phase' = "traverse" /\ queue' = <<r>>
      /\ UNCHANGED <<nodes, pc, topN, maxDepth, toplist, rows>>
  BY DEF ParseReturns, treeVars
<1>2. toplist = << >> /\ rows = << >> /\ topN > 0 /\ topN \in Int /\ maxDepth \in Int
  BY <1>1 DEF ReportInv
<1>3. Linked(nodes) /\ Typed(nodes) /\ Root \in DOMAIN nodes /\ Name(nodes, Root) = << >>
  BY DEF TreeInv, Linked, Typed, RootEmpty
<1>4. r.node = Root /\ r.depth = 1 /\ r \in [node : DOMAIN nodes, depth : Nat]
  BY <1>3
<1> HIDE DEF r
<1> DEFINE q == <<r>>
<1>5. q[1] = r /\ DOMAIN q = {1} /\ q \in Seq([node : DOMAIN nodes, depth : Nat])
  BY <1>4
<1> HIDE DEF q
<1>6. QueueInv(nodes, q)
  <2>1. \A i \in DOMAIN q : q[i].depth = Depth(nodes, q[i].node)
    BY <1>3, <1>4, <1>5, RootDepth
  <2>2. \A i, j \in DOMAIN q : i = j
    BY <1>5
  <2>3. \A i \in DOMAIN q : q[i].depth = 1 /\ i = 1
    BY <1>4, <1>5
  <2>4. \A j \in DOMAIN q : q[j].depth <= q[1].depth + 1
    BY <2>3
  <2>5. \A i, j \in DOMAIN q : i < j => q[i].depth <= q[j].depth
    BY <2>3
  <2> QED
    BY <1>5, <2>1, <2>2, <2>4, <2>5 DEF QueueInv
<1>7. Seen(nodes, q) = {}
  <2>1. ASSUME NEW n \in DOMAIN nodes PROVE Pending(nodes, q, n)
    <3>1. Name(nodes, n) \in Seq(Nat) /\ Name(nodes, Root) \in Seq(Nat)
      BY <1>3, NodeOf
    <3>2. Begins(Name(nodes, Root), Name(nodes, n))
      BY <1>3, <3>1 DEF Begins
    <3> QED
      BY <1>4, <1>5, <3>2 DEF Pending
  <2> QED
    BY <2>1 DEF Seen
<1>8. ListInv(nodes, {}, << >>, topN, maxDepth)
  <2> DEFINE e == << >>
  <2>1. e \in Seq([node : DOMAIN nodes, size : Nat]) /\ Len(e) = 0 /\ DOMAIN e = {}
    OBVIOUS
  <2> HIDE DEF e
  <2>2. ListInv(nodes, {}, e, topN, maxDepth)
    BY <1>2, <2>1 DEF ListInv
  <2> QED
    BY <2>2 DEF e
<1>9. /\ QueueInv(nodes', queue')
      /\ ListInv(nodes', Seen(nodes', queue'), toplist', topN', maxDepth')
  <2>1. /\ nodes' = nodes /\ queue' = q /\ toplist' = << >> /\ topN' = topN /\ maxDepth' = maxDepth
    BY <1>1, <1>2 DEF q
  <2> QED
    BY <1>6, <1>7, <1>8, <2>1
<1>10. RowsInv'
  <2>1. Len(rows') = 0 /\ Len(toplist') = 0 /\ DOMAIN rows' = {}
    BY <1>1, <1>2
  <2> QED
    BY <2>1 DEF RowsInv
<1> QED
  BY <1>1, <1>2, <1>9, <1>10 DEF ReportInv, Phases

\* What holds while the walk goes on.
LEMMA Walking ==
    ASSUME TreeInv, ReportInv, phase = "traverse"
    PROVE  /\ Linked(nodes) /\ Typed(nodes) /\ pc = "idle" /\ rows = << >>
           /\ topN \in Nat /\ topN > 0 /\ maxDepth \in Int
           /\ QueueInv(nodes, queue)
           /\ ListInv(nodes, Seen(nodes, queue), toplist, topN, maxDepth)
           /\ Seen(nodes, queue) \in SUBSET DOMAIN nodes
<1>1. Linked(nodes) /\ Typed(nodes)
  BY DEF TreeInv, Linked
<1>2. topN \in Int /\ topN > 0
  BY DEF ReportInv
<1> QED
  BY <1>1, <1>2 DEF ReportInv, Seen

\* The node at the head of the queue.
LEMMA HeadOf ==
    ASSUME TreeInv, ReportInv, phase = "traverse", queue # << >>
    PROVE  /\ Queued = After(nodes, queue)
           /\ QueueInv(nodes, Queued)
           /\ Seen(nodes, Queued) = Seen(nodes, queue) \cup {Visited.node}
           /\ Visited.node \in DOMAIN nodes \ Seen(nodes, queue)
           /\ Visited.depth = Depth(nodes, Visited.node)
           /\ Shown(nodes, Visited.node, maxDepth) <=> Visited.depth > 2 /\ ~TooDeep
<1>1. Linked(nodes) /\ QueueInv(nodes, queue) /\ maxDepth \in Int
  BY Walking
<1>2. Queued = After(nodes, queue)
  BY Zenon DEF Queued, After, ChildrenOf, KidsOf, Visited, Kids
<1>3. QueueInv(nodes, Queued)
  BY <1>1, <1>2, QueueAfter
<1>4. /\ Seen(nodes, Queued) = Seen(nodes, queue) \cup {Visited.node}
      /\ Visited.node \in DOMAIN nodes \ Seen(nodes, queue)
  BY <1>1, <1>2, SeenAfter DEF Visited
<1>5. 1 \in DOMAIN queue /\ queue[1].depth \in Nat
  BY <1>1, QueueOf
<1>6. Visited.depth = Depth(nodes, Visited.node) /\ Visited.depth \in Nat
  BY <1>1, <1>5 DEF QueueInv, Visited
<1>7. Shown(nodes, Visited.node, maxDepth) <=> Visited.depth > 2 /\ ~TooDeep
  BY <1>1, <1>6 DEF Shown, TooDeep
<1> QED
  BY <1>2, <1>3, <1>4, <1>6, <1>7

\* What is left when the walk has gone on.
LEMMA Traversing ==
    ASSUME TreeInv, ReportInv, phase = "traverse",
           UNCHANGED <<nodes, pc, topN, maxDepth, rows>>, phase' \in {"traverse", "print"},
           phase' = "print" => queue' = << >>,
           QueueInv(nodes, queue'),
           ListInv(nodes, Seen(nodes, queue'), toplist', topN, maxDepth)
    PROVE  ReportInv'
<1>1. rows = << >> /\ pc = "idle" /\ topN \in Int /\ maxDepth \in Int /\ topN > 0
  BY Walking
<1>2. RowsInv'
  <2>1. Len(toplist') \in Nat
    BY ListOf
  <2>2. Len(rows') = 0 /\ DOMAIN rows' = {}
    BY <1>1
  <2> QED
    BY <2>1, <2>2 DEF RowsInv
<1>3. /\ QueueInv(nodes', queue')
      /\ ListInv(nodes', Seen(nodes', queue'), toplist', topN', maxDepth')
  <2>1. nodes' = nodes /\ topN' = topN /\ maxDepth' = maxDepth
    OBVIOUS
  <2> QED
    BY <2>1
<1> QED
  BY <1>1, <1>2, <1>3 DEF ReportInv, Phases

\* The root and what is taken for a database root (prefix.go:63-66).
LEMMA SkipReport ==
    ASSUME TreeInv, ReportInv, SkipNode
    PROVE  ReportInv'
<1>1. /\ phase = "traverse" /\ queue # << >> /\ Visited.depth <= 2 /\ queue' = Queued
      /\ UNCHANGED <<nodes, pc, topN, maxDepth, phase, toplist, rows>>
  BY DEF SkipNode, treeVars
<1>2. /\ QueueInv(nodes, Queued)
      /\ Seen(nodes, Queued) = Seen(nodes, queue) \cup {Visited.node}
      /\ Visited.node \in DOMAIN nodes
      /\ Visited.depth = Depth(nodes, Visited.node)
      /\ Shown(nodes, Visited.node, maxDepth) <=> Visited.depth > 2 /\ ~TooDeep
  BY <1>1, HeadOf
<1>3. Visited.depth \in Nat
  BY <1>2, Walking, <1>1, AboveFinite
<1>4. ~Shown(nodes, Visited.node, maxDepth)
  BY <1>1, <1>2, <1>3
<1>5. ListInv(nodes, Seen(nodes, Queued), toplist, topN, maxDepth)
  BY <1>1, <1>2, <1>4, Walking, SkipKeeps
<1> QED
  BY <1>1, <1>2, <1>5, Traversing

\* A node deep enough (prefix.go:67).
LEMMA ListReport ==
    ASSUME TreeInv, ReportInv, ListNode
    PROVE  ReportInv'
<1> DEFINE x == [node |-> Visited.node, size |-> nodes[Visited.node].totalSize]
<1>1. /\ phase = "traverse" /\ queue # << >> /\ ~TooDeep /\ Visited.depth > 2 /\ queue' = Queued
      /\ toplist' \in Add(toplist, x, topN)
      /\ UNCHANGED <<nodes, pc, topN, maxDepth, phase, rows>>
  BY DEF ListNode, treeVars
<1>2. /\ QueueInv(nodes, Queued)
      /\ Seen(nodes, Queued) = Seen(nodes, queue) \cup {Visited.node}
      /\ Visited.node \in DOMAIN nodes \ Seen(nodes, queue)
      /\ Shown(nodes, Visited.node, maxDepth)
  BY <1>1, HeadOf
<1>3. PICK i \in Positions(toplist, x) : toplist' = AddAt(toplist, i, x, topN)
  BY <1>1 DEF Add
<1>4. ListInv(nodes, Seen(nodes, queue) \cup {Visited.node}, AddAt(toplist, i, x, topN), topN, maxDepth)
  BY <1>1, <1>2, <1>3, Walking, AddKeeps
<1>5. ListInv(nodes, Seen(nodes, Queued), toplist', topN, maxDepth)
  BY <1>2, <1>3, <1>4
<1> QED
  BY <1>1, <1>2, <1>5, Traversing

(***************************************************************************)
(* The first node too deep ends the walk (prefix.go:60-62): whatever is    *)
(* not seen yet is as deep at least.                                       *)
(***************************************************************************)
LEMMA StopReport ==
    ASSUME TreeInv, ReportInv, StopTraversal
    PROVE  ReportInv'
<1>1. /\ phase = "traverse" /\ queue # << >> /\ TooDeep /\ phase' = "print" /\ queue' = << >>
      /\ UNCHANGED <<nodes, pc, topN, maxDepth, toplist, rows>>
  BY DEF StopTraversal, treeVars
<1>2. /\ Linked(nodes) /\ Typed(nodes) /\ maxDepth \in Int
      /\ QueueInv(nodes, queue)
      /\ ListInv(nodes, Seen(nodes, queue), toplist, topN, maxDepth)
  BY <1>1, Walking
<1>3. /\ DOMAIN queue = 1 .. Len(queue) /\ Len(queue) \in Nat
      /\ \A i \in DOMAIN queue : queue[i].node \in DOMAIN nodes /\ queue[i].depth \in Nat
  BY <1>2, QueueOf
<1>4. ASSUME NEW n \in DOMAIN nodes, n \notin Seen(nodes, queue)
      PROVE  ~Shown(nodes, n, maxDepth)
  <2>1. PICK i \in DOMAIN queue : Begins(Name(nodes, queue[i].node), Name(nodes, n))
    BY <1>4 DEF Seen, Pending
  <2>2. Depth(nodes, queue[i].node) <= Depth(nodes, n)
    BY <1>2, <1>3, <2>1, BelowDeeper
  <2>3. queue[i].depth = Depth(nodes, queue[i].node)
    BY <1>2 DEF QueueInv
  <2>4. 1 \in DOMAIN queue /\ queue[1].depth > maxDepth
    BY <1>1, <1>3 DEF TooDeep, Visited
  <2>5. queue[1].depth <= queue[i].depth
    <3>1. i = 1 \/ 1 < i
      BY <1>3
    <3> QED
      BY <1>2, <1>3, <2>4, <3>1 DEF QueueInv
  <2>6. Depth(nodes, n) \in Nat
    BY <1>2, AboveFinite
  <2> QED
    BY <1>2, <1>3, <2>2, <2>3, <2>4, <2>5, <2>6 DEF Shown
<1> DEFINE q == << >>
<1>5. /\ DOMAIN q = {} /\ q \in Seq([node : DOMAIN nodes, depth : Nat])
  OBVIOUS
<1>6. q = << >>
  OBVIOUS
<1> HIDE DEF q
<1>7. Seen(nodes, q) = DOMAIN nodes
  BY <1>5 DEF Seen, Pending
<1>8. QueueInv(nodes, q)
  BY <1>5 DEF QueueInv
<1>9. ListInv(nodes, DOMAIN nodes, toplist, topN, maxDepth)
  <2>1. \A k \in DOMAIN toplist : toplist[k].node \in DOMAIN nodes
    BY <1>2, ListOf
  <2> QED
    BY <1>2, <1>4, <2>1 DEF ListInv
<1> QED
  BY <1>1, <1>6, <1>7, <1>8, <1>9, Traversing

\* The walk runs out of nodes.
LEMMA EndReport ==
    ASSUME TreeInv, ReportInv, TraversalEnds
    PROVE  ReportInv'
<1>1. /\ phase = "traverse" /\ queue = << >> /\ phase' = "print"
      /\ UNCHANGED <<nodes, pc, topN, maxDepth, queue, toplist, rows>>
  BY DEF TraversalEnds, treeVars
<1> QED
  BY <1>1, Walking, Traversing

(***************************************************************************)
(* The rows (prefix.go:78-95) are those of the list, in its order.         *)
(***************************************************************************)
LEMMA PrintReport ==
    ASSUME TreeInv, ReportInv, PrintRow \/ Panic \/ Finish
    PROVE  ReportInv'
<1>1. /\ phase = "print" /\ phase' \in {"print", "panic", "done"}
      /\ UNCHANGED <<nodes, pc, topN, maxDepth, queue, toplist>>
      /\ phase' = "done" => Len(rows) = Len(toplist) /\ rows' = rows
  BY DEF PrintRow, Panic, Finish, treeVars
<1>2. /\ queue = << >> /\ pc = "idle" /\ topN > 0 /\ topN \in Int /\ maxDepth \in Int
      /\ QueueInv(nodes, queue)
      /\ ListInv(nodes, Seen(nodes, queue), toplist, topN, maxDepth)
      /\ RowsInv
  BY <1>1 DEF ReportInv
<1>3. RowsInv'
  <2>1. CASE rows' = rows
    BY <1>1, <1>2, <2>1 DEF RowsInv
  <2>2. CASE PrintRow
    <3> DEFINE l == Len(rows)
    <3>1. /\ l < Len(toplist) /\ HasDatabase(nodes[toplist[l + 1].node].fullpath)
          /\ rows' = Append(rows, RowOf(nodes[toplist[l + 1].node]))
      BY <2>2 DEF PrintRow, Row, RowOf, Printed
    <3>2. /\ l \in Nat /\ DOMAIN rows = 1 .. l /\ Len(toplist) \in Nat
      BY <1>2, ListOf DEF RowsInv
    <3> DEFINE r == RowOf(nodes[toplist[l + 1].node])
    <3> HIDE DEF r
    <3>3. rows' = Append(rows, r)
      BY <3>1 DEF r
    <3>4. /\ Len(rows') = l + 1 /\ DOMAIN rows' = 1 .. l + 1
          /\ \A i \in 1 .. l : rows'[i] = rows[i]
          /\ rows'[l + 1] = r
      BY <3>2, <3>3
    <3> HIDE DEF l
    <3>5. ASSUME NEW i \in DOMAIN rows'
          PROVE  /\ HasDatabase(nodes[toplist[i].node].fullpath)
                 /\ rows'[i] = RowOf(nodes[toplist[i].node])
      <4>1. CASE i \in 1 .. l
        BY <1>2, <3>2, <3>4, <4>1 DEF RowsInv
      <4>2. CASE i = l + 1
        BY <3>1, <3>4, <4>2 DEF r
      <4> QED
        BY <3>2, <3>4, <4>1, <4>2
    <3>6. nodes' = nodes /\ toplist' = toplist /\ Len(rows') \in Nat /\ Len(rows') <= Len(toplist)
      BY <1>1, <3>1, <3>2, <3>4
    <3> QED
      BY <3>4, <3>5, <3>6 DEF RowsInv
  <2> QED
    BY <2>1, <2>2 DEF Panic, Finish
<1>4. /\ QueueInv(nodes', queue')
      /\ ListInv(nodes', Seen(nodes', queue'), toplist', topN', maxDepth')
  BY <1>1, <1>2, Zenon
<1> QED
  BY <1>1, <1>2, <1>3, <1>4 DEF ReportInv, Phases

\* The invariant of the report is about its own variables and the tree.
LEMMA SameReport ==
    ASSUME ReportInv, UNCHANGED vars
    PROVE  ReportInv'
<1>1. UNCHANGED <<nodes, pc, topN, maxDepth, phase, queue, toplist, rows>>
  BY DEF vars, treeVars, reportVars
<1> QED
  BY <1>1 DEF ReportInv, RowsInv

\* Every action keeps the invariant of the report.
LEMMA ReportStep ==
    ASSUME TreeInv, ReportInv, [Next]_vars
    PROVE  ReportInv'
<1>1. CASE InsertStep
  <2>1. pc = "walk" /\ UNCHANGED <<topN, maxDepth, reportVars>>
    BY <1>1 DEF InsertStep, Walk, EndAtNode, Descend, AddChild
  <2>2. phase = "parse"
    BY <2>1 DEF ReportInv
  <2> QED
    BY <2>1, <2>2, Parsing
<1>2. CASE \E o \in Objects, sz \in Sizes : ParseObject(o, sz)
  BY <1>2, Parsing DEF ParseObject
<1> QED
  BY <1>1, <1>2, StartReport, WalkBegins, StopReport, SkipReport, ListReport, EndReport,
     PrintReport, SameReport DEF Next

(***************************************************************************)
(* strconv.Atoi, by the recursion that reads one digit more.               *)
(***************************************************************************)
Upto(l) == {s \in Seq(Nat) : Len(s) <= l}
Value(g, s) == IF s = << >> THEN 0 ELSE 10 * g[Front(s)] + Last(s)

\* A number without its last digit is shorter.
LEMMA FrontShorter ==
    ASSUME NEW s \in Seq(Nat), s # << >>
    PROVE  /\ Front(s) \in Seq(Nat) /\ Len(Front(s)) = Len(s) - 1 /\ Len(s) \in Nat /\ Len(s) > 0
           /\ Last(s) \in Nat
<1>1. Len(s) \in Nat /\ Len(s) > 0
  OBVIOUS
<1> DEFINE i == Len(s) - 1
<1>2. i \in 0 .. Len(s)
  BY <1>1
<1> HIDE DEF i
<1>3. SubSeq(s, 1, i) \in Seq(Nat) /\ Len(SubSeq(s, 1, i)) = i
  BY <1>2, Cut
<1>4. s[Len(s)] \in Nat
  BY <1>1
<1> QED
  BY <1>1, <1>3, <1>4 DEF Front, Last, i

\* The recursion of strconv.Atoi has a solution up to any length.
LEMMA AtoiSoFar ==
    ASSUME NEW l \in Nat
    PROVE  \E g \in [Upto(l) -> Nat] : \A s \in Upto(l) : g[s] = Value(g, s)
<1> DEFINE Some(i) == \E g \in [Upto(i) -> Nat] : \A s \in Upto(i) : g[s] = Value(g, s)
           T == {i \in Nat : ~Some(i)}
<1> SUFFICES ASSUME T # {} PROVE FALSE
  OBVIOUS
<1>1. PICK x \in T : \A y \in T : x <= y
  BY LeastNumber
<1>2. x \in Nat /\ ~Some(x)
  OBVIOUS
<1>3. CASE x = 0
  <2> DEFINE g == [s \in Upto(x) |-> 0]
  <2>1. \A s \in Upto(x) : s = << >>
    BY <1>3 DEF Upto
  <2>2. g \in [Upto(x) -> Nat] /\ \A s \in Upto(x) : g[s] = Value(g, s)
    BY <2>1 DEF Value
  <2> QED
    BY <1>2, <2>2
<1>4. CASE x # 0
  <2>1. x - 1 \in Nat /\ x - 1 \notin T
    <3> HIDE DEF T
    <3> QED
      BY <1>1, <1>2, <1>4
  <2>2. PICK h \in [Upto(x - 1) -> Nat] : \A s \in Upto(x - 1) : h[s] = Value(h, s)
    BY <2>1
  <2> HIDE DEF T
  <2> DEFINE g == [s \in Upto(x) |-> IF s \in Upto(x - 1) THEN h[s] ELSE Value(h, s)]
  <2>3. ASSUME NEW s \in Upto(x), s # << >> PROVE Front(s) \in Upto(x - 1) /\ Last(s) \in Nat
    <3>1. s \in Seq(Nat) /\ Len(s) <= x
      BY DEF Upto
    <3>2. Front(s) \in Seq(Nat) /\ Len(Front(s)) = Len(s) - 1 /\ Len(s) \in Nat /\ Last(s) \in Nat
      BY <2>3, <3>1, FrontShorter
    <3> QED
      BY <1>2, <3>1, <3>2 DEF Upto
  <2>4. \A s \in Upto(x - 1) : s \in Upto(x)
    BY <1>2 DEF Upto
  <2>5. ASSUME NEW s \in Upto(x) PROVE Value(h, s) \in Nat
    <3>1. CASE s = << >>
      BY <3>1 DEF Value
    <3>2. CASE s # << >>
      <4>1. h[Front(s)] \in Nat /\ Last(s) \in Nat
        BY <2>2, <2>3, <3>2
      <4> QED
        BY <3>2, <4>1 DEF Value
    <3> QED
      BY <3>1, <3>2
  <2>6. g \in [Upto(x) -> Nat]
    BY <2>2, <2>5
  <2>7. \A s \in Upto(x - 1) : g[s] = h[s]
    BY <2>4
  <2>8. \A s \in Upto(x) : g[s] = Value(h, s)
    BY <2>2
  <2> HIDE DEF g
  <2>9. ASSUME NEW s \in Upto(x) PROVE g[s] = Value(g, s)
    <3>1. s # << >> => g[Front(s)] = h[Front(s)]
      BY <2>3, <2>7
    <3> QED
      BY <2>8, <3>1 DEF Value
  <2> QED
    BY <1>2, <2>6, <2>9
<1> QED
  BY <1>3, <1>4

\* Atoi is the solution of its recursion.
LEMMA AtoiRecursion == \A s \in Seq(Nat) : Atoi[s] = Value(Atoi, s)
<1> DEFINE Good(g, l) == g \in [Upto(l) -> Nat] /\ \A s \in Upto(l) : g[s] = Value(g, s)
           G(l) == CHOOSE g : Good(g, l)
           f == [s \in Seq(Nat) |-> G(Len(s))[s]]
<1>1. \A l \in Nat : Good(G(l), l)
  <2>1. \A l \in Nat : \E g : Good(g, l)
    BY AtoiSoFar
  <2> QED
    BY <2>1
<1> HIDE DEF G
<1>2. ASSUME NEW l \in Nat, NEW s \in Upto(l) PROVE G(l)[s] = Value(G(l), s)
  BY <1>1
<1> HIDE DEF Good
<1>3. \A k, l \in Nat : \A s \in Seq(Nat) : Len(s) <= k /\ Len(s) <= l => G(k)[s] = G(l)[s]
  <2> DEFINE Bad(n) == \E k, l \in Nat : \E s \in Seq(Nat) :
                           Len(s) = n /\ n <= k /\ n <= l /\ G(k)[s] # G(l)[s]
             T == {n \in Nat : Bad(n)}
  <2> HIDE DEF Bad
  <2>1. CASE T # {}
    <3>1. PICK x \in T : \A y \in T : x <= y
      BY <2>1, LeastNumber
    <3>2. x \in Nat /\ Bad(x)
      OBVIOUS
    <3>3. PICK k \in Nat, l \in Nat, s \in Seq(Nat) :
              Len(s) = x /\ x <= k /\ x <= l /\ G(k)[s] # G(l)[s]
      BY <3>2 DEF Bad
    <3>4. s \in Upto(k) /\ s \in Upto(l)
      BY <3>3 DEF Upto
    <3>5. G(k)[s] = Value(G(k), s) /\ G(l)[s] = Value(G(l), s)
      BY <1>2, <3>4
    <3>6. s # << >> => G(k)[Front(s)] = G(l)[Front(s)]
      <4> SUFFICES ASSUME s # << >> PROVE G(k)[Front(s)] = G(l)[Front(s)]
        OBVIOUS
      <4> DEFINE t == Front(s)
      <4>1. t \in Seq(Nat) /\ Len(t) = x - 1 /\ x > 0
        BY <3>3, FrontShorter
      <4>2. Len(t) \in Nat /\ Len(t) < x /\ Len(t) <= k /\ Len(t) <= l
        BY <3>2, <3>3, <4>1
      <4> HIDE DEF t
      <4>3. Len(t) \notin T
        <5> HIDE DEF T
        <5> QED
          BY <3>1, <3>2, <4>2
      <4>4. ~Bad(Len(t))
        BY <4>2, <4>3
      <4>5. G(k)[t] = G(l)[t]
        BY <4>1, <4>2, <4>4 DEF Bad
      <4> QED
        BY <4>5 DEF t
    <3> QED
      BY <3>3, <3>5, <3>6 DEF Value
  <2>2. CASE T = {}
    <3>1. \A n \in Nat : ~Bad(n)
      BY <2>2
    <3>2. ASSUME NEW k \in Nat, NEW l \in Nat, NEW s \in Seq(Nat), Len(s) <= k, Len(s) <= l
          PROVE  G(k)[s] = G(l)[s]
      <4>1. Len(s) \in Nat
        OBVIOUS
      <4> QED
        BY <3>1, <3>2, <4>1 DEF Bad
    <3> QED
      BY <3>2
  <2> QED
    BY <2>1, <2>2
<1>4. ASSUME NEW s \in Seq(Nat) PROVE f[s] = Value(f, s)
  <2>1. Len(s) \in Nat /\ s \in Upto(Len(s))
    BY DEF Upto
  <2>2. f[s] = G(Len(s))[s]
    OBVIOUS
  <2>3. G(Len(s))[s] = Value(G(Len(s)), s)
    BY <1>2, <2>1
  <2>4. s # << >> => f[Front(s)] = G(Len(s))[Front(s)]
    <3> SUFFICES ASSUME s # << >> PROVE f[Front(s)] = G(Len(s))[Front(s)]
      OBVIOUS
    <3> DEFINE t == Front(s)
    <3>1. t \in Seq(Nat) /\ Len(t) = Len(s) - 1
      BY FrontShorter
    <3>2. Len(t) \in Nat /\ Len(t) <= Len(s)
      BY <2>1, <3>1
    <3> HIDE DEF t
    <3>3. f[t] = G(Len(t))[t]
      BY <3>1
    <3>4. G(Len(t))[t] = G(Len(s))[t]
      BY <1>3, <2>1, <3>1, <3>2
    <3> QED
      BY <3>3, <3>4 DEF t
  <2> HIDE DEF f
  <2> QED
    BY <2>2, <2>3, <2>4 DEF Value
<1>5. f = [s \in Seq(Nat) |-> IF s = << >> THEN 0 ELSE 10 * f[Front(s)] + Last(s)]
  BY <1>4 DEF Value
<1> HIDE DEF f
<1>6. \E h : h = [s \in Seq(Nat) |-> IF s = << >> THEN 0 ELSE 10 * h[Front(s)] + Last(s)]
  BY <1>5
<1>7. Atoi = [s \in Seq(Nat) |-> IF s = << >> THEN 0 ELSE 10 * Atoi[Front(s)] + Last(s)]
  BY <1>6 DEF Atoi
<1> QED
  BY <1>7, Zenon DEF Value

\* What Itoa writes: at least one digit, and digits only.
LEMMA DigitsAreDigits ==
    \A n \in Nat : Len(Digits[n]) > 0 /\ \A i \in 1 .. Len(Digits[n]) : Digits[n][i] < Space
<1> DEFINE Good(n) == Len(Digits[n]) > 0 /\ \A i \in 1 .. Len(Digits[n]) : Digits[n][i] < 10
           T == {n \in Nat : ~Good(n)}
<1>1. CASE T = {}
  BY <1>1 DEF Space
<1>2. CASE T # {}
  <2>1. PICK x \in T : \A y \in T : x <= y
    BY <1>2, LeastNumber
  <2>2. x \in Nat /\ ~Good(x)
    OBVIOUS
  <2>3. Digits[x] = IF x < 10 THEN <<x>> ELSE Append(Digits[x \div 10], x % 10)
    BY <2>2, DigitsRecursion DEF Digit
  <2>4. CASE x < 10
    <3>1. Digits[x] = <<x>>
      BY <2>3, <2>4
    <3> QED
      BY <2>2, <2>4, <3>1
  <2>5. CASE x >= 10
    <3> DEFINE t == Digits[x \div 10]
    <3>1. x \div 10 \in Nat /\ x \div 10 < x /\ x % 10 \in 0 .. 9
      BY <2>2, <2>5, Shorter
    <3>2. Good(x \div 10)
      <4> HIDE DEF Good
      <4> QED
        BY <2>1, <2>2, <3>1
    <3>3. t \in Seq(Nat) /\ Len(t) > 0 /\ \A i \in 1 .. Len(t) : t[i] < 10
      BY <3>1, <3>2, DigitsOfNumber
    <3>4. Digits[x] = Append(t, x % 10)
      BY <2>2, <2>3, <2>5
    <3> HIDE DEF t
    <3> QED
      BY <2>2, <3>1, <3>3, <3>4
  <2> QED
    BY <2>2, <2>4, <2>5
<1> QED
  BY <1>1, <1>2

\* Atoi reads back what Itoa writes.
LEMMA AtoiOfDigits == \A n \in Nat : Atoi[Digits[n]] = n
<1> DEFINE T == {n \in Nat : Atoi[Digits[n]] # n}
<1>1. CASE T = {}
  BY <1>1
<1>2. CASE T # {}
  <2>1. PICK x \in T : \A y \in T : x <= y
    BY <1>2, LeastNumber
  <2>2. x \in Nat /\ Atoi[Digits[x]] # x
    OBVIOUS
  <2>3. Digits[x] = IF x < 10 THEN <<x>> ELSE Append(Digits[x \div 10], x % 10)
    BY <2>2, DigitsRecursion DEF Digit
  <2>4. Digits[x] \in Seq(Nat) /\ Atoi[Digits[x]] = Value(Atoi, Digits[x])
    BY <2>2, DigitsOfNumber, AtoiRecursion
  <2>5. CASE x < 10
    <3> DEFINE s == <<x>>
    <3>0. << >> \in Seq(Nat)
      OBVIOUS
    <3>1. Atoi[<< >>] = 0
      BY <3>0, AtoiRecursion DEF Value
    <3>2. s # << >> /\ Front(s) = << >> /\ Last(s) = x
      BY <2>2 DEF Front, Last
    <3>3. Digits[x] = s
      BY <2>3, <2>5
    <3> HIDE DEF s
    <3>4. Atoi[Digits[x]] = 10 * Atoi[<< >>] + x
      BY <2>4, <3>2, <3>3 DEF Value
    <3> QED
      BY <2>2, <3>1, <3>4
  <2>6. CASE x >= 10
    <3> DEFINE t == Digits[x \div 10]
               r == x % 10
               s == Append(t, r)
    <3>1. x \div 10 \in Nat /\ x \div 10 < x
      BY <2>2, <2>6, Shorter
    <3>r. r \in Nat /\ x = 10 * (x \div 10) + r
      BY <2>2
    <3> HIDE DEF r
    <3>2. Atoi[t] = x \div 10
      <4>1. x \div 10 \notin T
        <5> HIDE DEF T
        <5> QED
          BY <2>1, <2>2, <3>1
      <4> QED
        BY <3>1, <4>1
    <3>3. t \in Seq(Nat)
      BY <3>1, DigitsOfNumber
    <3>4. Digits[x] = s
      BY <2>2, <2>3, <2>6 DEF r
    <3> HIDE DEF t
    <3>5. s # << >> /\ Last(s) = r
      BY ONLY <3>r, <3>3, SMTT(20) DEF Last
    <3>6. Front(s) = t
      BY <3>r, <3>3 DEF Front
    <3> HIDE DEF s
    <3>7. Atoi[Digits[x]] = 10 * Atoi[t] + r
      BY <2>4, <3>4, <3>5, <3>6 DEF Value
    <3> QED
      BY <3>1, <3>r, <3>2, <3>7
  <2> QED
    BY <2>2, <2>5, <2>6
<1> QED
  BY <1>1, <1>2

\* The first space of a name is the one after the database.
LEMMA FirstSpace ==
    ASSUME NEW p \in Seq(Nat), NEW d \in Nat, d < Len(p), p[d + 1] = Space,
           \A j \in 1 .. d : p[j] # Space
    PROVE  SelectInSeq(p, LAMBDA c : c = Space) = d + 1
<1> DEFINE I == {j \in 1 .. Len(p) : p[j] = Space}
<1>1. d + 1 \in I /\ \A j \in I : d + 1 <= j
  OBVIOUS
<1>2. \A j \in I : j \in Nat
  OBVIOUS
<1>3. SelectInSeq(p, LAMBDA c : c = Space) = IF I # {} THEN Min(I) ELSE 0
  BY DEF SelectInSeq
<1> HIDE DEF I
<1>4. Min(I) = d + 1
  <2>1. \A x \in I : (\A y \in I : x <= y) => x = d + 1
    BY <1>1, <1>2
  <2> QED
    BY <1>1, <2>1 DEF Min
<1> QED
  BY <1>1, <1>3, <1>4

\* The words of genKey, character by character.
LEMMA GenKeyIs ==
    ASSUME NEW db \in Nat, NEW key \in Seq(Nat)
    PROVE  LET d == Len(Digits[db])
               w == genKey(db, key)
           IN
           /\ d \in Nat /\ w \in Seq(Nat) /\ Len(w) = d + 1 + Len(key)
           /\ \A i \in 1 .. d : w[i] = Digits[db][i]
           /\ w[d + 1] = Space
           /\ \A i \in 1 .. Len(key) : w[d + 1 + i] = key[i]
<1> DEFINE D == Digits[db]
           s == <<Space>>
<1>1. D \in Seq(Nat)
  BY DigitsOfNumber
<1>2. s \in Seq(Nat) /\ Len(s) = 1 /\ s[1] = Space
  BY DEF Space
<1> HIDE DEF D, s
<1> DEFINE t == D \o s
<1>3. /\ t \in Seq(Nat) /\ Len(t) = Len(D) + 1 /\ t[Len(D) + 1] = Space
      /\ \A i \in 1 .. Len(D) : t[i] = D[i]
  <2>1. /\ t \in Seq(Nat) /\ Len(t) = Len(D) + Len(s)
        /\ \A i \in 1 .. Len(D) + Len(s) : t[i] = IF i <= Len(D) THEN D[i] ELSE s[i - Len(D)]
    BY <1>1, <1>2, ConcatProperties
  <2> HIDE DEF t
  <2>2. Len(D) \in Nat
    BY <1>1
  <2>3. t[Len(D) + 1] = s[(Len(D) + 1) - Len(D)]
    BY <1>2, <2>1, <2>2
  <2> QED
    BY <1>2, <2>1, <2>2, <2>3
<1> HIDE DEF t
<1> DEFINE w == t \o key
<1>4. /\ w \in Seq(Nat) /\ Len(w) = Len(t) + Len(key)
      /\ \A i \in 1 .. Len(t) : w[i] = t[i]
      /\ \A i \in 1 .. Len(key) : w[Len(t) + i] = key[i]
  <2>1. /\ w \in Seq(Nat) /\ Len(w) = Len(t) + Len(key)
        /\ \A i \in 1 .. Len(t) + Len(key) : w[i] = IF i <= Len(t) THEN t[i] ELSE key[i - Len(t)]
    BY <1>3, ConcatProperties
  <2> HIDE DEF w
  <2>2. Len(t) \in Nat /\ Len(key) \in Nat
    BY <1>3
  <2>3. ASSUME NEW i \in 1 .. Len(key) PROVE w[Len(t) + i] = key[i]
    <3>1. (Len(t) + i) - Len(t) = i /\ Len(t) + i \in 1 .. Len(t) + Len(key) /\ ~(Len(t) + i <= Len(t))
      BY <2>2
    <3> QED
      BY <2>1, <3>1
  <2> QED
    BY <2>1, <2>2, <2>3
<1> HIDE DEF w
<1>5. Len(D) \in Nat
  BY <1>1
<1>6. w[Len(D) + 1] = Space /\ \A i \in 1 .. Len(D) : w[i] = D[i]
  BY <1>3, <1>4, <1>5
<1>7. w = genKey(db, key)
  BY DEF genKey, D, s, t, w
<1> QED
  BY <1>3, <1>4, <1>5, <1>6, <1>7 DEF D

(***************************************************************************)
(* parseNodeKey (radix.go:123-135) undoes genKey, also on a name that is   *)
(* the beginning of several keys, as long as the database is all in it.    *)
(***************************************************************************)
LEMMA KeyReadBack ==
    ASSUME NEW db \in Nat, NEW key \in Seq(Nat), NEW p \in Seq(Nat),
           Begins(p, genKey(db, key)), HasDatabase(p)
    PROVE  /\ parseNodeKey(p).db = db
           /\ genKey(parseNodeKey(p).db, parseNodeKey(p).key) = p
<1> DEFINE D == Digits[db]
           d == Len(D)
           w == genKey(db, key)
<1>1. D \in Seq(Nat) /\ d \in Nat /\ \A i \in 1 .. d : D[i] < Space
  BY DigitsOfNumber, DigitsAreDigits
<1>2. /\ w \in Seq(Nat) /\ w[d + 1] = Space /\ \A i \in 1 .. d : w[i] = D[i]
  BY GenKeyIs
<1>3. Begins(p, w)
  OBVIOUS
<1>4. PICK j \in 1 .. Len(p) : p[j] = Space
  BY DEF HasDatabase, Contains
<1> HIDE DEF w, d
<1>5. \A i \in 1 .. Len(p) : p[i] = w[i]
  BY <1>3 DEF Begins
<1>6. j > d
  <2> SUFFICES ASSUME j <= d PROVE FALSE
    BY <1>1
  <2>1. j \in 1 .. d /\ w[j] = Space
    BY <1>1, <1>4, <1>5
  <2>2. D[j] < Space /\ D[j] = Space
    BY <1>1, <1>2, <2>1
  <2> QED
    BY <2>2 DEF Space
<1>7. d < Len(p) /\ p[d + 1] = Space
  <2>1. d + 1 \in 1 .. Len(p)
    BY <1>1, <1>6
  <2>2. p[d + 1] = w[d + 1]
    BY <1>5, <2>1
  <2> QED
    BY <1>1, <1>2, <2>1, <2>2
<1>8. ASSUME NEW i \in 1 .. d PROVE p[i] = D[i] /\ p[i] # Space
  <2>1. p[i] = D[i] /\ D[i] < Space
    BY <1>1, <1>2, <1>5, <1>7
  <2> QED
    BY <2>1 DEF Space
<1> DEFINE index == SelectInSeq(p, LAMBDA c : c = Space)
           rest == SubSeq(p, index + 1, Len(p))
<1>9. index = d + 1
  BY <1>1, <1>7, <1>8, FirstSpace
<1>10. parseNodeKey(p) = [db |-> Atoi[SubSeq(p, 1, index - 1)], key |-> rest]
  BY DEF parseNodeKey
<1> HIDE DEF index
<1>11. SubSeq(p, 1, d) = D
  <2>1. d \in 0 .. Len(p)
    BY <1>1, <1>7
  <2>2. /\ SubSeq(p, 1, d) \in Seq(Nat) /\ Len(SubSeq(p, 1, d)) = d
        /\ \A i \in 1 .. d : SubSeq(p, 1, d)[i] = p[i]
    BY <2>1, Cut
  <2>3. Len(D) = d
    BY DEF d
  <2> QED
    BY <1>1, <1>8, <2>2, <2>3, SeqEqual
<1>12. Atoi[SubSeq(p, 1, index - 1)] = db
  <2>1. index - 1 = d
    BY <1>1, <1>9
  <2> QED
    BY <1>11, <2>1, AtoiOfDigits
<1>13. parseNodeKey(p).db = db /\ parseNodeKey(p).key = rest
  <2> HIDE DEF rest
  <2> QED
    BY <1>10, <1>12
<1>14. /\ rest \in Seq(Nat) /\ Len(rest) = Len(p) - (d + 1)
       /\ \A i \in 1 .. Len(p) - (d + 1) : rest[i] = p[d + 1 + i]
  <2> DEFINE e == d + 1
  <2>1. e \in 0 .. Len(p)
    BY <1>1, <1>7
  <2>2. rest = SubSeq(p, e + 1, Len(p))
    BY <1>9
  <2> HIDE DEF e, rest
  <2>3. /\ rest \in Seq(Nat) /\ Len(rest) = Len(p) - e
        /\ \A i \in 1 .. Len(p) - e : rest[i] = p[e + i]
    BY <2>1, <2>2, Cut
  <2> QED
    BY <2>3 DEF e
<1> HIDE DEF rest
<1>15. LET z == genKey(db, rest) IN
       /\ z \in Seq(Nat) /\ Len(z) = d + 1 + Len(rest)
       /\ \A i \in 1 .. d : z[i] = D[i]
       /\ z[d + 1] = Space
       /\ \A i \in 1 .. Len(rest) : z[d + 1 + i] = rest[i]
  BY <1>14, GenKeyIs DEF d
<1> DEFINE z == genKey(db, rest)
<1>16. /\ z \in Seq(Nat) /\ Len(z) = d + 1 + Len(rest)
       /\ \A i \in 1 .. d : z[i] = D[i]
       /\ z[d + 1] = Space
       /\ \A i \in 1 .. Len(rest) : z[d + 1 + i] = rest[i]
  BY <1>15
<1> HIDE DEF z, D
<1>17. Len(z) = Len(p)
  BY <1>1, <1>14, <1>16
<1>18. ASSUME NEW i \in 1 .. Len(p) PROVE z[i] = p[i]
  <2>1. CASE i <= d
    BY <1>1, <1>8, <1>16, <2>1
  <2>2. CASE i = d + 1
    BY <1>7, <1>16, <2>2
  <2>3. CASE i > d + 1
    <3> DEFINE m == i - (d + 1)
    <3>1. m \in 1 .. Len(p) - (d + 1) /\ i = d + 1 + m
      BY <1>1, <2>3
    <3> HIDE DEF m
    <3>2. z[d + 1 + m] = rest[m] /\ rest[m] = p[d + 1 + m]
      BY <1>14, <1>16, <3>1
    <3> QED
      BY <3>1, <3>2
  <2> QED
    BY <1>1, <2>1, <2>2, <2>3
<1>19. z = p
  BY <1>16, <1>17, <1>18, SeqEqual
<1> QED
  BY <1>13, <1>19 DEF z

\* Between two insertions the nodes are the prefixes, each with its counts.
LEMMA Counts ==
    ASSUME TreeInv, pc = "idle"
    PROVE  /\ Linked(nodes) /\ Typed(nodes)
           /\ \A p : p \in Prefixed <=> \E n \in DOMAIN nodes : Name(nodes, n) = p
           /\ \A n \in DOMAIN nodes :
                  /\ Name(nodes, n) \in Seq(Nat)
                  /\ nodes[n].totalSize = SizeOf(Name(nodes, n))
                  /\ nodes[n].keyCount = Cardinality(Below(Name(nodes, n)))
<1>1. Linked(nodes) /\ Typed(nodes)
  BY DEF TreeInv, Linked
<1>2. CountsEveryPrefix
  BY TreeCounts
<1>3. /\ {nodes[n].fullpath : n \in DOMAIN nodes} = Prefixed
      /\ \A n \in DOMAIN nodes :
             /\ nodes[n].totalSize = SizeOf(nodes[n].fullpath)
             /\ nodes[n].keyCount = Cardinality(Below(nodes[n].fullpath))
  BY <1>2, Zenon DEF CountsEveryPrefix
<1> HIDE DEF Prefixed
<1> QED
  BY <1>1, <1>3, NodeOf DEF Name

\* The depth of a node is that of its name.
LEMMA SameDepth ==
    ASSUME TreeInv, pc = "idle", NEW n \in DOMAIN nodes
    PROVE  DepthOf(Name(nodes, n)) = Depth(nodes, n)
<1> DEFINE A == Above(nodes, n)
           B == {q \in Prefixed : IsPrefix(q, Name(nodes, n))}
           f == [m \in A |-> Name(nodes, m)]
<1>1. /\ Linked(nodes) /\ Typed(nodes)
      /\ \A p : p \in Prefixed <=> \E m \in DOMAIN nodes : Name(nodes, m) = p
      /\ \A m \in DOMAIN nodes : Name(nodes, m) \in Seq(Nat)
  BY Counts
<1>2. \A m \in DOMAIN nodes : IsPrefix(Name(nodes, m), Name(nodes, n)) <=> m \in A
  BY <1>1, PrefixBegins DEF Above
<1>3. \A m \in A : m \in DOMAIN nodes
  BY DEF Above
<1>4. \A m \in A : Name(nodes, m) \in B
  BY <1>1, <1>2, <1>3
<1>5. \A b \in B : \E m \in A : Name(nodes, m) = b
  BY <1>1, <1>2
<1>6. \A m, k \in A : Name(nodes, m) = Name(nodes, k) => m = k
  BY <1>1, <1>3, OneName
<1>7. IsFiniteSet(A)
  BY <1>1, AboveFinite
<1> HIDE DEF A, B
<1>8. f \in [A -> B] /\ \A m \in A : f[m] = Name(nodes, m)
  BY <1>4
<1> HIDE DEF f
<1>9. f \in Surjection(A, B)
  BY <1>5, <1>8 DEF Surjection
<1>10. f \in Injection(A, B)
  BY <1>6, <1>8 DEF Injection, IsInjective
<1>11. ExistsBijection(A, B)
  BY <1>9, <1>10 DEF ExistsBijection, Bijection
<1>12. Cardinality(B) = Cardinality(A)
  BY <1>7, <1>11, FS_Bijection
<1> QED
  BY <1>12 DEF A, B, DepthOf, Depth

\* The name of a node that holds a space is read back from its row.
LEMMA NameReadBack ==
    ASSUME TreeInv, WordsAreKeys, NEW n \in DOMAIN nodes, HasDatabase(Name(nodes, n))
    PROVE  genKey(parseNodeKey(Name(nodes, n)).db, parseNodeKey(Name(nodes, n)).key)
               = Name(nodes, n)
<1>1. Linked(nodes) /\ Typed(nodes) /\ Ended(nodes, Placed)
  BY DEF TreeInv, Linked
<1>2. Name(nodes, n) \in Seq(Nat)
  BY <1>1, NodeOf
<1>3. n # Root
  <2> SUFFICES ASSUME n = Root PROVE FALSE
    OBVIOUS
  <2>1. Len(Name(nodes, n)) = 0
    BY <1>1 DEF Linked, RootEmpty
  <2> QED
    BY <2>1 DEF HasDatabase, Contains
<1>4. PICK w \in Placed : Begins(Name(nodes, n), w)
  BY <1>1, <1>3 DEF Ended
<1>5. PICK i \in DOMAIN inserted : w = inserted[i].word
  BY <1>4 DEF Placed
<1>6. PICK o \in Objects : inserted[i].word = genKey(o[1], o[2])
  BY <1>5 DEF WordsAreKeys
<1>7. o[1] \in Nat /\ o[2] \in Seq(Nat)
  BY RadixAssumption
<1> QED
  BY <1>2, <1>4, <1>5, <1>6, <1>7, KeyReadBack

(***************************************************************************)
(* The invariant implies that the report names the largest prefixes.       *)
(***************************************************************************)
LEMMA ReportIsOfLargest ==
    ASSUME TreeInv, WordsAreKeys, ReportInv
    PROVE  ReportOfLargest
<1> SUFFICES ASSUME phase = "done"
             PROVE  /\ Reported \subseteq Eligible
                    /\ Len(rows) = Cardinality(Reported)
                    /\ \A i \in DOMAIN rows :
                           LET p == genKey(rows[i].db, rows[i].prefix) IN
                           rows[i].size = SizeOf(p) /\ rows[i].keyCount = Cardinality(Below(p))
                    /\ \A i, j \in DOMAIN rows : i < j => rows[i].size >= rows[j].size
                    /\ \A p \in Eligible \ Reported :
                           Len(rows) = topN /\ \A i \in DOMAIN rows : rows[i].size >= SizeOf(p)
  BY Zenon DEF ReportOfLargest
<1>1. /\ pc = "idle" /\ queue = << >> /\ Len(rows) = Len(toplist) /\ RowsInv
      /\ ListInv(nodes, Seen(nodes, queue), toplist, topN, maxDepth)
  BY DEF ReportInv
<1>2. Seen(nodes, queue) = DOMAIN nodes
  <2>1. DOMAIN queue = {}
    BY <1>1
  <2> QED
    BY <2>1 DEF Seen, Pending
<1>3. /\ Linked(nodes) /\ Typed(nodes)
      /\ \A p : p \in Prefixed <=> \E n \in DOMAIN nodes : Name(nodes, n) = p
      /\ \A n \in DOMAIN nodes :
             /\ Name(nodes, n) \in Seq(Nat)
             /\ nodes[n].totalSize = SizeOf(Name(nodes, n))
             /\ nodes[n].keyCount = Cardinality(Below(Name(nodes, n)))
  BY <1>1, Counts
<1>4. /\ Len(toplist) \in Nat /\ DOMAIN toplist = 1 .. Len(toplist)
      /\ DOMAIN rows = 1 .. Len(rows)
      /\ \A k \in DOMAIN toplist : toplist[k].node \in DOMAIN nodes /\ toplist[k].size \in Nat
  BY <1>1, ListOf DEF RowsInv
<1>5. DOMAIN rows = DOMAIN toplist
  BY <1>1, <1>4
<1> DEFINE N(i) == toplist[i].node
           P(i) == genKey(rows[i].db, rows[i].prefix)
\* The row of a node names the node and has its counts.
<1>6. ASSUME NEW i \in DOMAIN rows
      PROVE  /\ N(i) \in DOMAIN nodes /\ P(i) = Name(nodes, N(i))
             /\ rows[i].size = nodes[N(i)].totalSize
             /\ rows[i].keyCount = nodes[N(i)].keyCount
             /\ rows[i].size = toplist[i].size
  <2> DEFINE n == N(i)
  <2>1. n \in DOMAIN nodes /\ toplist[i].size = nodes[n].totalSize
    BY <1>1, <1>4, <1>5 DEF ListInv
  <2>2. HasDatabase(nodes[n].fullpath) /\ rows[i] = RowOf(nodes[n])
    BY <1>1 DEF RowsInv
  <2> HIDE DEF n
  <2>3. /\ rows[i].db = parseNodeKey(Name(nodes, n)).db
        /\ rows[i].prefix = parseNodeKey(Name(nodes, n)).key
        /\ rows[i].size = nodes[n].totalSize /\ rows[i].keyCount = nodes[n].keyCount
    BY <2>2 DEF RowOf, Name
  <2>4. P(i) = Name(nodes, n)
    BY <2>1, <2>2, <2>3, NameReadBack DEF Name
  <2> QED
    BY <2>1, <2>3, <2>4 DEF n
<1>7. \A i \in DOMAIN rows : Shown(nodes, N(i), maxDepth)
  BY <1>1, <1>5 DEF ListInv
<1>8. \A i, j \in DOMAIN rows : N(i) = N(j) => i = j
  BY <1>1, <1>5 DEF ListInv
<1>9. \A i, j \in DOMAIN rows : i < j => toplist[i].size >= toplist[j].size
  BY <1>1, <1>5 DEF ListInv
<1> HIDE DEF N, P
<1>10. Reported = {P(i) : i \in DOMAIN rows}
  BY DEF Reported, P
\* What is eligible is the name of a node to show.
<1>11. \A n \in DOMAIN nodes : Shown(nodes, n, maxDepth) <=> Name(nodes, n) \in Eligible
  <2>1. \A n \in DOMAIN nodes : DepthOf(Name(nodes, n)) = Depth(nodes, n)
    BY <1>1, SameDepth
  <2>2. \A n \in DOMAIN nodes : Name(nodes, n) \in Prefixed
    BY <1>3
  <2> QED
    BY <2>1, <2>2 DEF Shown, Eligible
<1>12. Reported \subseteq Eligible
  BY <1>6, <1>7, <1>10, <1>11
<1>13. Len(rows) = Cardinality(Reported)
  <2> DEFINE R == Reported
             l == Len(rows)
             I == 1 .. l
             f == [i \in I |-> P(i)]
  <2>1. l \in Nat /\ DOMAIN rows = I
    BY <1>1, <1>4
  <2>2. \A i, j \in I : P(i) = P(j) => i = j
    BY <1>3, <1>6, <1>8, <2>1, OneName
  <2>3. R = {P(i) : i \in I}
    BY <1>10, <2>1
  <2>4. IsFiniteSet(I) /\ Cardinality(I) = l
    <3> HIDE DEF l
    <3>1. IsFiniteSet(1 .. l) /\ Cardinality(1 .. l) = IF 1 > l THEN 0 ELSE l - 1 + 1
      BY <2>1, FS_Interval
    <3> QED
      BY <2>1, <3>1
  <2> HIDE DEF R, I
  <2>5. f \in [I -> R] /\ \A i \in I : f[i] = P(i)
    BY <2>3
  <2> HIDE DEF f
  <2>6. f \in Surjection(I, R)
    BY <2>3, <2>5 DEF Surjection
  <2>7. f \in Injection(I, R)
    BY <2>2, <2>5 DEF Injection, IsInjective
  <2>8. ExistsBijection(I, R)
    BY <2>6, <2>7 DEF ExistsBijection, Bijection
  <2>9. Cardinality(R) = Cardinality(I)
    BY <2>4, <2>8, FS_Bijection
  <2> QED
    BY <2>4, <2>9 DEF R
<1>14. ASSUME NEW i \in DOMAIN rows
       PROVE  rows[i].size = SizeOf(P(i)) /\ rows[i].keyCount = Cardinality(Below(P(i)))
  BY <1>3, <1>6
<1>15. \A i, j \in DOMAIN rows : i < j => rows[i].size >= rows[j].size
  BY <1>6, <1>9
<1>16. ASSUME NEW p \in Eligible \ Reported
       PROVE  Len(rows) = topN /\ \A i \in DOMAIN rows : rows[i].size >= SizeOf(p)
  <2>1. PICK n \in DOMAIN nodes : Name(nodes, n) = p
    BY <1>3 DEF Eligible
  <2>2. Settled(nodes, toplist, topN, n)
    BY <1>1, <1>2, <1>11, <2>1 DEF ListInv
  <2>3. ~ \E k \in DOMAIN toplist : toplist[k].node = n
    BY <1>5, <1>6, <1>10, <2>1 DEF N
  <2>4. Len(toplist) = topN /\ \A k \in DOMAIN toplist : toplist[k].size >= nodes[n].totalSize
    BY <2>2, <2>3 DEF Settled
  <2> QED
    BY <1>1, <1>3, <1>5, <1>6, <2>1, <2>4
<1> QED
  BY <1>12, <1>13, <1>14, <1>15, <1>16 DEF P

\* The invariant implies the type invariant.
LEMMA ReportTypes ==
    ASSUME TreeInv, ReportInv
    PROVE  TypeOK
<1>1. TreeTypeOK
  BY TreeTypes
<1>2. CASE phase \in {"start", "parse", "refused"}
  <2>1. /\ queue = << >> /\ toplist = << >> /\ rows = << >>
        /\ phase \in Phases /\ topN \in Int /\ maxDepth \in Int
    BY <1>2 DEF ReportInv
  <2>2. Len(rows) = 0 /\ Len(toplist) = 0 /\ DOMAIN queue = {} /\ DOMAIN toplist = {}
    BY <2>1
  <2> QED
    BY <1>1, <2>1, <2>2 DEF TypeOK, Phases
<1>3. CASE phase \in {"traverse", "print", "done", "panic"}
  <2>1. /\ topN \in Int /\ maxDepth \in Int /\ RowsInv
        /\ QueueInv(nodes, queue)
        /\ ListInv(nodes, Seen(nodes, queue), toplist, topN, maxDepth)
    BY <1>3 DEF ReportInv
  <2>2. \A i \in DOMAIN queue : queue[i].node \in DOMAIN nodes /\ queue[i].depth \in Nat
    BY <2>1, QueueOf
  <2>3. \A i \in DOMAIN toplist : toplist[i].node \in DOMAIN nodes
    BY <2>1, ListOf
  <2>4. Len(toplist) <= topN /\ Len(rows) <= Len(toplist)
    BY <2>1 DEF ListInv, RowsInv
  <2> QED
    BY <1>1, <1>3, <2>1, <2>2, <2>3, <2>4 DEF TypeOK
<1> QED
  BY <1>2, <1>3 DEF ReportInv, Phases

(***************************************************************************)
(* The inductive invariant holds in every state of the analysis.           *)
(***************************************************************************)
THEOREM InvariantIsKept == Spec => []IInv
<1>1. Init => IInv
  BY TreeStart, ReportStart DEF Init, IInv
<1>2. IInv /\ [Next]_vars => IInv'
  BY TreeStep, WordsStep, ReportStep DEF IInv
<1> QED
  BY <1>1, <1>2, PTL DEF Spec

\* Every action of PrefixAnalyse keeps its variables, queue and list within their types.
THEOREM AnalysisIsTyped == Spec => []TypeOK
<1>1. IInv => TypeOK
  BY ReportTypes DEF IInv
<1> QED
  BY <1>1, InvariantIsKept, PTL

(***************************************************************************)
(* The links of the tree hold between any two iterations of insert         *)
(* (radix.go:41-91): one parent, no empty path, no two siblings that begin *)
(* alike.                                                                  *)
(***************************************************************************)
THEOREM TreeIsWellLinked == Spec => []WellLinked
<1>1. IInv => WellLinked
  BY TreeLinks DEF IInv
<1> QED
  BY <1>1, InvariantIsKept, PTL

\* The assertions in the comments of insert (radix.go:44 and 65) never fail.
THEOREM AssertionsHold == Spec => []WalkAsserts
<1>1. IInv => WalkAsserts
  BY TreeAsserts DEF IInv
<1> QED
  BY <1>1, InvariantIsKept, PTL

(***************************************************************************)
(* Between two insertions (radix.go:36-91) the tree has one node for every *)
(* word and every place where words part, with the keys and bytes below it.*)
(***************************************************************************)
THEOREM EveryPrefixCounted == Spec => []CountsEveryPrefix
<1>1. IInv => CountsEveryPrefix
  BY TreeCounts DEF IInv
<1> QED
  BY <1>1, InvariantIsKept, PTL

(***************************************************************************)
(* The report of PrefixAnalyse (prefix.go:18-95) names the topN largest of *)
(* all prefixes at the depths asked for, each once, with the right counts, *)
(* the largest first.                                                      *)
(***************************************************************************)
THEOREM ReportNamesTheLargest == Spec => []ReportOfLargest
<1>1. IInv => ReportOfLargest
  BY ReportIsOfLargest DEF IInv
<1> QED
  BY <1>1, InvariantIsKept, PTL

=============================================================================
