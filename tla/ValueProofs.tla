---------------------------- MODULE ValueProofs ----------------------------
(***************************************************************************)
(* A value that is written and then read comes back whole: strings, lists, *)
(* hashes, sets, sorted sets and what Redis writes, for any number of      *)
(* pieces, pages, entries and members.  What the codecs do with each of    *)
(* these is proved in CodecProofs.                                         *)
(*                                                                         *)
(* An invariant says of each kind what the file still has to give and what *)
(* has been given (StringInv, ListpackRead, ZipmapRead, ModuleRead,        *)
(* QuickRead, HashExInv, PagesRead); one lemma says what one turn of the   *)
(* decoder's loop does to it.                                              *)
(***************************************************************************)
EXTENDS Values, CodecProofs
(***************************************************************************)
(* What is in the file and what is still to be written, together, is the   *)
(* string, or it is not a string at all.                                   *)
(***************************************************************************)
StringItems(s) ==
    {TornItem, Hdr(writeLength(s.len)), Body(s), writeString(s)[1], Hdr(<< 195 >>)}
    \cup {Hdr(writeLength(Len(c.out))) : c \in Compressions(s.val)}
    \cup {Body(Spelled(c.out)) : c \in Compressions(s.val)}

\* A compressed form of s, and no integer.
LzfForm(s, w) ==
    /\ s.val \in Seq(LzfByte) /\ s = Spelled(s.val)
    /\ \E c \in Compressions(s.val) : c.ok /\ w = writeLZFString(s, c.out)

WriteInv(s, f, r) ==
    /\ f \in Seq(StringItems(s)) /\ r.pending \in Seq(StringItems(s))
    /\ r.form = "lzf" => ~r.torn /\ LzfForm(s, f \o r.pending)
    /\ r.torn => readString(f \o r.pending).is = "lost"
    /\ ~r.torn => readString(f \o r.pending) = Got(s, << >>)

StringInv ==
    /\ object \in Objects
    /\ DOMAIN reader = DOMAIN Locals
    /\ IsString =>
        /\ phase \in {"new", "writing", "failed", "done", "lost"}
        /\ phase = "new" => file = << >> /\ ~reader.torn
        /\ phase = "writing" => WriteInv(object.value, file, reader)
        /\ phase = "done" => got = <<object.value>> /\ ~reader.torn
        /\ phase = "lost" => reader.torn

LEMMA StringObject ==
    ASSUME NEW o \in Objects, o.type = "string"
    PROVE  /\ IsText(o.value) /\ o.value.len \in Int64s /\ LzfMin \in Nat
           /\ o.compress /\ o.value.len > LzfMin /\ ~isEncodableUint32(o.value) =>
                 o.value.val \in Seq(LzfByte) /\ o.value = Spelled(o.value.val)
<1>1. IsText(o.value)
  BY StringAssumption, Zenon
<1>2. o.value.len \in Int64s
  BY <1>1, Int64Wide, Zenon DEF IsText
<1>3. o.compress /\ o.value.len > LzfMin /\ ~isEncodableUint32(o.value) =>
         o.value.val \in Seq(LzfByte) /\ o.value = Spelled(o.value.val)
  BY StringAssumption, Zenon DEF LzfByte
<1> QED
  BY <1>1, <1>2, <1>3, StringAssumption, Zenon

\* Every item of a plan is one of the string's.
LEMMA SimplePlan ==
    ASSUME NEW s PROVE writeSimpleString(s) \in Seq(StringItems(s))
<1> DEFINE S == StringItems(s)
           a == Hdr(writeLength(s.len))
           b == Body(s)
<1>1. a \in S /\ b \in S
  BY Zenon DEF StringItems
<1> HIDE DEF S, a, b
<1>2. <<a, b>> \in Seq(S)
  BY <1>1
<1> QED
  BY <1>2, Zenon DEF writeSimpleString, S, a, b

LEMMA IntPlan ==
    ASSUME NEW s, isEncodableUint32(s)
    PROVE  /\ writeString(s) = <<Hdr(IntString(s.val[1]))>>
           /\ writeString(s) \in Seq(StringItems(s))
<1> DEFINE S == StringItems(s)
           a == Hdr(IntString(s.val[1]))
           w == writeString(s)
<1>1. w = <<a>>
  BY Zenon DEF writeString
<1>2. w[1] \in S
  BY Zenon DEF StringItems
<1> HIDE DEF S, a, w
<1>3. w[1] = a
  BY <1>1
<1>4. <<a>> \in Seq(S)
  BY <1>2, <1>3
<1> QED
  BY <1>1, <1>4, Zenon DEF w, a, S

LEMMA LzfPlan ==
    ASSUME NEW s, NEW c \in Compressions(s.val)
    PROVE  writeLZFString(s, c.out) \in Seq(StringItems(s))
<1> DEFINE S == StringItems(s)
           h == Hdr(<< 195 >>)
           n == Hdr(writeLength(Len(c.out)))
           a == Hdr(writeLength(s.len))
           b == Body(Spelled(c.out))
<1>1. h \in S /\ a \in S
  BY Zenon DEF StringItems
<1>2. n \in S
  <2>1. n \in {Hdr(writeLength(Len(d.out))) : d \in Compressions(s.val)}
    BY Zenon
  <2> QED
    BY <2>1, Zenon DEF StringItems
<1>3. b \in S
  <2>1. b \in {Body(Spelled(d.out)) : d \in Compressions(s.val)}
    BY Zenon
  <2> QED
    BY <2>1, Zenon DEF StringItems
<1> HIDE DEF S, h, n, a, b
<1>4. <<h, n, a, b>> \in Seq(S)
  BY <1>1, <1>2, <1>3
<1> QED
  BY <1>4, Zenon DEF writeLZFString, S, h, n, a, b

\* What a plan writes is the string.
LEMMA SimpleReadBack ==
    ASSUME NEW s, s.len \in Int64s
    PROVE  readString(writeSimpleString(s)) = Got(s, << >>)
<1> DEFINE S == StringItems(s)
           w == writeSimpleString(s)
<1>1. w \in Seq(S)
  BY SimplePlan
<1>2. Len(w) = 2 /\ w[1] = Hdr(writeLength(s.len)) /\ w[2] = Body(s)
  BY SimpleItems
<1> HIDE DEF S, w
<1>3. readString(w) = Got(s, Tail(Tail(w)))
  <2>1. Len(w) >= 2
    BY <1>2
  <2> QED
    BY <1>1, <1>2, <2>1, SimpleReads
<1>4. Tail(Tail(w)) = << >>
  <2> DEFINE u == Tail(w)
  <2>1. Len(w) > 0 /\ Len(w) - 1 = 1
    BY <1>2
  <2>2. u \in Seq(S) /\ Len(u) = Len(w) - 1
    BY <1>1, <2>1, TailIs
  <2> HIDE DEF u
  <2>3. Len(u) > 0 /\ Len(u) = 1
    BY <2>1, <2>2
  <2>4. Tail(u) = << >>
    BY <2>2, <2>3, TailIs
  <2> QED
    BY <2>4, Zenon DEF u
<1> QED
  BY <1>3, <1>4, Zenon DEF w

LEMMA UpToMax ==
    ASSUME NEW v \in Int, 0 <= v, v <= MaxInt32 PROVE v \in 0 .. MaxInt32
<1>1. MaxInt32 \in Int
  BY SMT DEF MaxInt32
<1> QED
  BY <1>1, SMT

LEMMA IntReadBack ==
    ASSUME NEW s, IsText(s), isEncodableUint32(s)
    PROVE  readString(writeString(s)) = Got(s, << >>)
<1> DEFINE v == s.val[1]
<1>1. s = Num(v) /\ v \in Int /\ 0 <= v /\ v <= MaxInt32
  BY Zenon DEF IsText, IsInt64, isEncodableUint32, isEncodableUint64
<1> HIDE DEF v
<1>2. v \in 0 .. MaxInt32
  BY <1>1, UpToMax, Zenon
<1>3. readString(<<Hdr(IntString(v))>>) = Got(Num(v), << >>)
  <2> DEFINE a == Hdr(IntString(v))
             f == <<a>>
  <2> HIDE DEF a
  <2>1. f \in Seq({a}) /\ Len(f) > 0 /\ f[1] = a /\ Tail(f) = << >>
    OBVIOUS
  <2> HIDE DEF f
  <2>2. f[1] = Hdr(IntString(v))
    BY <2>1, Zenon DEF a
  <2>3. readString(f) = Got(Num(v), Tail(f))
    BY <1>2, <2>1, <2>2, IntReads
  <2> QED
    BY <2>1, <2>3, Zenon DEF f, a
<1>4. writeString(s) = <<Hdr(IntString(v))>>
  BY IntPlan, Zenon DEF v
<1> QED
  BY <1>1, <1>3, <1>4, Zenon

LEMMA LzfReadBack ==
    ASSUME NEW s, s.len \in Int64s, s.val \in Seq(LzfByte), s = Spelled(s.val),
           NEW c \in Compressions(s.val), c.ok
    PROVE  readString(writeLZFString(s, c.out)) = Got(s, << >>)
<1> DEFINE S == StringItems(s)
           w == writeLZFString(s, c.out)
           val == s.val
<1>1. w \in Seq(S)
  BY LzfPlan
<1>2. Len(w) = 4 /\ w[1] = Hdr(<< 195 >>) /\ w[2] = Hdr(writeLength(Len(c.out)))
      /\ w[3] = Hdr(writeLength(s.len)) /\ w[4] = Body(Spelled(c.out))
  BY LzfItems
<1>3. s.len = Len(val)
  <2>1. Spelled(val).len = Len(val)
    BY DEF Spelled
  <2> QED
    BY <2>1, Zenon
<1>4. val \in Seq(LzfByte) /\ c \in Compressions(val) /\ Len(val) \in Int64s
  BY <1>3, Zenon
<1>5. s = Spelled(val)
  BY Zenon
<1> HIDE DEF S, w, val
<1>6. w[3] = Hdr(writeLength(Len(val)))
  BY <1>2, <1>3, Zenon
<1>7. readString(w) = Got(Spelled(val), << >>)
  BY <1>1, <1>2, <1>4, <1>6, LzfItemsRead
<1> QED
  BY <1>5, <1>7, Zenon DEF w

\* The invariant of writing holds when it begins, with any of the plans.
LEMMA WriteStarts ==
    ASSUME NEW o \in Objects, o.type = "string", NEW r, ~r.torn,
           \/ isEncodableUint32(o.value) /\ r.form = "int" /\ r.pending = writeString(o.value)
           \/ r.form = "simple" /\ r.pending = writeSimpleString(o.value)
           \/ /\ ~isEncodableUint32(o.value) /\ o.compress /\ o.value.len > LzfMin
              /\ \E c \in Compressions(o.value.val) :
                    c.ok /\ r.pending = writeLZFString(o.value, c.out)
    PROVE  WriteInv(o.value, << >>, r)
<1> DEFINE s == o.value
           S == StringItems(s)
           p == r.pending
<1>1. IsText(s) /\ s.len \in Int64s
  BY StringObject, Zenon
<1>2. /\ p \in Seq(S) /\ readString(p) = Got(s, << >>)
      /\ r.form = "lzf" => LzfForm(s, p)
  <2>1. CASE isEncodableUint32(s) /\ r.form = "int" /\ p = writeString(s)
    <3>1. p \in Seq(S) /\ readString(p) = Got(s, << >>)
      BY <1>1, <2>1, IntPlan, IntReadBack, Zenon
    <3>2. r.form # "lzf"
      BY <2>1
    <3> QED
      BY <3>1, <3>2, Zenon
  <2>2. CASE r.form = "simple" /\ p = writeSimpleString(s)
    <3>1. p \in Seq(S) /\ readString(p) = Got(s, << >>)
      BY <1>1, <2>2, SimplePlan, SimpleReadBack, Zenon
    <3>2. r.form # "lzf"
      BY <2>2
    <3> QED
      BY <3>1, <3>2, Zenon
  <2>3. CASE /\ ~isEncodableUint32(s) /\ o.compress /\ s.len > LzfMin
             /\ \E c \in Compressions(s.val) : c.ok /\ p = writeLZFString(s, c.out)
    <3>1. s.val \in Seq(LzfByte) /\ s = Spelled(s.val)
      BY <2>3, StringObject, Zenon
    <3>2. PICK c \in Compressions(s.val) : c.ok /\ p = writeLZFString(s, c.out)
      BY <2>3, Zenon
    <3>3. p \in Seq(S)
      BY <3>2, LzfPlan, Zenon
    <3>4. readString(writeLZFString(s, c.out)) = Got(s, << >>)
      BY <1>1, <3>1, <3>2, LzfReadBack, Zenon
    <3>5. LzfForm(s, p)
      BY <3>1, <3>2, Zenon DEF LzfForm
    <3> QED
      BY <3>2, <3>3, <3>4, <3>5, Zenon
  <2> QED
    BY <2>1, <2>2, <2>3, Zenon
<1> HIDE DEF s, S
<1>3. << >> \in Seq(S) /\ << >> \o p = p
  BY <1>2, EmptySeq, ConcatEmptySeq
<1>4. << >> \in Seq(StringItems(s)) /\ p \in Seq(StringItems(s))
  BY <1>2, <1>3, Zenon DEF S
<1> QED
  BY <1>2, <1>3, <1>4, Zenon DEF WriteInv, s

\* A piece that is written is no longer to be written.
LEMMA OneWritten ==
    ASSUME NEW S, NEW f \in Seq(S), NEW p \in Seq(S), p # << >>
    PROVE  /\ Append(f, p[1]) \in Seq(S) /\ Tail(p) \in Seq(S)
           /\ Append(f, p[1]) \o Tail(p) = f \o p
<1> DEFINE t == Tail(p)
           g == Append(f, p[1])
<1>1. t \in Seq(S) /\ Len(t) = Len(p) - 1 /\ \A i \in 1 .. Len(t) : t[i] = p[i + 1]
  BY HeadTailProperties
<1>2. Len(f) \in Nat /\ Len(p) \in Nat /\ Len(p) >= 1 /\ p[1] \in S
  OBVIOUS
<1>3. /\ g \in Seq(S) /\ Len(g) = Len(f) + 1 /\ g[Len(f) + 1] = p[1]
      /\ \A i \in 1 .. Len(f) : g[i] = f[i]
  BY <1>2, AppendProperties
<1> HIDE DEF t, g
<1> DEFINE a == g \o t
           b == f \o p
<1>4. /\ a \in Seq(S) /\ Len(a) = Len(f) + Len(p)
      /\ \A i \in 1 .. Len(f) + Len(p) :
            a[i] = IF i <= Len(f) + 1 THEN g[i] ELSE t[i - (Len(f) + 1)]
  <2>1. Len(g) + Len(t) = Len(f) + Len(p) /\ Len(g) = Len(f) + 1
    BY <1>1, <1>2, <1>3
  <2>2. g \o t \in Seq(S)
    BY <1>1, <1>3, ConcatProperties
  <2>3. Len(g \o t) = Len(g) + Len(t)
    BY <1>1, <1>3, ConcatProperties
  <2>4. \A i \in 1 .. Len(g) + Len(t) : (g \o t)[i] = IF i <= Len(g) THEN g[i] ELSE t[i - Len(g)]
    BY <1>1, <1>3, ConcatProperties
  <2> QED
    BY <2>1, <2>2, <2>3, <2>4, Zenon
<1>5. /\ b \in Seq(S) /\ Len(b) = Len(f) + Len(p)
      /\ \A i \in 1 .. Len(f) + Len(p) : b[i] = IF i <= Len(f) THEN f[i] ELSE p[i - Len(f)]
  BY ConcatProperties
<1> HIDE DEF a, b
<1>6. ASSUME NEW i \in 1 .. Len(f) + Len(p) PROVE a[i] = b[i]
  <2>1. CASE i <= Len(f)
    BY <1>2, <1>3, <1>4, <1>5, <2>1
  <2>2. CASE i = Len(f) + 1
    <3>1. i - Len(f) = 1 /\ ~(i <= Len(f)) /\ i <= Len(f) + 1
      BY <1>2, <2>2
    <3>2. a[i] = g[i] /\ b[i] = p[i - Len(f)]
      BY <1>4, <1>5, <3>1
    <3> QED
      BY <1>3, <2>2, <3>1, <3>2
  <2>3. CASE i > Len(f) + 1
    <3> DEFINE k == i - (Len(f) + 1)
    <3>1. k \in 1 .. Len(t) /\ k + 1 = i - Len(f) /\ ~(i <= Len(f)) /\ ~(i <= Len(f) + 1)
      BY <1>1, <1>2, <2>3
    <3>2. a[i] = t[k] /\ b[i] = p[i - Len(f)]
      BY <1>4, <1>5, <3>1
    <3> HIDE DEF k
    <3> QED
      BY <1>1, <3>1, <3>2
  <2> QED
    BY <1>2, <2>1, <2>2, <2>3
<1>7. a = b
  BY <1>4, <1>5, <1>6, SeqEqual
<1> QED
  BY <1>1, <1>3, <1>7 DEF a, b, t, g

LEMMA WriteGoesOn ==
    ASSUME NEW s, NEW f, NEW r, WriteInv(s, f, r), r.pending # << >>,
           NEW q, q.pending = Tail(r.pending), q.form = r.form, q.torn <=> r.torn
    PROVE  WriteInv(s, Append(f, r.pending[1]), q)
<1> DEFINE S == StringItems(s)
           p == r.pending
<1>1. f \in Seq(S) /\ p \in Seq(S) /\ p # << >>
  BY Zenon DEF WriteInv
<1> HIDE DEF S
<1>2. Append(f, p[1]) \in Seq(S) /\ Tail(p) \in Seq(S)
  BY <1>1, OneWritten, Zenon
<1>3. Append(f, p[1]) \o Tail(p) = f \o p
  <2> HIDE DEF p
  <2> QED
    BY <1>1, OneWritten
<1> QED
  BY <1>2, <1>3, Zenon DEF WriteInv, S

\* A failed write of a compressed form is taken for none; see TornFile.
LEMMA WriteFails ==
    ASSUME NEW s, s.len \in Int64s, NEW f, NEW r, WriteInv(s, f, r), r.pending # << >>,
           r.form = "lzf", NEW piece, piece \in {<< >>, <<TornItem>>},
           NEW q, q.pending = writeSimpleString(s), q.form = "simple",
           q.torn <=> f \o piece # << >>
    PROVE  WriteInv(s, f \o piece, q)
<1> DEFINE S == StringItems(s)
           p == r.pending
           simple == writeSimpleString(s)
           g == f \o piece
<1>1. f \in Seq(S) /\ p \in Seq(S) /\ p # << >> /\ LzfForm(s, f \o p)
  BY Zenon DEF WriteInv
<1>2. PICK c \in Compressions(s.val) : c.ok /\ f \o p = writeLZFString(s, c.out)
  BY <1>1, Zenon DEF LzfForm
<1> DEFINE z == writeLZFString(s, c.out)
<1>3. Len(z) = 4
  BY LzfItems
<1>4. simple \in Seq(S)
  BY SimplePlan
<1>5. TornItem \in S
  BY Zenon DEF StringItems
<1>6. s.val \in Seq(LzfByte) /\ s = Spelled(s.val)
  BY <1>1, Zenon DEF LzfForm
<1>7. Len(c.out) \in Int64s /\ s.len # Len(c.out)
  <2> DEFINE val == s.val
             out == c.out
  <2>1. val \in Seq(LzfByte) /\ c \in Compressions(val) /\ c.ok
    BY <1>2, <1>6, Zenon
  <2>2. Spelled(val).len = Len(val)
    BY DEF Spelled
  <2>3. s.len = Len(val)
    BY <1>6, <2>2, Zenon
  <2> HIDE DEF val
  <2>4. out \in Seq(LzfByte) /\ Len(out) < Len(val)
    BY <2>1, LzfReadsBack
  <2> HIDE DEF out
  <2>5. Len(out) \in Nat /\ Len(val) \in Nat /\ Len(out) <= Len(val) /\ Len(val) # Len(out)
    BY <2>1, <2>4
  <2>6. Len(val) \in Int64s
    BY <2>3, Zenon
  <2>7. Len(out) \in Int64s
    BY <2>5, <2>6, Int64Below
  <2> QED
    BY <2>3, <2>5, <2>7, Zenon DEF out
<1> DEFINE n == Len(c.out)
<1>8. \A i \in 1 .. Len(f) : f[i] = z[i]
  <2> HIDE DEF S, z, p
  <2>1. \A i \in 1 .. Len(f) + Len(p) : (f \o p)[i] = IF i <= Len(f) THEN f[i] ELSE p[i - Len(f)]
    BY <1>1, ConcatProperties
  <2>2. z = f \o p
    BY <1>2, Zenon DEF z, p
  <2>3. Len(f) \in Nat /\ Len(p) \in Nat
    BY <1>1
  <2> QED
    BY <2>1, <2>2, <2>3
<1>9. Len(f) <= 3
  <2> HIDE DEF S, z, p
  <2>1. Len(f \o p) = Len(f) + Len(p)
    BY <1>1, ConcatProperties
  <2>2. z = f \o p
    BY <1>2, Zenon DEF z, p
  <2>3. Len(f) \in Nat /\ Len(p) \in Nat /\ Len(p) # 0
    BY <1>1
  <2>4. Len(f \o p) = 4
    BY <1>3, <2>2, Zenon
  <2> QED
    BY <2>1, <2>3, <2>4
<1>10. /\ piece \in Seq(S) /\ Len(piece) \in Nat
       /\ piece = << >> \/ (Len(piece) = 1 /\ piece[1] = TornItem)
  <2> DEFINE T == TornItem
  <2>1. T \in S /\ (piece = << >> \/ piece = <<T>>)
    BY <1>5
  <2> HIDE DEF S, T
  <2>2. << >> \in Seq(S) /\ Len(<< >>) \in Nat
    BY EmptySeq
  <2>3. <<T>> \in Seq(S) /\ Len(<<T>>) \in Nat /\ Len(<<T>>) = 1 /\ <<T>>[1] = T
    BY <2>1
  <2>4. CASE piece = << >>
    BY <2>2, <2>4, Zenon DEF T
  <2>5. CASE piece = <<T>>
    BY <2>3, <2>5, Zenon DEF T
  <2> QED
    BY <2>1, <2>4, <2>5, Zenon
<1>11. g \in Seq(S) /\ Len(g) = Len(f) + Len(piece)
  <2> HIDE DEF S
  <2> QED
    BY <1>1, <1>10, ConcatProperties
<1>12. g \o simple \in Seq(S)
  <2> HIDE DEF S, g, simple
  <2> QED
    BY <1>4, <1>11, ConcatProperties
<1>13. ASSUME q.torn PROVE readString(g \o simple).is = "lost"
  <2>1. Len(f) + Len(piece) > 0
    <3>1. g # << >>
      BY <1>13, Zenon
    <3> HIDE DEF g, S
    <3>2. Len(g) # 0 /\ Len(f) \in Nat
      BY <1>1, <1>11, <3>1
    <3> QED
      BY <1>10, <1>11, <3>2
  <2>2. TornFile((f \o piece) \o writeSimpleString(s), s, Len(c.out))
    <3> HIDE DEF S
    <3>1. f \in Seq(S) /\ piece \in Seq(S) /\ writeSimpleString(s) \in Seq(S)
      BY <1>1, <1>4, <1>10, Zenon
    <3>2. \A i \in 1 .. Len(f) : f[i] = writeLZFString(s, c.out)[i]
      BY <1>8
    <3> DEFINE out == c.out
    <3>3. \A i \in 1 .. Len(f) : f[i] = writeLZFString(s, out)[i]
      BY <3>2, Zenon
    <3> HIDE DEF out
    <3>4. TornFile((f \o piece) \o writeSimpleString(s), s, Len(out))
      BY <1>9, <1>10, <2>1, <3>1, <3>3, TornBegins
    <3> QED
      BY <3>4, Zenon DEF out
  <2>3. TornFile(g \o simple, s, n)
    BY <2>2, Zenon
  <2>4. n \in Int64s /\ s.len # n
    BY <1>7, Zenon
  <2> DEFINE w == g \o simple
  <2>5. w \in Seq(S) /\ TornFile(w, s, n)
    BY <1>12, <2>3, Zenon
  <2> HIDE DEF w, n, S
  <2>6. readString(w).is = "lost"
    BY <2>4, <2>5, TornFails
  <2> QED
    BY <2>6, Zenon DEF w
<1>14. ASSUME ~q.torn PROVE readString(g \o simple) = Got(s, << >>)
  <2>1. g = << >>
    BY <1>14, Zenon
  <2>2. g \o simple = simple
    <3>1. << >> \o simple = simple
      <4> HIDE DEF simple, S
      <4> QED
        BY <1>4, ConcatEmptySeq
    <3> QED
      BY <2>1, <3>1, Zenon
  <2> QED
    BY <2>2, SimpleReadBack, Zenon
<1>15. q.form # "lzf"
  OBVIOUS
<1> HIDE DEF g
<1> QED
  BY <1>4, <1>11, <1>13, <1>14, <1>15, Zenon DEF WriteInv, g

\* A step of the system that has a string is a step of its writer or reader.
LEMMA StringSteps ==
    ASSUME StringInv, IsString, Next PROVE StringNext
<1>1. object.type = "string" /\ phase \in {"new", "writing", "failed", "done", "lost"}
  BY DEF StringInv, IsString
<1>2. CASE ListNext
  BY <1>1, <1>2 DEF ListNext, WriteList, RedisQuicklist, OpenList, ReadPage, ReadEntry, ReadNode,
       SizeOfQuicklist2, AllRead, ReadCount, OnePage, Done, IsList, IsQuicklist2
<1>3. CASE TableNext
  BY <1>1, <1>3 DEF TableNext, WriteHash, WriteHashEx, WriteSet, WriteZSet, OpenTable,
       OpenHashEx, ReadTablePage, ReadTableEntry, ReadMember, ReadField, ReadScored, ReadHfe,
       ReadHash2, InTable, AllRead, ReadCount, OnePage, Done, IsTable, Tables
<1>4. CASE StreamNext
  BY <1>1, <1>4 DEF StreamNext, WriteStream, OpenStream, ReadStreamEntry, ReadMessage,
       ReadStreamMeta, ReadGroup, ReadConsumer, StreamDone, AllRead, ReadCount, IsStream
<1>5. CASE RedisNext
  BY <1>1, <1>5 DEF RedisNext, RedisWrites, OpenListpack, ReadMembers, OpenZipmap,
       ReadZipmapEntry, OpenModule, SkipPart, AllRead, Done, IsListpack, IsZipmap, IsModule
<1> QED
  BY <1>2, <1>3, <1>4, <1>5 DEF Next

\* No step of any value changes the object.
LEMMA ObjectStays == ASSUME Next PROVE object' = object
<1>1. CASE StringNext
  BY <1>1 DEF StringNext, BeginString, Plan, WritePiece, FailPiece, ReadStringValue, End
<1>2. CASE ListNext
  BY <1>2 DEF ListNext, WriteList, RedisQuicklist, OpenList, ReadPage, ReadEntry, ReadNode,
       SizeOfQuicklist2, ReadCount, OnePage, Done, Written, End, OpenPage, TakeEntry
<1>3. CASE TableNext
  BY <1>3 DEF TableNext, WriteHash, WriteHashEx, WriteSet, WriteZSet, OpenTable,
       OpenHashEx, ReadTablePage, ReadTableEntry, ReadMember, ReadField, ReadScored, ReadHfe,
       ReadHash2, ReadCount, OnePage, Done, Written, End, OpenPage, TakeEntry, Turned
<1>4. CASE StreamNext
  BY <1>4 DEF StreamNext, WriteStream, OpenStream, ReadStreamEntry, ReadMessage,
       ReadStreamMeta, ReadGroup, ReadConsumer, StreamDone, ReadCount, Written, End
<1>5. CASE RedisNext
  BY <1>5 DEF RedisNext, RedisWrites, OpenListpack, ReadMembers, OpenZipmap,
       ReadZipmapEntry, OpenModule, SkipPart, Done, Written, End, TakeEntry
<1> QED
  BY <1>1, <1>2, <1>3, <1>4, <1>5 DEF Next

LEMMA LocalsKept == ASSUME DOMAIN reader = DOMAIN Locals, Next PROVE DOMAIN reader' = DOMAIN Locals
<1>1. CASE StringNext
  BY <1>1 DEF StringNext, BeginString, Plan, WritePiece, FailPiece, ReadStringValue, End
<1>2. CASE ListNext
  BY <1>2 DEF ListNext, WriteList, RedisQuicklist, OpenList, ReadPage, ReadEntry, ReadNode,
       SizeOfQuicklist2, ReadCount, OnePage, Done, Written, End, OpenPage, TakeEntry
<1>3. CASE TableNext
  BY <1>3 DEF TableNext, WriteHash, WriteHashEx, WriteSet, WriteZSet, OpenTable,
       OpenHashEx, ReadTablePage, ReadTableEntry, ReadMember, ReadField, ReadScored, ReadHfe,
       ReadHash2, ReadCount, OnePage, Done, Written, End, OpenPage, TakeEntry, Turned
<1>4. CASE StreamNext
  BY <1>4 DEF StreamNext, WriteStream, OpenStream, ReadStreamEntry, ReadMessage,
       ReadStreamMeta, ReadGroup, ReadConsumer, StreamDone, ReadCount, Written, End
<1>5. CASE RedisNext
  BY <1>5 DEF RedisNext, RedisWrites, OpenListpack, ReadMembers, OpenZipmap,
       ReadZipmapEntry, OpenModule, SkipPart, Done, Written, End, TakeEntry
<1> QED
  BY <1>1, <1>2, <1>3, <1>4, <1>5 DEF Next

LEMMA StringStarts == Init => StringInv
<1> SUFFICES ASSUME Init PROVE StringInv
  OBVIOUS
<1>1. reader = Locals /\ object \in Objects /\ phase = "new" /\ file = << >>
  BY Zenon DEF Init
<1>2. DOMAIN reader = DOMAIN Locals
  BY <1>1, Zenon
<1>3. Locals.torn = FALSE
  BY DEF Locals
<1>4. ~reader.torn
  BY <1>1, <1>3, Zenon
<1> QED
  BY <1>1, <1>2, <1>4 DEF StringInv

\* The locals that a string uses.
LEMMA StringDomain == {"form", "pending", "torn", "faults"} \subseteq DOMAIN Locals
BY DEF Locals

LEMMA StringKept ==
    ASSUME StringInv, IsString, StringNext PROVE StringInv'
<1> DEFINE s == object.value
<1>1. object \in Objects /\ object.type = "string" /\ DOMAIN reader = DOMAIN Locals
  BY Zenon DEF StringInv, IsString
<1>2. s.len \in Int64s
  BY <1>1, StringObject, Zenon
<1>3. Next
  BY Zenon DEF Next
<1>4. object' = object /\ DOMAIN reader' = DOMAIN Locals
  BY <1>1, <1>3, ObjectStays, LocalsKept, Zenon
<1> SUFFICES /\ phase' \in {"writing", "failed", "done", "lost"}
             /\ phase' = "writing" => WriteInv(s, file', reader')
             /\ phase' = "done" => got' = <<s>> /\ ~reader'.torn
             /\ phase' = "lost" => reader'.torn
  BY <1>1, <1>4 DEF StringInv, IsString
<1>5. CASE BeginString
  <2>1. phase = "new" /\ phase' = "writing" /\ file' = file
    BY <1>5 DEF BeginString, Plan
  <2>2. file = << >> /\ ~reader.torn
    BY <1>1, <2>1, Zenon DEF StringInv, IsString
  <2>3. /\ ~reader'.torn
        /\ \/ isEncodableUint32(s) /\ reader'.form = "int" /\ reader'.pending = writeString(s)
           \/ reader'.form = "simple" /\ reader'.pending = writeSimpleString(s)
           \/ /\ ~isEncodableUint32(s) /\ object.compress /\ s.len > LzfMin
              /\ \E c \in Compressions(s.val) :
                    c.ok /\ reader'.pending = writeLZFString(s, c.out)
    <3>1. ASSUME NEW m, NEW p, Plan(m, p)
          PROVE  reader'.form = m /\ reader'.pending = p /\ ~reader'.torn
      <4>1. reader' = [reader EXCEPT !.form = m, !.pending = p]
        BY <3>1, Zenon DEF Plan
      <4>2. reader'.form = m /\ reader'.pending = p
        BY <1>1, <4>1, StringDomain
      <4>3. reader'.torn <=> reader.torn
        BY <1>1, <4>1, StringDomain
      <4> QED
        BY <2>2, <4>2, <4>3, Zenon
    <3>2. CASE isEncodableUint32(s) /\ Plan("int", writeString(s))
      BY <3>1, <3>2, Zenon
    <3>3. CASE /\ ~isEncodableUint32(s) /\ object.compress /\ s.len > LzfMin
               /\ \E c \in Compressions(s.val) :
                    IF c.ok THEN Plan("lzf", writeLZFString(s, c.out))
                    ELSE Plan("simple", writeSimpleString(s))
      <4>1. PICK c \in Compressions(s.val) :
                    IF c.ok THEN Plan("lzf", writeLZFString(s, c.out))
                    ELSE Plan("simple", writeSimpleString(s))
        BY <3>3, Zenon
      <4>2. CASE c.ok
        BY <3>1, <3>3, <4>1, <4>2, Zenon
      <4>3. CASE ~c.ok
        BY <3>1, <4>1, <4>3, Zenon
      <4> QED
        BY <4>2, <4>3, Zenon
    <3>4. CASE Plan("simple", writeSimpleString(s))
      BY <3>1, <3>4, Zenon
    <3> QED
      BY <1>5, <3>2, <3>3, <3>4, Zenon DEF BeginString
  <2>4. WriteInv(s, << >>, reader')
    BY <1>1, <2>3, WriteStarts, Zenon
  <2>5. WriteInv(s, file', reader')
    BY <2>1, <2>2, <2>4, Zenon
  <2> QED
    BY <2>1, <2>5
<1>6. CASE WritePiece
  <2>1. /\ phase = "writing" /\ phase' = phase /\ reader.pending # << >>
        /\ file' = Append(file, reader.pending[1])
        /\ reader' = [reader EXCEPT !.pending = Tail(reader.pending)]
    BY <1>6, Zenon DEF WritePiece
  <2>2. WriteInv(s, file, reader)
    BY <1>1, <2>1, Zenon DEF StringInv, IsString
  <2>3. reader'.pending = Tail(reader.pending) /\ reader'.form = reader.form
        /\ (reader'.torn <=> reader.torn)
    BY <1>1, <2>1, StringDomain
  <2>4. WriteInv(s, Append(file, reader.pending[1]), reader')
    BY <2>1, <2>2, <2>3, WriteGoesOn, Zenon
  <2>5. WriteInv(s, file', reader')
    BY <2>1, <2>4, Zenon
  <2> QED
    BY <2>1, <2>5
<1>7. CASE FailPiece
  <2>1. phase = "writing" /\ reader.pending # << >>
    BY <1>7, Zenon DEF FailPiece
  <2>2. PICK piece \in {<< >>, <<TornItem>>} :
           /\ file' = file \o piece
           /\ IF reader.form = "lzf"
              THEN /\ reader' = [reader EXCEPT
                                    !.faults = @ + 1, !.form = "simple",
                                    !.pending = writeSimpleString(object.value),
                                    !.torn = file' # << >>]
                   /\ UNCHANGED phase
              ELSE /\ reader' = [reader EXCEPT !.faults = @ + 1]
                   /\ phase' = "failed"
    BY <1>7, Zenon DEF FailPiece
  <2>3. WriteInv(s, file, reader)
    BY <1>1, <2>1, Zenon DEF StringInv, IsString
  <2>4. CASE reader.form = "lzf"
    <3>1. /\ file' = file \o piece /\ phase' = phase
          /\ reader' = [reader EXCEPT
                           !.faults = reader.faults + 1, !.form = "simple",
                           !.pending = writeSimpleString(s), !.torn = file' # << >>]
      BY <2>2, <2>4, Zenon
    <3>2. reader'.form = "simple" /\ reader'.pending = writeSimpleString(s)
      BY <1>1, <3>1, StringDomain
    <3>3. reader'.torn <=> file' # << >>
      BY <1>1, <3>1, StringDomain
    <3>4. reader'.torn <=> file \o piece # << >>
      BY <3>1, <3>3, Zenon
    <3>5. WriteInv(s, file \o piece, reader')
      BY <1>2, <2>1, <2>3, <2>4, <3>2, <3>4, WriteFails, Zenon
    <3>6. WriteInv(s, file', reader')
      BY <3>1, <3>5, Zenon
    <3> QED
      BY <2>1, <3>1, <3>6
  <2>5. CASE reader.form # "lzf"
    <3>1. phase' = "failed"
      BY <2>2, <2>5, Zenon
    <3> QED
      BY <3>1
  <2> QED
    BY <2>4, <2>5
<1>8. CASE ReadStringValue
  <2>1. phase = "writing" /\ reader.pending = << >>
    BY <1>8, Zenon DEF ReadStringValue
  <2>2. WriteInv(s, file, reader)
    BY <1>1, <2>1, Zenon DEF StringInv, IsString
  <2>3. file \o reader.pending = file
    <3> DEFINE S == StringItems(s)
    <3>1. file \in Seq(S)
      BY <2>2, Zenon DEF WriteInv
    <3> HIDE DEF S
    <3>2. file \o << >> = file
      BY <3>1, ConcatEmptySeq
    <3> QED
      BY <2>1, <3>2, Zenon
  <2> DEFINE r == readString(file)
  <2>4. /\ reader.torn => r.is = "lost"
        /\ ~reader.torn => r = Got(s, << >>)
    BY <2>2, <2>3, Zenon DEF WriteInv
  <2>5. IF r.is = "str" /\ r.rest = << >>
        THEN got' = <<r.str>> /\ phase' = "done" /\ reader' = reader
        ELSE phase' = "lost" /\ reader' = reader
    BY <1>8, Zenon DEF ReadStringValue, End
  <2> HIDE DEF r
  <2>6. CASE reader.torn
    <3>1. r.is # "str"
      <4>1. r.is = "lost"
        BY <2>4, <2>6, Zenon
      <4> QED
        BY <4>1
    <3>2. phase' = "lost" /\ reader' = reader
      BY <2>5, <3>1, Zenon
    <3>3. reader'.torn
      BY <2>6, <3>2, Zenon
    <3> QED
      BY <3>2, <3>3
  <2>7. CASE ~reader.torn
    <3>1. r.is = "str" /\ r.rest = << >> /\ r.str = s
      <4>1. Got(s, << >>).is = "str" /\ Got(s, << >>).rest = << >> /\ Got(s, << >>).str = s
        BY ReadFields
      <4>2. r = Got(s, << >>)
        BY <2>4, <2>7, Zenon
      <4> QED
        BY <4>1, <4>2, Zenon
    <3>2. got' = <<r.str>> /\ phase' = "done" /\ reader' = reader
      BY <2>5, <3>1, Zenon
    <3>3. got' = <<s>> /\ ~reader'.torn
      BY <2>7, <3>1, <3>2, Zenon
    <3> QED
      BY <3>2, <3>3
  <2> QED
    BY <2>6, <2>7
<1> QED
  BY <1>5, <1>6, <1>7, <1>8, Zenon DEF StringNext

\* The string of an object does not change, and other objects are none.
LEMMA StringInvStep == StringInv /\ [Next]_vars => StringInv'
<1> SUFFICES ASSUME StringInv, [Next]_vars PROVE StringInv'
  OBVIOUS
<1>1. CASE UNCHANGED vars
  BY <1>1 DEF vars, StringInv, IsString
<1>2. CASE Next /\ IsString
  BY <1>2, StringSteps, StringKept, Zenon
<1>3. CASE Next /\ ~IsString
  <2>1. object' = object /\ DOMAIN reader' = DOMAIN Locals /\ object \in Objects
    BY <1>3, ObjectStays, LocalsKept, Zenon DEF StringInv
  <2> QED
    BY <1>3, <2>1 DEF StringInv, IsString
<1> QED
  BY <1>1, <1>2, <1>3

(***************************************************************************)
(* A string that writeString wrote without an error, and that no failed    *)
(* write of a compressed form left bytes before, is what readString        *)
(* returns, in every form and for every length and table of the compressor *)
(* (string.go).                                                            *)
(***************************************************************************)
THEOREM StringsReadBack == Spec => []StringReadBack
<1>1. Init => StringInv
  BY StringStarts
<1>2. StringInv /\ [Next]_vars => StringInv'
  BY StringInvStep
<1>3. StringInv => StringReadBack
  BY DEF StringInv, StringReadBack
<1> QED
  BY <1>1, <1>2, <1>3, PTL DEF Spec

-----------------------------------------------------------------------------
(***************************************************************************)
(* Items that follow each other (Concat), from the first one on.           *)
(***************************************************************************)
\* The concatenations of the first 0, 1, ..., k sequences.
Stages(h, ss, k) == h[0] = << >> /\ \A i \in 1 .. k : h[i] = h[i - 1] \o ss[i]

LEMMA StagesExist ==
    ASSUME NEW ss, NEW n \in Nat PROVE \E h : Stages(h, ss, n)
<1> DEFINE P == {k \in 0 .. n : \E h : Stages(h, ss, k)}
<1>1. 0 \in P
  <2>1. Stages([j \in {0} |-> << >>], ss, 0)
    BY DEF Stages
  <2> QED
    BY <2>1
<1>2. ASSUME NEW k \in 1 .. n, k - 1 \in P PROVE k \in P
  <2>1. PICK h : Stages(h, ss, k - 1)
    BY <1>2
  <2> DEFINE x == h[k - 1] \o ss[k]
  <2> HIDE DEF x
  <2> DEFINE g == [j \in 0 .. k |-> IF j = k THEN x ELSE h[j]]
  <2>2. g[0] = << >>
    BY <2>1 DEF Stages
  <2>3. ASSUME NEW i \in 1 .. k PROVE g[i] = g[i - 1] \o ss[i]
    <3>1. i - 1 \in 0 .. k /\ i - 1 # k /\ i \in 0 .. k
      OBVIOUS
    <3>2. g[i - 1] = h[i - 1]
      BY <3>1
    <3>3. CASE i = k
      <4>1. g[i] = x
        BY <3>1, <3>3
      <4> HIDE DEF g
      <4> QED
        BY <3>2, <3>3, <4>1, Zenon DEF x
    <3>4. CASE i # k
      <4>1. i \in 1 .. k - 1 /\ g[i] = h[i]
        BY <3>1, <3>4
      <4>2. h[i] = h[i - 1] \o ss[i]
        BY <2>1, <4>1, Zenon DEF Stages
      <4> HIDE DEF g
      <4> QED
        BY <3>2, <4>1, <4>2, Zenon
    <3> QED
      BY <3>3, <3>4, Zenon
  <2> HIDE DEF g
  <2>4. Stages(g, ss, k)
    BY <2>2, <2>3, Zenon DEF Stages
  <2> QED
    BY <2>4
<1>3. n \in 0 .. n
  OBVIOUS
<1> HIDE DEF P
<1>4. n \in P
  BY <1>1, <1>2, <1>3, TurnByTurn
<1> QED
  BY <1>4, Zenon DEF P

LEMMA ConcatOf ==
    ASSUME NEW ss, NEW n \in Nat, n = Len(ss), NEW h, Stages(h, ss, n)
    PROVE  Concat(ss) = h[n]
<1>1. h[0] = << >> /\ \A i \in 1 .. n : h[i] = h[i - 1] \o ss[i]
  BY Zenon DEF Stages
<1> QED
  BY <1>1, ConcatTest, Zenon DEF Concat

LEMMA PrefixesTyped ==
    ASSUME NEW S, NEW ss, NEW n \in Nat, \A i \in 1 .. n : ss[i] \in Seq(S),
           NEW h, Stages(h, ss, n)
    PROVE  \A i \in 0 .. n : h[i] \in Seq(S)
<1> DEFINE P == {i \in 0 .. n : h[i] \in Seq(S)}
<1>1. 0 \in P
  <2>1. h[0] = << >>
    BY Zenon DEF Stages
  <2>2. h[0] \in Seq(S)
    BY <2>1, EmptySeq, Zenon
  <2>3. 0 \in 0 .. n
    OBVIOUS
  <2> QED
    BY <2>2, <2>3
<1>2. ASSUME NEW i \in 1 .. n, i - 1 \in P PROVE i \in P
  <2>1. h[i - 1] \in Seq(S) /\ ss[i] \in Seq(S) /\ i \in 0 .. n
    BY <1>2
  <2>2. h[i - 1] \o ss[i] \in Seq(S)
    BY <2>1, ConcatProperties
  <2>3. h[i] = h[i - 1] \o ss[i]
    BY Zenon DEF Stages
  <2> QED
    BY <2>1, <2>2, <2>3
<1>3. \A i \in 0 .. n : i \in P
  <2> HIDE DEF P
  <2> QED
    BY <1>1, <1>2, TurnByTurn
<1> QED
  BY <1>3

LEMMA ConcatTyped ==
    ASSUME NEW S, NEW ss \in Seq(Seq(S)) PROVE Concat(ss) \in Seq(S)
<1> DEFINE Z == Seq(S)
           n == Len(ss)
<1>1. n \in Nat /\ \A i \in 1 .. n : ss[i] \in Z
  BY ElementOfSeq
<1>2. \A i \in 1 .. n : ss[i] \in Seq(S)
  BY <1>1
<1>3. n = Len(ss) /\ n \in 0 .. n
  BY <1>1
<1> HIDE DEF n
<1>4. PICK h : Stages(h, ss, n)
  BY <1>1, StagesExist, Zenon
<1>5. Concat(ss) = h[n]
  BY <1>1, <1>3, <1>4, ConcatOf, Zenon
<1>6. h[n] \in Seq(S)
  BY <1>1, <1>2, <1>3, <1>4, PrefixesTyped
<1> QED
  BY <1>5, <1>6, Zenon

LEMMA ConcatNone == Concat(<< >>) = << >>
<1>1. PICK h : Stages(h, << >>, 0)
  BY StagesExist
<1>2. Len(<< >>) = 0 /\ 0 \in Nat
  OBVIOUS
<1>3. Concat(<< >>) = h[0]
  BY <1>1, <1>2, ConcatOf, Zenon
<1> QED
  BY <1>1, <1>3, Zenon DEF Stages

\* One more sequence at the end.
LEMMA ConcatLast ==
    ASSUME NEW S, NEW ss \in Seq(Seq(S)), NEW k \in 0 .. Len(ss) - 1
    PROVE  Concat(SubSeq(ss, 1, k + 1)) = Concat(SubSeq(ss, 1, k)) \o ss[k + 1]
<1> DEFINE Z == Seq(S)
           n == Len(ss)
<1>1. n \in Nat /\ k \in Nat /\ k + 1 \in 1 .. n /\ k \in 0 .. n
  OBVIOUS
<1>2. PICK h : Stages(h, ss, n)
  BY <1>1, StagesExist, Zenon
<1>3. ss \in Seq(Z)
  OBVIOUS
<1>4. ASSUME NEW m \in 0 .. n PROVE Concat(SubSeq(ss, 1, m)) = h[m]
  <2> DEFINE t == SubSeq(ss, 1, m)
  <2>1. m \in Nat /\ m = Len(t) /\ \A i \in 1 .. m : t[i] = ss[i]
    <3> HIDE DEF Z
    <3> QED
      BY <1>1, <1>3, SubSeqProperties
  <2> HIDE DEF t
  <2>2. \A i \in 1 .. m : i \in 1 .. n
    BY <1>1
  <2>3. Stages(h, t, m)
    BY <1>2, <2>1, <2>2, Zenon DEF Stages
  <2>4. Concat(t) = h[m]
    BY <2>1, <2>3, ConcatOf, Zenon
  <2> QED
    BY <2>4, Zenon DEF t
<1>5. h[k + 1] = h[k] \o ss[k + 1]
  <2>1. h[k + 1] = h[(k + 1) - 1] \o ss[k + 1]
    BY <1>1, <1>2, Zenon DEF Stages
  <2>2. (k + 1) - 1 = k
    BY <1>1
  <2> QED
    BY <2>1, <2>2, Zenon
<1>6. k + 1 \in 0 .. n
  BY <1>1
<1> QED
  BY <1>1, <1>4, <1>5, <1>6, Zenon

\* The first sequence, then the others.
LEMMA ConcatFirst ==
    ASSUME NEW S, NEW ss \in Seq(Seq(S)), Len(ss) > 0
    PROVE  Concat(ss) = ss[1] \o Concat(Tail(ss))
<1> DEFINE Z == Seq(S)
           n == Len(ss)
           t == Tail(ss)
           m == n - 1
<1>1. ss \in Seq(Z) /\ n \in Nat /\ n > 0 /\ m \in Nat /\ n = m + 1 /\ n \in 1 .. n
  OBVIOUS
<1>2. t \in Seq(Z) /\ Len(t) = m /\ \A i \in 1 .. m : t[i] = ss[i + 1]
  <2> HIDE DEF Z
  <2>1. Len(ss) > 0
    OBVIOUS
  <2> QED
    BY <1>1, <2>1, TailIs
<1>3. (\A i \in 1 .. n : ss[i] \in Seq(S)) /\ (\A i \in 1 .. m : t[i] \in Seq(S))
  <2> HIDE DEF Z, t, m
  <2>1. (\A i \in 1 .. n : ss[i] \in Z) /\ (\A i \in 1 .. m : t[i] \in Z)
    BY <1>1, <1>2, ElementOfSeq
  <2> QED
    BY <2>1 DEF Z
<1> HIDE DEF t, m, Z
<1>4. PICK h : Stages(h, ss, n)
  BY <1>1, StagesExist, Zenon
<1>5. PICK g : Stages(g, t, m)
  BY <1>1, StagesExist, Zenon
<1>6. \A i \in 0 .. m : g[i] \in Seq(S)
  BY <1>1, <1>3, <1>5, PrefixesTyped
<1>7. ss[1] \in Seq(S)
  BY <1>1, <1>3
<1> DEFINE a == ss[1]
           P == {i \in 0 .. m : h[i + 1] = a \o g[i]}
<1>8. 0 \in P
  <2>1. h[1] = h[1 - 1] \o ss[1]
    <3>1. 1 \in 1 .. n
      BY <1>1
    <3> QED
      BY <1>4, <3>1, Zenon DEF Stages
  <2>2. 1 - 1 = 0 /\ 0 + 1 = 1 /\ 0 \in 0 .. m
    BY <1>1
  <2>3. h[0] = << >> /\ g[0] = << >>
    BY <1>4, <1>5, Zenon DEF Stages
  <2>4. << >> \o a = a /\ a \o << >> = a
    <3> HIDE DEF a
    <3>1. a \in Seq(S)
      BY <1>7, Zenon DEF a
    <3> QED
      BY <3>1, ConcatEmptySeq
  <2>5. h[0 + 1] = a \o g[0]
    BY <2>1, <2>2, <2>3, <2>4, Zenon
  <2> QED
    BY <2>2, <2>5
<1>9. ASSUME NEW i \in 1 .. m, i - 1 \in P PROVE i \in P
  <2>1. i + 1 \in 1 .. n /\ (i + 1) - 1 = i /\ (i - 1) + 1 = i /\ i \in 0 .. m /\ i - 1 \in 0 .. m
    BY <1>1
  <2>2. h[i] = a \o g[i - 1]
    <3>1. h[(i - 1) + 1] = a \o g[i - 1]
      BY <1>9
    <3> QED
      BY <2>1, <3>1, Zenon
  <2>3. h[i + 1] = h[i] \o ss[i + 1]
    <3>1. h[i + 1] = h[(i + 1) - 1] \o ss[i + 1]
      BY <1>4, <2>1, Zenon DEF Stages
    <3> QED
      BY <2>1, <3>1, Zenon
  <2>4. g[i] = g[i - 1] \o ss[i + 1] /\ ss[i + 1] \in Seq(S)
    <3>1. g[i] = g[i - 1] \o t[i]
      BY <1>5, Zenon DEF Stages
    <3>2. t[i] = ss[i + 1] /\ ss[i + 1] \in Seq(S)
      BY <1>2, <1>3, <2>1
    <3> QED
      BY <3>1, <3>2, Zenon
  <2> DEFINE u == g[i - 1]
             v == ss[i + 1]
  <2>5. u \in Seq(S) /\ v \in Seq(S) /\ a \in Seq(S)
    BY <1>6, <1>7, <2>1, <2>4
  <2>6. (a \o u) \o v = a \o (u \o v)
    <3> HIDE DEF a, u, v
    <3> QED
      BY ONLY <2>5, ConcatAssociative
  <2>7. h[i + 1] = a \o g[i]
    BY <2>2, <2>3, <2>4, <2>6, Zenon
  <2> QED
    BY <2>1, <2>7
<1>10. m \in P
  <2>1. m \in 0 .. m
    BY <1>1
  <2> HIDE DEF P
  <2> QED
    BY <1>1, <1>8, <1>9, <2>1, TurnByTurn
<1>11. Concat(ss) = h[n] /\ Concat(t) = g[m]
  BY <1>1, <1>2, <1>4, <1>5, ConcatOf, Zenon
<1>12. h[n] = a \o g[m]
  BY <1>1, <1>10
<1> QED
  BY <1>11, <1>12, Zenon DEF t, a

\* What is left of the sequences after the first k.
After(ss, k) == Concat(SubSeq(ss, k + 1, Len(ss)))

LEMMA AfterIs ==
    ASSUME NEW S, NEW ss \in Seq(Seq(S))
    PROVE  /\ After(ss, 0) = Concat(ss) /\ After(ss, Len(ss)) = << >>
           /\ \A k \in 0 .. Len(ss) : After(ss, k) \in Seq(S)
           /\ \A k \in 0 .. Len(ss) - 1 :
                 ss[k + 1] \in Seq(S) /\ After(ss, k) = ss[k + 1] \o After(ss, k + 1)
<1> DEFINE Z == Seq(S)
           n == Len(ss)
<1>1. n \in Nat /\ ss \in Seq(Z)
  OBVIOUS
<1> HIDE DEF Z
<1>2. ASSUME NEW k \in 0 .. n
      PROVE  LET t == SubSeq(ss, k + 1, n)
             IN t \in Seq(Z) /\ Len(t) = n - k
                /\ \A i \in 1 .. n - k : t[i] = ss[k + i]
  <2> DEFINE t == SubSeq(ss, k + 1, n)
             b == k + 1
  <2>1. b \in Int /\ n \in Int /\ \A i \in b .. n : ss[i] \in Z
    BY <1>1, ElementOfSeq
  <2>2. n - b + 1 = n - k /\ (b <= n => n - k \in Nat) /\ (~(b <= n) => n - k = 0)
    BY <1>1
  <2> HIDE DEF b, n
  <2>3. /\ SubSeq(ss, b, n) \in Seq(Z)
        /\ Len(SubSeq(ss, b, n)) = IF b <= n THEN n - b + 1 ELSE 0
        /\ \A i \in 1 .. n - b + 1 : SubSeq(ss, b, n)[i] = ss[b + i - 1]
    BY <2>1, SubSeqProperties
  <2>4. \A i \in 1 .. n - k : b + i - 1 = k + i
    BY <1>1 DEF b
  <2>5. SubSeq(ss, b, n) = t
    BY Zenon DEF b
  <2> HIDE DEF t
  <2>6. t \in Seq(Z) /\ \A i \in 1 .. n - k : t[i] = ss[k + i]
    BY <2>2, <2>3, <2>4, <2>5, Zenon
  <2>7. Len(t) = n - k
    BY <2>2, <2>3, <2>5
  <2> QED
    BY <2>6, <2>7, Zenon DEF t
<1>3. After(ss, 0) = Concat(ss)
  <2> DEFINE t == SubSeq(ss, 0 + 1, n)
  <2>1. 0 \in 0 .. n /\ n - 0 = n /\ \A i \in 1 .. n : 0 + i = i
    BY <1>1
  <2>2. t \in Seq(Z) /\ Len(t) = n - 0 /\ \A i \in 1 .. n - 0 : t[i] = ss[0 + i]
    BY <1>2, <2>1, Zenon
  <2> HIDE DEF t, n
  <2>3. Len(t) = Len(ss) /\ \A i \in 1 .. Len(t) : t[i] = ss[i]
    BY <2>1, <2>2 DEF n
  <2>4. t = ss
    BY <1>1, <2>2, <2>3, SeqEqual
  <2> QED
    BY <2>4, Zenon DEF After, t, n
<1>4. After(ss, n) = << >>
  <2> DEFINE t == SubSeq(ss, n + 1, n)
  <2>1. n \in 0 .. n /\ n - n = 0
    BY <1>1
  <2>2. t \in Seq(Z) /\ Len(t) = n - n
    BY <1>2, <2>1, Zenon
  <2> HIDE DEF t
  <2>3. t = << >>
    BY <2>1, <2>2
  <2>4. Concat(t) = << >>
    BY <2>3, ConcatNone, Zenon
  <2> QED
    BY <2>4, Zenon DEF After, t
<1>5. ASSUME NEW k \in 0 .. n PROVE After(ss, k) \in Seq(S)
  <2> DEFINE t == SubSeq(ss, k + 1, n)
  <2>1. t \in Seq(Z)
    BY <1>2, Zenon
  <2> HIDE DEF t
  <2>2. t \in Seq(Seq(S))
    BY <2>1, Zenon DEF Z
  <2>3. Concat(t) \in Seq(S)
    BY <2>2, ConcatTyped
  <2> QED
    BY <2>3, Zenon DEF After, t
<1>6. ASSUME NEW k \in 0 .. n - 1
      PROVE  ss[k + 1] \in Seq(S) /\ After(ss, k) = ss[k + 1] \o After(ss, k + 1)
  <2> DEFINE t == SubSeq(ss, k + 1, n)
             u == SubSeq(ss, (k + 1) + 1, n)
             b == k + 1
  <2>1. k \in 0 .. n /\ b \in 0 .. n /\ b \in 1 .. n /\ n \in b .. n /\ n - k > 0
        /\ n - b = (n - k) - 1 /\ 1 \in 1 .. n - k
        /\ \A i \in 1 .. n - b : i \in 1 .. (n - k) - 1 /\ i + 1 \in 1 .. n - k /\ k + (i + 1) = b + i
    BY <1>1
  <2>2. t \in Seq(Z) /\ Len(t) = n - k /\ \A i \in 1 .. n - k : t[i] = ss[k + i]
    BY <1>2, <2>1, Zenon
  <2>3. u \in Seq(Z) /\ Len(u) = n - b /\ \A i \in 1 .. n - b : u[i] = ss[b + i]
    BY <1>2, <2>1, Zenon
  <2>4. ss[b] \in Seq(S)
    <3>1. ss[b] \in Z
      BY <1>1, <2>1, ElementOfSeq
    <3> QED
      BY <3>1, Zenon DEF Z
  <2> HIDE DEF t, u
  <2>5. Len(t) > 0
    BY <2>1, <2>2
  <2>6. Tail(t) = u
    <3> DEFINE v == Tail(t)
    <3> HIDE DEF v
    <3>1. v \in Seq(Z) /\ Len(v) = Len(t) - 1 /\ \A i \in 1 .. Len(t) - 1 : v[i] = t[i + 1]
      BY <2>2, <2>5, TailIs DEF v
    <3>2. Len(v) = Len(u)
      BY <2>1, <2>2, <2>3, <3>1
    <3>3. ASSUME NEW i \in 1 .. Len(v) PROVE v[i] = u[i]
      <4>1. i \in 1 .. n - b
        BY <2>3, <3>2
      <4>2. v[i] = t[i + 1]
        BY <2>1, <2>2, <3>1, <4>1
      <4>3. t[i + 1] = ss[k + (i + 1)]
        BY <2>1, <2>2, <4>1, Zenon
      <4>4. u[i] = ss[b + i] /\ k + (i + 1) = b + i
        BY <2>1, <2>3, <4>1, Zenon
      <4> QED
        BY <4>2, <4>3, <4>4, Zenon
    <3>4. v = u
      BY <2>3, <3>1, <3>2, <3>3, SeqEqual
    <3> QED
      BY <3>4, Zenon DEF v
  <2>7. t \in Seq(Seq(S))
    BY <2>2, Zenon DEF Z
  <2>8. Concat(t) = t[1] \o Concat(Tail(t))
    BY <2>5, <2>7, ConcatFirst
  <2>9. t[1] = ss[b]
    <3>1. t[1] = ss[k + 1]
      BY <2>1, <2>2, Zenon
    <3> QED
      BY <3>1, Zenon
  <2>10. After(ss, k) = Concat(t) /\ After(ss, b) = Concat(u)
    BY Zenon DEF After, t, u
  <2> QED
    BY <2>4, <2>6, <2>8, <2>9, <2>10, Zenon
<1> QED
  BY <1>3, <1>4, <1>5, <1>6, Zenon

-----------------------------------------------------------------------------
(***************************************************************************)
(* A string in front of other items.                                       *)
(***************************************************************************)
LEMMA OneAndRest ==
    ASSUME NEW S, NEW a \in S, NEW rest \in Seq(S)
    PROVE  /\ <<a>> \o rest \in Seq(S) /\ Len(<<a>> \o rest) = 1 + Len(rest)
           /\ (<<a>> \o rest)[1] = a /\ Tail(<<a>> \o rest) = rest
           /\ \A i \in 1 .. Len(rest) : (<<a>> \o rest)[i + 1] = rest[i]
<1> DEFINE p == <<a>>
           f == p \o rest
           n == Len(rest)
<1>1. p \in Seq(S) /\ Len(p) = 1 /\ p[1] = a /\ n \in Nat
  OBVIOUS
<1> HIDE DEF p
<1>2. f \in Seq(S) /\ Len(f) = 1 + n
      /\ \A i \in 1 .. 1 + n : f[i] = IF i <= 1 THEN p[i] ELSE rest[i - 1]
  <2>1. p \o rest \in Seq(S)
    BY <1>1, ConcatProperties
  <2>2. Len(p \o rest) = Len(p) + n
    BY <1>1, ConcatProperties
  <2>3. \A i \in 1 .. Len(p) + n : (p \o rest)[i] = IF i <= Len(p) THEN p[i] ELSE rest[i - Len(p)]
    BY <1>1, ConcatProperties
  <2> QED
    BY <1>1, <2>1, <2>2, <2>3, Zenon
<1> HIDE DEF f
<1>3. f[1] = a
  <2>1. 1 \in 1 .. 1 + n /\ 1 <= 1
    BY <1>1
  <2> QED
    BY <1>1, <1>2, <2>1
<1>4. ASSUME NEW i \in 1 .. n PROVE f[i + 1] = rest[i]
  <2>1. i + 1 \in 1 .. 1 + n /\ ~(i + 1 <= 1) /\ (i + 1) - 1 = i
    BY <1>1
  <2> QED
    BY <1>2, <2>1
<1> DEFINE t == Tail(f)
<1>5. Len(f) > 0 /\ Len(f) - 1 = n
  BY <1>1, <1>2
<1>6. t \in Seq(S) /\ Len(t) = Len(f) - 1 /\ \A i \in 1 .. Len(f) - 1 : t[i] = f[i + 1]
  <2> HIDE DEF t
  <2>1. Tail(f) \in Seq(S)
    BY <1>2, <1>5, TailIs
  <2>2. Len(Tail(f)) = Len(f) - 1
    BY <1>2, <1>5, TailIs
  <2>3. \A i \in 1 .. Len(f) - 1 : Tail(f)[i] = f[i + 1]
    BY <1>2, <1>5, TailIs
  <2> QED
    BY <2>1, <2>2, <2>3, Zenon DEF t
<1> HIDE DEF t
<1>7. Len(t) = Len(rest) /\ \A i \in 1 .. Len(t) : t[i] = rest[i]
  BY <1>1, <1>4, <1>5, <1>6
<1>8. t = rest
  BY <1>6, <1>7, SeqEqual
<1> QED
  BY <1>2, <1>3, <1>4, <1>8, Zenon DEF t, f, p, n

LEMMA TwoAndRest ==
    ASSUME NEW S, NEW a \in S, NEW b \in S, NEW rest \in Seq(S)
    PROVE  /\ <<a, b>> \o rest \in Seq(S) /\ Len(<<a, b>> \o rest) = 2 + Len(rest)
           /\ (<<a, b>> \o rest)[1] = a /\ (<<a, b>> \o rest)[2] = b
           /\ Tail(Tail(<<a, b>> \o rest)) = rest
<1> DEFINE p == <<a>>
           q == <<b>>
           r == <<a, b>>
           g == q \o rest
           f == p \o g
<1>1. p \in Seq(S) /\ Len(p) = 1 /\ p[1] = a /\ q \in Seq(S) /\ Len(q) = 1 /\ q[1] = b
  OBVIOUS
<1>2. r \in Seq(S) /\ Len(r) = 2 /\ r[1] = a /\ r[2] = b
  OBVIOUS
<1>3. p \o q = r
  <2> DEFINE z == p \o q
  <2>1. z \in Seq(S) /\ Len(z) = 2 /\ z[1] = a /\ z[2] = b
    <3> HIDE DEF p, q
    <3>1. z \in Seq(S) /\ Len(z) = 1 + 1
          /\ \A i \in 1 .. 1 + 1 : z[i] = IF i <= 1 THEN p[i] ELSE q[i - 1]
      BY <1>1, ConcatProperties
    <3> HIDE DEF z
    <3> QED
      BY <1>1, <3>1
  <2> HIDE DEF z, r
  <2>2. \A i \in 1 .. Len(z) : z[i] = r[i]
    BY <1>2, <2>1
  <2>3. z = r
    BY <1>2, <2>1, <2>2, SeqEqual
  <2> QED
    BY <2>3, Zenon DEF z
<1>4. r \o rest = f
  <2>1. (p \o q) \o rest = p \o (q \o rest)
    <3> HIDE DEF p, q
    <3> QED
      BY <1>1, ConcatAssociative
  <2> HIDE DEF p, q, r
  <2> QED
    BY <1>3, <2>1, Zenon DEF f, g
<1>5. g \in Seq(S) /\ Len(g) = 1 + Len(rest) /\ g[1] = b /\ Tail(g) = rest
  BY OneAndRest
<1> HIDE DEF g
<1>6. f \in Seq(S) /\ Len(f) = 1 + Len(g) /\ f[1] = a /\ Tail(f) = g
      /\ \A i \in 1 .. Len(g) : f[i + 1] = g[i]
  <2>1. a \in S /\ g \in Seq(S)
    BY <1>5
  <2>2. /\ <<a>> \o g \in Seq(S) /\ Len(<<a>> \o g) = 1 + Len(g)
        /\ (<<a>> \o g)[1] = a /\ Tail(<<a>> \o g) = g
        /\ \A i \in 1 .. Len(g) : (<<a>> \o g)[i + 1] = g[i]
    BY ONLY <2>1, OneAndRest
  <2> QED
    BY <2>2, Zenon
<1>7. \A i \in 1 .. Len(g) : f[i + 1] = g[i]
  BY <1>6, Zenon
<1> HIDE DEF f
<1>8. Len(rest) \in Nat
  OBVIOUS
<1>9. Len(f) = 2 + Len(rest) /\ 1 \in 1 .. Len(g)
  BY <1>5, <1>6, <1>8
<1>10. f[2] = b
  <2>1. f[1 + 1] = g[1]
    BY <1>7, <1>9
  <2>2. 1 + 1 = 2
    OBVIOUS
  <2> QED
    BY <1>5, <2>1, <2>2
<1>11. Tail(Tail(f)) = rest
  BY <1>5, <1>6, Zenon
<1> QED
  BY <1>4, <1>6, <1>9, <1>10, <1>11, Zenon DEF f, g, p, q, r

\* The items a string can be written as.
TextItems(s) == {Hdr(IntString(s.val[1])), Hdr(writeLength(s.len)), Body(s)}

LEMMA TextTyped == ASSUME NEW s PROVE writeString(s) \in Seq(TextItems(s))
<1> DEFINE S == TextItems(s)
           a == Hdr(IntString(s.val[1]))
           b == Hdr(writeLength(s.len))
           c == Body(s)
<1>1. a \in S /\ b \in S /\ c \in S
  BY Zenon DEF TextItems
<1> HIDE DEF a, b, c, S
<1>2. <<a>> \in Seq(S) /\ <<b, c>> \in Seq(S)
  BY <1>1
<1>3. CASE isEncodableUint32(s)
  BY <1>2, <1>3, Zenon DEF writeString, S, a
<1>4. CASE ~isEncodableUint32(s)
  BY <1>2, <1>4, Zenon DEF writeString, writeSimpleString, S, b, c
<1> QED
  BY <1>3, <1>4

\* readString returns the string that writeString wrote without compression,
\* and the items after it.
LEMMA StringReads ==
    ASSUME NEW S, NEW s, IsText(s), TextItems(s) \subseteq S, NEW rest \in Seq(S)
    PROVE  /\ writeString(s) \o rest \in Seq(S)
           /\ Len(writeString(s) \o rest) > 0
           /\ readString(writeString(s) \o rest) = Got(s, rest)
<1> DEFINE a == Hdr(IntString(s.val[1]))
           b == Hdr(writeLength(s.len))
           c == Body(s)
<1>1. a \in S /\ b \in S /\ c \in S
  BY Zenon DEF TextItems
<1>2. Len(rest) \in Nat
  OBVIOUS
<1>3. CASE isEncodableUint32(s)
  <2> DEFINE v == s.val[1]
             f == <<a>> \o rest
  <2>1. s = Num(v) /\ v \in Int /\ 0 <= v /\ v <= MaxInt32
    BY <1>3, Zenon DEF IsText, IsInt64, isEncodableUint32, isEncodableUint64
  <2>2. writeString(s) = <<a>>
    BY <1>3, Zenon DEF writeString
  <2>3. f \in Seq(S) /\ Len(f) = 1 + Len(rest) /\ f[1] = a /\ Tail(f) = rest
    <3>1. a \in S /\ rest \in Seq(S)
      BY <1>1
    <3> HIDE DEF a
    <3> QED
      BY ONLY <3>1, OneAndRest
  <2>4. f[1] = Hdr(IntString(v))
    BY <2>3, Zenon
  <2> HIDE DEF v, f
  <2>5. v \in 0 .. MaxInt32
    BY <2>1, UpToMax, Zenon
  <2>6. Len(f) > 0
    BY <1>2, <2>3
  <2>7. readString(f) = Got(Num(v), Tail(f))
    BY <2>3, <2>4, <2>5, <2>6, IntReads
  <2> QED
    BY <2>1, <2>2, <2>3, <2>6, <2>7, Zenon DEF f
<1>4. CASE ~isEncodableUint32(s)
  <2> DEFINE f == <<b, c>> \o rest
  <2>1. writeString(s) = <<b, c>>
    BY <1>4, Zenon DEF writeString, writeSimpleString
  <2>2. s.len \in Int64s
    BY Int64Wide, Zenon DEF IsText
  <2>3. f \in Seq(S) /\ Len(f) = 2 + Len(rest) /\ f[1] = b /\ f[2] = c /\ Tail(Tail(f)) = rest
    <3>1. b \in S /\ c \in S /\ rest \in Seq(S)
      BY <1>1
    <3> HIDE DEF b, c
    <3> QED
      BY ONLY <3>1, TwoAndRest
  <2>4. f[1] = Hdr(writeLength(s.len)) /\ f[2] = Body(s)
    BY <2>3, Zenon
  <2> HIDE DEF f
  <2>5. Len(f) >= 2 /\ Len(f) > 0
    BY <1>2, <2>3
  <2>6. readString(f) = Got(s, Tail(Tail(f)))
    BY <2>2, <2>3, <2>4, <2>5, SimpleReads
  <2> QED
    BY <2>1, <2>3, <2>5, <2>6, Zenon DEF f
<1> QED
  BY <1>3, <1>4

-----------------------------------------------------------------------------
(***************************************************************************)
(* Pages and results, one or more entries at a time.                       *)
(***************************************************************************)
\* t is s without its first k elements.
IsRest(t, s, k) ==
    /\ t \in Seq(ToSet(s)) /\ Len(t) = Len(s) - k
    /\ \A i \in 1 .. Len(s) - k : t[i] = s[k + i]

LEMMA SequenceTyped ==
    ASSUME NEW s, IsSequence(s)
    PROVE  /\ s \in Seq(ToSet(s)) /\ Len(s) \in Nat
           /\ \A i \in 1 .. Len(s) : s[i] \in ToSet(s)
<1> DEFINE S == ToSet(s)
<1>1. s \in Seq(S)
  BY Zenon DEF IsSequence
<1>2. Len(s) \in Nat /\ \A i \in 1 .. Len(s) : s[i] \in S
  <2> HIDE DEF S
  <2> QED
    BY <1>1, ElementOfSeq
<1> QED
  BY <1>1, <1>2, Zenon

\* A function on 1 .. n is a sequence.
LEMMA FunctionTyped ==
    ASSUME NEW n \in Nat, NEW s, s = [i \in 1 .. n |-> s[i]]
    PROVE  IsSequence(s) /\ Len(s) = n
<1>1. \A i \in 1 .. n : s[i] \in ToSet(s)
  BY DEF ToSet
<1> DEFINE S == ToSet(s)
<1> HIDE DEF S
<1>2. [i \in 1 .. n |-> s[i]] \in Seq(S) /\ Len([i \in 1 .. n |-> s[i]]) = n
  BY <1>1 DEF S
<1> QED
  BY <1>2, Zenon DEF IsSequence, S

LEMMA RestBegins == ASSUME NEW s, IsSequence(s) PROVE IsRest(s, s, 0)
<1> DEFINE S == ToSet(s)
<1>1. s \in Seq(S) /\ Len(s) \in Nat
  BY SequenceTyped, Zenon
<1> HIDE DEF S
<1>2. Len(s) = Len(s) - 0 /\ \A i \in 1 .. Len(s) - 0 : s[i] = s[0 + i]
  BY <1>1
<1> QED
  BY <1>1, <1>2, Zenon DEF IsRest, S

LEMMA RestGoesOn ==
    ASSUME NEW s, Len(s) \in Nat, NEW k \in Nat, NEW t, IsRest(t, s, k),
           NEW w \in Nat, k + w <= Len(s)
    PROVE  IsRest(SubSeq(t, w + 1, Len(t)), s, k + w)
<1> DEFINE S == ToSet(s)
           n == Len(s)
           m == Len(t)
           b == w + 1
           u == SubSeq(t, b, m)
<1>1. t \in Seq(S) /\ m = n - k /\ \A i \in 1 .. n - k : t[i] = s[k + i]
  BY Zenon DEF IsRest
<1>2. n \in Nat /\ k + w <= n
  OBVIOUS
<1> HIDE DEF S, n
<1>3. m \in Nat /\ b \in Int /\ m \in Int /\ \A i \in b .. m : t[i] \in S
  BY <1>1, ElementOfSeq
<1> HIDE DEF m
<1>4. /\ u \in Seq(S) /\ Len(u) = (IF b <= m THEN m - b + 1 ELSE 0)
      /\ \A i \in 1 .. m - b + 1 : u[i] = t[b + i - 1]
  <2> HIDE DEF b, u
  <2>1. /\ SubSeq(t, b, m) \in Seq(S) /\ Len(SubSeq(t, b, m)) = (IF b <= m THEN m - b + 1 ELSE 0)
        /\ \A i \in 1 .. m - b + 1 : SubSeq(t, b, m)[i] = t[b + i - 1]
    BY <1>1, <1>3, SubSeqProperties
  <2> QED
    BY <2>1, Zenon DEF u
<1> HIDE DEF u
<1>5. Len(u) = n - (k + w) /\ m - b + 1 = n - (k + w)
  BY <1>1, <1>2, <1>4
<1>6. ASSUME NEW i \in 1 .. n - (k + w) PROVE u[i] = s[(k + w) + i]
  <2>1. i \in 1 .. m - b + 1 /\ b + i - 1 = w + i /\ w + i \in 1 .. n - k /\ k + (w + i) = (k + w) + i
    BY <1>1, <1>2, <1>5
  <2>2. u[i] = t[w + i]
    <3>1. u[i] = t[b + i - 1]
      BY <1>4, <2>1, Zenon
    <3> QED
      BY <2>1, <3>1, Zenon
  <2>3. t[w + i] = s[k + (w + i)]
    BY <1>1, <2>1, Zenon
  <2> QED
    BY <2>1, <2>2, <2>3, Zenon
<1> QED
  BY <1>4, <1>5, <1>6, Zenon DEF IsRest, S, n, m, u, b

LEMMA RestTail ==
    ASSUME NEW s, Len(s) \in Nat, NEW k \in Nat, NEW t, IsRest(t, s, k), k + 1 <= Len(s)
    PROVE  IsRest(Tail(t), s, k + 1) /\ t # << >> /\ t[1] = s[k + 1]
<1> DEFINE S == ToSet(s)
           n == Len(s)
           u == Tail(t)
<1>1. t \in Seq(S) /\ Len(t) = n - k /\ \A i \in 1 .. n - k : t[i] = s[k + i]
  BY Zenon DEF IsRest
<1>2. n \in Nat /\ k + 1 <= n
  OBVIOUS
<1> HIDE DEF S, n
<1>3. Len(t) > 0 /\ Len(t) - 1 = n - (k + 1)
  BY <1>1, <1>2
<1>4. u \in Seq(S) /\ Len(u) = Len(t) - 1 /\ \A i \in 1 .. Len(t) - 1 : u[i] = t[i + 1]
  <2> HIDE DEF u
  <2>1. Tail(t) \in Seq(S)
    BY <1>1, <1>3, TailIs
  <2>2. Len(Tail(t)) = Len(t) - 1
    BY <1>1, <1>3, TailIs
  <2>3. \A i \in 1 .. Len(t) - 1 : Tail(t)[i] = t[i + 1]
    BY <1>1, <1>3, TailIs
  <2> QED
    BY <2>1, <2>2, <2>3, Zenon DEF u
<1> HIDE DEF u
<1>5. ASSUME NEW i \in 1 .. n - (k + 1) PROVE u[i] = s[(k + 1) + i]
  <2>1. i \in 1 .. Len(t) - 1 /\ i + 1 \in 1 .. n - k /\ k + (i + 1) = (k + 1) + i
    BY <1>1, <1>2
  <2> QED
    BY <1>1, <1>4, <2>1, Zenon
<1>6. IsRest(u, s, k + 1)
  BY <1>3, <1>4, <1>5, Zenon DEF IsRest, S, n
<1>7. t # << >> /\ t[1] = s[k + 1]
  <2>1. 1 \in 1 .. n - k /\ t # << >>
    BY <1>1, <1>2, <1>3
  <2> QED
    BY <1>1, <2>1, Zenon
<1> QED
  BY <1>6, <1>7, Zenon DEF u

\* The first k elements, then the next ones.
LEMMA FrontGoesOn ==
    ASSUME NEW s, IsSequence(s), NEW k \in Nat, NEW w \in Nat, k + w <= Len(s),
           NEW t, t = [i \in 1 .. w |-> s[k + i]]
    PROVE  SubSeq(s, 1, k) \o t = SubSeq(s, 1, k + w)
<1> DEFINE S == ToSet(s)
           n == Len(s)
           a == SubSeq(s, 1, k)
           b == SubSeq(s, 1, k + w)
           c == a \o t
<1>1. s \in Seq(S) /\ n \in Nat /\ k + w <= n /\ \A i \in 1 .. n : s[i] \in S
  BY SequenceTyped, Zenon
<1> HIDE DEF S, n
<1>2. a \in Seq(S) /\ Len(a) = k /\ \A i \in 1 .. k : a[i] = s[i]
  <2>1. k \in Int /\ 1 \in Int /\ \A i \in 1 .. k : s[i] \in S
    BY <1>1
  <2> QED
    BY <1>1, <2>1, SubSeqProperties
<1>3. b \in Seq(S) /\ Len(b) = k + w /\ \A i \in 1 .. k + w : b[i] = s[i]
  <2>1. k + w \in Int /\ 1 \in Int /\ k + w \in Nat /\ \A i \in 1 .. k + w : s[i] \in S
    BY <1>1
  <2> QED
    BY <1>1, <2>1, SubSeqProperties
<1>4. t \in Seq(S) /\ Len(t) = w /\ \A i \in 1 .. w : t[i] = s[k + i]
  <2>1. \A i \in 1 .. w : s[k + i] \in S
    BY <1>1
  <2> DEFINE z == [i \in 1 .. w |-> s[k + i]]
  <2>2. z \in Seq(S) /\ Len(z) = w /\ \A i \in 1 .. w : z[i] = s[k + i]
    BY <2>1
  <2> QED
    BY <2>2, Zenon
<1> HIDE DEF a, b
<1>5. c \in Seq(S) /\ Len(c) = k + w
      /\ \A i \in 1 .. k + w : c[i] = IF i <= k THEN a[i] ELSE t[i - k]
  <2>1. a \o t \in Seq(S)
    BY <1>2, <1>4, ConcatProperties
  <2>2. Len(a \o t) = Len(a) + Len(t)
    BY <1>2, <1>4, ConcatProperties
  <2>3. \A i \in 1 .. Len(a) + Len(t) : (a \o t)[i] = IF i <= Len(a) THEN a[i] ELSE t[i - Len(a)]
    BY <1>2, <1>4, ConcatProperties
  <2> QED
    BY <1>2, <1>4, <2>1, <2>2, <2>3, Zenon
<1> HIDE DEF c
<1>6. ASSUME NEW i \in 1 .. k + w PROVE c[i] = b[i]
  <2>1. CASE i <= k
    <3>1. i \in 1 .. k
      BY <2>1
    <3>2. c[i] = a[i] /\ a[i] = s[i] /\ b[i] = s[i]
      BY <1>2, <1>3, <1>5, <2>1, <3>1, Zenon
    <3> QED
      BY <3>2, Zenon
  <2>2. CASE ~(i <= k)
    <3>1. i - k \in 1 .. w /\ k + (i - k) = i
      BY <2>2
    <3>2. c[i] = t[i - k] /\ t[i - k] = s[k + (i - k)] /\ b[i] = s[i]
      BY <1>3, <1>4, <1>5, <2>2, <3>1, Zenon
    <3> QED
      BY <3>1, <3>2, Zenon
  <2> QED
    BY <2>1, <2>2
<1>7. c = b
  BY <1>3, <1>5, <1>6, SeqEqual
<1> QED
  BY <1>7, Zenon DEF a, b, c

LEMMA FrontAll ==
    ASSUME NEW s, IsSequence(s)
    PROVE  SubSeq(s, 1, 0) = << >> /\ SubSeq(s, 1, Len(s)) = s
<1> DEFINE S == ToSet(s)
           n == Len(s)
           b == SubSeq(s, 1, n)
           a == SubSeq(s, 1, 0)
<1>1. s \in Seq(S) /\ n \in Nat /\ \A i \in 1 .. n : s[i] \in S
  BY SequenceTyped, Zenon
<1> HIDE DEF S
<1>2. b \in Seq(S) /\ Len(b) = n /\ \A i \in 1 .. n : b[i] = s[i]
  BY <1>1, SubSeqProperties
<1>3. a \in Seq(S) /\ Len(a) = 0
  BY <1>1, SubSeqProperties
<1> HIDE DEF a, b
<1>4. b = s
  <2>1. Len(b) = Len(s) /\ \A i \in 1 .. Len(b) : b[i] = s[i]
    BY <1>2
  <2> QED
    BY <1>1, <1>2, <2>1, SeqEqual
<1>5. a = << >>
  BY <1>3
<1> QED
  BY <1>4, <1>5 DEF a, b, n

LEMMA FrontAppend ==
    ASSUME NEW s, IsSequence(s), NEW k \in Nat, k + 1 <= Len(s)
    PROVE  Append(SubSeq(s, 1, k), s[k + 1]) = SubSeq(s, 1, k + 1)
<1> DEFINE S == ToSet(s)
           n == Len(s)
           a == SubSeq(s, 1, k)
           b == SubSeq(s, 1, k + 1)
           c == Append(a, s[k + 1])
<1>1. s \in Seq(S) /\ n \in Nat /\ k + 1 <= n /\ \A i \in 1 .. n : s[i] \in S
  BY SequenceTyped, Zenon
<1> HIDE DEF S, n
<1>2. a \in Seq(S) /\ Len(a) = k /\ \A i \in 1 .. k : a[i] = s[i]
  <2>1. k \in Int /\ 1 \in Int /\ \A i \in 1 .. k : s[i] \in S
    BY <1>1
  <2> QED
    BY <1>1, <2>1, SubSeqProperties
<1>3. b \in Seq(S) /\ Len(b) = k + 1 /\ \A i \in 1 .. k + 1 : b[i] = s[i]
  <2>1. k + 1 \in Int /\ 1 \in Int /\ k + 1 \in Nat /\ \A i \in 1 .. k + 1 : s[i] \in S
    BY <1>1
  <2> QED
    BY <1>1, <2>1, SubSeqProperties
<1>4. s[k + 1] \in S
  BY <1>1
<1> HIDE DEF a, b
<1>5. /\ c \in Seq(S) /\ Len(c) = Len(a) + 1 /\ c[Len(a) + 1] = s[k + 1]
      /\ \A i \in 1 .. Len(a) : c[i] = a[i]
  BY <1>2, <1>4, AppendProperties
<1> HIDE DEF c
<1>6. Len(c) = Len(b) /\ \A i \in 1 .. Len(c) : c[i] = b[i]
  BY <1>2, <1>3, <1>5
<1>7. c = b
  BY <1>3, <1>5, <1>6, SeqEqual
<1> QED
  BY <1>7, Zenon DEF a, b, c

\* Whatever the text, readListPackEntry reads what Redis wrote, and an integer
\* as one.
LEMMA RedisEntryReads ==
    ASSUME NEW s, IsText(s), Upper(s.len) = 0
    PROVE  LET e == readListPackEntry(RedisCell(s))
           IN /\ e.is = (IF s.kind = "num" THEN "int" ELSE "str")
              /\ e.str = s /\ e.took = Size(RedisCell(s))
<1> DEFINE e == readListPackEntry(RedisCell(s))
<1>1. CASE s.kind = "num"
  <2> DEFINE v == s.val[1]
             n == Size(RedisInt(v))
  <2>1. IsInt64(v) /\ s = Num(v)
    BY <1>1, Zenon DEF IsText
  <2>2. v \in Int64s
    BY <2>1, Int64Wide, Zenon
  <2>3. RedisCell(s) = RedisInt(v)
    BY <1>1, Zenon DEF RedisCell
  <2>4. e = IntEntry(v, n)
    BY <2>2, <2>3, RedisIntReadsBack, Zenon
  <2> HIDE DEF e
  <2>5. IntEntry(v, n).is = "int" /\ IntEntry(v, n).str = Num(v) /\ IntEntry(v, n).took = n
    <3> HIDE DEF n, v
    <3> QED
      BY DEF IntEntry
  <2>6. e.is = "int" /\ e.str = s /\ e.took = Size(RedisCell(s))
    BY <2>1, <2>3, <2>4, <2>5, Zenon
  <2> QED
    BY <1>1, <2>6 DEF e
<1>2. CASE s.kind # "num"
  <2> DEFINE n == Size(TextCell(s))
  <2>1. RedisCell(s) = TextCell(s)
    BY <1>2, Zenon DEF RedisCell, TextCell
  <2>2. s.len \in Nat
    BY Zenon DEF IsText
  <2>3. e = StrEntry(s, n)
    BY <2>1, <2>2, TextCellReads, Zenon
  <2> HIDE DEF e
  <2>4. StrEntry(s, n).is = "str" /\ StrEntry(s, n).str = s /\ StrEntry(s, n).took = n
    <3> HIDE DEF n
    <3> QED
      BY DEF StrEntry
  <2>5. e.is = "str" /\ e.str = s /\ e.took = Size(RedisCell(s))
    BY <2>1, <2>3, <2>4, Zenon
  <2> QED
    BY <1>2, <2>5 DEF e
<1> QED
  BY <1>1, <1>2


\* The items of a page as Redis writes them.
RedisCells(strings) == [i \in 1 .. Len(strings) |-> RedisCell(strings[i])]
ZipMapCells(strings) == [i \in 1 .. Len(strings) |-> ZipMapCell(strings[i])]

ListpackItems(o) ==
    (IF o.form = "hashEx" THEN <<Hdr(PutLE8(0))>> ELSE << >>)
    \o <<Page(Len(o.strings), RedisCells(o.strings))>>

Fresh == reader.todo = 0 /\ reader.left = 0 /\ got = << >>

EmptyEx == object.form = "hashEx" /\ object.strings = << >>

\* What is read of a listpack, and what is left of it.
ListpackRead(s, w) ==
    /\ reader.todo = 0 /\ reader.left \in 0 .. Len(s) /\ reader.left % w = 0
    /\ got = SubSeq(s, 1, Len(s) - reader.left)
    /\ IsRest(reader.page, RedisCells(s), Len(s) - reader.left)

ListpackInv ==
    /\ phase \in {"new", "open", "read", "done", "refused"}
    /\ phase \in {"new", "open"} => Fresh
    /\ phase = "open" => file = ListpackItems(object) /\ reader.form = object.form
    /\ phase = "read" => ~EmptyEx /\ ListpackRead(object.strings, Width)
    /\ phase = "done" => ~EmptyEx /\ got = object.strings
    /\ phase = "refused" => EmptyEx

\* The locals that these values use.
LEMMA RedisLocals ==
    /\ {"form", "todo", "left", "page"} \subseteq DOMAIN Locals
    /\ Locals.todo = 0 /\ Locals.left = 0
BY DEF Locals

LEMMA PageFields ==
    \A n, c : /\ Page(n, c).p = "page" /\ Page(n, c).count = n /\ Page(n, c).cells = c
BY DEF Page

LEMMA ListpackFile ==
    ASSUME NEW o
    PROVE  LET page == Page(Len(o.strings), RedisCells(o.strings))
           IN /\ Last(ListpackItems(o)) = page
              /\ o.form # "hashEx" => ListpackItems(o)[1] = page
<1> DEFINE page == Page(Len(o.strings), RedisCells(o.strings))
           a == Hdr(PutLE8(0))
           S == {a, page}
           f == ListpackItems(o)
<1>1. a \in S /\ page \in S
  OBVIOUS
<1> HIDE DEF a, page, S
<1>2. CASE o.form = "hashEx"
  <2>1. <<a>> \in Seq(S) /\ Len(<<a>>) = 1
    BY <1>1
  <2> DEFINE p == <<a>>
  <2> HIDE DEF p
  <2>2. p \in Seq(S) /\ Len(p) = 1
    BY <2>1 DEF p
  <2>3. p \o <<page>> \in Seq(S) /\ Len(p \o <<page>>) = Len(p) + 1
        /\ (p \o <<page>>)[Len(p) + 1] = page
    BY <1>1, <2>2, AndLast, ZenonT(40)
  <2>4. f = p \o <<page>>
    BY <1>2, Zenon DEF ListpackItems, p, a, page
  <2>5. f[Len(f)] = page
    BY <2>3, <2>4, Zenon
  <2> QED
    BY <1>2, <2>5, Zenon DEF Last, page
<1>3. CASE o.form # "hashEx"
  <2>1. f = << >> \o <<page>>
    BY <1>3, Zenon DEF ListpackItems, page
  <2>2. << >> \o <<page>> = <<page>>
    BY <1>1
  <2>3. f[1] = page /\ f[Len(f)] = page
    BY <2>1, <2>2
  <2> QED
    BY <2>3, Zenon DEF Last, page
<1> QED
  BY <1>2, <1>3

\* Redis writes its items, whatever the object is, and begins with no result.
LEMMA ListpackWritten ==
    ASSUME DOMAIN reader = DOMAIN Locals, IsListpack, RedisWrites
    PROVE  /\ phase = "new" /\ phase' = "open" /\ file' = ListpackItems(object) /\ got' = got
           /\ reader'.form = object.form /\ reader'.todo = reader.todo
           /\ reader'.left = reader.left
<1>1. phase = "new" /\ Written(ListpackItems(object), object.form)
  BY DEF RedisWrites, IsListpack, IsZipmap, IsModule, ListpackItems, RedisCells
<1>2. /\ phase' = "open" /\ file' = ListpackItems(object) /\ got' = got
      /\ reader' = [reader EXCEPT !.form = object.form]
  BY <1>1, Zenon DEF Written
<1>3. reader'.form = object.form /\ reader'.todo = reader.todo /\ reader'.left = reader.left
  BY <1>2, RedisLocals
<1> QED
  BY <1>1, <1>2, <1>3, Zenon

LEMMA ListpackSteps ==
    ASSUME object \in Objects, DOMAIN reader = DOMAIN Locals, IsListpack, ListpackInv, Next
    PROVE  RedisWrites \/ OpenListpack \/ ReadMembers \/ Done
<1>1. object.type = "listpack" /\ phase \in {"new", "open", "read", "done", "refused"}
  BY DEF ListpackInv, IsListpack
<1>2. phase = "read" => reader.todo = 0
  BY Zenon DEF ListpackInv, ListpackRead
<1>3. phase = "open" => /\ reader.form \in {"set", "hash", "zset", "hashEx"}
                        /\ reader.form = "set" => ~IsHead(file, 1)
  <2> SUFFICES ASSUME phase = "open"
        PROVE /\ reader.form \in {"set", "hash", "zset", "hashEx"}
              /\ reader.form = "set" => ~IsHead(file, 1)
    OBVIOUS
  <2>2. file = ListpackItems(object) /\ reader.form = object.form
    BY Zenon DEF ListpackInv
  <2>3. object.form \in {"set", "hash", "zset", "hashEx"}
    BY RedisAssumption, Zenon DEF IsListpack
  <2>4. object.form = "set" => file[1].p = "page"
    BY <2>2, ListpackFile, PageFields
  <2> QED
    BY <2>2, <2>3, <2>4 DEF IsHead
<1>4. CASE StringNext
  BY <1>1, <1>4 DEF StringNext, BeginString, WritePiece, FailPiece, ReadStringValue, IsString
<1>5. CASE ListNext
  BY <1>1, <1>2, <1>3, <1>5 DEF ListNext, WriteList, RedisQuicklist, OpenList, ReadPage,
       ReadEntry, ReadNode, SizeOfQuicklist2, ReadCount, OnePage, IsList, IsQuicklist2
<1>6. CASE TableNext
  BY <1>1, <1>2, <1>3, <1>6 DEF TableNext, WriteHash, WriteHashEx, WriteSet, WriteZSet,
       OpenTable, OpenHashEx, ReadTablePage, ReadTableEntry, ReadMember, ReadField,
       ReadScored, ReadHfe, ReadHash2, InTable, ReadCount, IsTable, Tables
<1>7. CASE StreamNext
  BY <1>1, <1>2, <1>3, <1>7 DEF StreamNext, WriteStream, OpenStream, ReadStreamEntry, ReadMessage,
       ReadStreamMeta, ReadGroup, ReadConsumer, StreamDone, AllRead, ReadCount, IsStream
<1>8. CASE RedisNext
  BY <1>1, <1>8, Zenon DEF RedisNext, OpenZipmap, ReadZipmapEntry, OpenModule, SkipPart,
       IsListpack, IsZipmap, IsModule
<1> QED
  BY <1>4, <1>5, <1>6, <1>7, <1>8 DEF Next

LEMMA Multiples ==
    ASSUME NEW w \in {1, 2, 3}, NEW n \in Nat, NEW left \in 0 .. n, n % w = 0, left % w = 0
    PROVE  /\ left > 0 => /\ w <= left /\ (left - w) % w = 0 /\ left - w \in 0 .. n
                          /\ (n - left) + w <= n /\ (n - left) + w = n - (left - w)
           /\ w = 3 => ((n - left) + 3) % 3 = 0
           /\ n - left \in Nat
<1>1. CASE w = 1
  BY <1>1
<1>2. CASE w = 2
  BY <1>2
<1>3. CASE w = 3
  BY <1>3
<1> QED
  BY <1>1, <1>2, <1>3

\* What the assumption says of a listpack.
LEMMA ListpackObject ==
    ASSUME object \in Objects, IsListpack
    PROVE  /\ Width \in {1, 2, 3} /\ (Width = 3 <=> object.form = "hashEx")
           /\ IsSequence(object.strings) /\ Len(object.strings) \in Nat
           /\ Len(object.strings) % Width = 0
           /\ \A i \in 1 .. Len(object.strings) :
                 /\ IsText(object.strings[i]) /\ Upper(object.strings[i].len) = 0
                 /\ object.form = "hashEx" /\ i % 3 = 0 => object.strings[i].kind = "num"
<1>1. object.form \in {"set", "hash", "zset", "hashEx"}
      /\ Len(object.strings) % MemberSize(object.form) = 0
      /\ (object.form = "hashEx" =>
             \A i \in 1 .. Len(object.strings) : i % 3 = 0 => object.strings[i].kind = "num")
  BY RedisAssumption, Zenon DEF IsListpack
<1>2. IsSequence(object.strings)
      /\ \A i \in 1 .. Len(object.strings) :
             IsText(object.strings[i]) /\ Upper(object.strings[i].len) = 0
  BY RedisAssumption, Zenon DEF IsListpack
<1>3. MemberSize(object.form) \in {1, 2, 3} /\ (MemberSize(object.form) = 3 <=> object.form = "hashEx")
  <2> DEFINE form == object.form
  <2> HIDE DEF form
  <2>1. form \in {"set", "hash", "zset", "hashEx"}
    BY <1>1, Zenon DEF form
  <2>2. MemberSize(form) \in {1, 2, 3} /\ (MemberSize(form) = 3 <=> form = "hashEx")
    BY <2>1 DEF MemberSize
  <2> QED
    BY <2>2, Zenon DEF form
<1>4. Len(object.strings) \in Nat
  BY <1>2, SequenceTyped, Zenon
<1> QED
  BY <1>1, <1>2, <1>3, <1>4, Zenon DEF Width

LEMMA CellsTyped ==
    ASSUME NEW s, Len(s) \in Nat
    PROVE  /\ IsSequence(RedisCells(s)) /\ Len(RedisCells(s)) = Len(s)
           /\ \A i \in 1 .. Len(s) : RedisCells(s)[i] = RedisCell(s[i])
           /\ IsRest(RedisCells(s), RedisCells(s), 0)
<1> DEFINE n == Len(s)
           c == RedisCells(s)
<1>1. c = [i \in 1 .. n |-> RedisCell(s[i])]
  BY Zenon DEF RedisCells
<1>2. \A i \in 1 .. n : c[i] = RedisCell(s[i])
  BY <1>1
<1>3. c = [i \in 1 .. n |-> c[i]]
  BY <1>1
<1> HIDE DEF c, n
<1>4. IsSequence(c) /\ Len(c) = n
  <2>1. n \in Nat
    BY DEF n
  <2> QED
    BY <1>3, <2>1, FunctionTyped, Zenon
<1>5. IsRest(c, c, 0)
  BY <1>4, RestBegins, Zenon
<1> QED
  BY <1>2, <1>4, <1>5, Zenon DEF n, c

LEMMA ListpackOpened ==
    ASSUME object \in Objects, DOMAIN reader = DOMAIN Locals, IsListpack, ListpackInv,
           OpenListpack
    PROVE  \/ phase' = "refused" /\ EmptyEx
           \/ phase' = "read" /\ ~EmptyEx /\ ListpackRead(object.strings, Width)'
<1> DEFINE s == object.strings
           n == Len(s)
           cells == RedisCells(s)
           page == Page(n, cells)
<1>1. phase = "open" /\ file = ListpackItems(object) /\ Fresh
  BY Zenon DEF ListpackInv, OpenListpack
<1>2. Last(file) = page /\ page.count = n /\ page.cells = cells
  BY <1>1, ListpackFile, PageFields, Zenon
<1> HIDE DEF page
<1>3. IF object.form = "hashEx" /\ (n = 0 \/ n % 3 # 0)
      THEN phase' = "refused"
      ELSE /\ reader' = [reader EXCEPT !.left = n, !.page = cells]
           /\ phase' = "read" /\ got' = got /\ object' = object
  BY <1>2, Zenon DEF OpenListpack, End
<1>4. /\ Width \in {1, 2, 3} /\ (Width = 3 <=> object.form = "hashEx")
      /\ IsSequence(s) /\ n \in Nat /\ n % Width = 0
  BY ListpackObject, Zenon
<1>5. n = 0 <=> s = << >>
  <2> DEFINE Z == ToSet(s)
  <2>1. s \in Seq(Z)
    BY <1>4, SequenceTyped, Zenon
  <2> HIDE DEF Z
  <2> QED
    BY <2>1
<1>6. object.form = "hashEx" => n % 3 = 0
  BY <1>4, Zenon
<1>7. CASE object.form = "hashEx" /\ (n = 0 \/ n % 3 # 0)
  BY <1>3, <1>5, <1>6, <1>7, Zenon DEF EmptyEx
<1>8. CASE ~(object.form = "hashEx" /\ (n = 0 \/ n % 3 # 0))
  <2>1. /\ reader' = [reader EXCEPT !.left = n, !.page = cells]
        /\ phase' = "read" /\ got' = got /\ object' = object
    BY <1>3, <1>8, Zenon
  <2>2. ~EmptyEx
    BY <1>5, <1>8, Zenon DEF EmptyEx
  <2>3. reader'.left = n /\ reader'.page = cells /\ reader'.todo = reader.todo
    <3> HIDE DEF n, cells
    <3> QED
      BY <2>1, RedisLocals
  <2>4. got' = SubSeq(s, 1, 0) /\ reader'.todo = 0
    <3>1. SubSeq(s, 1, 0) = << >>
      BY <1>4, FrontAll, Zenon
    <3> QED
      BY <1>1, <2>1, <2>3, <3>1, Zenon DEF Fresh
  <2>5. IsRest(reader'.page, cells, 0)
    BY <1>4, <2>3, CellsTyped, Zenon
  <2>6. n \in 0 .. n /\ n - n = 0
    BY <1>4
  <2>7. /\ reader'.left \in 0 .. n /\ reader'.left % Width = 0 /\ n - reader'.left = 0
    BY <1>4, <2>3, <2>6, Zenon
  <2>8. got' = SubSeq(s, 1, n - reader'.left) /\ IsRest(reader'.page, cells, n - reader'.left)
    BY <2>4, <2>5, <2>7, Zenon
  <2>9. ListpackRead(object.strings, Width)'
    BY <2>1, <2>4, <2>7, <2>8, Zenon DEF ListpackRead, Width
  <2> QED
    BY <2>1, <2>2, <2>9, Zenon
<1> QED
  BY <1>7, <1>8

\* The entries of the next member are what Redis wrote, and what their place
\* demands.
LEMMA MemberReads ==
    ASSUME object \in Objects, IsListpack, ListpackRead(object.strings, Width), reader.left > 0
    PROVE  LET s == object.strings
               k == Len(s) - reader.left
           IN \A i \in 1 .. Width :
                 /\ readListPackEntry(reader.page[i]).str = s[k + i]
                 /\ Accepts(i, readListPackEntry(reader.page[i]))
<1> DEFINE s == object.strings
           n == Len(s)
           left == reader.left
           w == Width
           k == n - left
           cells == RedisCells(s)
           t == reader.page
<1>1. /\ w \in {1, 2, 3} /\ (w = 3 <=> object.form = "hashEx")
      /\ n \in Nat /\ n % w = 0
      /\ \A i \in 1 .. n :
            /\ IsText(s[i]) /\ Upper(s[i].len) = 0
            /\ object.form = "hashEx" /\ i % 3 = 0 => s[i].kind = "num"
  BY ListpackObject, Zenon
<1>2. left \in 0 .. n /\ left % w = 0 /\ left > 0 /\ IsRest(t, cells, k)
  BY Zenon DEF ListpackRead
<1>3. Len(cells) = n /\ \A i \in 1 .. n : cells[i] = RedisCell(s[i])
  BY <1>1, CellsTyped, Zenon
<1>4. \A i \in 1 .. n - k : t[i] = cells[k + i]
  BY <1>2, <1>3, Zenon DEF IsRest
<1> HIDE DEF s, n, left, w, k, cells, t
<1>5. w <= left /\ k \in Nat /\ (w = 3 => (k + 3) % 3 = 0) /\ k + w <= n
  BY <1>1, <1>2, Multiples, Zenon DEF k
<1>6. ASSUME NEW i \in 1 .. w
      PROVE  /\ readListPackEntry(t[i]).str = s[k + i]
             /\ Accepts(i, readListPackEntry(t[i]))
  <2> DEFINE x == s[k + i]
             e == readListPackEntry(t[i])
  <2>1. i \in 1 .. n - k /\ k + i \in 1 .. n /\ i \in Nat
    BY <1>1, <1>2, <1>5 DEF k
  <2>2. t[i] = RedisCell(x)
    BY <1>3, <1>4, <2>1, Zenon
  <2>3. IsText(x) /\ Upper(x.len) = 0
        /\ (object.form = "hashEx" /\ (k + i) % 3 = 0 => x.kind = "num")
    BY <1>1, <2>1, Zenon
  <2>4. e.is = (IF x.kind = "num" THEN "int" ELSE "str") /\ e.str = x
    BY <2>2, <2>3, RedisEntryReads, Zenon
  <2>5. i = 3 => x.kind = "num"
    <3> SUFFICES ASSUME i = 3 PROVE x.kind = "num"
      OBVIOUS
    <3>1. w = 3
      BY <1>1
    <3>2. object.form = "hashEx" /\ (k + i) % 3 = 0
      BY <1>1, <1>5, <3>1, Zenon
    <3> QED
      BY <2>3, <3>2, Zenon
  <2> HIDE DEF x, e
  <2>6. Accepts(i, e)
    BY <2>4, <2>5 DEF Accepts
  <2> QED
    BY <2>4, <2>6, Zenon DEF x, e
<1> QED
  BY <1>6, Zenon DEF s, n, left, w, k, t

LEMMA ListpackMember ==
    ASSUME object \in Objects, DOMAIN reader = DOMAIN Locals, IsListpack, ListpackInv,
           ReadMembers
    PROVE  phase = "read" /\ phase' = "read" /\ ListpackRead(object.strings, Width)'
<1> DEFINE s == object.strings
           n == Len(s)
           left == reader.left
           w == Width
           k == n - left
           cells == RedisCells(s)
           t == reader.page
           read == [i \in 1 .. w |-> readListPackEntry(t[i])]
           strs == [i \in 1 .. w |-> read[i].str]
<1>1. phase = "read" /\ left > 0 /\ ListpackRead(s, w)
  BY Zenon DEF ListpackInv, ReadMembers, InPage
<1>2. IF \A i \in 1 .. w : Accepts(i, read[i])
      THEN /\ got' = got \o strs /\ object' = object /\ phase' = phase
           /\ reader' = [reader EXCEPT !.left = left - w, !.page = SubSeq(t, w + 1, Len(t))]
      ELSE End("lost")
  BY DEF ReadMembers
<1>3. \A i \in 1 .. w : readListPackEntry(t[i]).str = s[k + i] /\ Accepts(i, readListPackEntry(t[i]))
  BY <1>1, MemberReads, Zenon
<1>4. (\A i \in 1 .. w : Accepts(i, read[i])) /\ strs = [i \in 1 .. w |-> s[k + i]]
  <2> HIDE DEF s, n, left, w, k, t
  <2> QED
    BY <1>3
<1> HIDE DEF read, strs
<1>5. /\ got' = got \o strs /\ object' = object /\ phase' = phase
      /\ reader' = [reader EXCEPT !.left = left - w, !.page = SubSeq(t, w + 1, Len(t))]
  BY <1>2, <1>4, Zenon
<1>6. /\ w \in {1, 2, 3} /\ n \in Nat /\ n % w = 0 /\ IsSequence(s)
  BY ListpackObject, Zenon
<1>7. /\ reader.todo = 0 /\ left \in 0 .. n /\ left % w = 0
      /\ got = SubSeq(s, 1, k) /\ IsRest(t, cells, k)
  BY <1>1, Zenon DEF ListpackRead
<1>8. IsSequence(cells) /\ Len(cells) = n
  BY <1>6, CellsTyped, Zenon
<1>9. reader'.left = left - w /\ reader'.page = SubSeq(t, w + 1, Len(t)) /\ reader'.todo = 0
  <2> DEFINE l == left - w
             p == SubSeq(t, w + 1, Len(t))
  <2>1. reader' = [reader EXCEPT !.left = l, !.page = p]
    BY <1>5, Zenon
  <2> HIDE DEF l, p
  <2>2. reader'.left = l /\ reader'.page = p /\ reader'.todo = reader.todo
    BY <2>1, RedisLocals
  <2> QED
    BY <1>7, <2>2, Zenon DEF l, p
<1> HIDE DEF s, n, left, w, k, cells, t
<1>10. /\ (left - w) % w = 0 /\ left - w \in 0 .. n /\ k \in Nat
       /\ k + w <= n /\ k + w = n - (left - w) /\ w \in Nat
  <2>1. w \in Nat
    BY <1>6
  <2> QED
    BY <1>1, <1>6, <1>7, <2>1, Multiples, Zenon DEF k
<1>11. got' = SubSeq(s, 1, k + w)
  <2>1. k + w <= Len(s)
    BY <1>10, Zenon DEF n
  <2>2. SubSeq(s, 1, k) \o strs = SubSeq(s, 1, k + w)
    BY <1>4, <1>6, <1>10, <2>1, FrontGoesOn, Zenon
  <2> QED
    BY <1>5, <1>7, <2>2, Zenon
<1>12. IsRest(reader'.page, cells, k + w)
  <2>1. k + w <= Len(cells) /\ Len(cells) \in Nat
    BY <1>6, <1>8, <1>10, Zenon
  <2>2. IsRest(SubSeq(t, w + 1, Len(t)), cells, k + w)
    BY <1>7, <1>10, <2>1, RestGoesOn, Zenon
  <2> QED
    BY <1>9, <2>2, Zenon
<1>13. /\ reader'.todo = 0 /\ reader'.left \in 0 .. n /\ reader'.left % w = 0
       /\ got' = SubSeq(s, 1, n - reader'.left) /\ IsRest(reader'.page, cells, n - reader'.left)
  BY <1>9, <1>10, <1>11, <1>12, Zenon
<1> QED
  BY <1>1, <1>5, <1>13, Zenon DEF ListpackRead, Width, s, n, w, cells

LEMMA ListpackKept ==
    ASSUME object \in Objects, DOMAIN reader = DOMAIN Locals, IsListpack, ListpackInv, Next
    PROVE  ListpackInv'
<1>1. object' = object
  BY ObjectStays
<1>2. EmptyEx' <=> EmptyEx
  BY <1>1, Zenon DEF EmptyEx
<1>3. CASE RedisWrites
  <2>1. /\ phase = "new" /\ phase' = "open" /\ file' = ListpackItems(object) /\ got' = got
        /\ reader'.form = object.form /\ reader'.todo = reader.todo /\ reader'.left = reader.left
    BY <1>3, ListpackWritten, Zenon
  <2>2. Fresh'
    BY <2>1, Zenon DEF ListpackInv, Fresh
  <2> QED
    BY <1>1, <2>1, <2>2 DEF ListpackInv
<1>4. CASE OpenListpack
  <2>1. \/ phase' = "refused" /\ EmptyEx
        \/ phase' = "read" /\ ~EmptyEx /\ ListpackRead(object.strings, Width)'
    BY <1>4, ListpackOpened, Zenon
  <2> HIDE DEF ListpackRead
  <2> QED
    BY <1>2, <2>1 DEF ListpackInv
<1>5. CASE ReadMembers
  <2>1. phase = "read" /\ phase' = "read" /\ ListpackRead(object.strings, Width)'
    BY <1>5, ListpackMember, Zenon
  <2> QED
    BY <1>2, <2>1 DEF ListpackInv
<1>6. CASE Done
  <2>1. phase = "read" /\ phase' = "done" /\ got' = got /\ ~(reader.left > 0)
    BY <1>6, Zenon DEF Done, AllRead, End, InPage
  <2>2. ~EmptyEx /\ ListpackRead(object.strings, Width)
    BY <2>1, Zenon DEF ListpackInv
  <2> DEFINE s == object.strings
             n == Len(s)
             left == reader.left
  <2>3. left \in 0 .. n /\ got = SubSeq(s, 1, n - left) /\ n \in Nat /\ IsSequence(s)
    BY <2>2, ListpackObject, Zenon DEF ListpackRead
  <2>4. ~(left > 0)
    BY <2>1, Zenon
  <2> HIDE DEF s, n, left
  <2>5. n - left = n
    BY <2>3, <2>4
  <2>6. got = s
    BY <2>3, <2>5, FrontAll, Zenon DEF n
  <2> QED
    BY <1>1, <1>2, <2>1, <2>2, <2>6 DEF ListpackInv, s
<1> QED
  BY <1>3, <1>4, <1>5, <1>6, ListpackSteps, Zenon

-----------------------------------------------------------------------------
(***************************************************************************)
(* Zipmaps: the strings whose number the count can tell, up to the first   *)
(* one whose length the reader takes for something else.                   *)
(***************************************************************************)
Told(strings) ==
    IF Len(strings) < 2 * ZipMapBig THEN Len(strings) ELSE 2 * ZipMapBig

ZipMapCount(strings) ==
    IF Len(strings) \div 2 < ZipMapBig THEN Len(strings) \div 2 ELSE ZipMapBig

ZipmapRead(s) ==
    /\ reader.todo = 0 /\ reader.left \in 0 .. Told(s)
    /\ got = SubSeq(s, 1, Told(s) - reader.left)
    /\ ~LongIn(SubSeq(s, 1, Told(s) - reader.left))
    /\ IsRest(reader.page, ZipMapCells(s), Told(s) - reader.left)

ZipmapInv ==
    /\ phase \in {"new", "open", "read", "done", "lost", "refused"}
    /\ phase \in {"new", "open"} => Fresh
    /\ phase = "open" => /\ file = <<Page(ZipMapCount(object.strings), ZipMapCells(object.strings))>>
                         /\ reader.form = "zipmap"
    /\ phase = "read" => ZipmapRead(object.strings)
    /\ phase = "done" => LET n == Told(object.strings)
                         IN got = SubSeq(object.strings, 1, n)
                            /\ ~LongIn(SubSeq(object.strings, 1, n))
    /\ phase \in {"lost", "refused"} =>
           LongIn(SubSeq(object.strings, 1, Told(object.strings)))

LEMMA ZipmapObject ==
    ASSUME object \in Objects, IsZipmap
    PROVE  /\ IsSequence(object.strings) /\ Len(object.strings) \in Nat
           /\ Told(object.strings) \in 0 .. Len(object.strings)
           /\ ZipMapCount(object.strings) <= ZipMapBig
           /\ 2 * ZipMapCount(object.strings) = Told(object.strings)
           /\ \A i \in 1 .. Len(object.strings) : object.strings[i].len \in Nat
<1> DEFINE n == Len(object.strings)
<1>1. IsSequence(object.strings) /\ n % 2 = 0 /\ ZipMapBig \in Nat
      /\ \A i \in 1 .. n : IsText(object.strings[i])
  BY RedisAssumption, Zenon DEF IsZipmap
<1>2. n \in Nat
  BY <1>1, SequenceTyped, Zenon
<1>3. \A i \in 1 .. n : object.strings[i].len \in Nat
  BY <1>1, Zenon DEF IsText
<1>4. /\ Told(object.strings) = (IF n < 2 * ZipMapBig THEN n ELSE 2 * ZipMapBig)
      /\ ZipMapCount(object.strings) = (IF n \div 2 < ZipMapBig THEN n \div 2 ELSE ZipMapBig)
  BY Zenon DEF Told, ZipMapCount
<1> HIDE DEF n
<1>5. n = 2 * (n \div 2) /\ n \div 2 \in Nat
  BY <1>1, <1>2
<1> DEFINE h == n \div 2
<1>6. n = 2 * h /\ h \in Nat
  BY <1>5
<1> HIDE DEF h
<1>7. /\ Told(object.strings) = (IF n < 2 * ZipMapBig THEN n ELSE 2 * ZipMapBig)
      /\ ZipMapCount(object.strings) = (IF h < ZipMapBig THEN h ELSE ZipMapBig)
  BY <1>4, Zenon DEF h
<1> DEFINE p == Told(object.strings)
           q == ZipMapCount(object.strings)
<1> HIDE DEF p, q
<1>8. p = (IF n < 2 * ZipMapBig THEN n ELSE 2 * ZipMapBig)
      /\ q = (IF h < ZipMapBig THEN h ELSE ZipMapBig)
  BY <1>7, Zenon DEF p, q
<1>9. p \in 0 .. n /\ q <= ZipMapBig /\ 2 * q = p
  BY <1>1, <1>6, <1>8
<1> QED
  BY <1>1, <1>2, <1>3, <1>9, Zenon DEF n, p, q

\* What the reader takes the length of a string for.
LEMMA ZipMapCellReads ==
    ASSUME NEW s, s.len \in Nat
    PROVE  LET e == readZipMapEntry(ZipMapCell(s))
           IN /\ e.str = s /\ (e.is = "str" <=> s.len < 253)
              /\ e.is \in {"str", "error", "lost"}
<1> DEFINE h == ZipMapCell(s).head
           b == h[1]
           n == s.len
<1>1. ZipMapCell(s).body = s
      /\ h = (IF n < 254 THEN <<n>> ELSE << 254 >> \o PutLE4(n))
  BY DEF ZipMapCell
<1> HIDE DEF h
<1>2. n \in Nat
  OBVIOUS
<1> HIDE DEF n
<1>3. b = IF n < 254 THEN n ELSE 254
  <2>1. CASE n < 254
    <3>1. h = <<n>>
      BY <1>1, <2>1, Zenon
    <3> QED
      BY <2>1, <3>1
  <2>2. CASE ~(n < 254)
    <3> DEFINE t == PutLE4(n)
    <3>1. t \in Seq(Byte) /\ Len(t) = 4
      BY <1>2, PutTypes
    <3> HIDE DEF t
    <3>2. 254 \in Byte /\ Len(t) > 0
      BY <3>1 DEF Byte
    <3>3. (<< 254 >> \o t)[1] = 254
      BY <3>1, <3>2, Prepend
    <3>4. h = << 254 >> \o t
      BY <1>1, <2>2, Zenon DEF t
    <3> QED
      BY <2>2, <3>3, <3>4
  <2> QED
    BY <2>1, <2>2
<1> DEFINE e == readZipMapEntry(ZipMapCell(s))
<1>4. e.str = s /\ e.is = (IF b = 253 THEN "lost" ELSE IF b = 254 THEN "error" ELSE "str")
  BY <1>1 DEF readZipMapEntry, h
<1> HIDE DEF b, e
<1>5. (e.is = "str" <=> n < 253) /\ e.is \in {"str", "error", "lost"}
  BY <1>2, <1>3, <1>4
<1> QED
  BY <1>4, <1>5, Zenon DEF e, n

\* A long string among the first m.
LEMMA LongFront ==
    ASSUME NEW s, IsSequence(s), NEW m \in 0 .. Len(s)
    PROVE  LongIn(SubSeq(s, 1, m)) <=> \E i \in 1 .. m : s[i].len >= 253
<1> DEFINE S == ToSet(s)
           n == Len(s)
           t == SubSeq(s, 1, m)
<1>1. s \in Seq(S) /\ n \in Nat /\ m \in 0 .. n /\ \A i \in 1 .. n : s[i] \in S
  BY SequenceTyped, Zenon
<1> HIDE DEF S, n
<1>2. Len(t) = m /\ \A i \in 1 .. m : t[i] = s[i]
  BY <1>1, SubSeqProperties
<1> HIDE DEF t
<1>3. LongIn(t) <=> \E i \in 1 .. m : t[i].len >= 253
  BY <1>2, Zenon DEF LongIn
<1>4. \A i \in 1 .. m : t[i].len = s[i].len
  BY <1>2, Zenon
<1> QED
  BY <1>3, <1>4, Zenon DEF t

LEMMA ZipMapCellsTyped ==
    ASSUME NEW s, Len(s) \in Nat
    PROVE  /\ IsSequence(ZipMapCells(s)) /\ Len(ZipMapCells(s)) = Len(s)
           /\ \A i \in 1 .. Len(s) : ZipMapCells(s)[i] = ZipMapCell(s[i])
           /\ IsRest(ZipMapCells(s), ZipMapCells(s), 0)
<1> DEFINE n == Len(s)
           c == ZipMapCells(s)
<1>1. c = [i \in 1 .. n |-> ZipMapCell(s[i])]
  BY Zenon DEF ZipMapCells
<1>2. \A i \in 1 .. n : c[i] = ZipMapCell(s[i])
  BY <1>1
<1>3. c = [i \in 1 .. n |-> c[i]]
  BY <1>1
<1> HIDE DEF c, n
<1>4. IsSequence(c) /\ Len(c) = n
  <2>1. n \in Nat
    BY DEF n
  <2> QED
    BY <1>3, <2>1, FunctionTyped, Zenon
<1>5. IsRest(c, c, 0)
  BY <1>4, RestBegins, Zenon
<1> QED
  BY <1>2, <1>4, <1>5, Zenon DEF n, c

LEMMA ZipmapWritten ==
    ASSUME DOMAIN reader = DOMAIN Locals, IsZipmap, RedisWrites
    PROVE  /\ phase = "new" /\ phase' = "open" /\ got' = got
           /\ file' = <<Page(ZipMapCount(object.strings), ZipMapCells(object.strings))>>
           /\ reader'.form = "zipmap" /\ reader'.todo = reader.todo
           /\ reader'.left = reader.left
<1> DEFINE items == <<Page(ZipMapCount(object.strings), ZipMapCells(object.strings))>>
<1>1. phase = "new" /\ Written(items, "zipmap")
  BY DEF RedisWrites, IsListpack, IsZipmap, IsModule, ZipMapCount, ZipMapCells
<1>2. /\ phase' = "open" /\ file' = items /\ got' = got
      /\ reader' = [reader EXCEPT !.form = "zipmap"]
  BY <1>1, Zenon DEF Written
<1>3. reader'.form = "zipmap" /\ reader'.todo = reader.todo /\ reader'.left = reader.left
  BY <1>2, RedisLocals
<1> QED
  BY <1>1, <1>2, <1>3, Zenon

LEMMA ZipmapSteps ==
    ASSUME object \in Objects, DOMAIN reader = DOMAIN Locals, IsZipmap, ZipmapInv, Next
    PROVE  RedisWrites \/ OpenZipmap \/ ReadZipmapEntry \/ Done
<1>1. object.type = "zipmap" /\ phase \in {"new", "open", "read", "done", "lost", "refused"}
  BY DEF ZipmapInv, IsZipmap
<1>2. phase = "read" => reader.todo = 0
  BY Zenon DEF ZipmapInv, ZipmapRead
<1>3. phase = "open" => reader.form = "zipmap"
  BY Zenon DEF ZipmapInv
<1>4. CASE StringNext
  BY <1>1, <1>4 DEF StringNext, BeginString, WritePiece, FailPiece, ReadStringValue, IsString
<1>5. CASE ListNext
  BY <1>1, <1>2, <1>3, <1>5 DEF ListNext, WriteList, RedisQuicklist, OpenList, ReadPage,
       ReadEntry, ReadNode, SizeOfQuicklist2, ReadCount, OnePage, IsList, IsQuicklist2
<1>6. CASE TableNext
  BY <1>1, <1>2, <1>3, <1>6 DEF TableNext, WriteHash, WriteHashEx, WriteSet, WriteZSet,
       OpenTable, OpenHashEx, ReadTablePage, ReadTableEntry, ReadMember, ReadField,
       ReadScored, ReadHfe, ReadHash2, InTable, ReadCount, IsTable, Tables
<1>7. CASE StreamNext
  BY <1>1, <1>2, <1>3, <1>7 DEF StreamNext, WriteStream, OpenStream, ReadStreamEntry,
       ReadMessage, ReadStreamMeta, ReadGroup, ReadConsumer, StreamDone, AllRead, ReadCount,
       IsStream
<1>8. CASE RedisNext
  BY <1>1, <1>8, Zenon DEF RedisNext, OpenListpack, ReadMembers, OpenModule, SkipPart,
       IsListpack, IsZipmap, IsModule
<1> QED
  BY <1>4, <1>5, <1>6, <1>7, <1>8 DEF Next

LEMMA ZipmapOpened ==
    ASSUME object \in Objects, DOMAIN reader = DOMAIN Locals, IsZipmap, ZipmapInv, OpenZipmap
    PROVE  phase' = "read" /\ ZipmapRead(object.strings)'
<1> DEFINE s == object.strings
           m == Told(s)
           c == ZipMapCount(s)
           cells == ZipMapCells(s)
           page == Page(c, cells)
<1>1. phase = "open" /\ file = <<page>> /\ Fresh
  BY Zenon DEF ZipmapInv, OpenZipmap
<1>2. page.count = c /\ page.cells = cells
  BY PageFields, Zenon
<1> HIDE DEF page
<1>3. file[1] = page
  BY <1>1
<1>4. /\ IsSequence(s) /\ Len(s) \in Nat /\ m \in 0 .. Len(s) /\ c <= ZipMapBig /\ 2 * c = m
  BY ZipmapObject, Zenon
<1>5. ZipMapBig \in Nat /\ c \in Int
  <2>1. ZipMapBig \in Nat
    BY RedisAssumption, Zenon
  <2>2. Len(s) \div 2 \in Int
    BY <1>4
  <2> QED
    BY <2>1, <2>2 DEF ZipMapCount
<1> HIDE DEF m, c, cells
<1>6. ~(c > ZipMapBig)
  BY <1>4, <1>5
<1>7. /\ reader' = [reader EXCEPT !.left = m, !.page = cells]
      /\ phase' = "read" /\ got' = got /\ object' = object
  BY <1>2, <1>3, <1>4, <1>6, Zenon DEF OpenZipmap
<1>8. reader'.left = m /\ reader'.page = cells /\ reader'.todo = reader.todo
  BY <1>7, RedisLocals
<1>9. got' = SubSeq(s, 1, 0) /\ reader'.todo = 0
  <2>1. SubSeq(s, 1, 0) = << >>
    BY <1>4, FrontAll, Zenon
  <2> QED
    BY <1>1, <1>7, <1>8, <2>1, Zenon DEF Fresh
<1>10. IsRest(reader'.page, cells, 0)
  BY <1>4, <1>8, ZipMapCellsTyped, Zenon DEF cells
<1>11. ~LongIn(SubSeq(s, 1, 0))
  <2>1. 0 \in 0 .. Len(s) /\ ~(\E i \in 1 .. 0 : s[i].len >= 253)
    BY <1>4
  <2> QED
    BY <1>4, <2>1, LongFront, Zenon
<1>12. m \in 0 .. m /\ m - m = 0
  BY <1>4
<1> QED
  BY <1>7, <1>8, <1>9, <1>10, <1>11, <1>12, Zenon DEF ZipmapRead, m, cells

LEMMA ZipmapEntry ==
    ASSUME object \in Objects, DOMAIN reader = DOMAIN Locals, IsZipmap, ZipmapInv,
           ReadZipmapEntry
    PROVE  \/ phase' = "read" /\ ZipmapRead(object.strings)'
           \/ phase' \in {"lost", "refused"}
              /\ LongIn(SubSeq(object.strings, 1, Told(object.strings)))
<1> DEFINE s == object.strings
           n == Len(s)
           m == Told(s)
           left == reader.left
           k == m - left
           cells == ZipMapCells(s)
           t == reader.page
           x == s[k + 1]
           e == readZipMapEntry(t[1])
<1>1. phase = "read" /\ left > 0 /\ TakeEntry(e)
  BY Zenon DEF ReadZipmapEntry, InPage
<1>2. /\ reader.todo = 0 /\ left \in 0 .. m /\ got = SubSeq(s, 1, k)
      /\ ~LongIn(SubSeq(s, 1, k)) /\ IsRest(t, cells, k)
  BY <1>1, Zenon DEF ZipmapInv, ZipmapRead
<1>3. /\ IsSequence(s) /\ n \in Nat /\ m \in 0 .. n /\ \A i \in 1 .. n : s[i].len \in Nat
  BY ZipmapObject, Zenon
<1>4. /\ Len(cells) = n /\ \A i \in 1 .. n : cells[i] = ZipMapCell(s[i])
  BY <1>3, ZipMapCellsTyped, Zenon
<1>5. IF e.is = "str"
      THEN /\ got' = Append(got, e.str) /\ phase' = phase /\ object' = object
           /\ reader' = [reader EXCEPT !.left = left - 1, !.page = Tail(t)]
      ELSE phase' \in {"lost", "refused"}
  <2> HIDE DEF e
  <2> QED
    BY <1>1 DEF TakeEntry, End
<1> HIDE DEF s, n, m, left, k, cells, t
<1>6. /\ k \in Nat /\ k + 1 <= n /\ k + 1 \in 1 .. n /\ k \in 0 .. n /\ k + 1 \in 0 .. n
      /\ k + 1 \in 1 .. m /\ left - 1 \in 0 .. m /\ k + 1 = m - (left - 1)
  BY <1>1, <1>2, <1>3 DEF k
<1>7. /\ IsRest(Tail(t), cells, k + 1) /\ t[1] = cells[k + 1]
  <2>1. Len(cells) \in Nat /\ k + 1 <= Len(cells)
    BY <1>3, <1>4, <1>6, Zenon
  <2>2. Len(cells) \in Nat /\ k \in Nat /\ IsRest(t, cells, k) /\ k + 1 <= Len(cells)
    BY <1>2, <1>6, <2>1, Zenon
  <2> QED
    BY ONLY <2>2, RestTail
<1>8. e.str = x /\ (e.is = "str" <=> x.len < 253) /\ x.len \in Nat
  <2>1. t[1] = ZipMapCell(x) /\ x.len \in Nat
    BY <1>3, <1>4, <1>6, <1>7, Zenon
  <2> QED
    BY <2>1, ZipMapCellReads, Zenon
<1> HIDE DEF e
<1>9. CASE e.is = "str"
  <2>1. /\ got' = Append(got, x) /\ phase' = "read" /\ object' = object
        /\ reader' = [reader EXCEPT !.left = left - 1, !.page = Tail(t)]
    BY <1>1, <1>5, <1>8, <1>9, Zenon
  <2>2. reader'.left = left - 1 /\ reader'.page = Tail(t) /\ reader'.todo = 0
    <3> DEFINE l == left - 1
               p == Tail(t)
    <3>1. reader' = [reader EXCEPT !.left = l, !.page = p]
      BY <2>1, Zenon
    <3> HIDE DEF l, p
    <3>2. reader'.left = l /\ reader'.page = p /\ reader'.todo = reader.todo
      BY <3>1, RedisLocals
    <3> QED
      BY <1>2, <3>2, Zenon DEF l, p
  <2>3. got' = SubSeq(s, 1, k + 1)
    <3>1. Append(SubSeq(s, 1, k), s[k + 1]) = SubSeq(s, 1, k + 1)
      BY <1>3, <1>6, FrontAppend, Zenon DEF n
    <3> QED
      BY <1>2, <2>1, <3>1, Zenon
  <2>4. ~LongIn(SubSeq(s, 1, k + 1))
    <3>1. /\ LongIn(SubSeq(s, 1, k)) <=> \E i \in 1 .. k : s[i].len >= 253
          /\ LongIn(SubSeq(s, 1, k + 1)) <=> \E i \in 1 .. k + 1 : s[i].len >= 253
      BY <1>3, <1>6, LongFront, Zenon DEF n
    <3>2. ~(s[k + 1].len >= 253)
      BY <1>8, <1>9
    <3>3. \A i \in 1 .. k + 1 : i \in 1 .. k \/ i = k + 1
      BY <1>6
    <3> QED
      BY <1>2, <3>1, <3>2, <3>3, Zenon
  <2> QED
    BY <1>6, <1>7, <2>1, <2>2, <2>3, <2>4, Zenon DEF ZipmapRead, s, m, cells
<1>10. CASE e.is # "str"
  <2>1. phase' \in {"lost", "refused"}
    BY <1>5, <1>10, Zenon
  <2>2. s[k + 1].len >= 253
    BY <1>8, <1>10
  <2>3. LongIn(SubSeq(s, 1, m))
    <3>1. LongIn(SubSeq(s, 1, m)) <=> \E i \in 1 .. m : s[i].len >= 253
      BY <1>3, LongFront, Zenon DEF n
    <3> QED
      BY <1>6, <2>2, <3>1, Zenon
  <2> QED
    BY <2>1, <2>3, Zenon DEF s, m
<1> QED
  BY <1>9, <1>10, Zenon

LEMMA ZipmapKept ==
    ASSUME object \in Objects, DOMAIN reader = DOMAIN Locals, IsZipmap, ZipmapInv, Next
    PROVE  ZipmapInv'
<1>1. object' = object
  BY ObjectStays
<1>2. CASE RedisWrites
  <2>1. /\ phase = "new" /\ phase' = "open" /\ got' = got
        /\ file' = <<Page(ZipMapCount(object.strings), ZipMapCells(object.strings))>>
        /\ reader'.form = "zipmap" /\ reader'.todo = reader.todo /\ reader'.left = reader.left
    BY <1>2, ZipmapWritten, Zenon
  <2>2. Fresh'
    BY <2>1, Zenon DEF ZipmapInv, Fresh
  <2> QED
    BY <1>1, <2>1, <2>2 DEF ZipmapInv
<1>3. CASE OpenZipmap
  <2>1. phase' = "read" /\ ZipmapRead(object.strings)'
    BY <1>3, ZipmapOpened, Zenon
  <2> QED
    BY <2>1 DEF ZipmapInv
<1>4. CASE ReadZipmapEntry
  <2>1. \/ phase' = "read" /\ ZipmapRead(object.strings)'
        \/ phase' \in {"lost", "refused"}
           /\ LongIn(SubSeq(object.strings, 1, Told(object.strings)))
    BY <1>4, ZipmapEntry, Zenon
  <2> QED
    BY <1>1, <2>1 DEF ZipmapInv
<1>5. CASE Done
  <2>1. phase = "read" /\ phase' = "done" /\ got' = got /\ ~(reader.left > 0)
    BY <1>5, Zenon DEF Done, AllRead, End, InPage
  <2>2. ZipmapRead(object.strings)
    BY <2>1, Zenon DEF ZipmapInv
  <2> DEFINE s == object.strings
             m == Told(s)
             left == reader.left
  <2>3. /\ left \in 0 .. m /\ got = SubSeq(s, 1, m - left)
        /\ ~LongIn(SubSeq(s, 1, m - left)) /\ Len(s) \in Nat /\ m \in 0 .. Len(s)
    BY <2>2, ZipmapObject, Zenon DEF ZipmapRead
  <2>4. ~(left > 0)
    BY <2>1, Zenon
  <2> HIDE DEF s, m, left
  <2>5. m - left = m
    BY <2>3, <2>4
  <2>6. got = SubSeq(s, 1, m) /\ ~LongIn(SubSeq(s, 1, m))
    BY <2>3, <2>5, Zenon
  <2> QED
    BY <1>1, <2>1, <2>6 DEF ZipmapInv, s, m
<1> QED
  BY <1>2, <1>3, <1>4, <1>5, ZipmapSteps, Zenon

-----------------------------------------------------------------------------
(***************************************************************************)
(* Module values, whose parts are skipped one by one.                      *)
(***************************************************************************)
\* The value of a part, and the items a part can be written as.
PartValue(part) ==
    IF part.op \in {1, 2} THEN <<Hdr(writeLength(part.val))>>
    ELSE IF part.op = 3 THEN <<Hdr(PutLE4(part.val))>>
    ELSE IF part.op = 4 THEN <<Hdr(PutLE8(part.val))>>
    ELSE IF part.op = 5 THEN writeString(part.val)
    ELSE << >>

ItemsOfPart(part) ==
    {Hdr(writeLength(part.op)), Hdr(writeLength(part.val)), Hdr(PutLE4(part.val)),
     Hdr(PutLE8(part.val))} \cup TextItems(part.val)

LEMMA PartIs ==
    ASSUME NEW part
    PROVE  /\ PartItems(part) = <<Hdr(writeLength(part.op))>> \o PartValue(part)
           /\ PartValue(part) \in Seq(ItemsOfPart(part))
           /\ PartItems(part) \in Seq(ItemsOfPart(part))
<1> DEFINE S == ItemsOfPart(part)
           a == Hdr(writeLength(part.op))
           b == Hdr(writeLength(part.val))
           c == Hdr(PutLE4(part.val))
           d == Hdr(PutLE8(part.val))
           v == PartValue(part)
<1>1. a \in S /\ b \in S /\ c \in S /\ d \in S /\ TextItems(part.val) \subseteq S
  BY DEF ItemsOfPart
<1>2. writeString(part.val) \in Seq(S)
  <2> DEFINE x == part.val
             w == writeString(x)
             T == TextItems(x)
  <2>1. w \in Seq(T) /\ T \subseteq S
    BY <1>1, TextTyped, Zenon
  <2> HIDE DEF w, T, S
  <2>2. w \in Seq(S)
    BY <2>1
  <2> QED
    BY <2>2, Zenon DEF w
<1>3. PartItems(part) = <<a>> \o v
  BY Zenon DEF PartItems, PartValue
<1>4. \/ v = <<b>> \/ v = <<c>> \/ v = <<d>> \/ v = writeString(part.val) \/ v = << >>
  BY Zenon DEF PartValue
<1> HIDE DEF S, a, b, c, d, v
<1>5. v \in Seq(S)
  <2>1. <<b>> \in Seq(S) /\ <<c>> \in Seq(S) /\ <<d>> \in Seq(S) /\ << >> \in Seq(S)
    BY <1>1
  <2> QED
    BY <1>2, <1>4, <2>1, Zenon
<1>6. <<a>> \o v \in Seq(S)
  BY <1>1, <1>5, OneAndRest
<1> QED
  BY <1>3, <1>5, <1>6, Zenon DEF S, a, v

LEMMA HeadReads ==
    ASSUME NEW S, NEW b, Hdr(b) \in S, NEW rest \in Seq(S)
    PROVE  LET f == <<Hdr(b)>> \o rest
           IN /\ f \in Seq(S) /\ IsHead(f, 1) /\ f[1].bytes = b /\ Tail(f) = rest
<1> DEFINE a == Hdr(b)
           f == <<a>> \o rest
<1>1. a \in S
  OBVIOUS
<1>2. a.p = "head" /\ a.bytes = b
  BY ItemFields, Zenon
<1> HIDE DEF a
<1>3. f \in Seq(S) /\ Len(f) = 1 + Len(rest) /\ f[1] = a /\ Tail(f) = rest
  <2>1. a \in S /\ rest \in Seq(S)
    BY <1>1
  <2> QED
    BY ONLY <2>1, OneAndRest
<1> HIDE DEF f
<1>4. Len(f) >= 1
  <2>1. Len(rest) \in Nat
    OBVIOUS
  <2> QED
    BY <1>3, <2>1
<1>5. IsHead(f, 1)
  <2>1. f[1].p = "head"
    BY <1>2, <1>3, Zenon
  <2> QED
    BY <1>4, <2>1 DEF IsHead
<1> QED
  BY <1>2, <1>3, <1>5, Zenon DEF f, a

\* What skipModuleAuxData takes of a part is what the module wrote.
LEMMA PartReads ==
    ASSUME NEW S, NEW part, part.op \in Nat \ {0}, IsInt64(part.op),
           part.op = 5 => IsText(part.val), ItemsOfPart(part) \subseteq S, NEW rest \in Seq(S)
    PROVE  LET f == PartItems(part) \o rest
           IN /\ readLength(f[1].bytes).val = part.op
              /\ part.op <= 5 => /\ Skipped(part.op, Tail(f)).is = "str"
                                 /\ Skipped(part.op, Tail(f)).rest = rest
<1> DEFINE op == part.op
           b == writeLength(op)
           a == Hdr(b)
           v == PartValue(part)
           g == v \o rest
           f == PartItems(part) \o rest
<1>1. PartItems(part) = <<a>> \o v /\ v \in Seq(ItemsOfPart(part))
  BY PartIs, Zenon
<1>2. a \in S /\ Hdr(writeLength(part.val)) \in S /\ Hdr(PutLE4(part.val)) \in S
      /\ Hdr(PutLE8(part.val)) \in S /\ TextItems(part.val) \subseteq S
  BY DEF ItemsOfPart
<1>3. v \in Seq(S)
  <2> DEFINE Z == ItemsOfPart(part)
  <2>1. v \in Seq(Z) /\ Z \subseteq S
    BY <1>1, Zenon
  <2> HIDE DEF Z, v
  <2> QED
    BY <2>1
<1>4. op \in Int64s
  BY Int64Wide, Zenon
<1> HIDE DEF a, v
<1>5. f = <<a>> \o g /\ g \in Seq(S)
  <2>1. <<a>> \in Seq(S)
    BY <1>2
  <2> DEFINE p == <<a>>
  <2> HIDE DEF p
  <2>2. p \in Seq(S)
    BY <2>1, Zenon DEF p
  <2>3. (p \o v) \o rest = p \o (v \o rest)
    BY <1>3, <2>2, ConcatAssociative
  <2>4. v \o rest \in Seq(S)
    BY <1>3, ConcatProperties
  <2> QED
    BY <1>1, <2>3, <2>4, Zenon DEF p
<1> HIDE DEF g
<1>6. f[1].bytes = b /\ Tail(f) = g
  <2>1. a \in S /\ g \in Seq(S)
    BY <1>2, <1>5
  <2>2. (<<a>> \o g)[1].bytes = b /\ Tail(<<a>> \o g) = g
    BY <2>1, HeadReads DEF a
  <2> QED
    BY <1>5, <2>2, Zenon
<1>7. readLength(b).val = op
  BY <1>4, PlainLength, Zenon
<1> HIDE DEF f
<1>8. ASSUME op \in {1, 2} PROVE Skipped(op, g) = Got(Empty, rest)
  <2> DEFINE c == writeLength(part.val)
  <2>1. v = <<Hdr(c)>>
    BY <1>8, Zenon DEF v, PartValue
  <2>2. Hdr(c) \in S
    BY <1>2
  <2> HIDE DEF c
  <2>3. IsHead(g, 1) /\ Tail(g) = rest
    BY <2>1, <2>2, HeadReads, Zenon DEF g
  <2> QED
    BY <1>8, <2>3, Zenon DEF Skipped
<1>9. ASSUME op \in {3, 4} PROVE Skipped(op, g) = Got(Empty, rest)
  <2> DEFINE c == IF op = 3 THEN PutLE4(part.val) ELSE PutLE8(part.val)
  <2>1. v = <<Hdr(c)>> /\ Hdr(c) \in S
    <3>1. CASE op = 3
      BY <1>2, <3>1 DEF v, PartValue
    <3>2. CASE op = 4
      BY <1>2, <3>2 DEF v, PartValue
    <3> QED
      BY <1>9, <3>1, <3>2
  <2>2. Len(c) = IF op = 3 THEN 4 ELSE 8
    <3>1. Len(PutLE4(part.val)) = 4 /\ Len(PutLE8(part.val)) = 8
      BY DEF PutLE4, PutLE8
    <3> QED
      BY <3>1
  <2> HIDE DEF c
  <2>3. IsHead(g, 1) /\ g[1].bytes = c /\ Tail(g) = rest
    BY <2>1, HeadReads, Zenon DEF g
  <2>4. Len(g[1].bytes) = IF op = 3 THEN 4 ELSE 8
    BY <2>2, <2>3, Zenon
  <2>5. ~(op \in {1, 2}) /\ op \in {3, 4}
    BY <1>9
  <2> QED
    BY <2>3, <2>4, <2>5, Zenon DEF Skipped
<1>10. ASSUME op = 5 PROVE Skipped(op, g) = Got(part.val, rest)
  <2>1. ~(op \in {1, 2}) /\ ~(op \in {3, 4}) /\ op # 3 /\ op # 4
    BY <1>10
  <2>2. v = writeString(part.val)
    BY <1>10, <2>1, Zenon DEF v, PartValue
  <2>3. readString(writeString(part.val) \o rest) = Got(part.val, rest)
    <3> DEFINE x == part.val
    <3>1. IsText(x) /\ TextItems(x) \subseteq S /\ rest \in Seq(S)
      BY <1>2, <1>10, Zenon
    <3> HIDE DEF x
    <3>2. readString(writeString(x) \o rest) = Got(x, rest)
      BY <3>1, StringReads
    <3> QED
      BY <3>2, Zenon DEF x
  <2> QED
    BY <2>1, <2>2, <2>3, Zenon DEF Skipped, g
<1>11. ASSUME op <= 5 PROVE Skipped(op, g).is = "str" /\ Skipped(op, g).rest = rest
  <2>1. op \in {1, 2} \/ op \in {3, 4} \/ op = 5
    <3> HIDE DEF b
    <3>1. op \in Nat /\ op # 0
      OBVIOUS
    <3> HIDE DEF op
    <3> QED
      BY <1>11, <3>1
  <2> QED
    <3>1. \A x : Got(x, rest).is = "str" /\ Got(x, rest).rest = rest
      BY ReadFields
    <3>2. Skipped(op, g) = Got(Empty, rest) \/ Skipped(op, g) = Got(part.val, rest)
      BY <1>8, <1>9, <1>10, <2>1, Zenon
    <3> QED
      BY <3>1, <3>2, Zenon
<1> QED
  BY <1>6, <1>7, <1>11, Zenon DEF f

PartsOf(o) == [i \in 1 .. Len(o.parts) |-> PartItems(o.parts[i])]

AtEnd == <<Hdr(writeLength(0)), RestOfFile>>

ModuleItems(o) ==
    {Hdr(writeLength(0)), RestOfFile, Hdr(writeLength(o.id))}
    \cup UNION {ItemsOfPart(o.parts[i]) : i \in 1 .. Len(o.parts)}

\* What is left of a module value after its first k parts, none of them unknown.
ModuleRead(o) ==
    /\ reader.left = 0 /\ reader.form = "module"
    /\ \/ /\ reader.todo = 1
          /\ \E k \in 0 .. Len(o.parts) :
                 /\ file = After(PartsOf(o), k) \o AtEnd
                 /\ \A i \in 1 .. k : o.parts[i].op <= 5
       \/ /\ reader.todo = 0 /\ file = <<RestOfFile>>
          /\ \A i \in 1 .. Len(o.parts) : o.parts[i].op <= 5

ModuleInv ==
    /\ phase \in {"new", "open", "read", "done", "refused"}
    /\ phase \in {"new", "open"} => Fresh
    /\ phase = "open" => /\ file = <<Hdr(writeLength(object.id))>> \o Concat(PartsOf(object))
                                   \o AtEnd
                         /\ reader.form = "module"
    /\ phase = "read" => ModuleRead(object)
    /\ phase = "done" => /\ file = <<RestOfFile>>
                         /\ \A i \in 1 .. Len(object.parts) : object.parts[i].op <= 5
    /\ phase = "refused" => \E i \in 1 .. Len(object.parts) : object.parts[i].op > 5

LEMMA ModuleObject ==
    ASSUME object \in Objects, IsModule
    PROVE  /\ Len(object.parts) \in Nat
           /\ \A i \in 1 .. Len(object.parts) :
                 LET part == object.parts[i]
                 IN /\ part.op \in Nat \ {0} /\ IsInt64(part.op) /\ (part.op = 5 => IsText(part.val))
                    /\ ItemsOfPart(part) \subseteq ModuleItems(object)
           /\ PartsOf(object) \in Seq(Seq(ModuleItems(object)))
           /\ Len(PartsOf(object)) = Len(object.parts)
           /\ \A i \in 1 .. Len(object.parts) : PartsOf(object)[i] = PartItems(object.parts[i])
<1> DEFINE p == object.parts
           n == Len(p)
           S == ModuleItems(object)
           Z == Seq(S)
           ss == PartsOf(object)
<1>1. IsSequence(p)
      /\ \A i \in 1 .. n : p[i].op \in Nat \ {0} /\ IsInt64(p[i].op) /\ (p[i].op = 5 => IsText(p[i].val))
  BY RedisAssumption, Zenon DEF IsModule
<1>2. n \in Nat
  BY <1>1, SequenceTyped, Zenon
<1>3. ASSUME NEW i \in 1 .. n PROVE ItemsOfPart(p[i]) \subseteq S
  BY DEF ModuleItems
<1>4. ASSUME NEW i \in 1 .. n PROVE PartItems(p[i]) \in Z
  <2> DEFINE T == ItemsOfPart(p[i])
             u == PartItems(p[i])
  <2>1. u \in Seq(T) /\ T \subseteq S
    BY <1>3, PartIs, Zenon
  <2> HIDE DEF T, u, S
  <2>2. u \in Seq(S)
    BY <2>1
  <2> QED
    BY <2>2, Zenon DEF u
<1>5. ss = [i \in 1 .. n |-> PartItems(p[i])]
  BY Zenon DEF PartsOf
<1> HIDE DEF n, Z, ss
<1>6. ss \in Seq(Z) /\ Len(ss) = n /\ \A i \in 1 .. n : ss[i] = PartItems(p[i])
  BY <1>2, <1>4, <1>5
<1>7. ss \in Seq(Seq(S))
  BY <1>6, Zenon DEF Z
<1> QED
  BY <1>1, <1>2, <1>3, <1>6, <1>7, Zenon DEF n, ss

LEMMA AtEndIs ==
    ASSUME NEW o
    PROVE  /\ AtEnd \in Seq(ModuleItems(o)) /\ AtEnd # << >>
           /\ AtEnd[1].bytes = writeLength(0) /\ Tail(AtEnd) = <<RestOfFile>>
           /\ readLength(AtEnd[1].bytes).val = 0
<1> DEFINE S == ModuleItems(o)
           a == Hdr(writeLength(0))
           b == RestOfFile
           w == writeLength(0)
<1>1. a \in S /\ b \in S /\ a.bytes = w
  BY ItemFields DEF ModuleItems
<1>2. readLength(w).val = 0
  <2>1. 0 \in Int64s
    <3>1. High(0) = 0
      BY DEF High
    <3>2. Upper(0) = 0
      BY <3>1, Zenon DEF Upper
    <3>3. Fits(0, MaxInt32)
      BY DEF Fits, MaxInt32
    <3>4. IsInt64(0)
      BY <3>2, <3>3 DEF IsInt64
    <3> QED
      BY <3>4, Int64Wide, Zenon
  <2> QED
    BY <2>1, PlainLength, Zenon
<1>3. AtEnd = <<a, b>>
  BY Zenon DEF AtEnd
<1> HIDE DEF S, a, b, w
<1>4. <<a, b>> \in Seq(S) /\ <<a, b>> # << >> /\ <<a, b>>[1] = a /\ Tail(<<a, b>>) = <<b>>
  BY <1>1
<1> QED
  BY <1>1, <1>2, <1>3, <1>4, Zenon DEF S, b, w

LEMMA ModuleWritten ==
    ASSUME DOMAIN reader = DOMAIN Locals, IsModule, RedisWrites
    PROVE  /\ phase = "new" /\ phase' = "open" /\ got' = got
           /\ file' = <<Hdr(writeLength(object.id))>> \o Concat(PartsOf(object)) \o AtEnd
           /\ reader'.form = "module" /\ reader'.todo = reader.todo
           /\ reader'.left = reader.left
<1> DEFINE items == <<Hdr(writeLength(object.id))>> \o Concat(PartsOf(object)) \o AtEnd
<1>1. phase = "new" /\ Written(items, "module")
  BY DEF RedisWrites, IsListpack, IsZipmap, IsModule, PartsOf, AtEnd
<1>2. /\ phase' = "open" /\ file' = items /\ got' = got
      /\ reader' = [reader EXCEPT !.form = "module"]
  BY <1>1, Zenon DEF Written
<1>3. reader'.form = "module" /\ reader'.todo = reader.todo /\ reader'.left = reader.left
  BY <1>2, RedisLocals
<1> QED
  BY <1>1, <1>2, <1>3, Zenon

LEMMA ModuleSteps ==
    ASSUME object \in Objects, DOMAIN reader = DOMAIN Locals, IsModule, ModuleInv, Next
    PROVE  RedisWrites \/ OpenModule \/ SkipPart \/ Done
<1>1. object.type = "module" /\ phase \in {"new", "open", "read", "done", "refused"}
  BY DEF ModuleInv, IsModule
<1>2. phase = "read" => reader.left = 0 /\ reader.form = "module"
  BY Zenon DEF ModuleInv, ModuleRead
<1>3. phase = "open" => reader.form = "module"
  BY Zenon DEF ModuleInv
<1>4. CASE StringNext
  BY <1>1, <1>4 DEF StringNext, BeginString, WritePiece, FailPiece, ReadStringValue, IsString
<1>5. CASE ListNext
  BY <1>1, <1>2, <1>3, <1>5 DEF ListNext, WriteList, RedisQuicklist, OpenList, ReadPage,
       ReadEntry, ReadNode, SizeOfQuicklist2, ReadCount, OnePage, IsList, IsQuicklist2
<1>6. CASE TableNext
  BY <1>1, <1>2, <1>3, <1>6 DEF TableNext, WriteHash, WriteHashEx, WriteSet, WriteZSet,
       OpenTable, OpenHashEx, ReadTablePage, ReadTableEntry, ReadMember, ReadField,
       ReadScored, ReadHfe, ReadHash2, InTable, ReadCount, IsTable, Tables
<1>7. CASE StreamNext
  BY <1>1, <1>2, <1>3, <1>7 DEF StreamNext, WriteStream, OpenStream, ReadStreamEntry,
       ReadMessage, ReadStreamMeta, ReadGroup, ReadConsumer, StreamDone, AllRead, ReadCount,
       IsStream
<1>8. CASE RedisNext
  BY <1>1, <1>8, Zenon DEF RedisNext, OpenListpack, ReadMembers, OpenZipmap, ReadZipmapEntry,
       IsListpack, IsZipmap, IsModule
<1> QED
  BY <1>4, <1>5, <1>6, <1>7, <1>8 DEF Next

LEMMA ModuleOpened ==
    ASSUME object \in Objects, DOMAIN reader = DOMAIN Locals, IsModule, ModuleInv, OpenModule
    PROVE  phase' = "read" /\ ModuleRead(object)'
<1> DEFINE S == ModuleItems(object)
           ss == PartsOf(object)
           n == Len(object.parts)
           a == Hdr(writeLength(object.id))
           c == Concat(ss)
           p == <<a>>
           rest == c \o AtEnd
<1>1. phase = "open" /\ Fresh /\ reader.form = "module" /\ file = p \o c \o AtEnd
  BY Zenon DEF ModuleInv, OpenModule
<1>2. /\ phase' = "read" /\ file' = Tail(file) /\ object' = object
      /\ reader' = [reader EXCEPT !.todo = 1]
  BY Zenon DEF OpenModule
<1>3. n \in Nat /\ ss \in Seq(Seq(S)) /\ Len(ss) = n
  BY ModuleObject, Zenon
<1>4. a \in S
  BY DEF ModuleItems
<1>5. AtEnd \in Seq(S)
  BY AtEndIs, Zenon
<1>6. After(ss, 0) = c /\ c \in Seq(S)
  <2> HIDE DEF ss
  <2>1. After(ss, 0) = c
    BY <1>3, AfterIs
  <2>2. c \in Seq(S)
    BY <1>3, ConcatTyped
  <2> QED
    BY <2>1, <2>2, Zenon
<1> HIDE DEF S, ss, n, a, c
<1>7. p \o c \o AtEnd = p \o rest /\ rest \in Seq(S)
  <2>1. p \in Seq(S)
    BY <1>4
  <2> DEFINE z == AtEnd
  <2> HIDE DEF p, z
  <2>2. (p \o c) \o z = p \o (c \o z) /\ c \o z \in Seq(S)
    BY <1>5, <1>6, <2>1, ConcatAssociative, ConcatProperties DEF z
  <2> QED
    BY <2>2, Zenon DEF z
<1> HIDE DEF rest
<1>8. Tail(p \o rest) = rest
  <2>1. a \in S /\ rest \in Seq(S)
    BY <1>4, <1>7
  <2> QED
    BY ONLY <2>1, OneAndRest, Zenon
<1>9. file' = After(ss, 0) \o AtEnd
  BY <1>1, <1>2, <1>6, <1>7, <1>8, Zenon DEF rest
<1>10. reader'.todo = 1 /\ reader'.left = 0 /\ reader'.form = "module"
  <2>1. reader'.todo = 1 /\ reader'.left = reader.left /\ reader'.form = reader.form
    BY <1>2, RedisLocals
  <2> QED
    BY <1>1, <2>1, Zenon DEF Fresh
<1>11. 0 \in 0 .. n /\ \A i \in 1 .. 0 : object.parts[i].op <= 5
  BY <1>3
<1>12. \E k \in 0 .. n : /\ file' = After(ss, k) \o AtEnd
                         /\ \A i \in 1 .. k : object.parts[i].op <= 5
  BY <1>9, <1>11, Zenon
<1> QED
  BY <1>2, <1>10, <1>12, Zenon DEF ModuleRead, ss, n

LEMMA ModuleSkipped ==
    ASSUME object \in Objects, DOMAIN reader = DOMAIN Locals, IsModule, ModuleInv, SkipPart
    PROVE  \/ phase' = "read" /\ ModuleRead(object)'
           \/ phase' = "refused" /\ \E i \in 1 .. Len(object.parts) : object.parts[i].op > 5
<1> DEFINE S == ModuleItems(object)
           ss == PartsOf(object)
           p == object.parts
           n == Len(p)
           op == readLength(file[1].bytes).val
           r == Skipped(op, Tail(file))
<1>1. phase = "read" /\ reader.todo > 0 /\ ModuleRead(object)
  BY Zenon DEF ModuleInv, SkipPart
<1>2. reader.todo # 0
  BY <1>1
<1>3. reader.left = 0 /\ reader.form = "module"
  BY <1>1, Zenon DEF ModuleRead
<1>4. PICK k \in 0 .. n : file = After(ss, k) \o AtEnd /\ \A i \in 1 .. k : p[i].op <= 5
  BY <1>1, <1>2, Zenon DEF ModuleRead
<1>5. IF op > 5 THEN phase' = "refused"
      ELSE IF op # 0 /\ r.is # "str" THEN phase' = "lost"
      ELSE /\ file' = IF op = 0 THEN Tail(file) ELSE r.rest
           /\ reader' = [reader EXCEPT !.todo = IF op = 0 THEN 0 ELSE 1]
           /\ object' = object /\ phase' = phase
  BY Zenon DEF SkipPart, End
<1>6. n \in Nat /\ ss \in Seq(Seq(S)) /\ Len(ss) = n
      /\ \A i \in 1 .. n : /\ p[i].op \in Nat \ {0} /\ IsInt64(p[i].op) /\ (p[i].op = 5 => IsText(p[i].val))
                           /\ ItemsOfPart(p[i]) \subseteq S /\ ss[i] = PartItems(p[i])
  BY ModuleObject, Zenon
<1>7. AtEnd \in Seq(S) /\ readLength(AtEnd[1].bytes).val = 0 /\ Tail(AtEnd) = <<RestOfFile>>
  BY AtEndIs, Zenon
<1>8. ASSUME NEW t, NEW f, reader' = [reader EXCEPT !.todo = t]
      PROVE  reader'.todo = t /\ reader'.left = 0 /\ reader'.form = "module"
  <2>1. reader'.todo = t /\ reader'.left = reader.left /\ reader'.form = reader.form
    BY <1>8, RedisLocals
  <2> QED
    BY <1>3, <2>1, Zenon
<1> HIDE DEF S, ss, n, r
<1>9. CASE k = n
  <2>1. After(ss, k) = << >>
    BY <1>6, <1>9, AfterIs
  <2>2. file = AtEnd
    <3>1. << >> \o AtEnd = AtEnd
      <4> DEFINE z == AtEnd
      <4> HIDE DEF z
      <4>1. << >> \o z = z
        BY <1>7, ConcatEmptySeq DEF z
      <4> QED
        BY <4>1, Zenon DEF z
    <3> QED
      BY <1>4, <2>1, <3>1, Zenon
  <2>3. op = 0
    BY <1>7, <2>2, Zenon
  <2>4. ~(op > 5) /\ ~(op # 0)
    BY <2>3
  <2>5. /\ file' = Tail(file) /\ reader' = [reader EXCEPT !.todo = 0] /\ object' = object
        /\ phase' = phase
    BY <1>5, <2>4, Zenon
  <2>6. reader'.todo = 0 /\ reader'.left = 0 /\ reader'.form = "module"
    BY <1>8, <2>5, Zenon
  <2>7. file' = <<RestOfFile>>
    BY <1>7, <2>2, <2>5, Zenon
  <2>8. ModuleRead(object)'
    BY <1>4, <1>9, <2>5, <2>6, <2>7, Zenon DEF ModuleRead, n
  <2> QED
    BY <1>1, <2>5, <2>8, Zenon
<1>10. CASE k # n
  <2> DEFINE part == p[k + 1]
             j == k + 1
             rest == After(ss, j) \o AtEnd
  <2>1. k \in 0 .. n - 1 /\ j \in 1 .. n /\ j \in 0 .. n
        /\ \A i \in 1 .. j : i \in 1 .. k \/ i = j
    BY <1>6, <1>10
  <2>2. /\ After(ss, k) = ss[k + 1] \o After(ss, k + 1)
        /\ After(ss, j) \in Seq(S) /\ ss[j] \in Seq(S)
    <3>1. /\ \A i \in 0 .. Len(ss) : After(ss, i) \in Seq(S)
          /\ \A i \in 0 .. Len(ss) - 1 :
                 ss[i + 1] \in Seq(S) /\ After(ss, i) = ss[i + 1] \o After(ss, i + 1)
      BY <1>6, AfterIs
    <3>2. k \in 0 .. Len(ss) - 1 /\ j \in 0 .. Len(ss)
      BY <1>6, <2>1, Zenon
    <3> QED
      BY <3>1, <3>2, Zenon
  <2>3. /\ part.op \in Nat \ {0} /\ IsInt64(part.op) /\ (part.op = 5 => IsText(part.val))
        /\ ItemsOfPart(part) \subseteq S /\ ss[j] = PartItems(part)
    BY <1>6, <2>1, Zenon
  <2>4. file = PartItems(part) \o rest /\ rest \in Seq(S)
    <3> DEFINE x == ss[j]
               y == After(ss, j)
               z == AtEnd
    <3>1. x \in Seq(S) /\ y \in Seq(S) /\ z \in Seq(S)
      BY <1>7, <2>2, Zenon
    <3>2. file = (x \o y) \o z
      BY <1>4, <2>2, Zenon
    <3>3. x = PartItems(part)
      BY <2>3, Zenon
    <3> HIDE DEF x, y, z
    <3>4. (x \o y) \o z = x \o (y \o z) /\ y \o z \in Seq(S)
      BY <3>1, ConcatAssociative, ConcatProperties
    <3> QED
      BY <3>2, <3>3, <3>4, Zenon DEF y, z
  <2> HIDE DEF part, rest
  <2>5. /\ readLength(file[1].bytes).val = part.op
        /\ part.op <= 5 => /\ Skipped(part.op, Tail(file)).is = "str"
                           /\ Skipped(part.op, Tail(file)).rest = rest
    <3>1. LET f == PartItems(part) \o rest
          IN /\ readLength(f[1].bytes).val = part.op
             /\ part.op <= 5 => /\ Skipped(part.op, Tail(f)).is = "str"
                                /\ Skipped(part.op, Tail(f)).rest = rest
      BY <2>3, <2>4, PartReads
    <3> QED
      BY <2>4, <3>1, Zenon
  <2>6. op = part.op /\ (op <= 5 => r.is = "str" /\ r.rest = rest)
    BY <2>5, Zenon DEF r
  <2> HIDE DEF op
  <2>7. op \in Nat /\ op # 0
    <3>1. part.op \in Nat /\ part.op # 0
      BY <2>3
    <3> QED
      BY <2>6, <3>1, Zenon
  <2>8. CASE op > 5
    <3>1. p[j].op > 5
      BY <2>6, <2>8, Zenon DEF part
    <3>2. phase' = "refused"
      BY <1>5, <2>8, Zenon
    <3> QED
      BY <2>1, <3>1, <3>2, Zenon DEF n
  <2>9. CASE ~(op > 5)
    <3>1. op <= 5
      BY <2>7, <2>9
    <3>2. /\ file' = rest /\ reader' = [reader EXCEPT !.todo = 1] /\ object' = object
          /\ phase' = phase
      BY <1>5, <2>6, <2>7, <2>9, <3>1, Zenon
    <3>3. reader'.todo = 1 /\ reader'.left = 0 /\ reader'.form = "module"
      BY <1>8, <3>2, Zenon
    <3>4. p[j].op <= 5
      BY <2>6, <3>1, Zenon DEF part
    <3>5. \A i \in 1 .. j : p[i].op <= 5
      BY <1>4, <2>1, <3>4, Zenon
    <3>6. \E i \in 0 .. n : /\ file' = After(ss, i) \o AtEnd /\ \A h \in 1 .. i : p[h].op <= 5
      BY <2>1, <3>2, <3>5, Zenon DEF rest
    <3>7. ModuleRead(object)'
      BY <3>2, <3>3, <3>6, Zenon DEF ModuleRead, n, ss
    <3> QED
      BY <1>1, <3>2, <3>7, Zenon
  <2> QED
    BY <2>8, <2>9, Zenon
<1> QED
  BY <1>9, <1>10, Zenon

LEMMA ModuleKept ==
    ASSUME object \in Objects, DOMAIN reader = DOMAIN Locals, IsModule, ModuleInv, Next
    PROVE  ModuleInv'
<1>1. object' = object
  BY ObjectStays
<1>2. CASE RedisWrites
  <2>1. /\ phase = "new" /\ phase' = "open" /\ got' = got
        /\ file' = <<Hdr(writeLength(object.id))>> \o Concat(PartsOf(object)) \o AtEnd
        /\ reader'.form = "module" /\ reader'.todo = reader.todo /\ reader'.left = reader.left
    BY <1>2, ModuleWritten, Zenon
  <2>2. Fresh'
    BY <2>1, Zenon DEF ModuleInv, Fresh
  <2> QED
    BY <1>1, <2>1, <2>2 DEF ModuleInv
<1>3. CASE OpenModule
  <2>1. phase' = "read" /\ ModuleRead(object)'
    BY <1>3, ModuleOpened, Zenon
  <2> QED
    BY <2>1 DEF ModuleInv
<1>4. CASE SkipPart
  <2>1. \/ phase' = "read" /\ ModuleRead(object)'
        \/ phase' = "refused" /\ \E i \in 1 .. Len(object.parts) : object.parts[i].op > 5
    BY <1>4, ModuleSkipped, Zenon
  <2> QED
    BY <1>1, <2>1 DEF ModuleInv
<1>5. CASE Done
  <2>1. phase = "read" /\ phase' = "done" /\ file' = file /\ reader.todo = 0
    BY <1>5, Zenon DEF Done, AllRead, End
  <2>2. reader.todo # 1
    BY <2>1
  <2>3. file = <<RestOfFile>> /\ \A i \in 1 .. Len(object.parts) : object.parts[i].op <= 5
    BY <2>1, <2>2, Zenon DEF ModuleInv, ModuleRead
  <2> QED
    BY <1>1, <2>1, <2>3 DEF ModuleInv
<1> QED
  BY <1>2, <1>3, <1>4, <1>5, ModuleSteps, Zenon

-----------------------------------------------------------------------------
RedisInv ==
    /\ object \in Objects /\ DOMAIN reader = DOMAIN Locals
    /\ IsListpack => ListpackInv
    /\ IsZipmap => ZipmapInv
    /\ IsModule => ModuleInv

LEMMA RedisStarts == Init => RedisInv
<1> SUFFICES ASSUME Init PROVE RedisInv
  OBVIOUS
<1>1. reader = Locals /\ object \in Objects /\ phase = "new" /\ got = << >>
  BY Zenon DEF Init
<1>2. DOMAIN reader = DOMAIN Locals /\ Fresh
  BY <1>1, RedisLocals, Zenon DEF Fresh
<1> QED
  BY <1>1, <1>2 DEF RedisInv, ListpackInv, ZipmapInv, ModuleInv

LEMMA RedisInvStep == RedisInv /\ [Next]_vars => RedisInv'
<1> SUFFICES ASSUME RedisInv, [Next]_vars PROVE RedisInv'
  OBVIOUS
<1>1. CASE UNCHANGED vars
  BY <1>1 DEF vars, RedisInv, IsListpack, IsZipmap, IsModule, ListpackInv, ListpackRead,
              ZipmapInv, ZipmapRead, ModuleInv, ModuleRead, Fresh, EmptyEx, Width
<1>2. CASE Next
  <2>1. object' = object /\ object \in Objects /\ DOMAIN reader = DOMAIN Locals
        /\ DOMAIN reader' = DOMAIN Locals
    BY <1>2, ObjectStays, LocalsKept, Zenon DEF RedisInv
  <2>2. IsListpack => ListpackInv'
    BY <1>2, <2>1, ListpackKept, Zenon DEF RedisInv
  <2>3. IsZipmap => ZipmapInv'
    BY <1>2, <2>1, ZipmapKept, Zenon DEF RedisInv
  <2>4. IsModule => ModuleInv'
    BY <1>2, <2>1, ModuleKept, Zenon DEF RedisInv
  <2> QED
    BY <2>1, <2>2, <2>3, <2>4, Zenon DEF RedisInv, IsListpack, IsZipmap, IsModule
<1> QED
  BY <1>1, <1>2

LEMMA RedisMeans == RedisInv => RedisValuesRead
<1> SUFFICES ASSUME RedisInv PROVE RedisValuesRead
  OBVIOUS
<1>1. ASSUME IsListpack
      PROVE  /\ phase = "done" => got = object.strings
             /\ phase # "lost"
             /\ phase = "refused" <=> (phase \in Final /\ object.form = "hashEx"
                                                       /\ object.strings = << >>)
  <2>1. ListpackInv
    BY <1>1, Zenon DEF RedisInv
  <2> QED
    BY <2>1 DEF ListpackInv, EmptyEx, Final
<1>2. ASSUME IsZipmap
      PROVE  LET n == Told(object.strings)
             IN /\ phase = "done" => got = SubSeq(object.strings, 1, n)
                /\ phase \in Final =>
                       (phase # "done" <=> LongIn(SubSeq(object.strings, 1, n)))
  <2>1. ZipmapInv
    BY <1>2, Zenon DEF RedisInv
  <2> QED
    BY <2>1 DEF ZipmapInv, Final
<1>3. ASSUME IsModule
      PROVE  /\ phase = "done" => file = <<RestOfFile>>
             /\ phase # "lost"
             /\ phase \in Final => (phase = "refused" <=>
                                       \E i \in 1 .. Len(object.parts) : object.parts[i].op > 5)
  <2>1. ModuleInv
    BY <1>3, Zenon DEF RedisInv
  <2>2. \A i \in 1 .. Len(object.parts) : object.parts[i].op \in Nat
    <3>1. object \in Objects
      BY Zenon DEF RedisInv
    <3>2. \A i \in 1 .. Len(object.parts) : object.parts[i].op \in Nat \ {0}
      BY <1>3, <3>1, ModuleObject, Zenon
    <3> QED
      BY <3>2
  <2>3. (\A i \in 1 .. Len(object.parts) : object.parts[i].op <= 5)
            => ~(\E i \in 1 .. Len(object.parts) : object.parts[i].op > 5)
    <3> DEFINE x(i) == object.parts[i].op
    <3>1. \A i \in 1 .. Len(object.parts) : x(i) \in Nat
      BY <2>2, Zenon
    <3> HIDE DEF x
    <3>2. (\A i \in 1 .. Len(object.parts) : x(i) <= 5)
              => ~(\E i \in 1 .. Len(object.parts) : x(i) > 5)
      BY <3>1
    <3> QED
      BY <3>2, Zenon DEF x
  <2> DEFINE B == \A i \in 1 .. Len(object.parts) : object.parts[i].op <= 5
             C == \E i \in 1 .. Len(object.parts) : object.parts[i].op > 5
  <2>4. /\ phase \in {"new", "open", "read", "done", "refused"}
        /\ phase = "done" => file = <<RestOfFile>> /\ B
        /\ phase = "refused" => C
        /\ B => ~C
    BY <2>1, <2>3, Zenon DEF ModuleInv
  <2> HIDE DEF B, C
  <2>5. /\ phase = "done" => file = <<RestOfFile>>
        /\ phase # "lost"
        /\ phase \in Final => (phase = "refused" <=> C)
    BY <2>4 DEF Final
  <2> QED
    BY <2>5, Zenon DEF C
<1> QED
  BY <1>1, <1>2, <1>3, Zenon DEF RedisValuesRead, Told

(***************************************************************************)
(* Listpacks and zipmaps of any number of strings and module values of any *)
(* number of parts, as Redis writes them, are read as RedisValuesRead says *)
(* (readListPackHash, readListPackHashEx, readZipMapHash,                  *)
(* skipModuleAuxData).                                                     *)
(***************************************************************************)
THEOREM RedisReadsBack == Spec => []RedisValuesRead
<1>1. Init => RedisInv
  BY RedisStarts
<1>2. RedisInv /\ [Next]_vars => RedisInv'
  BY RedisInvStep
<1>3. RedisInv => RedisValuesRead
  BY RedisMeans
<1> QED
  BY <1>1, <1>2, <1>3, PTL DEF Spec
-----------------------------------------------------------------------------
(***************************************************************************)
(* The quicklists of Redis, node by node.                                  *)
(***************************************************************************)
Kind(n) == IF n.plain THEN "plain" ELSE "packed"
NodeItems(m) == [i \in 1 .. Len(m) |-> RedisNode(m[i])]
NodeValues(m) == [i \in 1 .. Len(m) |-> m[i].values]
CellSizes(s) == [i \in 1 .. Len(s) |-> Size(RedisCell(s[i]))]
PackedTo(m, k) == {i \in 1 .. k : ~m[i].plain}

GoodTexts(s) == \A i \in 1 .. Len(s) : IsText(s[i]) /\ Upper(s[i].len) = 0

GoodNode(n) ==
    /\ n.plain \in BOOLEAN /\ IsSequence(n.values) /\ Len(n.values) > 0
    /\ n.plain => Len(n.values) = 1
    /\ GoodTexts(n.values)

ItemsOfNode(n) ==
    {Hdr(<< 1 >>), Hdr(<< 2 >>), Hdr(writeLength(n.values[1].len)), Body(n.values[1]),
     Page(Len(n.values), RedisCells(n.values))}

QuickItems(m) ==
    (UNION {ItemsOfNode(m[i]) : i \in 1 .. Len(m)}) \cup {Hdr(writeLength(Len(m)))}

\* What the assumption says of a quicklist.
LEMMA QuickObject ==
    ASSUME object \in Objects, IsQuicklist2
    PROVE  /\ IsSequence(object.nodes) /\ Len(object.nodes) \in Nat
           /\ Len(object.nodes) \in Int64s
           /\ \A i \in 1 .. Len(object.nodes) : GoodNode(object.nodes[i])
<1>1. /\ IsSequence(object.nodes) /\ IsInt64(Len(object.nodes))
      /\ \A i \in 1 .. Len(object.nodes) : GoodNode(object.nodes[i])
  BY ListAssumption, Zenon DEF IsQuicklist2, GoodNode, GoodTexts
<1>2. Len(object.nodes) \in Nat /\ Len(object.nodes) \in Int64s
  BY <1>1, SequenceTyped, Int64Wide, Zenon
<1> QED
  BY <1>1, <1>2, Zenon

LEMMA NodeTyped ==
    ASSUME NEW n, GoodNode(n) PROVE RedisNode(n) \in Seq(ItemsOfNode(n))
<1> DEFINE S == ItemsOfNode(n)
           a == Hdr(<< 1 >>)
           b == Hdr(<< 2 >>)
           c == Hdr(writeLength(n.values[1].len))
           d == Body(n.values[1])
           e == Page(Len(n.values), RedisCells(n.values))
<1>1. a \in S /\ b \in S /\ c \in S /\ d \in S /\ e \in S
  BY Zenon DEF ItemsOfNode
<1>2. RedisNode(n) = IF n.plain THEN <<a>> \o <<c, d>> ELSE <<b, e>>
  BY Zenon DEF RedisNode, writeSimpleString, RedisCells
<1> HIDE DEF a, b, c, d, e, S
<1>3. <<c, d>> \in Seq(S) /\ <<b, e>> \in Seq(S)
  BY <1>1
<1>4. <<a>> \o <<c, d>> \in Seq(S)
  <2> DEFINE rest == <<c, d>>
  <2>1. a \in S /\ rest \in Seq(S)
    BY <1>1, <1>3
  <2> HIDE DEF rest
  <2>2. <<a>> \o rest \in Seq(S)
    BY ONLY <2>1, OneAndRest
  <2> QED
    BY <2>2, Zenon DEF rest
<1> QED
  BY <1>2, <1>3, <1>4, Zenon DEF S

\* Without its first two items.
LEMMA ThirdOn ==
    ASSUME NEW S, NEW f \in Seq(S), Len(f) >= 2
    PROVE  SubSeq(f, 3, Len(f)) = Tail(Tail(f))
<1> DEFINE n == Len(f)
           u == Tail(f)
           t == Tail(u)
           v == SubSeq(f, 3, n)
<1>1. n \in Nat /\ n >= 2 /\ n > 0 /\ 3 \in Int
  OBVIOUS
<1>2. \A i \in 3 .. n : f[i] \in S
  BY ElementOfSeq
<1>3. u \in Seq(S) /\ Len(u) = n - 1 /\ \A i \in 1 .. n - 1 : u[i] = f[i + 1]
  <2> HIDE DEF u
  <2>1. Tail(f) \in Seq(S)
    BY <1>1, TailIs
  <2>2. Len(Tail(f)) = Len(f) - 1
    BY <1>1, TailIs
  <2>3. \A i \in 1 .. Len(f) - 1 : Tail(f)[i] = f[i + 1]
    BY <1>1, TailIs
  <2> QED
    BY <2>1, <2>2, <2>3, Zenon DEF u
<1> HIDE DEF n, u
<1>4. Len(u) > 0 /\ Len(u) - 1 = n - 2
  BY <1>1, <1>3
<1>5. t \in Seq(S) /\ Len(t) = Len(u) - 1 /\ \A i \in 1 .. Len(u) - 1 : t[i] = u[i + 1]
  <2> HIDE DEF t
  <2>1. Tail(u) \in Seq(S)
    BY <1>3, <1>4, TailIs
  <2>2. Len(Tail(u)) = Len(u) - 1
    BY <1>3, <1>4, TailIs
  <2>3. \A i \in 1 .. Len(u) - 1 : Tail(u)[i] = u[i + 1]
    BY <1>3, <1>4, TailIs
  <2> QED
    BY <2>1, <2>2, <2>3, Zenon DEF t
<1>6. /\ v \in Seq(S) /\ Len(v) = (IF 3 <= n THEN n - 3 + 1 ELSE 0)
      /\ \A i \in 1 .. n - 3 + 1 : v[i] = f[3 + i - 1]
  BY <1>1, <1>2, SubSeqProperties
<1> HIDE DEF t, v
<1>7. Len(v) = Len(t) /\ Len(t) = n - 2
  BY <1>1, <1>4, <1>5, <1>6
<1>8. ASSUME NEW i \in 1 .. Len(v) PROVE v[i] = t[i]
  <2>1. /\ i \in 1 .. n - 3 + 1 /\ 3 + i - 1 = i + 2 /\ i \in 1 .. Len(u) - 1
        /\ i + 1 \in 1 .. n - 1 /\ (i + 1) + 1 = i + 2
    BY <1>1, <1>4, <1>7
  <2>2. v[i] = f[i + 2]
    BY <1>6, <2>1
  <2>3. t[i] = u[i + 1]
    BY <1>5, <2>1, Zenon
  <2>4. u[i + 1] = f[(i + 1) + 1]
    BY <1>3, <2>1, Zenon
  <2> QED
    BY <2>1, <2>2, <2>3, <2>4, Zenon
<1>9. v = t
  BY <1>5, <1>6, <1>7, <1>8, SeqEqual
<1> QED
  BY <1>9, Zenon DEF v, t, u, n

\* The items of a node, in front of others.
LEMMA NodeReads ==
    ASSUME NEW n, GoodNode(n), NEW S, ItemsOfNode(n) \subseteq S, NEW rest \in Seq(S),
           NEW f, f = RedisNode(n) \o rest
    PROVE  /\ IsHead(f, 1) /\ (n.plain <=> f[1].bytes = << 1 >>)
           /\ n.plain => readString(Tail(f)) = Got(n.values[1], rest)
           /\ ~n.plain => /\ f[2] = Page(Len(n.values), RedisCells(n.values))
                          /\ SubSeq(f, 3, Len(f)) = rest
<1> DEFINE a == Hdr(<< 1 >>)
           b == Hdr(<< 2 >>)
           c == Hdr(writeLength(n.values[1].len))
           d == Body(n.values[1])
           e == Page(Len(n.values), RedisCells(n.values))
<1>1. a \in S /\ b \in S /\ c \in S /\ d \in S /\ e \in S
  BY Zenon DEF ItemsOfNode
<1>2. RedisNode(n) = IF n.plain THEN <<a>> \o <<c, d>> ELSE <<b, e>>
  BY Zenon DEF RedisNode, writeSimpleString, RedisCells
<1>3. a.p = "head" /\ b.p = "head" /\ a.bytes = << 1 >> /\ b.bytes = << 2 >>
  BY ItemFields, Zenon
<1>4. << 1 >> # << 2 >>
  OBVIOUS
<1>5. Len(rest) \in Nat
  OBVIOUS
<1> HIDE DEF a, b, e
<1>6. CASE n.plain
  <2> DEFINE g == <<c, d>> \o rest
             s == n.values[1]
  <2>1. s.len \in Int64s
    <3>1. 1 \in 1 .. Len(n.values)
      BY <1>6 DEF GoodNode
    <3> QED
      BY <3>1, Int64Wide, Zenon DEF GoodNode, GoodTexts, IsText
  <2>2. g \in Seq(S) /\ Len(g) = 2 + Len(rest) /\ g[1] = c /\ g[2] = d /\ Tail(Tail(g)) = rest
    <3> HIDE DEF c, d
    <3>1. c \in S /\ d \in S /\ rest \in Seq(S)
      BY <1>1
    <3> QED
      BY ONLY <3>1, TwoAndRest
  <2>3. f = <<a>> \o g
    <3> DEFINE p == <<a>>
               q == <<c, d>>
    <3> HIDE DEF c, d
    <3>1. p \in Seq(S) /\ q \in Seq(S)
      BY <1>1
    <3>2. f = (p \o q) \o rest
      BY <1>2, <1>6, Zenon
    <3> HIDE DEF p, q
    <3>3. (p \o q) \o rest = p \o (q \o rest)
      BY <3>1, ConcatAssociative
    <3> QED
      BY <3>2, <3>3, Zenon DEF p, q
  <2>4. g[1] = Hdr(writeLength(s.len)) /\ g[2] = Body(s)
    BY <2>2, Zenon
  <2> HIDE DEF g, s, c, d
  <2>5. Len(g) >= 2
    BY <1>5, <2>2
  <2>6. readString(g) = Got(s, rest)
    <3>1. readString(g) = Got(s, Tail(Tail(g)))
      BY <2>1, <2>2, <2>4, <2>5, SimpleReads
    <3> QED
      BY <2>2, <3>1, Zenon
  <2>7. f \in Seq(S) /\ Len(f) = 1 + Len(g) /\ f[1] = a /\ Tail(f) = g
    <3>1. a \in S /\ g \in Seq(S)
      BY <1>1, <2>2
    <3>2. /\ <<a>> \o g \in Seq(S) /\ Len(<<a>> \o g) = 1 + Len(g)
          /\ (<<a>> \o g)[1] = a /\ Tail(<<a>> \o g) = g
      BY ONLY <3>1, OneAndRest
    <3> QED
      BY <2>3, <3>2, Zenon
  <2>8. Len(f) >= 1
    BY <1>5, <2>2, <2>7
  <2> QED
    BY <1>3, <1>6, <2>6, <2>7, <2>8, Zenon DEF IsHead, s
<1>7. CASE ~n.plain
  <2>1. f = <<b, e>> \o rest
    BY <1>2, <1>7, Zenon
  <2>2. f \in Seq(S) /\ Len(f) = 2 + Len(rest) /\ f[1] = b /\ f[2] = e /\ Tail(Tail(f)) = rest
    <3>1. b \in S /\ e \in S /\ rest \in Seq(S)
      BY <1>1
    <3>2. /\ <<b, e>> \o rest \in Seq(S) /\ Len(<<b, e>> \o rest) = 2 + Len(rest)
          /\ (<<b, e>> \o rest)[1] = b /\ (<<b, e>> \o rest)[2] = e
          /\ Tail(Tail(<<b, e>> \o rest)) = rest
      BY ONLY <3>1, TwoAndRest
    <3> QED
      BY <2>1, <3>2, Zenon
  <2>3. Len(f) >= 1 /\ Len(f) >= 2
    BY <1>5, <2>2
  <2>4. SubSeq(f, 3, Len(f)) = Tail(Tail(f))
    BY <2>2, <2>3, ThirdOn
  <2> QED
    BY <1>3, <1>4, <1>7, <2>2, <2>3, <2>4, Zenon DEF IsHead, e
<1> QED
  BY <1>6, <1>7

\* The entries of a listpack, read one after the other.
LEMMA CellsRead ==
    ASSUME NEW s, IsSequence(s), GoodTexts(s),
           NEW read, read = [i \in 1 .. Len(s) |-> readListPackEntry(RedisCells(s)[i])]
    PROVE  /\ \A i \in DOMAIN read : read[i].is \in {"int", "str"}
           /\ [i \in DOMAIN read |-> read[i].str] = s
           /\ [i \in DOMAIN read |-> read[i].took] = CellSizes(s)
<1> DEFINE S == ToSet(s)
<1>1. DOMAIN read = 1 .. Len(s)
  OBVIOUS
<1>2. ASSUME NEW i \in 1 .. Len(s)
      PROVE  /\ read[i].is \in {"int", "str"} /\ read[i].str = s[i]
             /\ read[i].took = Size(RedisCell(s[i]))
  <2>1. read[i] = readListPackEntry(RedisCell(s[i]))
    <3>1. RedisCells(s)[i] = RedisCell(s[i])
      BY Zenon DEF RedisCells
    <3> QED
      BY <3>1
  <2>2. IsText(s[i]) /\ Upper(s[i].len) = 0
    BY Zenon DEF GoodTexts
  <2>3. /\ readListPackEntry(RedisCell(s[i])).is = (IF s[i].kind = "num" THEN "int" ELSE "str")
        /\ readListPackEntry(RedisCell(s[i])).str = s[i]
        /\ readListPackEntry(RedisCell(s[i])).took = Size(RedisCell(s[i]))
    BY <2>2, RedisEntryReads, Zenon
  <2> QED
    BY <2>1, <2>3, Zenon
<1>3. s \in Seq(S) /\ Len(s) \in Nat
  BY SequenceTyped, Zenon
<1>4. s = [i \in 1 .. Len(s) |-> s[i]]
  <2> HIDE DEF S
  <2> QED
    BY <1>3
<1>5. [i \in DOMAIN read |-> read[i].str] = [i \in 1 .. Len(s) |-> s[i]]
  BY <1>1, <1>2, Zenon
<1>6. [i \in DOMAIN read |-> read[i].took] = CellSizes(s)
  BY <1>1, <1>2, Zenon DEF CellSizes
<1> QED
  BY <1>1, <1>2, <1>4, <1>5, <1>6, Zenon
\* Functions on 1 .. k as sequences, one element more.
LEMMA AppendNext ==
    ASSUME NEW k \in Nat, NEW g
    PROVE  Append([i \in 1 .. k |-> g[i]], g[k + 1]) = [i \in 1 .. k + 1 |-> g[i]]
<1> DEFINE S == {g[i] : i \in 1 .. k + 1}
           a == [i \in 1 .. k |-> g[i]]
           b == [i \in 1 .. k + 1 |-> g[i]]
           x == g[k + 1]
           c == Append(a, x)
<1>1. \A i \in 1 .. k + 1 : g[i] \in S
  OBVIOUS
<1>2. k + 1 \in Nat /\ k + 1 \in 1 .. k + 1 /\ \A i \in 1 .. k : i \in 1 .. k + 1
  OBVIOUS
<1> HIDE DEF S
<1>3. a \in Seq(S) /\ Len(a) = k /\ \A i \in 1 .. k : a[i] = g[i]
  BY <1>1, <1>2
<1>4. b \in Seq(S) /\ Len(b) = k + 1 /\ \A i \in 1 .. k + 1 : b[i] = g[i]
  BY <1>1, <1>2
<1>5. x \in S
  BY <1>1, <1>2
<1> HIDE DEF a, b
<1>6. /\ c \in Seq(S) /\ Len(c) = Len(a) + 1 /\ c[Len(a) + 1] = x
      /\ \A i \in 1 .. Len(a) : c[i] = a[i]
  BY <1>3, <1>5, AppendProperties
<1> HIDE DEF c
<1>7. Len(c) = Len(b) /\ \A i \in 1 .. Len(c) : c[i] = b[i]
  BY <1>2, <1>3, <1>4, <1>6
<1>8. c = b
  BY <1>4, <1>6, <1>7, SeqEqual
<1> QED
  BY <1>8, Zenon DEF a, b, c, x

LEMMA AppendSequence ==
    ASSUME NEW s, IsSequence(s), NEW x
    PROVE  IsSequence(Append(s, x)) /\ Len(Append(s, x)) = Len(s) + 1
<1> DEFINE S == ToSet(s) \cup {x}
           Z == ToSet(s)
           t == Append(s, x)
           n == Len(s) + 1
<1>1. s \in Seq(Z) /\ Len(s) \in Nat
  BY SequenceTyped, Zenon
<1>2. s \in Seq(S)
  <2> HIDE DEF Z
  <2>1. s \in Seq(Z \cup {x})
    BY <1>1
  <2> QED
    BY <2>1, Zenon DEF Z
<1>3. x \in S
  OBVIOUS
<1> HIDE DEF S
<1>4. t \in Seq(S) /\ Len(t) = n
  BY <1>2, <1>3, AppendProperties
<1> HIDE DEF t
<1>5. t = [i \in 1 .. n |-> t[i]] /\ n \in Nat
  BY <1>1, <1>4
<1> HIDE DEF n
<1>6. IsSequence(t)
  BY <1>5, FunctionTyped, Zenon
<1> QED
  BY <1>4, <1>6, Zenon DEF t, n

\* The nodes as sequences of items and of values.
ValuesOf(m) == UNION {ToSet(m[i].values) : i \in 1 .. Len(m)}

LEMMA NodesTyped ==
    ASSUME NEW m, IsSequence(m), \A i \in 1 .. Len(m) : GoodNode(m[i])
    PROVE  /\ NodeItems(m) \in Seq(Seq(QuickItems(m))) /\ Len(NodeItems(m)) = Len(m)
           /\ NodeValues(m) \in Seq(Seq(ValuesOf(m))) /\ Len(NodeValues(m)) = Len(m)
           /\ \A i \in 1 .. Len(m) : /\ NodeItems(m)[i] = RedisNode(m[i])
                                     /\ NodeValues(m)[i] = m[i].values
                                     /\ ItemsOfNode(m[i]) \subseteq QuickItems(m)
<1> DEFINE S == QuickItems(m)
           T == ValuesOf(m)
           n == Len(m)
           f == NodeItems(m)
           v == NodeValues(m)
           Y == Seq(S)
           Z == Seq(T)
<1>1. n \in Nat
  BY SequenceTyped, Zenon
<1>2. ASSUME NEW i \in 1 .. n
      PROVE  RedisNode(m[i]) \in Y /\ m[i].values \in Z /\ ItemsOfNode(m[i]) \subseteq S
  <2> DEFINE P == ItemsOfNode(m[i])
             Q == ToSet(m[i].values)
             a == RedisNode(m[i])
             b == m[i].values
  <2>1. P \subseteq S
    BY Zenon DEF QuickItems
  <2>2. Q \subseteq T
    BY Zenon DEF ValuesOf
  <2>3. a \in Seq(P)
    BY NodeTyped, Zenon
  <2>4. b \in Seq(Q)
    BY SequenceTyped, Zenon DEF GoodNode
  <2> HIDE DEF P, Q, a, b, S, T
  <2>5. a \in Y
    BY <2>1, <2>3
  <2>6. b \in Z
    BY <2>2, <2>4
  <2> QED
    BY <2>1, <2>5, <2>6, Zenon DEF P, a, b
<1> HIDE DEF Y, Z
<1>3. f = [i \in 1 .. n |-> RedisNode(m[i])] /\ v = [i \in 1 .. n |-> m[i].values]
  BY Zenon DEF NodeItems, NodeValues
<1> HIDE DEF n, f, v
<1>4. f \in Seq(Y) /\ Len(f) = n /\ \A i \in 1 .. n : f[i] = RedisNode(m[i])
  BY <1>1, <1>2, <1>3
<1>5. v \in Seq(Z) /\ Len(v) = n /\ \A i \in 1 .. n : v[i] = m[i].values
  BY <1>1, <1>2, <1>3
<1> QED
  BY <1>2, <1>4, <1>5, Zenon DEF n, f, v, Y, Z

LEMMA PackedIs ==
    ASSUME NEW m, NEW k \in Nat
    PROVE  /\ IsFiniteSet(PackedTo(m, k)) /\ Cardinality(PackedTo(m, k)) \in Nat
           /\ PackedTo(m, 0) = {} /\ Cardinality(PackedTo(m, 0)) = 0
           /\ Cardinality(PackedTo(m, k + 1))
                = IF m[k + 1].plain THEN Cardinality(PackedTo(m, k))
                  ELSE Cardinality(PackedTo(m, k)) + 1
<1> DEFINE P == PackedTo(m, k)
           Q == PackedTo(m, k + 1)
<1>1. IsFiniteSet(P) /\ Cardinality(P) \in Nat
  <2>1. IsFiniteSet(1 .. k)
    BY FS_Interval
  <2>2. P \subseteq 1 .. k
    BY DEF PackedTo
  <2>3. IsFiniteSet(P)
    BY <2>1, <2>2, FS_Subset
  <2> QED
    BY <2>3, FS_CardinalityType
<1>2. PackedTo(m, 0) = {}
  BY DEF PackedTo
<1>3. Cardinality(PackedTo(m, 0)) = 0
  BY <1>2, FS_EmptySet
<1>4. CASE m[k + 1].plain
  <2>1. Q = P
    BY <1>4 DEF PackedTo
  <2> QED
    BY <1>1, <1>2, <1>3, <1>4, <2>1, Zenon
<1>5. CASE ~m[k + 1].plain
  <2>1. Q = P \cup {k + 1} /\ k + 1 \notin P
    BY <1>5 DEF PackedTo
  <2> HIDE DEF P, Q
  <2>2. Cardinality(P \cup {k + 1}) = Cardinality(P) + 1
    BY <1>1, <2>1, FS_AddElement
  <2> QED
    BY <1>1, <1>2, <1>3, <1>5, <2>1, <2>2, Zenon DEF P, Q
<1> QED
  BY <1>4, <1>5

\* What k nodes of a quicklist have left in the reader.
QuickRead(m, k) ==
    /\ reader.form = "quicklist2" /\ reader.todo = Len(m) - k /\ reader.left = 0
    /\ file = After(NodeItems(m), k)
    /\ got = Concat(SubSeq(NodeValues(m), 1, k)) /\ k <= Len(got)
    /\ reader.nodes = [i \in 1 .. k |-> Kind(m[i])]
    /\ IsSequence(reader.sizes) /\ Len(reader.sizes) = Cardinality(PackedTo(m, k))
    /\ (\A i \in 1 .. k : ~m[i].plain) =>
           reader.sizes = [i \in 1 .. k |-> CellSizes(m[i].values)]
    /\ (\A i \in 1 .. k : m[i].plain) => got = [i \in 1 .. k |-> m[i].values[1]]

QuickLocals == {"form", "todo", "left", "nodes", "sizes", "size"}

LEMMA QuickDomain ==
    /\ QuickLocals \subseteq DOMAIN Locals
    /\ Locals.left = 0 /\ Locals.nodes = << >> /\ Locals.sizes = << >>
BY DEF QuickLocals, Locals

\* The next node, as ReadNode takes it.
LEMMA NodeTaken ==
    ASSUME NEW m, IsSequence(m), \A i \in 1 .. Len(m) : GoodNode(m[i]),
           NEW k \in 0 .. Len(m) - 1, file = After(NodeItems(m), k), ReadNode
    PROVE  LET n == m[k + 1]
           IN /\ phase' = phase /\ object' = object
              /\ got' = got \o n.values
              /\ file' = After(NodeItems(m), k + 1)
              /\ reader' = [reader EXCEPT
                     !.todo = @ - 1, !.nodes = Append(@, Kind(n)),
                     !.sizes = IF n.plain THEN @ ELSE Append(@, CellSizes(n.values))]
<1> DEFINE n == m[k + 1]
           S == QuickItems(m)
           ss == NodeItems(m)
           rest == After(ss, k + 1)
           plain == file[1].bytes = << 1 >>
           r == readString(Tail(file))
           page == file[2].cells
           read == [i \in 1 .. file[2].count |-> readListPackEntry(page[i])]
           sound == IF plain THEN r.is = "str"
                    ELSE \A i \in DOMAIN read : read[i].is \in {"int", "str"}
<1>1. Len(m) \in Nat
  BY SequenceTyped, Zenon
<1>2. k + 1 \in 1 .. Len(m) /\ k + 1 \in 0 .. Len(m)
  BY <1>1
<1>3. GoodNode(n)
  BY <1>2, Zenon
<1>4. /\ ss \in Seq(Seq(S)) /\ Len(ss) = Len(m) /\ ss[k + 1] = RedisNode(n)
      /\ ItemsOfNode(n) \subseteq S
  BY <1>2, NodesTyped, Zenon
<1>5. rest \in Seq(S) /\ file = RedisNode(n) \o rest
  <2> HIDE DEF S, ss
  <2>1. /\ \A i \in 0 .. Len(ss) : After(ss, i) \in Seq(S)
        /\ \A i \in 0 .. Len(ss) - 1 :
               ss[i + 1] \in Seq(S) /\ After(ss, i) = ss[i + 1] \o After(ss, i + 1)
    BY <1>4, AfterIs
  <2>2. k + 1 \in 0 .. Len(ss) /\ k \in 0 .. Len(ss) - 1
    BY <1>2, <1>4
  <2> QED
    BY <1>4, <2>1, <2>2, Zenon DEF ss
<1> HIDE DEF S, ss, rest
<1>6. /\ plain <=> n.plain
      /\ n.plain => r = Got(n.values[1], rest)
      /\ ~n.plain => /\ file[2] = Page(Len(n.values), RedisCells(n.values))
                     /\ SubSeq(file, 3, Len(file)) = rest
  <2> DEFINE f == file
  <2> HIDE DEF n, f
  <2>1. /\ GoodNode(n) /\ ItemsOfNode(n) \subseteq S /\ rest \in Seq(S)
        /\ f = RedisNode(n) \o rest
    BY <1>3, <1>4, <1>5, Zenon DEF f
  <2>2. /\ IsHead(f, 1) /\ (n.plain <=> f[1].bytes = << 1 >>)
        /\ n.plain => readString(Tail(f)) = Got(n.values[1], rest)
        /\ ~n.plain => /\ f[2] = Page(Len(n.values), RedisCells(n.values))
                       /\ SubSeq(f, 3, Len(f)) = rest
    BY ONLY <2>1, NodeReads
  <2> QED
    BY <2>2, Zenon DEF f
<1>7. IF ~sound THEN End("lost")
      ELSE /\ got' = got \o (IF plain THEN <<r.str>>
                             ELSE [i \in DOMAIN read |-> read[i].str])
           /\ file' = IF plain THEN r.rest ELSE SubSeq(file, 3, Len(file))
           /\ reader' = [reader EXCEPT
                   !.todo = @ - 1,
                   !.nodes = Append(@, IF plain THEN "plain" ELSE "packed"),
                   !.sizes = IF plain THEN @
                             ELSE Append(@, [i \in DOMAIN read |-> read[i].took])]
           /\ UNCHANGED <<object, phase>>
  BY Zenon DEF ReadNode
<1>8. CASE n.plain
  <2>1. plain
    BY <1>6, <1>8, Zenon
  <2>2. r.is = "str" /\ r.str = n.values[1] /\ r.rest = rest
    <3> DEFINE x == Got(n.values[1], rest)
    <3>1. x.is = "str" /\ x.str = n.values[1] /\ x.rest = rest
      BY ReadFields
    <3>2. r = x
      BY <1>6, <1>8, Zenon
    <3> HIDE DEF x, r
    <3> QED
      BY <3>1, <3>2, Zenon
  <2>3. n.values = <<n.values[1]>>
    <3> DEFINE s == n.values
               Z == ToSet(s)
    <3>1. s \in Seq(Z) /\ Len(s) = 1
      BY <1>3, <1>8, SequenceTyped, Zenon DEF GoodNode
    <3> HIDE DEF s, Z
    <3>2. s = <<s[1]>>
      BY <3>1
    <3> QED
      BY <3>2, Zenon DEF s
  <2> HIDE DEF r, plain
  <2>4. sound
    BY <2>1, <2>2, Zenon
  <2> HIDE DEF sound, read
  <2>5. /\ got' = got \o <<r.str>> /\ file' = r.rest
        /\ reader' = [reader EXCEPT !.todo = @ - 1, !.nodes = Append(@, "plain"), !.sizes = @]
        /\ object' = object /\ phase' = phase
    BY <1>7, <2>1, <2>4, Zenon
  <2>6. Kind(n) = "plain"
    BY <1>8 DEF Kind
  <2>7. reader' = [reader EXCEPT
             !.todo = @ - 1, !.nodes = Append(@, Kind(n)),
             !.sizes = IF n.plain THEN @ ELSE Append(@, CellSizes(n.values))]
    BY <1>8, <2>5, <2>6, Zenon
  <2> QED
    BY <2>2, <2>3, <2>5, <2>7, Zenon DEF rest, ss
<1>9. CASE ~n.plain
  <2> DEFINE s == n.values
  <2>1. ~plain
    BY <1>6, <1>9, Zenon
  <2>2. file[2].count = Len(s) /\ page = RedisCells(s)
    <3> DEFINE x == Page(Len(s), RedisCells(s))
    <3>1. x.count = Len(s) /\ x.cells = RedisCells(s)
      BY PageFields, Zenon
    <3>2. file[2] = x
      BY <1>6, <1>9, Zenon
    <3> HIDE DEF x
    <3> QED
      BY <3>1, <3>2, Zenon
  <2>3. read = [i \in 1 .. Len(s) |-> readListPackEntry(RedisCells(s)[i])]
    BY <2>2, Zenon
  <2>4. IsSequence(s) /\ GoodTexts(s)
    BY <1>3, Zenon DEF GoodNode
  <2> HIDE DEF plain, read, s
  <2>5. /\ \A i \in DOMAIN read : read[i].is \in {"int", "str"}
        /\ [i \in DOMAIN read |-> read[i].str] = s
        /\ [i \in DOMAIN read |-> read[i].took] = CellSizes(s)
    BY ONLY <2>3, <2>4, CellsRead
  <2>6. sound
    BY <2>1, <2>5, Zenon
  <2> HIDE DEF sound
  <2>7. /\ got' = got \o [i \in DOMAIN read |-> read[i].str]
        /\ file' = SubSeq(file, 3, Len(file))
        /\ reader' = [reader EXCEPT !.todo = @ - 1, !.nodes = Append(@, "packed"),
                          !.sizes = Append(@, [i \in DOMAIN read |-> read[i].took])]
        /\ object' = object /\ phase' = phase
    BY <1>7, <2>1, <2>6, Zenon
  <2>8. Kind(n) = "packed"
    BY <1>9 DEF Kind
  <2>9. reader' = [reader EXCEPT !.todo = @ - 1, !.nodes = Append(@, Kind(n)),
                       !.sizes = Append(@, CellSizes(s))]
    BY <2>5, <2>7, <2>8, Zenon
  <2>10. reader' = [reader EXCEPT
             !.todo = @ - 1, !.nodes = Append(@, Kind(n)),
             !.sizes = IF n.plain THEN @ ELSE Append(@, CellSizes(n.values))]
    BY <1>9, <2>9, Zenon DEF s
  <2> QED
    BY <1>6, <1>9, <2>5, <2>7, <2>10, Zenon DEF rest, ss, s
<1> QED
  BY <1>8, <1>9

\* The value of a node follows those before it.
LEMMA ValuesAppended ==
    ASSUME NEW m, IsSequence(m), \A i \in 1 .. Len(m) : GoodNode(m[i]),
           NEW k \in 0 .. Len(m) - 1, got = Concat(SubSeq(NodeValues(m), 1, k)),
           k <= Len(got), got' = got \o m[k + 1].values
    PROVE  /\ got' = Concat(SubSeq(NodeValues(m), 1, k + 1)) /\ k + 1 <= Len(got')
           /\ m[k + 1].plain => got' = Append(got, m[k + 1].values[1])
<1> DEFINE T == ValuesOf(m)
           Z == Seq(T)
           vv == NodeValues(m)
           s == m[k + 1].values
           ww == SubSeq(vv, 1, k)
<1>1. Len(m) \in Nat
  BY SequenceTyped, Zenon
<1>2. k + 1 \in 1 .. Len(m) /\ k \in Nat
  BY <1>1
<1>3. vv \in Seq(Z) /\ Len(vv) = Len(m) /\ vv[k + 1] = s
  BY <1>2, NodesTyped, Zenon
<1> HIDE DEF T, vv, s
<1>4. k \in 0 .. Len(vv) - 1
  BY <1>3
<1>5. s \in Seq(T)
  <2>1. vv[k + 1] \in Z
    <3> HIDE DEF Z
    <3> QED
      BY <1>2, <1>3, ElementOfSeq
  <2> QED
    BY <1>3, <2>1
<1>6. Concat(SubSeq(vv, 1, k + 1)) = Concat(ww) \o s
  BY <1>3, <1>4, ConcatLast
<1>7. got \in Seq(T)
  <2>1. \A i \in 1 .. k : vv[i] \in Z
    <3>1. \A i \in 1 .. k : i \in 1 .. Len(vv)
      BY <1>2, <1>3
    <3> HIDE DEF Z
    <3> QED
      BY <1>3, <3>1, ElementOfSeq
  <2>2. ww \in Seq(Z)
    <3> HIDE DEF Z
    <3> QED
      BY <1>2, <1>3, <2>1, SubSeqProperties
  <2> HIDE DEF ww
  <2>3. Concat(ww) \in Seq(T)
    BY <2>2, ConcatTyped
  <2> QED
    BY <2>3, Zenon DEF ww, vv
<1>8. GoodNode(m[k + 1])
  BY <1>2, Zenon
<1>9. Len(s) > 0 /\ (m[k + 1].plain => Len(s) = 1)
  BY <1>8, Zenon DEF GoodNode, s
<1>10. k + 1 <= Len(got \o s)
  <2>1. Len(got \o s) = Len(got) + Len(s)
    BY <1>5, <1>7, ConcatProperties
  <2>2. Len(got) \in Nat /\ Len(s) \in Nat
    BY <1>5, <1>7
  <2> QED
    BY <1>2, <1>9, <2>1, <2>2
<1>11. ASSUME Len(s) = 1 PROVE got \o s = Append(got, s[1])
  <2>1. s = <<s[1]>> /\ s[1] \in T
    <3> DEFINE r == <<s[1]>>
    <3>1. s \in Seq(T) /\ Len(s) = 1
      BY <1>5, <1>11
    <3>2. s[1] \in T
      BY ONLY <3>1
    <3>3. r \in Seq(T) /\ Len(r) = 1 /\ r[1] = s[1]
      BY ONLY <3>2
    <3> HIDE DEF r
    <3>4. \A i \in 1 .. Len(s) : s[i] = r[i]
      BY ONLY <3>1, <3>3
    <3>5. s = r
      BY ONLY <3>1, <3>3, <3>4, SeqEqual
    <3> QED
      BY <3>2, <3>5, Zenon DEF r
  <2>2. Append(got, s[1]) = got \o <<s[1]>>
    BY <1>7, <2>1, AppendIsConcat
  <2> QED
    BY <2>1, <2>2, Zenon
<1> QED
  BY <1>6, <1>9, <1>10, <1>11, Zenon DEF vv, s, ww

LEMMA QuickTurn ==
    ASSUME object \in Objects, IsQuicklist2, DOMAIN reader = DOMAIN Locals,
           NEW k \in 0 .. Len(object.nodes) - 1, QuickRead(object.nodes, k), ReadNode
    PROVE  phase' = phase /\ QuickRead(object.nodes, k + 1)'
<1> DEFINE m == object.nodes
           n == m[k + 1]
           t == reader.todo
           z == reader.sizes
           z2 == IF n.plain THEN z ELSE Append(z, CellSizes(n.values))
<1>1. IsSequence(m) /\ Len(m) \in Nat /\ \A i \in 1 .. Len(m) : GoodNode(m[i])
  BY QuickObject, Zenon
<1>2. /\ reader.form = "quicklist2"
      /\ t = Len(m) - k /\ reader.left = 0 /\ file = After(NodeItems(m), k)
      /\ got = Concat(SubSeq(NodeValues(m), 1, k)) /\ k <= Len(got)
      /\ reader.nodes = [i \in 1 .. k |-> Kind(m[i])]
      /\ IsSequence(z) /\ Len(z) = Cardinality(PackedTo(m, k))
      /\ (\A i \in 1 .. k : ~m[i].plain) => z = [i \in 1 .. k |-> CellSizes(m[i].values)]
      /\ (\A i \in 1 .. k : m[i].plain) => got = [i \in 1 .. k |-> m[i].values[1]]
  BY Zenon DEF QuickRead
<1>3. /\ phase' = phase /\ object' = object
      /\ got' = got \o n.values /\ file' = After(NodeItems(m), k + 1)
      /\ reader' = [reader EXCEPT
             !.todo = @ - 1, !.nodes = Append(@, Kind(n)),
             !.sizes = IF n.plain THEN @ ELSE Append(@, CellSizes(n.values))]
  <2>1. /\ IsSequence(m) /\ \A i \in 1 .. Len(m) : GoodNode(m[i])
        /\ k \in 0 .. Len(m) - 1 /\ file = After(NodeItems(m), k) /\ ReadNode
    BY <1>1, <1>2, Zenon
  <2> HIDE DEF m
  <2> QED
    BY ONLY <2>1, NodeTaken, Zenon DEF n
<1>4. /\ reader'.todo = t - 1 /\ reader'.left = reader.left /\ reader'.form = reader.form
      /\ reader'.nodes = Append(reader.nodes, Kind(n)) /\ reader'.sizes = z2
  <2> DEFINE y == Kind(n)
             x == CellSizes(n.values)
             b == n.plain
  <2>1. reader' = [reader EXCEPT
             !.todo = @ - 1, !.nodes = Append(@, y), !.sizes = IF b THEN @ ELSE Append(@, x)]
    BY <1>3, Zenon
  <2> HIDE DEF y, x, b
  <2>2. /\ reader'.todo = reader.todo - 1 /\ reader'.left = reader.left
        /\ reader'.form = reader.form
        /\ reader'.nodes = Append(reader.nodes, y)
        /\ reader'.sizes = IF b THEN reader.sizes ELSE Append(reader.sizes, x)
    BY <2>1, QuickDomain DEF QuickLocals
  <2> QED
    BY <2>2, Zenon DEF y, x, b
<1>5. k \in Nat /\ k + 1 \in Nat /\ k + 1 \in 1 .. Len(m)
      /\ \A i \in 1 .. k : i \in 1 .. k + 1
      /\ k + 1 \in 1 .. k + 1
  BY <1>1
<1>6. reader'.todo = Len(m) - (k + 1)
  <2> DEFINE l == Len(m)
  <2>1. l \in Nat /\ t = l - k
    BY <1>1, <1>2, Zenon
  <2> HIDE DEF l, t
  <2>2. t - 1 = l - (k + 1)
    BY <2>1
  <2> QED
    BY <1>4, <2>2, Zenon DEF l
<1>7. /\ got' = Concat(SubSeq(NodeValues(m), 1, k + 1)) /\ k + 1 <= Len(got')
      /\ n.plain => got' = Append(got, n.values[1])
  BY <1>1, <1>2, <1>3, ValuesAppended, Zenon
<1>8. reader'.nodes = [i \in 1 .. k + 1 |-> Kind(m[i])]
  <2> DEFINE g == [i \in 1 .. k + 1 |-> Kind(m[i])]
  <2>1. g[k + 1] = Kind(n) /\ \A i \in 1 .. k : g[i] = Kind(m[i])
    BY <1>5
  <2>2. [i \in 1 .. k + 1 |-> g[i]] = g
    BY Zenon
  <2> HIDE DEF g
  <2>3. Append([i \in 1 .. k |-> g[i]], g[k + 1]) = [i \in 1 .. k + 1 |-> g[i]]
    BY <1>5, AppendNext, Zenon
  <2>4. [i \in 1 .. k |-> g[i]] = [i \in 1 .. k |-> Kind(m[i])]
    BY <2>1, Zenon
  <2> QED
    <3>1. reader'.nodes = Append([i \in 1 .. k |-> g[i]], g[k + 1])
      BY <1>2, <1>4, <2>1, <2>4
    <3> QED
      BY <2>2, <2>3, <3>1, Zenon DEF g
<1>9. IsSequence(z2) /\ Len(z2) = Cardinality(PackedTo(m, k + 1))
  <2>1. Cardinality(PackedTo(m, k + 1))
          = IF n.plain THEN Cardinality(PackedTo(m, k)) ELSE Cardinality(PackedTo(m, k)) + 1
    BY <1>5, PackedIs, Zenon
  <2>2. \A x : IsSequence(Append(z, x)) /\ Len(Append(z, x)) = Len(z) + 1
    BY <1>2, AppendSequence, Zenon
  <2> QED
    BY <1>2, <2>1, <2>2, Zenon
<1>10. ASSUME \A i \in 1 .. k + 1 : ~m[i].plain
       PROVE  z2 = [i \in 1 .. k + 1 |-> CellSizes(m[i].values)]
  <2> DEFINE g == [i \in 1 .. k + 1 |-> CellSizes(m[i].values)]
  <2>1. g[k + 1] = CellSizes(n.values) /\ \A i \in 1 .. k : g[i] = CellSizes(m[i].values)
    BY <1>5
  <2>2. [i \in 1 .. k + 1 |-> g[i]] = g
    BY Zenon
  <2>3. z = [i \in 1 .. k |-> CellSizes(m[i].values)] /\ ~n.plain
    <3>1. \A i \in 1 .. k : ~m[i].plain
      BY <1>5, <1>10
    <3>2. ~n.plain
      BY <1>5, <1>10
    <3> QED
      BY <1>2, <3>1, <3>2, Zenon
  <2> HIDE DEF g
  <2>4. Append([i \in 1 .. k |-> g[i]], g[k + 1]) = [i \in 1 .. k + 1 |-> g[i]]
    BY <1>5, AppendNext, Zenon
  <2>5. [i \in 1 .. k |-> g[i]] = [i \in 1 .. k |-> CellSizes(m[i].values)]
    BY <2>1, Zenon
  <2> QED
    BY <2>1, <2>2, <2>3, <2>4, <2>5, Zenon DEF g
<1>11. ASSUME \A i \in 1 .. k + 1 : m[i].plain
       PROVE  got' = [i \in 1 .. k + 1 |-> m[i].values[1]]
  <2> DEFINE g == [i \in 1 .. k + 1 |-> m[i].values[1]]
  <2>1. g[k + 1] = n.values[1] /\ \A i \in 1 .. k : g[i] = m[i].values[1]
    BY <1>5
  <2>2. [i \in 1 .. k + 1 |-> g[i]] = g
    BY Zenon
  <2>3. got = [i \in 1 .. k |-> m[i].values[1]] /\ n.plain
    <3>1. \A i \in 1 .. k : m[i].plain
      BY <1>5, <1>11
    <3>2. n.plain
      BY <1>5, <1>11
    <3> QED
      BY <1>2, <3>1, <3>2, Zenon
  <2> HIDE DEF g
  <2>4. Append([i \in 1 .. k |-> g[i]], g[k + 1]) = [i \in 1 .. k + 1 |-> g[i]]
    BY <1>5, AppendNext, Zenon
  <2>5. [i \in 1 .. k |-> g[i]] = [i \in 1 .. k |-> m[i].values[1]]
    BY <2>1, Zenon
  <2> QED
    BY <1>7, <2>1, <2>2, <2>3, <2>4, <2>5, Zenon DEF g
<1> HIDE DEF z2, z, t
<1> QED
  BY <1>2, <1>3, <1>4, <1>6, <1>7, <1>8, <1>9, <1>10, <1>11, Zenon DEF QuickRead

\* All values, and what the nodes take as Redis wrote them.
ValuesIn(m) == Concat(NodeValues(m))
NodeBytes(n) == IF n.plain THEN n.values[1].len ELSE 7 + Total(CellSizes(n.values))
BytesIn(m) == Total([i \in 1 .. Len(m) |-> NodeBytes(m[i])])

PlainFirst(m) == \E i, j \in 1 .. Len(m) : i < j /\ m[i].plain /\ ~m[j].plain
OneKind(m) == \/ \A i \in 1 .. Len(m) : m[i].plain
              \/ \A i \in 1 .. Len(m) : ~m[i].plain

QuicklistInv ==
    /\ phase \in {"new", "open", "read", "sized", "panicked"}
    /\ phase \in {"new", "open"} =>
           got = << >> /\ reader.left = 0 /\ reader.nodes = << >> /\ reader.sizes = << >>
    /\ phase = "open" =>
           /\ reader.form = "quicklist2"
           /\ file = <<Hdr(writeLength(Len(object.nodes)))>> \o Concat(NodeItems(object.nodes))
    /\ phase = "read" => \E k \in 0 .. Len(object.nodes) : QuickRead(object.nodes, k)
    /\ phase \in {"sized", "panicked"} => got = ValuesIn(object.nodes)
    /\ phase = "panicked" => PlainFirst(object.nodes)
    /\ phase = "sized" => /\ ~PlainFirst(object.nodes)
                          /\ OneKind(object.nodes) => reader.size = BytesIn(object.nodes)

LEMMA QuickSteps ==
    ASSUME object \in Objects, IsQuicklist2, QuicklistInv, Next
    PROVE  RedisQuicklist \/ OpenList \/ ReadNode \/ SizeOfQuicklist2
<1>1. object.type = "quicklist2" /\ phase \in {"new", "open", "read", "sized", "panicked"}
  BY DEF QuicklistInv, IsQuicklist2
<1>2. phase \in {"open", "read"} => reader.form = "quicklist2"
  BY DEF QuicklistInv, QuickRead
<1>3. CASE StringNext
  BY <1>1, <1>3 DEF StringNext, BeginString, WritePiece, FailPiece, ReadStringValue, IsString
<1>4. CASE ListNext
  BY <1>1, <1>4 DEF ListNext, WriteList, ReadPage, ReadEntry, IsList
<1>5. CASE TableNext
  BY <1>1, <1>2, <1>5 DEF TableNext, WriteHash, WriteHashEx, WriteSet, WriteZSet,
       OpenTable, OpenHashEx, ReadTablePage, ReadTableEntry, ReadMember, ReadField,
       ReadScored, ReadHfe, ReadHash2, InTable, ReadCount, OnePage, IsTable, Tables
<1>6. CASE StreamNext
  BY <1>1, <1>2, <1>6 DEF StreamNext, WriteStream, OpenStream, ReadStreamEntry, ReadMessage,
       ReadStreamMeta, ReadGroup, ReadConsumer, StreamDone, AllRead, ReadCount, IsStream
<1>7. CASE RedisNext
  BY <1>1, <1>2, <1>7 DEF RedisNext, RedisWrites, OpenListpack, ReadMembers, OpenZipmap,
       ReadZipmapEntry, OpenModule, SkipPart, IsListpack, IsZipmap, IsModule
<1> QED
  BY <1>3, <1>4, <1>5, <1>6, <1>7 DEF Next

LEMMA QuickWritten ==
    ASSUME DOMAIN reader = DOMAIN Locals, QuicklistInv, RedisQuicklist
    PROVE  QuicklistInv'
<1> DEFINE m == object.nodes
           items == <<Hdr(writeLength(Len(m)))>> \o Concat(NodeItems(m))
<1>1. phase = "new" /\ Written(items, "quicklist2")
  BY Zenon DEF RedisQuicklist, NodeItems
<1> HIDE DEF items
<1>2. /\ phase' = "open" /\ file' = items /\ got' = got /\ object' = object
      /\ reader' = [reader EXCEPT !.form = "quicklist2"]
  BY <1>1, Zenon DEF Written
<1>3. /\ reader'.form = "quicklist2" /\ reader'.left = reader.left
      /\ reader'.nodes = reader.nodes /\ reader'.sizes = reader.sizes
  BY <1>2, QuickDomain DEF QuickLocals
<1>4. got = << >> /\ reader.left = 0 /\ reader.nodes = << >> /\ reader.sizes = << >>
  BY <1>1, Zenon DEF QuicklistInv
<1>5. file' = <<Hdr(writeLength(Len(object'.nodes)))>> \o Concat(NodeItems(object'.nodes))
  BY <1>2, Zenon DEF items
<1> QED
  BY <1>2, <1>3, <1>4, <1>5 DEF QuicklistInv

LEMMA HeadItem == \A m : Hdr(writeLength(Len(m))) \in QuickItems(m)
<1> TAKE m
<1> DEFINE h == Hdr(writeLength(Len(m)))
           X == UNION {ItemsOfNode(m[i]) : i \in 1 .. Len(m)}
<1>1. QuickItems(m) = X \cup {h}
  BY DEF QuickItems
<1> HIDE DEF h, X
<1>2. h \in X \cup {h}
  BY Zenon
<1>3. h \in QuickItems(m)
  BY <1>1, <1>2, Zenon
<1> QED
  BY <1>3, Zenon DEF h

LEMMA QuickOpened ==
    ASSUME object \in Objects, IsQuicklist2, DOMAIN reader = DOMAIN Locals, QuicklistInv,
           OpenList
    PROVE  phase' = "read" /\ QuickRead(object.nodes, 0)'
<1> DEFINE m == object.nodes
           n == Len(m)
           S == QuickItems(m)
           T == ValuesOf(m)
           h == Hdr(writeLength(n))
           ss == NodeItems(m)
           vv == NodeValues(m)
           rest == Concat(ss)
<1>1. phase = "open" /\ ReadCount
  BY DEF OpenList, IsList, IsQuicklist2, ReadCount
<1>2. /\ file = <<h>> \o rest /\ reader.form = "quicklist2"
      /\ got = << >> /\ reader.left = 0 /\ reader.nodes = << >> /\ reader.sizes = << >>
  BY <1>1, Zenon DEF QuicklistInv
<1>3. /\ reader' = [reader EXCEPT !.todo = readLength(file[1].bytes).val]
      /\ file' = Tail(file) /\ phase' = "read" /\ object' = object /\ got' = got
  BY <1>1, Zenon DEF ReadCount
<1>4. /\ IsSequence(m) /\ n \in Nat /\ n \in Int64s
      /\ \A i \in 1 .. n : GoodNode(m[i])
  BY QuickObject, Zenon
<1>5. ss \in Seq(Seq(S)) /\ vv \in Seq(Seq(T))
  BY <1>4, NodesTyped, Zenon
<1>6. h \in S
  BY HeadItem, Zenon
<1> HIDE DEF S, T, h, ss, vv
<1>7. rest \in Seq(S)
  BY <1>5, ConcatTyped
<1>8. file[1] = h /\ Tail(file) = rest
  <2> HIDE DEF rest
  <2>1. (<<h>> \o rest)[1] = h /\ Tail(<<h>> \o rest) = rest
    BY ONLY <1>6, <1>7, OneAndRest
  <2> QED
    BY <1>2, <2>1, Zenon
<1>9. readLength(file[1].bytes).val = n
  <2>1. h.bytes = writeLength(n)
    BY ItemFields, Zenon DEF h
  <2> QED
    BY <1>4, <1>8, <2>1, PlainLength, Zenon
<1> HIDE DEF n
<1>10. /\ reader'.todo = n /\ reader'.left = reader.left /\ reader'.form = reader.form
       /\ reader'.nodes = reader.nodes /\ reader'.sizes = reader.sizes
  <2>1. reader' = [reader EXCEPT !.todo = n]
    BY <1>3, <1>9, Zenon
  <2> QED
    BY <2>1, QuickDomain DEF QuickLocals
<1>11. n - 0 = n
  BY <1>4
<1>12. After(ss, 0) = rest
  BY <1>5, AfterIs
<1>13. Concat(SubSeq(vv, 1, 0)) = << >>
  <2>1. SubSeq(vv, 1, 0) = << >>
    BY <1>5
  <2> QED
    BY <2>1, ConcatNone, Zenon
<1>14. IsSequence(<< >>) /\ Len(<< >>) = 0
  BY DEF IsSequence
<1>15. Len(<< >>) = Cardinality(PackedTo(m, 0))
  BY <1>14, PackedIs
<1>16. /\ << >> = [i \in 1 .. 0 |-> Kind(m[i])]
       /\ << >> = [i \in 1 .. 0 |-> CellSizes(m[i].values)]
       /\ << >> = [i \in 1 .. 0 |-> m[i].values[1]]
  <2>1. \A f : f = [i \in 1 .. 0 |-> f[i]] => f = << >>
    BY SMT
  <2> QED
    BY <2>1
<1>17. 0 <= Len(got)
  BY <1>2, <1>14
<1> HIDE DEF rest, m
<1>18. /\ reader'.form = "quicklist2" /\ reader'.todo = Len(m) - 0 /\ reader'.left = 0
       /\ file' = After(NodeItems(m), 0)
       /\ got' = Concat(SubSeq(NodeValues(m), 1, 0)) /\ 0 <= Len(got')
       /\ reader'.nodes = [i \in 1 .. 0 |-> Kind(m[i])]
       /\ IsSequence(reader'.sizes) /\ Len(reader'.sizes) = Cardinality(PackedTo(m, 0))
       /\ reader'.sizes = [i \in 1 .. 0 |-> CellSizes(m[i].values)]
       /\ got' = [i \in 1 .. 0 |-> m[i].values[1]]
  BY <1>2, <1>3, <1>8, <1>10, <1>11, <1>12, <1>13, <1>14, <1>15, <1>16, <1>17, Zenon
     DEF n, ss, vv
<1> QED
  BY <1>3, <1>18, Zenon DEF QuickRead, m

\* The packed nodes have as many places among the packed ones as among all
\* exactly when no plain node is in front of one of them.
LEMMA PackedPlaces ==
    ASSUME NEW m, IsSequence(m), \A i \in 1 .. Len(m) : GoodNode(m[i])
    PROVE  (\A i \in 1 .. Len(m) : ~m[i].plain => i <= Cardinality(PackedTo(m, Len(m))))
             <=> ~PlainFirst(m)
<1> DEFINE n == Len(m)
           P == PackedTo(m, n)
           c == Cardinality(P)
           Ahead == \A i \in 1 .. n : ~m[i].plain => i <= c
<1>1. n \in Nat
  BY SequenceTyped, Zenon
<1>2. IsFiniteSet(P) /\ c \in Nat
  BY <1>1, PackedIs, Zenon
<1>3. \A i : i \in P <=> i \in 1 .. n /\ ~m[i].plain
  BY Zenon DEF PackedTo
<1>4. PlainFirst(m) <=> \E i, j \in 1 .. n : i < j /\ i \notin P /\ j \in P
  BY <1>3, Zenon DEF PlainFirst
<1>5. Ahead <=> \A i \in 1 .. n : i \in P => i <= c
  BY <1>3, Zenon
<1>6. P \subseteq 1 .. n
  BY <1>3, Zenon
<1> HIDE DEF n, P, Ahead
<1>7. ASSUME ~PlainFirst(m), NEW i \in 1 .. n, i \in P PROVE i <= c
  <2>1. i \in Nat /\ 1 .. i \subseteq P
    BY <1>1, <1>4, <1>7
  <2>2. Cardinality(1 .. i) = i
    BY <2>1, <1>7, FS_Interval
  <2>3. Cardinality(1 .. i) <= Cardinality(P)
    BY <1>2, <2>1, FS_Subset
  <2> QED
    BY <2>2, <2>3
<1>8. ASSUME PlainFirst(m), \A i \in 1 .. n : i \in P => i <= c PROVE FALSE
  <2>1. PICK i \in 1 .. n, j \in 1 .. n : i < j /\ i \notin P /\ j \in P
    BY <1>4, <1>8, Zenon
  <2> DEFINE T == {n - x : x \in P}
  <2>2. T \subseteq Nat /\ n - j \in T
    BY <1>1, <1>6, <2>1
  <2>3. T \in SUBSET Nat /\ T # {}
    BY <2>2
  <2> HIDE DEF T
  <2>4. PICK t \in T : \A y \in T : t <= y
    BY <2>3, LeastNumber, Zenon
  <2>5. PICK l \in P : t = n - l /\ l \in 1 .. n
    BY <1>6, <2>4 DEF T
  <2>6. \A x \in P : x <= l
    <3> TAKE x \in P
    <3>1. t <= n - x
      BY <2>4 DEF T
    <3> QED
      BY <1>1, <1>6, <2>5, <3>1
  <2> DEFINE A == (1 .. l) \ {i}
  <2>7. l \in Nat /\ i \in 1 .. l /\ P \subseteq A
    BY <1>1, <1>6, <2>1, <2>5, <2>6
  <2>8. IsFiniteSet(1 .. l) /\ Cardinality(1 .. l) = l
    <3>1. 1 \in Int /\ l \in Int /\ ~(1 > l) /\ l - 1 + 1 = l
      BY <2>7
    <3> QED
      BY <3>1, FS_Interval
  <2>9. IsFiniteSet(A) /\ Cardinality(A) = l - 1
    BY <2>7, <2>8, FS_RemoveElement
  <2>10. Cardinality(P) <= Cardinality(A)
    BY <2>7, <2>9, FS_Subset
  <2>11. l <= c
    BY <1>8, <2>5
  <2> QED
    BY <1>2, <2>7, <2>9, <2>10, <2>11
<1>9. Ahead <=> ~PlainFirst(m)
  BY <1>5, <1>7, <1>8
<1> QED
  BY <1>9, Zenon DEF Ahead, P, n

LEMMA QuickSized ==
    ASSUME object \in Objects, IsQuicklist2, DOMAIN reader = DOMAIN Locals, QuicklistInv,
           SizeOfQuicklist2
    PROVE  QuicklistInv'
<1> DEFINE m == object.nodes
           n == Len(m)
           c == Cardinality(PackedTo(m, n))
           Detailed == \A i \in 1 .. Len(reader.nodes) : HasDetail(i)
           sum == Total([i \in 1 .. Len(reader.nodes) |-> NodeSize(i)])
<1>1. phase = "read" /\ reader.todo = 0
  BY Zenon DEF SizeOfQuicklist2, AllRead
<1>2. IsSequence(m) /\ n \in Nat /\ \A i \in 1 .. n : GoodNode(m[i])
  BY QuickObject, Zenon
<1>3. PICK k \in 0 .. n : QuickRead(m, k)
  BY <1>1, Zenon DEF QuicklistInv
<1>4. k = n
  <2> DEFINE t == reader.todo
  <2>1. t = n - k /\ t = 0
    BY <1>1, <1>3, Zenon DEF QuickRead
  <2> HIDE DEF t, n
  <2> QED
    BY <1>2, <1>3, <2>1
<1>5. /\ got = Concat(SubSeq(NodeValues(m), 1, n)) /\ n <= Len(got)
      /\ reader.nodes = [i \in 1 .. n |-> Kind(m[i])]
      /\ Len(reader.sizes) = c
      /\ (\A i \in 1 .. n : ~m[i].plain) =>
             reader.sizes = [i \in 1 .. n |-> CellSizes(m[i].values)]
      /\ (\A i \in 1 .. n : m[i].plain) => got = [i \in 1 .. n |-> m[i].values[1]]
  BY <1>3, <1>4, Zenon DEF QuickRead
<1>6. got = ValuesIn(m)
  <2> DEFINE T == ValuesOf(m)
             vv == NodeValues(m)
             Z == Seq(T)
  <2>1. vv \in Seq(Z) /\ Len(vv) = n
    BY <1>2, NodesTyped, Zenon
  <2> HIDE DEF vv, Z
  <2>2. SubSeq(vv, 1, Len(vv)) = vv
    <3>1. vv = [i \in 1 .. Len(vv) |-> vv[i]] /\ Len(vv) \in Nat
      BY <2>1
    <3>2. IsSequence(vv)
      BY <3>1, FunctionTyped, Zenon
    <3> QED
      BY <3>2, FrontAll, Zenon
  <2> QED
    BY <1>5, <2>1, <2>2, Zenon DEF ValuesIn, vv
<1> HIDE DEF n
<1>7. Len(reader.nodes) = n /\ \A i \in 1 .. n : reader.nodes[i] = Kind(m[i])
  <2> DEFINE f == [i \in 1 .. n |-> Kind(m[i])]
  <2>1. Len(f) = n /\ \A i \in 1 .. n : f[i] = Kind(m[i])
    BY <1>2
  <2> HIDE DEF f
  <2>2. reader.nodes = f
    BY <1>5, Zenon DEF f
  <2> QED
    BY <2>1, <2>2, Zenon
<1>8. \A i \in 1 .. n : reader.nodes[i] = "plain" <=> m[i].plain
  <2>1. "packed" # "plain"
    OBVIOUS
  <2> QED
    BY <1>7, <2>1, Zenon DEF Kind
<1>9. Detailed <=> ~PlainFirst(m)
  <2>1. \A i \in 1 .. n : i <= Len(got)
    <3> DEFINE l == Len(got)
    <3>1. got \in Seq(ValuesOf(m))
      <4> DEFINE T == ValuesOf(m)
      <4>1. NodeValues(m) \in Seq(Seq(T))
        BY <1>2, NodesTyped, Zenon DEF n
      <4> HIDE DEF T
      <4>2. Concat(NodeValues(m)) \in Seq(T)
        BY <4>1, ConcatTyped
      <4> QED
        BY <1>6, <4>2, Zenon DEF ValuesIn, T
    <3>2. l \in Nat
      BY <3>1
    <3>3. n <= l
      BY <1>5, Zenon
    <3> HIDE DEF l
    <3>4. \A i \in 1 .. n : i <= l
      BY <1>2, <3>2, <3>3
    <3> QED
      BY <3>4, Zenon DEF l
  <2>2. \A i \in 1 .. n : HasDetail(i) <=> (~m[i].plain => i <= c)
    BY <1>5, <1>8, <2>1, Zenon DEF HasDetail
  <2>3. (\A i \in 1 .. n : ~m[i].plain => i <= c) <=> ~PlainFirst(m)
    BY <1>2, PackedPlaces, Zenon DEF n
  <2> QED
    BY <1>7, <2>2, <2>3, Zenon
<1>10. OneKind(m) => sum = BytesIn(m)
  <2>1. ASSUME \A i \in 1 .. n : m[i].plain, NEW i \in 1 .. n
        PROVE  NodeSize(i) = NodeBytes(m[i])
    <3>1. got[i] = m[i].values[1]
      BY <1>5, <2>1, Zenon
    <3>2. reader.nodes[i] = "plain" /\ m[i].plain
      BY <1>8, <2>1, Zenon
    <3> QED
      BY <3>1, <3>2, Zenon DEF NodeSize, NodeBytes
  <2>2. ASSUME \A i \in 1 .. n : ~m[i].plain, NEW i \in 1 .. n
        PROVE  NodeSize(i) = NodeBytes(m[i])
    <3>1. reader.sizes[i] = CellSizes(m[i].values)
      BY <1>5, <2>2, Zenon
    <3>2. reader.nodes[i] # "plain" /\ ~m[i].plain
      BY <1>8, <2>2, Zenon
    <3> QED
      BY <3>1, <3>2, Zenon DEF NodeSize, NodeBytes
  <2>3. ASSUME OneKind(m) PROVE \A i \in 1 .. n : NodeSize(i) = NodeBytes(m[i])
    BY <2>1, <2>2, <2>3, Zenon DEF OneKind, n
  <2>4. ASSUME OneKind(m)
        PROVE  [i \in 1 .. Len(reader.nodes) |-> NodeSize(i)] = [i \in 1 .. n |-> NodeBytes(m[i])]
    BY <1>7, <2>3, <2>4, Zenon
  <2> QED
    BY <2>4, Zenon DEF BytesIn, n
<1>11. IF Detailed
       THEN /\ reader' = [reader EXCEPT !.size = sum] /\ phase' = "sized"
            /\ UNCHANGED <<object, file, got>>
       ELSE End("panicked")
  BY Zenon DEF SizeOfQuicklist2
<1> HIDE DEF Detailed, sum
<1>12. CASE Detailed
  <2>1. /\ reader' = [reader EXCEPT !.size = sum] /\ phase' = "sized"
        /\ object' = object /\ got' = got
    BY <1>11, <1>12, Zenon
  <2>2. reader'.size = sum
    BY <2>1, QuickDomain DEF QuickLocals
  <2> QED
    BY <1>6, <1>9, <1>10, <1>12, <2>1, <2>2 DEF QuicklistInv
<1>13. CASE ~Detailed
  <2>1. phase' = "panicked" /\ object' = object /\ got' = got
    BY <1>11, <1>13, Zenon DEF End
  <2> QED
    BY <1>6, <1>9, <1>13, <2>1 DEF QuicklistInv
<1> QED
  BY <1>12, <1>13

LEMMA QuicklistKept ==
    ASSUME object \in Objects, IsQuicklist2, DOMAIN reader = DOMAIN Locals, QuicklistInv, Next
    PROVE  QuicklistInv'
<1> DEFINE m == object.nodes
           n == Len(m)
<1>1. n \in Nat
  BY QuickObject, Zenon
<1>2. object' = object
  BY ObjectStays, Zenon
<1> HIDE DEF n
<1>3. CASE RedisQuicklist
  BY <1>3, QuickWritten, Zenon
<1>4. CASE OpenList
  <2>1. phase' = "read" /\ QuickRead(object.nodes, 0)'
    BY <1>4, QuickOpened, Zenon
  <2>2. 0 \in 0 .. n
    BY <1>1
  <2>3. \E k \in 0 .. Len(object.nodes)' : QuickRead(object.nodes, k)'
    BY <1>2, <2>1, <2>2, Zenon DEF n
  <2> QED
    BY <2>1, <2>3 DEF QuicklistInv
<1>5. CASE ReadNode
  <2>1. phase = "read" /\ reader.todo > 0
    BY <1>5, Zenon DEF ReadNode
  <2>2. PICK k \in 0 .. n : QuickRead(m, k)
    BY <2>1, Zenon DEF QuicklistInv, n
  <2> DEFINE t == reader.todo
  <2>3. t = n - k /\ t > 0
    BY <2>1, <2>2, Zenon DEF QuickRead, n
  <2> HIDE DEF t
  <2>4. k \in 0 .. n - 1 /\ k + 1 \in 0 .. n
    BY <1>1, <2>3
  <2>5. k \in 0 .. Len(object.nodes) - 1 /\ QuickRead(object.nodes, k)
    BY <2>2, <2>4, Zenon DEF n
  <2>6. phase' = phase /\ QuickRead(object.nodes, k + 1)'
    BY <1>5, <2>5, QuickTurn, Zenon
  <2>7. \E i \in 0 .. Len(object.nodes)' : QuickRead(object.nodes, i)'
    BY <1>2, <2>4, <2>6, Zenon DEF n
  <2> QED
    BY <2>1, <2>6, <2>7 DEF QuicklistInv
<1>6. CASE SizeOfQuicklist2
  BY <1>6, QuickSized, Zenon
<1> QED
  BY <1>3, <1>4, <1>5, <1>6, QuickSteps, Zenon

QuicklistsInv ==
    /\ object \in Objects /\ DOMAIN reader = DOMAIN Locals
    /\ IsQuicklist2 => QuicklistInv

LEMMA QuicklistStarts == Init => QuicklistsInv
<1> SUFFICES ASSUME Init PROVE QuicklistsInv
  OBVIOUS
<1>1. reader = Locals /\ object \in Objects /\ phase = "new" /\ got = << >>
  BY Zenon DEF Init
<1>2. reader.left = 0 /\ reader.nodes = << >> /\ reader.sizes = << >>
  BY <1>1, QuickDomain, Zenon
<1> QED
  BY <1>1, <1>2 DEF QuicklistsInv, QuicklistInv

LEMMA QuicklistInvStep == QuicklistsInv /\ [Next]_vars => QuicklistsInv'
<1> SUFFICES ASSUME QuicklistsInv, [Next]_vars PROVE QuicklistsInv'
  OBVIOUS
<1>1. CASE UNCHANGED vars
  <2>1. /\ phase' = phase /\ file' = file /\ got' = got /\ object' = object
        /\ reader' = reader
    BY <1>1 DEF vars
  <2>2. ASSUME NEW k PROVE QuickRead(object.nodes, k) => QuickRead(object.nodes, k)'
    BY <2>1, Zenon DEF QuickRead
  <2>3. QuicklistInv => QuicklistInv'
    <3> SUFFICES ASSUME QuicklistInv PROVE QuicklistInv'
      OBVIOUS
    <3>1. phase' = "read" => \E k \in 0 .. Len(object.nodes)' : QuickRead(object.nodes, k)'
      BY <2>1, <2>2, Zenon DEF QuicklistInv
    <3> QED
      BY <2>1, <3>1, Zenon DEF QuicklistInv
  <2> QED
    BY <2>1, <2>3, Zenon DEF QuicklistsInv, IsQuicklist2
<1>2. CASE Next
  <2>1. object' = object /\ object \in Objects /\ DOMAIN reader = DOMAIN Locals
        /\ DOMAIN reader' = DOMAIN Locals
    BY <1>2, ObjectStays, LocalsKept, Zenon DEF QuicklistsInv
  <2>2. IsQuicklist2 => QuicklistInv'
    BY <1>2, <2>1, QuicklistKept, Zenon DEF QuicklistsInv
  <2> QED
    BY <2>1, <2>2, Zenon DEF QuicklistsInv, IsQuicklist2
<1> QED
  BY <1>1, <1>2

LEMMA QuicklistMeans == QuicklistsInv => QuicklistSized
<1> SUFFICES ASSUME QuicklistsInv, IsQuicklist2
             PROVE  /\ phase # "lost"
                    /\ phase \in {"sized", "panicked"} => got = AllValues
                    /\ phase = "panicked" => PlainBeforePacked
                    /\ phase = "sized" =>
                          /\ ~PlainBeforePacked
                          /\ (\/ \A i \in 1 .. Len(object.nodes) : object.nodes[i].plain
                              \/ \A i \in 1 .. Len(object.nodes) : ~object.nodes[i].plain)
                             => reader.size = TrueSize
  BY Zenon DEF QuicklistSized
<1>1. QuicklistInv
  BY Zenon DEF QuicklistsInv
<1>2. AllValues = ValuesIn(object.nodes)
  BY Zenon DEF AllValues, ValuesIn, NodeValues
<1>3. PlainBeforePacked <=> PlainFirst(object.nodes)
  BY Zenon DEF PlainBeforePacked, PlainFirst
<1>4. TrueSize = BytesIn(object.nodes)
  BY Zenon DEF TrueSize, BytesIn, NodeBytes, CellSizes
<1>5. OneKind(object.nodes) <=>
          \/ \A i \in 1 .. Len(object.nodes) : object.nodes[i].plain
          \/ \A i \in 1 .. Len(object.nodes) : ~object.nodes[i].plain
  BY Zenon DEF OneKind
<1>6. phase # "lost"
  BY <1>1 DEF QuicklistInv
<1>7. phase \in {"sized", "panicked"} => got = AllValues
  BY <1>1, <1>2, Zenon DEF QuicklistInv
<1> QED
  BY <1>1, <1>3, <1>4, <1>5, <1>6, <1>7, Zenon DEF QuicklistInv

\* Of every quicklist Redis writes, however many nodes it has and whatever is
\* in them, readQuickList2 (list.go) returns all values in order; sizeOfQuicklist2
\* (memprofiler/list.go) adds its memory up right when the nodes are of one
\* kind, and dies exactly when a plain node is in front of a packed one.
THEOREM QuicklistsSized == Spec => []QuicklistSized
<1>1. Init => QuicklistsInv
  BY QuicklistStarts
<1>2. QuicklistsInv /\ [Next]_vars => QuicklistsInv'
  BY QuicklistInvStep
<1>3. QuicklistsInv => QuicklistSized
  BY QuicklistMeans
<1> QED
  BY <1>1, <1>2, <1>3, PTL DEF Spec


\* The orders of a set: all its members, each once.
LEMMA OrderIs ==
    ASSUME NEW S, IsFiniteSet(S), NEW order \in Orders(S)
    PROVE  /\ Cardinality(S) \in Nat /\ order \in Seq(S) /\ Len(order) = Cardinality(S)
           /\ \A i, j \in 1 .. Len(order) : i # j => order[i] # order[j]
           /\ {order[i] : i \in 1 .. Len(order)} = S
<1> DEFINE n == Cardinality(S)
<1>1. n \in Nat
  BY FS_CardinalityType
<1>2. order \in [1 .. n -> S] /\ order \in SetToAllKPermutations(S)
  BY Zenon DEF Orders
<1>3. PICK s \in SUBSET S : order \in SetToSeqs(s)
  BY <1>2 DEF SetToAllKPermutations
<1> DEFINE c == Cardinality(s)
<1>4. order \in [1 .. c -> s] /\ \A i, j \in 1 .. c : i # j => order[i] # order[j]
  BY <1>3, Zenon DEF SetToSeqs
<1>5. 1 .. c = 1 .. n
  <2> HIDE DEF c, n
  <2>1. DOMAIN order = 1 .. c /\ DOMAIN order = 1 .. n
    BY <1>2, <1>4
  <2> QED
    BY <2>1, Zenon
<1> HIDE DEF c, n
<1>6. order \in Seq(S) /\ Len(order) = n
  BY <1>1, <1>2
<1>7. \A i, j \in 1 .. n : i # j => order[i] # order[j]
  BY <1>4, <1>5, Zenon
<1>8. order \in Injection(1 .. n, S)
  BY <1>2, <1>7 DEF Injection, IsInjective
<1>9. Cardinality(1 .. n) = n
  BY <1>1, FS_Interval
<1>10. order \in Surjection(1 .. n, S)
  <2>1. Cardinality(1 .. n) = Cardinality(S)
    BY <1>9, Zenon DEF n
  <2> QED
    BY <1>8, <2>1, FS_Injection
<1>11. {order[i] : i \in 1 .. n} = S
  BY <1>2, <1>10 DEF Surjection
<1> QED
  BY <1>1, <1>6, <1>7, <1>11, Zenon DEF n

\* What k items of a table have left in the reader.
TableRead(ss, nn, k) ==
    /\ reader.todo = Len(ss) - k /\ reader.left = 0
    /\ file = After(ss, k) /\ got = Concat(SubSeq(nn, 1, k))

TableLocals == {"form", "todo", "left", "min"}

LEMMA TableDomain ==
    TableLocals \subseteq DOMAIN Locals /\ Locals.todo = 0 /\ Locals.left = 0
BY DEF TableLocals, Locals

LEMMA TableTurned ==
    ASSUME DOMAIN reader = DOMAIN Locals,
           NEW S, NEW ss \in Seq(Seq(S)), NEW T, NEW nn \in Seq(Seq(T)), Len(nn) = Len(ss),
           NEW k \in 0 .. Len(ss) - 1, TableRead(ss, nn, k),
           Turned(nn[k + 1], After(ss, k + 1))
    PROVE  /\ phase' = phase /\ object' = object
           /\ reader'.form = reader.form /\ reader'.min = reader.min
           /\ reader'.todo = Len(ss) - (k + 1) /\ reader'.left = 0
           /\ file' = After(ss, k + 1) /\ got' = Concat(SubSeq(nn, 1, k + 1))
<1> DEFINE t == reader.todo
           l == Len(ss)
<1>1. /\ got' = got \o nn[k + 1] /\ file' = After(ss, k + 1) /\ phase' = phase
      /\ object' = object /\ reader' = [reader EXCEPT !.todo = @ - 1]
  BY Zenon DEF Turned
<1>2. /\ reader'.todo = t - 1 /\ reader'.left = reader.left
      /\ reader'.form = reader.form /\ reader'.min = reader.min
  BY <1>1, TableDomain DEF TableLocals
<1>3. t = l - k /\ reader.left = 0 /\ got = Concat(SubSeq(nn, 1, k))
  BY Zenon DEF TableRead
<1>4. t - 1 = l - (k + 1)
  <2>1. l \in Nat /\ k \in Nat
    OBVIOUS
  <2> HIDE DEF t, l
  <2> QED
    BY <1>3, <2>1
<1>5. got' = Concat(SubSeq(nn, 1, k + 1))
  <2>1. k \in 0 .. Len(nn) - 1
    BY Zenon
  <2>2. Concat(SubSeq(nn, 1, k + 1)) = Concat(SubSeq(nn, 1, k)) \o nn[k + 1]
    BY <2>1, ConcatLast
  <2> QED
    BY <1>1, <1>3, <2>2, Zenon
<1> QED
  BY <1>1, <1>2, <1>3, <1>4, <1>5, Zenon DEF TableRead

\* A table before its first item.
LEMMA TableBegins ==
    ASSUME NEW S, NEW ss \in Seq(Seq(S)), NEW nn, Len(ss) \in Int64s,
           NEW f, f = Table(Len(ss), ss)
    PROVE  /\ IsHead(f, 1) /\ readLength(f[1].bytes).val = Len(ss)
           /\ Tail(f) = After(ss, 0) /\ Concat(SubSeq(nn, 1, 0)) = << >>
<1> DEFINE h == Hdr(writeLength(Len(ss)))
           rest == Concat(ss)
           X == S \cup {h}
<1>1. f = <<h>> \o rest
  BY Zenon DEF Table
<1>2. rest \in Seq(S)
  BY ConcatTyped
<1>3. h \in X
  OBVIOUS
<1> HIDE DEF h
<1>4. rest \in Seq(X)
  <2> HIDE DEF rest
  <2> QED
    BY <1>2
<1> HIDE DEF X, rest
<1>5. Len(f) = 1 + Len(rest) /\ f[1] = h /\ Tail(f) = rest
  BY <1>1, <1>3, <1>4, OneAndRest
<1>6. Len(f) >= 1
  BY <1>4, <1>5
<1>7. h.bytes = writeLength(Len(ss)) /\ h.p = "head"
  BY ItemFields, Zenon DEF h
<1>8. IsHead(f, 1)
  BY <1>5, <1>6, <1>7, Zenon DEF IsHead
<1>9. readLength(f[1].bytes).val = Len(ss)
  BY <1>5, <1>7, PlainLength, Zenon
<1>10. After(ss, 0) = rest
  BY AfterIs, Zenon DEF rest
<1>11. SubSeq(nn, 1, 0) = << >>
  BY SubSeqEmpty
<1> QED
  BY <1>5, <1>8, <1>9, <1>10, <1>11, ConcatNone, Zenon

\* The parts of what readString returned.
LEMMA GotIs ==
    ASSUME NEW s, NEW t, NEW r, r = Got(s, t)
    PROVE  r.is = "str" /\ r.str = s /\ r.rest = t
<1> DEFINE x == Got(s, t)
<1>1. x.is = "str" /\ x.str = s /\ x.rest = t
  BY ReadFields
<1> HIDE DEF x
<1>2. r = x
  BY Zenon DEF x
<1> QED
  BY <1>1, <1>2, Zenon

\* A field and its value, one after the other.
LEMMA FieldReads ==
    ASSUME NEW x, IsText(x.f), IsText(x.v),
           NEW S, TextItems(x.f) \subseteq S, TextItems(x.v) \subseteq S, NEW rest \in Seq(S)
    PROVE  /\ writeField(x) \in Seq(S) /\ writeField(x) \o rest \in Seq(S)
           /\ readString(writeField(x) \o rest) = Got(x.f, writeString(x.v) \o rest)
           /\ readString(writeString(x.v) \o rest) = Got(x.v, rest)
<1> DEFINE a == writeString(x.f)
           b == writeString(x.v)
           t == b \o rest
<1>1. a \in Seq(S) /\ b \in Seq(S)
  <2> DEFINE A == TextItems(x.f)
             B == TextItems(x.v)
  <2>1. a \in Seq(A) /\ b \in Seq(B)
    BY TextTyped, Zenon
  <2> HIDE DEF A, B, a, b
  <2>2. A \subseteq S /\ B \subseteq S
    BY Zenon DEF A, B
  <2> QED
    BY <2>1, <2>2
<1>2. t \in Seq(S) /\ readString(t) = Got(x.v, rest)
  BY StringReads, Zenon
<1>3. a \o t \in Seq(S) /\ readString(a \o t) = Got(x.f, t)
  BY <1>2, StringReads, Zenon
<1> HIDE DEF a, b
<1>4. (a \o b) \o rest = a \o (b \o rest)
  BY <1>1, ConcatAssociative
<1>5. a \o b \in Seq(S)
  BY <1>1, ConcatProperties
<1>6. writeField(x) = a \o b
  BY Zenon DEF writeField, a, b
<1> QED
  BY <1>2, <1>3, <1>4, <1>5, <1>6, Zenon DEF b

\* One turn of readSet, readHashMap, readZSet2 and their like (set.go, hash.go,
\* zset.go).
LEMMA MemberRead ==
    ASSUME NEW x, IsText(x), NEW S, TextItems(x) \subseteq S, NEW rest \in Seq(S),
           file = writeString(x) \o rest, ReadMember
    PROVE  Turned(<<x>>, rest)
<1>1. readString(file) = Got(x, rest)
  BY StringReads, Zenon
<1>2. readString(file).is = "str" /\ readString(file).str = x /\ readString(file).rest = rest
  BY <1>1, GotIs
<1> QED
  BY <1>2, Zenon DEF ReadMember

LEMMA FieldRead ==
    ASSUME NEW x, IsText(x.f), IsText(x.v),
           NEW S, TextItems(x.f) \subseteq S, TextItems(x.v) \subseteq S, NEW rest \in Seq(S),
           file = writeField(x) \o rest, ReadField
    PROVE  Turned(<<x.f, x.v>>, rest)
<1> DEFINE f == readString(file)
           v == readString(f.rest)
           t == writeString(x.v) \o rest
<1>1. f = Got(x.f, t) /\ readString(t) = Got(x.v, rest)
  BY FieldReads, Zenon
<1> HIDE DEF f, t
<1>2. f.is = "str" /\ f.str = x.f /\ f.rest = t
  BY <1>1, GotIs
<1>3. v.is = "str" /\ v.str = x.v /\ v.rest = rest
  BY <1>1, <1>2, GotIs
<1>4. IF f.is = "str" /\ v.is = "str" THEN Turned(<<f.str, v.str>>, v.rest) ELSE End("lost")
  BY Zenon DEF ReadField, f
<1> QED
  BY <1>2, <1>3, <1>4, Zenon

LEMMA FloatIs == \A s : Float(s).p = "float" /\ Float(s).str = s
BY DEF Float, Body

LEMMA ScoredRead ==
    ASSUME NEW x, IsText(x.f), NEW S, TextItems(x.f) \subseteq S, Float(x.v) \in S,
           NEW rest \in Seq(S), file = writeScored(x) \o rest, ReadScored
    PROVE  writeScored(x) \in Seq(S) /\ Turned(<<x.f, x.v>>, rest)
<1> DEFINE a == writeString(x.f)
           b == Float(x.v)
           t == <<b>> \o rest
           f == readString(file)
<1>1. a \in Seq(S) /\ <<b>> \in Seq(S)
  <2> DEFINE A == TextItems(x.f)
  <2>1. a \in Seq(A)
    BY TextTyped, Zenon
  <2> HIDE DEF A, a, b
  <2>2. A \subseteq S /\ b \in S
    BY Zenon DEF A, b
  <2> QED
    BY <2>1, <2>2
<1>2. t \in Seq(S) /\ Len(t) = 1 + Len(rest) /\ t[1] = b /\ Tail(t) = rest
  BY OneAndRest
<1>3. readString(a \o t) = Got(x.f, t)
  BY <1>2, StringReads, Zenon
<1>4. writeScored(x) = a \o <<b>>
  BY Zenon DEF writeScored
<1> HIDE DEF a, b
<1>5. file = a \o t
  <2>1. (a \o <<b>>) \o rest = a \o (<<b>> \o rest)
    BY <1>1, ConcatAssociative
  <2> QED
    BY <1>4, <2>1, Zenon
<1>6. writeScored(x) \in Seq(S)
  BY <1>1, <1>4, ConcatProperties
<1>7. t # << >> /\ t[1].p = "float" /\ t[1].str = x.v
  <2>1. Len(t) # 0
    BY <1>2
  <2>2. t # << >>
    BY <2>1
  <2> QED
    BY <1>2, <2>2, FloatIs, Zenon DEF b
<1> HIDE DEF t
<1>8. f.is = "str" /\ f.str = x.f /\ f.rest = t
  BY <1>3, <1>5, GotIs
<1>9. IF f.is = "str" /\ f.rest # << >> /\ f.rest[1].p = "float"
      THEN Turned(<<f.str, f.rest[1].str>>, Tail(f.rest)) ELSE End("lost")
  BY Zenon DEF ReadScored
<1> QED
  BY <1>2, <1>6, <1>7, <1>8, <1>9, Zenon

\* The smallest expiration, as writeHashEncodingEx looks for it.
LEMMA MinExpireIs ==
    ASSUME NEW hash, \A x \in hash : x.e \in Int
    PROVE  LET min == MinExpire(hash)
           IN /\ min \in 0 .. ExpireMax
              /\ \A x \in hash : x.e > 0 /\ x.e < Invalid => min > 0 /\ min <= x.e
<1> DEFINE times == {x.e : x \in {y \in hash : y.e > 0 /\ y.e < Invalid}}
           min == MinExpire(hash)
           m == Min(times)
<1>1. ExpireMax \in Nat /\ Invalid = ExpireMax + 1
  BY TableAssumption DEF Invalid
<1>2. \A t \in times : t \in Nat /\ t > 0 /\ t < Invalid
  BY <1>1
<1>3. \A x \in hash : x.e > 0 /\ x.e < Invalid => x.e \in times
  OBVIOUS
<1>4. min = IF times = {} THEN 0 ELSE m
  BY Zenon DEF MinExpire
<1> HIDE DEF min, times
<1>5. ASSUME times = {}
      PROVE  /\ min \in 0 .. ExpireMax
             /\ \A x \in hash : x.e > 0 /\ x.e < Invalid => min > 0 /\ min <= x.e
  <2>1. \A x \in hash : ~(x.e > 0 /\ x.e < Invalid)
    BY <1>3, <1>5, Zenon
  <2>2. min = 0
    BY <1>4, <1>5
  <2>3. min \in 0 .. ExpireMax
    BY <1>1, <2>2
  <2> QED
    BY <2>1, <2>3, Zenon
<1>6. ASSUME times # {}
      PROVE  /\ min \in 0 .. ExpireMax
             /\ \A x \in hash : x.e > 0 /\ x.e < Invalid => min > 0 /\ min <= x.e
  <2>1. times \in SUBSET Nat
    BY <1>2
  <2>2. \E t \in times : \A y \in times : t <= y
    BY <1>6, <2>1, LeastNumber, Zenon
  <2>3. m \in times /\ \A y \in times : m <= y
    BY <2>2, Zenon DEF Min
  <2> HIDE DEF m
  <2>4. min = m
    BY <1>4, <1>6
  <2>5. min \in 0 .. ExpireMax /\ min > 0
    BY <1>1, <1>2, <2>3, <2>4
  <2>6. \A x \in hash : x.e > 0 /\ x.e < Invalid => min <= x.e
    BY <1>3, <2>3, <2>4, Zenon
  <2> QED
    BY <2>5, <2>6, Zenon
<1> QED
  BY <1>5, <1>6, Zenon DEF min

LEMMA Between64 ==
    /\ \A v \in Int64s : v \in Int
    /\ \A a, b \in Int64s : \A v \in Int : a <= v /\ v <= b => v \in Int64s
    /\ 0 \in Int64s /\ -1 \in Int64s
<1>1. W8 \in Int /\ W8 > 0
  <2>1. W4 \in Nat /\ W4 > 0
    BY DEF W1, W2, W3, W4
  <2>2. W8 = 256 * (256 * (256 * (256 * W4)))
    BY Zenon DEF W5, W6, W7, W8
  <2> QED
    BY <2>1, <2>2
<1>2. \A v : v \in Int64s <=> v \in Int /\ -W8 <= v /\ v < W8
  BY Zenon DEF Int64s, Wide
<1> QED
  BY <1>1, <1>2

\* What the assumption says of a hash with expirations.
LEMMA HashExObject ==
    ASSUME object \in Objects, object.type = "hashEx"
    PROVE  /\ object.valkey \in BOOLEAN /\ IsFiniteSet(object.hash)
           /\ Cardinality(object.hash) \in Int64s
           /\ \A x \in object.hash :
                 /\ IsText(x.f) /\ IsText(x.v) /\ x.e \in Int /\ x.e + 1 \in Int64s
                 /\ x.e - ExpireMax \in Int64s
<1>1. /\ object.valkey \in BOOLEAN /\ IsFiniteSet(object.hash)
      /\ IsInt64(Cardinality(object.hash))
  BY TableAssumption, Zenon
<1>2. \A x \in object.hash : /\ IsText(x.f) /\ IsText(x.v) /\ x.e \in Int /\ IsInt64(x.e + 1)
                             /\ IsInt64(x.e - ExpireMax)
  BY TableAssumption, Zenon
<1> QED
  BY <1>1, <1>2, Int64Wide, Zenon

\* How far an expiration is from the smallest one, and back: 0 and what
\* comes to it are none (hash.go:66-73, 416-421).
LEMMA TTLIs ==
    ASSUME object \in Objects, object.type = "hashEx", NEW x \in object.hash
    PROVE  LET min == MinExpire(object.hash)
               ttl == RelativeTTL(x.e, min)
           IN /\ ttl \in Int64s /\ x.e \in Int64s
              /\ ~object.valkey => Kept(x) = IF ttl = 0 THEN 0 ELSE ttl + min - 1
              /\ (Kept(x) > ExpireMax <=> OutOfRange(x))
<1> DEFINE min == MinExpire(object.hash)
           ttl == RelativeTTL(x.e, min)
           e == x.e
<1>0. ExpireMax \in Nat /\ Invalid = ExpireMax + 1
  BY TableAssumption DEF Invalid
<1>1. e \in Int /\ e + 1 \in Int64s /\ e - ExpireMax \in Int64s
  BY HashExObject, Zenon
<1>2. /\ min \in 0 .. ExpireMax
      /\ e > 0 /\ e < Invalid => min > 0 /\ min <= e
  <2>1. \A y \in object.hash : y.e \in Int
    BY HashExObject, Zenon
  <2> QED
    BY <2>1, MinExpireIs, Zenon
<1>3. ttl = IF e = 0 THEN 0 ELSE e - min + 1
  BY Zenon DEF RelativeTTL
<1>4. Kept(x) = IF e < 0 /\ (object.valkey \/ (e = -1 /\ min = 0)) THEN 0 ELSE e
  BY Zenon DEF Kept
<1>5. OutOfRange(x) <=> e > ExpireMax
  BY Zenon DEF OutOfRange
<1> HIDE DEF min, ttl, e
<1>6. ttl \in Int64s /\ e \in Int64s
  <2>1. e - ExpireMax <= e /\ e <= e + 1 /\ 0 \in Int64s
    BY <1>0, <1>1, Between64
  <2>2. e \in Int64s
    BY <1>1, <2>1, Between64
  <2>3. e # 0 => ttl \in Int /\ e - ExpireMax <= ttl /\ ttl <= e + 1
    BY <1>0, <1>1, <1>2, <1>3
  <2>4. e # 0 => ttl \in Int64s
    BY <1>1, <2>3, Between64
  <2> QED
    BY <1>3, <2>1, <2>2, <2>4
<1>7. ~object.valkey => Kept(x) = IF ttl = 0 THEN 0 ELSE ttl + min - 1
  <2>1. CASE e = 0
    BY <1>3, <1>4, <2>1
  <2>2. CASE e # 0
    <3>1. ttl = e - min + 1
      BY <1>3, <2>2
    <3>2. CASE ttl = 0
      <4>1. e = -1 /\ min = 0
        BY <1>0, <1>1, <1>2, <2>2, <3>1, <3>2
      <4> QED
        BY <1>4, <3>2, <4>1
    <3>3. CASE ttl # 0
      <4>1. ~(e = -1 /\ min = 0)
        BY <3>1, <3>3
      <4>2. ttl + min - 1 = e
        BY <1>1, <1>2, <3>1
      <4> QED
        BY <1>4, <3>3, <4>1, <4>2
    <3> QED
      BY <3>2, <3>3
  <2> QED
    BY <2>1, <2>2
<1>8. Kept(x) > ExpireMax <=> OutOfRange(x)
  BY <1>0, <1>1, <1>4, <1>5
<1> QED
  BY <1>6, <1>7, <1>8, Zenon DEF min, ttl, e

\* One turn of readHashMapEx (hash.go:60): an expiration out of range ends it.
LEMMA HfeRead ==
    ASSUME object \in Objects, object.type = "hashEx", ~object.valkey, NEW x \in object.hash,
           NEW min, min = MinExpire(object.hash), reader.min = min,
           NEW S, TextItems(x.f) \subseteq S, TextItems(x.v) \subseteq S,
           Hdr(writeLength(RelativeTTL(x.e, min))) \in S, NEW rest \in Seq(S),
           file = writeHfe(x, min) \o rest, ReadHfe
    PROVE  IF OutOfRange(x) THEN End("refused")
           ELSE Turned(<<Field(x.f, x.v, Kept(x))>>, rest)
<1> DEFINE h == Hdr(writeLength(RelativeTTL(x.e, min)))
           w == writeField(x)
           u == writeString(x.v) \o rest
           ttl == readLength(file[1].bytes).val
           expire == IF ttl = 0 THEN 0 ELSE ttl + reader.min - 1
           f == readString(Tail(file))
           v == readString(f.rest)
<1>1. /\ IsText(x.f) /\ IsText(x.v) /\ RelativeTTL(x.e, min) \in Int64s
      /\ Kept(x) = IF RelativeTTL(x.e, min) = 0 THEN 0
                   ELSE RelativeTTL(x.e, min) + min - 1
      /\ Kept(x) > ExpireMax <=> OutOfRange(x)
  BY HashExObject, TTLIs, Zenon
<1>2. /\ w \in Seq(S) /\ w \o rest \in Seq(S)
      /\ readString(w \o rest) = Got(x.f, u) /\ readString(u) = Got(x.v, rest)
  BY <1>1, FieldReads, Zenon
<1>3. file = (<<h>> \o w) \o rest
  BY Zenon DEF writeHfe
<1>4. h.bytes = writeLength(RelativeTTL(x.e, min)) /\ h \in S
  BY ItemFields, Zenon
<1> HIDE DEF h, w, u
<1>5. <<h>> \o (w \o rest) = file /\ file[1] = h /\ Tail(file) = w \o rest
  <2>1. <<h>> \in Seq(S)
    BY <1>4
  <2>2. (<<h>> \o w) \o rest = <<h>> \o (w \o rest)
    BY <1>2, <2>1, ConcatAssociative
  <2> DEFINE t == w \o rest
  <2>3. t \in Seq(S) /\ file = <<h>> \o t
    BY <1>2, <1>3, <2>2, Zenon
  <2> HIDE DEF t
  <2>4. (<<h>> \o t)[1] = h /\ Tail(<<h>> \o t) = t
    BY <1>4, <2>3, OneAndRest
  <2> QED
    BY <2>3, <2>4, Zenon DEF t
<1>6. ttl = RelativeTTL(x.e, min)
  BY <1>1, <1>4, <1>5, PlainLength, Zenon
<1>7. expire = Kept(x)
  BY <1>1, <1>6, Zenon
<1>8. f = Got(x.f, u)
  BY <1>2, <1>5, Zenon
<1> HIDE DEF f, expire
<1>9. f.is = "str" /\ f.str = x.f /\ f.rest = u
  BY <1>8, GotIs
<1>10. v = Got(x.v, rest)
  BY <1>2, <1>9, Zenon
<1> HIDE DEF v
<1>11. v.is = "str" /\ v.str = x.v /\ v.rest = rest
  BY <1>10, GotIs
<1>12. IF expire > ExpireMax THEN End("refused")
       ELSE IF f.is = "str" /\ v.is = "str"
            THEN Turned(<<Field(f.str, v.str, expire)>>, v.rest) ELSE End("lost")
  BY Zenon DEF ReadHfe, f, v, expire
<1> QED
  BY <1>1, <1>7, <1>9, <1>11, <1>12, Zenon

\* One turn of readHashMapExValkey (hash.go:105).
LEMMA Hash2Read ==
    ASSUME object \in Objects, object.type = "hashEx", object.valkey, NEW x \in object.hash,
           NEW S, TextItems(x.f) \subseteq S, TextItems(x.v) \subseteq S,
           Hdr(PutLE8(IF x.e = 0 THEN -1 ELSE x.e)) \in S, NEW rest \in Seq(S),
           file = writeHash2(x) \o rest, ReadHash2
    PROVE  Turned(<<Field(x.f, x.v, Kept(x))>>, rest)
<1> DEFINE e == IF x.e = 0 THEN -1 ELSE x.e
           h == Hdr(PutLE8(e))
           w == writeField(x)
           t == <<h>> \o rest
           u == writeString(x.v) \o t
           f == readString(file)
           v == readString(f.rest)
           expire == IntLE8(v.rest[1].bytes)
           kept == IF expire < 0 THEN 0 ELSE expire
<1>1. /\ IsText(x.f) /\ IsText(x.v) /\ x.e \in Int64s
  BY HashExObject, TTLIs, Zenon
<1>2. e \in Int64s
  BY <1>1, Between64
<1>3. IntLE8(PutLE8(e)) = e
  BY <1>2, LE8, Zenon
<1>4. h.bytes = PutLE8(e) /\ h \in S
  BY ItemFields, Zenon
<1> HIDE DEF h
<1>5. t \in Seq(S) /\ t[1] = h /\ Tail(t) = rest
  BY <1>4, OneAndRest
<1>6. /\ w \in Seq(S)
      /\ readString(w \o t) = Got(x.f, u) /\ readString(u) = Got(x.v, t)
  <2> HIDE DEF t
  <2> QED
    BY <1>1, <1>5, FieldReads, Zenon
<1>7. file = w \o t
  <2>1. <<h>> \in Seq(S)
    BY <1>4
  <2> HIDE DEF w
  <2>2. (w \o <<h>>) \o rest = w \o (<<h>> \o rest)
    BY <1>6, <2>1, ConcatAssociative
  <2>3. file = (w \o <<h>>) \o rest
    BY Zenon DEF writeHash2, w, h
  <2> QED
    BY <2>2, <2>3, Zenon
<1> HIDE DEF w, u, t
<1>8. f = Got(x.f, u)
  BY <1>6, <1>7, Zenon
<1> HIDE DEF f
<1>9. f.is = "str" /\ f.str = x.f /\ f.rest = u
  BY <1>8, GotIs
<1>10. v = Got(x.v, t)
  BY <1>6, <1>9, Zenon
<1> HIDE DEF v
<1>11. v.is = "str" /\ v.str = x.v /\ v.rest = t
  BY <1>10, GotIs
<1>12. expire = e
  BY <1>3, <1>4, <1>5, <1>11, Zenon
<1>13. kept = Kept(x)
  <2>1. Kept(x) = IF x.e < 0 THEN 0 ELSE x.e
    BY Zenon DEF Kept
  <2> HIDE DEF expire
  <2>2. x.e \in Int
    BY <1>1, Between64
  <2> QED
    BY <1>12, <2>1, <2>2
<1>14. IF f.is = "str" /\ v.is = "str"
       THEN Turned(<<Field(f.str, v.str, kept)>>, Tail(v.rest)) ELSE End("lost")
  BY Zenon DEF ReadHash2, f, v
<1> HIDE DEF kept
<1> QED
  BY <1>5, <1>9, <1>11, <1>13, <1>14, Zenon

\* What is written for a member, and what is read of it, in each form.
TableItem(form, x, min) ==
    IF form = "set" THEN writeString(x)
    ELSE IF form = "table" THEN writeField(x)
    ELSE IF form = "zset2" THEN writeScored(x)
    ELSE IF form = "hfe" THEN writeHfe(x, min) ELSE writeHash2(x)

TableNew(form, x) ==
    IF form = "set" THEN <<x>>
    ELSE IF form \in {"table", "zset2"} THEN <<x.f, x.v>>
    ELSE <<Field(x.f, x.v, Kept(x))>>

TableItems(form, order, min) == [i \in 1 .. Len(order) |-> TableItem(form, order[i], min)]
TableNews(form, order) == [i \in 1 .. Len(order) |-> TableNew(form, order[i])]

ItemSet(x, min) ==
    TextItems(x) \cup TextItems(x.f) \cup TextItems(x.v)
    \cup {Float(x.v), Hdr(writeLength(RelativeTTL(x.e, min))),
          Hdr(PutLE8(IF x.e = 0 THEN -1 ELSE x.e))}
NewSet(x) == {x, x.f, x.v, Field(x.f, x.v, Kept(x))}

TableForms == {"set", "table", "zset2", "hfe", "hash2"}
FormFits(form) ==
    /\ form \in TableForms
    /\ form = "set" => object.type = "set"
    /\ form = "table" => object.type = "hash"
    /\ form = "zset2" => object.type = "zset"
    /\ form \in {"hfe", "hash2"} =>
           object.type = "hashEx" /\ (object.valkey <=> form = "hash2")

TableOrders(o) ==
    IF o.type \in {"hash", "hashEx"} THEN Orders(o.hash)
    ELSE IF o.type = "set" THEN {o.values} ELSE {o.entries}

GoodMember(x) ==
    IF object.type = "set" THEN IsText(x) ELSE IsText(x.f) /\ IsText(x.v)

LEMMA TableOrderIs ==
    ASSUME object \in Objects, IsTable, NEW order \in TableOrders(object)
    PROVE  /\ IsSequence(order) /\ Len(order) \in Nat /\ Len(order) \in Int64s
           /\ \A i \in 1 .. Len(order) : GoodMember(order[i])
           /\ object.type \in {"hash", "hashEx"} =>
                 \A i \in 1 .. Len(order) : order[i] \in object.hash
<1>1. object.type \in {"hash", "hashEx", "set", "zset"}
  BY Zenon DEF IsTable, Tables
<1>2. ASSUME object.type \in {"hash", "hashEx"}
      PROVE  /\ IsSequence(order) /\ IsInt64(Len(order))
             /\ \A i \in 1 .. Len(order) : order[i] \in object.hash /\ GoodMember(order[i])
  <2> DEFINE H == object.hash
  <2>1. /\ IsFiniteSet(H) /\ IsInt64(Cardinality(H))
        /\ \A x \in H : IsText(x.f) /\ IsText(x.v)
    BY <1>2, TableAssumption, Zenon
  <2>2. order \in Orders(H)
    BY <1>2, Zenon DEF TableOrders
  <2> HIDE DEF H
  <2>3. order \in Seq(H) /\ Len(order) = Cardinality(H)
    BY <2>1, <2>2, OrderIs
  <2>4. Len(order) \in Nat /\ order = [i \in 1 .. Len(order) |-> order[i]]
        /\ \A i \in 1 .. Len(order) : order[i] \in H
    BY <2>3
  <2>5. IsSequence(order)
    BY <2>4, FunctionTyped, Zenon
  <2>6. object.type # "set"
    BY <1>2
  <2>7. \A i \in 1 .. Len(order) : GoodMember(order[i])
    BY <2>1, <2>4, <2>6, Zenon DEF GoodMember
  <2> QED
    BY <2>1, <2>3, <2>4, <2>5, <2>7, Zenon DEF H
<1>3. ASSUME object.type = "set"
      PROVE  /\ IsSequence(order) /\ IsInt64(Len(order))
             /\ \A i \in 1 .. Len(order) : GoodMember(order[i])
  <2>1. order = object.values
    BY <1>3 DEF TableOrders
  <2>2. /\ IsSequence(object.values) /\ IsInt64(Len(object.values))
        /\ \A i \in 1 .. Len(object.values) : IsText(object.values[i])
    BY <1>3, TableAssumption, Zenon
  <2> QED
    BY <1>3, <2>1, <2>2, Zenon DEF GoodMember
<1>4. ASSUME object.type = "zset"
      PROVE  /\ IsSequence(order) /\ IsInt64(Len(order))
             /\ \A i \in 1 .. Len(order) : GoodMember(order[i])
  <2>1. order = object.entries
    BY <1>4 DEF TableOrders
  <2>2. /\ IsSequence(object.entries) /\ IsInt64(Len(object.entries))
        /\ \A i \in 1 .. Len(object.entries) :
              IsText(object.entries[i].f) /\ IsText(object.entries[i].v)
    BY <1>4, TableAssumption, Zenon
  <2>3. object.type # "set"
    BY <1>4
  <2> QED
    BY <2>1, <2>2, <2>3, Zenon DEF GoodMember
<1>5. /\ IsSequence(order) /\ IsInt64(Len(order))
      /\ \A i \in 1 .. Len(order) : GoodMember(order[i])
  BY <1>1, <1>2, <1>3, <1>4
<1>6. Len(order) \in Nat /\ Len(order) \in Int64s
  BY <1>5, SequenceTyped, Int64Wide, Zenon
<1> QED
  BY <1>2, <1>5, <1>6

LEMMA ItemTyped ==
    ASSUME NEW form, FormFits(form), NEW x, GoodMember(x), NEW min,
           NEW S, ItemSet(x, min) \subseteq S
    PROVE  TableItem(form, x, min) \in Seq(S)
<1> DEFINE a == Hdr(writeLength(RelativeTTL(x.e, min)))
           b == Hdr(PutLE8(IF x.e = 0 THEN -1 ELSE x.e))
           c == Float(x.v)
           w == writeField(x)
           F == TextItems(x.f)
           s == writeString(x.f)
<1>1. /\ TextItems(x) \subseteq S /\ F \subseteq S /\ TextItems(x.v) \subseteq S
      /\ a \in S /\ b \in S /\ c \in S
  BY Zenon DEF ItemSet
<1>2. CASE form = "set"
  <2> DEFINE X == TextItems(x)
             y == writeString(x)
  <2>1. y \in Seq(X) /\ X \subseteq S
    BY <1>1, TextTyped, Zenon
  <2> HIDE DEF X, y
  <2>2. y \in Seq(S)
    BY <2>1
  <2> QED
    BY <1>2, <2>2, Zenon DEF TableItem, y
<1>3. CASE form \in {"table", "zset2", "hfe", "hash2"}
  <2>1. IsText(x.f) /\ IsText(x.v)
    <3>1. object.type # "set"
      BY <1>3 DEF FormFits
    <3> QED
      BY <3>1, Zenon DEF GoodMember
  <2>2. w \in Seq(S)
    <3>1. << >> \in Seq(S)
      OBVIOUS
    <3> QED
      BY <1>1, <2>1, <3>1, FieldReads, Zenon
  <2>3. s \in Seq(F)
    BY TextTyped, Zenon
  <2> HIDE DEF a, b, c, w, F, s
  <2>4. s \in Seq(S) /\ <<a>> \in Seq(S) /\ <<b>> \in Seq(S) /\ <<c>> \in Seq(S)
    BY <1>1, <2>3
  <2>5. s \o <<c>> \in Seq(S) /\ <<a>> \o w \in Seq(S) /\ w \o <<b>> \in Seq(S)
    BY <2>2, <2>4, ConcatProperties
  <2>6. /\ writeScored(x) = s \o <<c>> /\ writeHfe(x, min) = <<a>> \o w
        /\ writeHash2(x) = w \o <<b>>
    BY Zenon DEF writeScored, writeHfe, writeHash2, a, b, c, w, s
  <2>7. TableItem(form, x, min) \in {w, s \o <<c>>, <<a>> \o w, w \o <<b>>}
    BY <1>3, <2>6 DEF TableItem, w
  <2> QED
    BY <2>2, <2>5, <2>7
<1> QED
  BY <1>2, <1>3 DEF FormFits, TableForms

ItemsOf(order, min) == UNION {ItemSet(order[i], min) : i \in 1 .. Len(order)}
NewsOf(order) == UNION {NewSet(order[i]) : i \in 1 .. Len(order)}

LEMMA TableTyped ==
    ASSUME NEW form, FormFits(form), NEW order, Len(order) \in Nat,
           \A i \in 1 .. Len(order) : GoodMember(order[i]), NEW min
    PROVE  /\ TableItems(form, order, min) \in Seq(Seq(ItemsOf(order, min)))
           /\ TableNews(form, order) \in Seq(Seq(NewsOf(order)))
           /\ Len(TableItems(form, order, min)) = Len(order)
           /\ Len(TableNews(form, order)) = Len(order)
           /\ \A i \in 1 .. Len(order) :
                 /\ TableItems(form, order, min)[i] = TableItem(form, order[i], min)
                 /\ TableNews(form, order)[i] = TableNew(form, order[i])
                 /\ ItemSet(order[i], min) \subseteq ItemsOf(order, min)
<1> DEFINE S == ItemsOf(order, min)
           T == NewsOf(order)
           n == Len(order)
           f == TableItems(form, order, min)
           v == TableNews(form, order)
           Y == Seq(S)
           Z == Seq(T)
<1>1. ASSUME NEW i \in 1 .. n
      PROVE  /\ TableItem(form, order[i], min) \in Y /\ TableNew(form, order[i]) \in Z
             /\ ItemSet(order[i], min) \subseteq S
  <2> DEFINE x == order[i]
  <2>1. ItemSet(x, min) \subseteq S
    BY Zenon DEF ItemsOf
  <2>2. NewSet(x) \subseteq T
    BY Zenon DEF NewsOf
  <2> HIDE DEF S, T
  <2>3. TableItem(form, x, min) \in Y
    BY <2>1, ItemTyped, Zenon
  <2>4. TableNew(form, x) \in Z
    <3> DEFINE a == x.f
               b == x.v
               c == Field(x.f, x.v, Kept(x))
    <3>1. x \in T /\ a \in T /\ b \in T /\ c \in T
      BY <2>2, Zenon DEF NewSet
    <3>2. TableNew(form, x) \in {<<x>>, <<a, b>>, <<c>>}
      BY DEF TableNew
    <3> HIDE DEF a, b, c, x
    <3>3. <<x>> \in Z /\ <<a, b>> \in Z /\ <<c>> \in Z
      BY <3>1
    <3> HIDE DEF Z
    <3> QED
      BY <3>2, <3>3
  <2> QED
    BY <2>1, <2>3, <2>4, Zenon
<1> HIDE DEF Y, Z
<1>2. /\ f = [i \in 1 .. n |-> TableItem(form, order[i], min)]
      /\ v = [i \in 1 .. n |-> TableNew(form, order[i])]
  BY Zenon DEF TableItems, TableNews
<1> HIDE DEF f, v, n
<1>3. n \in Nat
  BY Zenon DEF n
<1>4. f \in Seq(Y) /\ Len(f) = n /\ \A i \in 1 .. n : f[i] = TableItem(form, order[i], min)
  BY <1>1, <1>2, <1>3
<1>5. v \in Seq(Z) /\ Len(v) = n /\ \A i \in 1 .. n : v[i] = TableNew(form, order[i])
  BY <1>1, <1>2, <1>3
<1> QED
  BY <1>1, <1>4, <1>5, Zenon DEF f, v, n, Y, Z

\* A hash with field expirations while it is written and read.
ExForm == IF object.valkey THEN "hash2" ELSE "hfe"
ExMin == MinExpire(object.hash)
ExItems(order) == TableItems(ExForm, order, ExMin)
ExNews(order) == TableNews(ExForm, order)

ExFile(order) ==
    IF object.valkey THEN Table(Len(order), ExItems(order))
    ELSE <<Hdr(PutLE8(ExMin))>> \o Table(Len(order), ExItems(order))

ExRead(order, k) ==
    /\ TableRead(ExItems(order), ExNews(order), k)
    /\ ~object.valkey => \A i \in 1 .. k : ~OutOfRange(order[i])

HashExInv ==
    /\ phase \in {"new", "open", "read", "done", "refused"}
    /\ phase \in {"new", "open"} => got = << >> /\ reader.left = 0
    /\ phase \in {"open", "read"} => reader.form = ExForm
    /\ phase = "open" => \E order \in Orders(object.hash) : file = ExFile(order)
    /\ phase = "read" =>
           /\ ~object.valkey => reader.min = ExMin
           /\ \E order \in Orders(object.hash) : \E k \in 0 .. Len(order) : ExRead(order, k)
    /\ phase \in {"read", "done"} => object.hash # {}
    /\ phase = "done" =>
           /\ \E order \in Orders(object.hash) : got = Concat(ExNews(order))
           /\ ~object.valkey => \A x \in object.hash : ~OutOfRange(x)
    /\ phase = "refused" =>
           object.hash = {} \/ (~object.valkey /\ \E x \in object.hash : OutOfRange(x))

LEMMA ExSame ==
    ASSUME object' = object, NEW order
    PROVE  /\ ExForm' = ExForm /\ ExMin' = ExMin
           /\ ExItems(order)' = ExItems(order) /\ ExNews(order)' = ExNews(order)
<1>1. ExForm' = ExForm /\ ExMin' = ExMin
  BY Zenon DEF ExForm, ExMin
<1>2. ExItems(order)' = ExItems(order)
  BY <1>1, Zenon DEF ExItems
<1>3. \A x : Kept(x)' = Kept(x)
  BY Zenon DEF Kept
<1>4. ExNews(order)' = ExNews(order)
  BY <1>1, <1>3, Zenon DEF ExNews, TableNews, TableNew
<1> QED
  BY <1>1, <1>2, <1>4, Zenon

\* A table has no pages in it.
LEMMA NoPage ==
    ASSUME NEW form, FormFits(form), NEW order, Len(order) \in Nat,
           \A i \in 1 .. Len(order) : GoodMember(order[i]), NEW min,
           NEW k \in 0 .. Len(order), file = After(TableItems(form, order, min), k)
    PROVE  ~OpenPage
<1> DEFINE S == ItemsOf(order, min)
           ss == TableItems(form, order, min)
<1>1. ss \in Seq(Seq(S)) /\ Len(ss) = Len(order)
  BY TableTyped, ZenonT(40)
<1>2. \A y \in S : y.p # "page"
  <2>1. ASSUME NEW i \in 1 .. Len(order), NEW y \in ItemSet(order[i], min) PROVE y.p # "page"
    <3>1. \A x : \A z \in TextItems(x) : z.p \in {"head", "body"}
      BY ItemFields DEF TextItems
    <3>2. \A b : Hdr(b).p = "head"
      BY ItemFields
    <3> DEFINE x == order[i]
               u == Hdr(writeLength(RelativeTTL(x.e, min)))
               v == Hdr(PutLE8(IF x.e = 0 THEN -1 ELSE x.e))
    <3>3. u.p = "head" /\ v.p = "head" /\ Float(x.v).p = "float"
      BY <3>2, FloatIs, Zenon
    <3>4. \/ y \in TextItems(x) \cup TextItems(x.f) \cup TextItems(x.v)
          \/ y = Float(x.v) \/ y = u \/ y = v
      BY <2>1, Zenon DEF ItemSet
    <3> HIDE DEF u, v
    <3>5. y.p \in {"head", "body", "float"}
      BY <3>1, <3>3, <3>4
    <3> QED
      BY <3>5
  <2> QED
    BY <2>1, Zenon DEF ItemsOf
<1> HIDE DEF S, ss
<1>3. After(ss, k) \in Seq(S)
  BY <1>1, AfterIs, Zenon
<1>4. file \in Seq(S)
  BY <1>3, Zenon DEF ss
<1>5. file # << >> => file[1] \in S
  BY <1>4
<1> QED
  BY <1>2, <1>5, Zenon DEF OpenPage

LEMMA ExFits ==
    ASSUME object \in Objects, object.type = "hashEx", NEW order \in Orders(object.hash)
    PROVE  /\ FormFits(ExForm) /\ IsSequence(order)
           /\ Len(order) \in Nat /\ Len(order) \in Int64s
           /\ \A i \in 1 .. Len(order) : GoodMember(order[i]) /\ order[i] \in object.hash
           /\ ExItems(order) \in Seq(Seq(ItemsOf(order, ExMin)))
           /\ ExNews(order) \in Seq(Seq(NewsOf(order)))
           /\ Len(ExItems(order)) = Len(order) /\ Len(ExNews(order)) = Len(order)
<1>1. FormFits(ExForm)
  BY DEF FormFits, ExForm, TableForms
<1>2. order \in TableOrders(object) /\ IsTable
  BY DEF TableOrders, IsTable, Tables
<1>3. /\ IsSequence(order) /\ Len(order) \in Nat /\ Len(order) \in Int64s
      /\ \A i \in 1 .. Len(order) : GoodMember(order[i])
      /\ object.type \in {"hash", "hashEx"} =>
            \A i \in 1 .. Len(order) : order[i] \in object.hash
  BY <1>2, TableOrderIs, Zenon
<1>4. \A i \in 1 .. Len(order) : order[i] \in object.hash
  BY <1>3, Zenon
<1>5. /\ ExItems(order) \in Seq(Seq(ItemsOf(order, ExMin)))
      /\ ExNews(order) \in Seq(Seq(NewsOf(order)))
      /\ Len(ExItems(order)) = Len(order) /\ Len(ExNews(order)) = Len(order)
  BY <1>1, <1>3, TableTyped DEF ExItems, ExNews
<1> QED
  BY <1>1, <1>3, <1>4, <1>5, Zenon

LEMMA HashExSteps ==
    ASSUME object \in Objects, object.type = "hashEx", DOMAIN reader = DOMAIN Locals,
           HashExInv, Next
    PROVE  \/ WriteHashEx \/ OpenHashEx
           \/ (~object.valkey /\ ReadHfe) \/ (object.valkey /\ ReadHash2) \/ Done
<1>1. object.type = "hashEx" /\ phase \in {"new", "open", "read", "done", "refused"}
  BY DEF HashExInv
<1>2. phase \in {"open", "read"} => reader.form = IF object.valkey THEN "hash2" ELSE "hfe"
  BY DEF HashExInv, ExForm
<1>3. CASE StringNext
  BY <1>1, <1>3 DEF StringNext, BeginString, WritePiece, FailPiece, ReadStringValue, IsString
<1>4. CASE ListNext
  BY <1>1, <1>2, <1>4 DEF ListNext, WriteList, ReadPage, ReadEntry, IsList, RedisQuicklist,
       IsQuicklist2, OpenList, ReadCount, ReadNode, SizeOfQuicklist2
<1>5. CASE TableNext
  <2>1. /\ object.type \notin {"hash", "set", "zset"}
        /\ phase \in {"open", "read"} =>
              reader.form \notin {"table", "set", "zset2", "ziplist", "intset"}
    BY <1>1, <1>2
  <2>2. ~WriteHash /\ ~WriteSet /\ ~WriteZSet
    BY <2>1 DEF WriteHash, WriteSet, WriteZSet
  <2>3. ~OpenTable /\ ~ReadMember /\ ~ReadField /\ ~ReadScored
    BY <2>1 DEF OpenTable, ReadCount, OnePage, ReadMember, ReadField, ReadScored, InTable
  <2>4. ReadHfe => ~object.valkey
    BY <1>2 DEF ReadHfe, InTable
  <2>5. ReadHash2 => object.valkey
    BY <1>2 DEF ReadHash2, InTable
  <2>6. ~ReadTablePage /\ ~ReadTableEntry
    <3>1. CASE phase = "read"
      <4>0. PICK order \in Orders(object.hash) : \E k \in 0 .. Len(order) : ExRead(order, k)
        BY <3>1, Zenon DEF HashExInv
      <4>1. PICK k \in 0 .. Len(order) : ExRead(order, k)
        BY <4>0, Zenon
      <4>2. file = After(TableItems(ExForm, order, ExMin), k) /\ reader.left = 0
        BY <4>1, Zenon DEF ExRead, TableRead, ExItems
      <4>3. ~OpenPage
        BY <4>2, ExFits, NoPage, Zenon
      <4>4. ~InPage
        <5> DEFINE l == reader.left
        <5>1. l = 0
          BY <4>2, Zenon
        <5> HIDE DEF l
        <5>2. ~(l > 0)
          BY <5>1
        <5> QED
          BY <5>2, Zenon DEF InPage, l
      <4> QED
        BY <4>3, <4>4, Zenon DEF ReadTablePage, ReadTableEntry
    <3>2. CASE phase # "read"
      BY <3>2, Zenon DEF ReadTablePage, ReadTableEntry, OpenPage
    <3> QED
      BY <3>1, <3>2
  <2> QED
    BY <1>5, <2>2, <2>3, <2>4, <2>5, <2>6, Zenon DEF TableNext
<1>6. CASE StreamNext
  BY <1>1, <1>2, <1>6 DEF StreamNext, WriteStream, OpenStream, ReadStreamEntry, ReadMessage,
       ReadStreamMeta, ReadGroup, ReadConsumer, StreamDone, AllRead, ReadCount, IsStream
<1>7. CASE RedisNext
  BY <1>1, <1>2, <1>7 DEF RedisNext, RedisWrites, OpenListpack, ReadMembers, OpenZipmap,
       ReadZipmapEntry, OpenModule, SkipPart, IsListpack, IsZipmap, IsModule
<1> QED
  BY <1>3, <1>4, <1>5, <1>6, <1>7 DEF Next

\* The concatenation of sequences of one.
LEMMA ConcatSingles ==
    ASSUME NEW n \in Nat, NEW a
    PROVE  Concat([i \in 1 .. n |-> <<a[i]>>]) = [i \in 1 .. n |-> a[i]]
<1> DEFINE ss == [i \in 1 .. n |-> <<a[i]>>]
           front(k) == [i \in 1 .. k |-> a[i]]
           h == [k \in 0 .. n |-> front(k)]
<1>1. n = Len(ss) /\ \A i \in 1 .. n : ss[i] = <<a[i]>>
  OBVIOUS
<1>2. \A k \in 0 .. n : h[k] = front(k)
  BY Zenon
<1>3. front(0) = << >>
  <2> HIDE DEF h, ss
  <2> QED
    BY SMT
<1>4. ASSUME NEW i \in 1 .. n PROVE front(i) = front(i - 1) \o <<a[i]>>
  <2> DEFINE k == i - 1
             X == {a[j] : j \in 1 .. n}
             f == front(k)
  <2>1. k \in Nat /\ k + 1 = i
    OBVIOUS
  <2>2. Append([j \in 1 .. k |-> a[j]], a[k + 1]) = [j \in 1 .. k + 1 |-> a[j]]
    BY <2>1, AppendNext, Zenon
  <2>3. Append(f, a[i]) = front(i)
    BY <2>1, <2>2, Zenon
  <2>4. a[i] \in X /\ \A j \in 1 .. k : a[j] \in X
    BY <2>1
  <2> HIDE DEF X
  <2>5. f \in Seq(X)
    BY <2>1, <2>4
  <2> HIDE DEF f
  <2>6. Append(f, a[i]) = f \o <<a[i]>>
    BY <2>4, <2>5, AppendIsConcat
  <2> QED
    BY <2>3, <2>6, Zenon DEF f
<1>5. 0 \in 0 .. n /\ n \in 0 .. n /\ \A i \in 1 .. n : i \in 0 .. n /\ i - 1 \in 0 .. n
  OBVIOUS
<1> HIDE DEF h, ss, front
<1>6. Stages(h, ss, n)
  BY <1>1, <1>2, <1>3, <1>4, <1>5, Zenon DEF Stages
<1>7. Concat(ss) = h[n]
  BY <1>1, <1>6, ConcatOf, Zenon
<1>8. Concat(ss) = front(n)
  BY <1>2, <1>5, <1>7, Zenon
<1> QED
  BY <1>8, Zenon DEF ss, front

LEMMA ExWritten ==
    ASSUME object \in Objects, object.type = "hashEx", DOMAIN reader = DOMAIN Locals,
           HashExInv, WriteHashEx
    PROVE  HashExInv'
<1> DEFINE min == MinExpire(object.hash)
           T(order) == Table(Len(order), [i \in 1 .. Len(order) |-> writeHash2(order[i])])
           E(order) == Table(Len(order), [i \in 1 .. Len(order) |-> writeHfe(order[i], min)])
<1>1. PICK order \in Orders(object.hash) :
          IF object.valkey THEN Written(T(order), "hash2")
          ELSE Written(<<Hdr(PutLE8(min))>> \o E(order), "hfe")
  BY Zenon DEF WriteHashEx
<1>2. \A x : TableItem("hash2", x, min) = writeHash2(x)
             /\ TableItem("hfe", x, min) = writeHfe(x, min)
  BY DEF TableItem
<1>3. object.valkey => ExFile(order) = T(order) /\ ExForm = "hash2"
  BY <1>2, Zenon DEF ExFile, ExItems, TableItems, ExForm, ExMin
<1>4. ~object.valkey => ExFile(order) = <<Hdr(PutLE8(min))>> \o E(order) /\ ExForm = "hfe"
  BY <1>2, Zenon DEF ExFile, ExItems, TableItems, ExForm, ExMin
<1>5. Written(ExFile(order), ExForm)
  BY <1>1, <1>3, <1>4, Zenon
<1>6. /\ phase' = "open" /\ file' = ExFile(order) /\ got' = got /\ object' = object
      /\ reader' = [reader EXCEPT !.form = ExForm]
  BY <1>5, Zenon DEF Written
<1>7. reader'.form = ExForm /\ reader'.left = reader.left
  BY <1>6, TableDomain DEF TableLocals
<1>8. got = << >> /\ reader.left = 0
  BY Zenon DEF HashExInv, WriteHashEx
<1>9. ExForm' = ExForm /\ ExFile(order)' = ExFile(order)
  BY <1>6, ExSame, Zenon DEF ExFile
<1>10. \E o \in Orders(object.hash)' : file' = ExFile(o)'
  BY <1>6, <1>9, Zenon
<1> QED
  BY <1>6, <1>7, <1>8, <1>9, <1>10 DEF HashExInv

LEMMA ExOpened ==
    ASSUME object \in Objects, object.type = "hashEx", DOMAIN reader = DOMAIN Locals,
           HashExInv, OpenHashEx
    PROVE  HashExInv'
<1> DEFINE f == IF reader.form = "hfe" THEN Tail(file) ELSE file
           min == IF reader.form = "hfe" THEN IntLE8(file[1].bytes) ELSE Invalid
           size == readLength(f[1].bytes).val
           H == object.hash
<1>1. phase = "open" /\ got = << >> /\ reader.left = 0 /\ reader.form = ExForm
  BY DEF HashExInv, OpenHashEx
<1>2. PICK order \in Orders(H) : file = ExFile(order)
  BY <1>1, Zenon DEF HashExInv
<1> DEFINE n == Len(order)
           ss == ExItems(order)
           nn == ExNews(order)
           S == ItemsOf(order, ExMin)
           t == Table(n, ss)
           h == Hdr(PutLE8(ExMin))
<1>3. IF (reader.form = "hfe" /\ min > Invalid) \/ size = 0
      THEN End("refused")
      ELSE /\ reader' = [reader EXCEPT !.todo = size, !.min = min]
           /\ file' = Tail(f)
           /\ phase' = "read"
           /\ UNCHANGED <<object, got>>
  BY Zenon DEF OpenHashEx
<1>4. /\ n \in Nat /\ n \in Int64s /\ ss \in Seq(Seq(S)) /\ Len(ss) = n /\ Len(nn) = n
      /\ nn \in Seq(Seq(NewsOf(order)))
  BY <1>2, ExFits, Zenon
<1>5. IsFiniteSet(H) /\ Cardinality(H) = n /\ (n = 0 <=> H = {})
  <2>1. IsFiniteSet(H)
    BY HashExObject, Zenon
  <2> HIDE DEF H
  <2>2. Cardinality(H) = n
    BY <1>2, <2>1, OrderIs, Zenon
  <2> QED
    BY <2>1, <2>2, FS_EmptySet, Zenon
<1>6. /\ IsHead(t, 1) /\ readLength(t[1].bytes).val = n /\ Tail(t) = After(ss, 0)
      /\ Concat(SubSeq(nn, 1, 0)) = << >>
  <2>1. Len(ss) \in Int64s /\ t = Table(Len(ss), ss)
    BY <1>4, Zenon
  <2> HIDE DEF S, ss, nn, t
  <2>2. /\ IsHead(t, 1) /\ readLength(t[1].bytes).val = Len(ss) /\ Tail(t) = After(ss, 0)
        /\ Concat(SubSeq(nn, 1, 0)) = << >>
    BY <1>4, <2>1, TableBegins, Zenon
  <2> QED
    BY <1>4, <2>2, Zenon
<1>7. /\ f = t /\ (reader.form = "hfe" => min = ExMin /\ ~(min > Invalid))
      /\ (~object.valkey <=> reader.form = "hfe")
  <2>1. CASE object.valkey
    <3>1. reader.form # "hfe"
      BY <1>1, <2>1 DEF ExForm
    <3> QED
      BY <1>2, <2>1, <3>1, Zenon DEF ExFile
  <2>2. CASE ~object.valkey
    <3>1. reader.form = "hfe"
      BY <1>1, <2>2 DEF ExForm
    <3>2. file = <<h>> \o t
      BY <1>2, <2>2, Zenon DEF ExFile
    <3>3. t \in Seq(S \cup {Hdr(writeLength(n))})
      <4> DEFINE u == Hdr(writeLength(n))
      <4>1. t = <<u>> \o Concat(ss)
        BY Zenon DEF Table
      <4> HIDE DEF u, S, ss, t
      <4>2. Concat(ss) \in Seq(S)
        BY <1>4, ConcatTyped
      <4>3. <<u>> \in Seq(S \cup {u}) /\ Concat(ss) \in Seq(S \cup {u})
        BY <4>2
      <4>4. t \in Seq(S \cup {u})
        BY <4>1, <4>3, ConcatProperties
      <4> QED
        BY <4>4, Zenon DEF u
    <3> DEFINE X == S \cup {Hdr(writeLength(n))}
               Y == X \cup {h}
    <3>4. h.bytes = PutLE8(ExMin)
      BY ItemFields, Zenon
    <3> HIDE DEF h, t
    <3>5. h \in Y
      OBVIOUS
    <3> HIDE DEF X
    <3>6. t \in Seq(Y)
      <4>1. t \in Seq(X)
        BY <3>3, Zenon DEF X
      <4> QED
        BY <4>1
    <3> HIDE DEF Y
    <3>7. file[1] = h /\ Tail(file) = t
      <4>1. (<<h>> \o t)[1] = h /\ Tail(<<h>> \o t) = t
        BY <3>5, <3>6, OneAndRest
      <4> QED
        BY <3>2, <4>1, Zenon
    <3>8. ExMin \in 0 .. ExpireMax
      <4>1. \A x \in H : x.e \in Int
        BY HashExObject, Zenon
      <4> QED
        BY <4>1, MinExpireIs, Zenon DEF ExMin
    <3>9. ExpireMax \in Nat /\ Invalid = ExpireMax + 1 /\ Invalid \in Int64s
      <4>1. ExpireMax \in Nat /\ IsInt64(ExpireMax + 1)
        BY TableAssumption, Zenon
      <4> QED
        BY <4>1, Int64Wide, Zenon DEF Invalid
    <3>10. ExMin \in Int64s
      <4>1. 0 \in Int64s /\ ExMin \in Int /\ 0 <= ExMin /\ ExMin <= Invalid
        BY <3>8, <3>9, Between64
      <4> QED
        BY <3>9, <4>1, Between64, Zenon
    <3>11. IntLE8(file[1].bytes) = ExMin
      BY <3>4, <3>7, <3>10, LE8, Zenon
    <3>12. ~(ExMin > Invalid)
      BY <3>8, <3>9
    <3> QED
      BY <2>2, <3>1, <3>7, <3>11, <3>12, Zenon
  <2> QED
    BY <2>1, <2>2
<1>8. size = n
  BY <1>6, <1>7, Zenon
<1> HIDE DEF f, min, size, t
<1>9. ASSUME n = 0 PROVE HashExInv'
  <2>1. End("refused")
    BY <1>3, <1>8, <1>9, Zenon
  <2>2. phase' = "refused" /\ object' = object
    BY <2>1, Zenon DEF End
  <2>3. object'.hash = {}
    BY <1>5, <1>9, <2>2, Zenon
  <2> QED
    BY <2>2, <2>3 DEF HashExInv
<1>10. ASSUME n # 0 PROVE HashExInv'
  <2>1. /\ reader' = [reader EXCEPT !.todo = size, !.min = min]
        /\ file' = After(ss, 0) /\ phase' = "read" /\ object' = object /\ got' = got
    BY <1>3, <1>6, <1>7, <1>8, <1>10, Zenon
  <2>2. /\ reader'.todo = size /\ reader'.min = min /\ reader'.left = reader.left
        /\ reader'.form = reader.form
    BY <2>1, TableDomain DEF TableLocals
  <2>3. reader'.todo = Len(ss) - 0
    <3> HIDE DEF n
    <3>1. n - 0 = n
      BY <1>4
    <3> QED
      BY <1>4, <1>8, <2>2, <3>1, Zenon
  <2>4. /\ ExForm' = ExForm /\ ExMin' = ExMin
        /\ ExItems(order)' = ExItems(order) /\ ExNews(order)' = ExNews(order)
    BY <2>1, ExSame, Zenon
  <2>5. TableRead(ExItems(order), ExNews(order), 0)'
    BY <1>1, <1>6, <2>1, <2>2, <2>3, <2>4, Zenon DEF TableRead
  <2>6. \A i \in 1 .. 0 : FALSE
    OBVIOUS
  <2>7. ExRead(order, 0)'
    BY <2>5, <2>6, Zenon DEF ExRead
  <2>8. 0 \in 0 .. n
    BY <1>4
  <2>9. \E o \in Orders(object.hash)' : \E k \in 0 .. Len(o) : ExRead(o, k)'
    BY <2>1, <2>7, <2>8, Zenon
  <2>10. ~object'.valkey => reader'.min = ExMin'
    BY <1>7, <2>1, <2>2, <2>4, Zenon
  <2>11. object'.hash # {} /\ reader'.form = ExForm'
    BY <1>1, <1>5, <1>10, <2>1, <2>2, <2>4, Zenon
  <2> QED
    BY <2>1, <2>9, <2>10, <2>11 DEF HashExInv
<1> QED
  BY <1>9, <1>10

LEMMA ExTurn ==
    ASSUME object \in Objects, object.type = "hashEx", DOMAIN reader = DOMAIN Locals,
           HashExInv, phase = "read", reader.todo > 0,
           (~object.valkey /\ ReadHfe) \/ (object.valkey /\ ReadHash2)
    PROVE  HashExInv'
<1> DEFINE H == object.hash
<1>1. PICK order \in Orders(H) : \E k \in 0 .. Len(order) : ExRead(order, k)
  BY Zenon DEF HashExInv
<1>2. PICK k \in 0 .. Len(order) : ExRead(order, k)
  BY <1>1, Zenon
<1> DEFINE n == Len(order)
           ss == ExItems(order)
           nn == ExNews(order)
           S == ItemsOf(order, ExMin)
           x == order[k + 1]
           rest == After(ss, k + 1)
           t == reader.todo
<1>3. /\ FormFits(ExForm) /\ n \in Nat
      /\ \A i \in 1 .. n : GoodMember(order[i]) /\ order[i] \in H
      /\ ss \in Seq(Seq(S)) /\ nn \in Seq(Seq(NewsOf(order))) /\ Len(ss) = n /\ Len(nn) = n
  BY <1>1, ExFits, Zenon
<1>4. /\ t = n - k /\ file = After(ss, k) /\ TableRead(ss, nn, k)
      /\ ~object.valkey => \A i \in 1 .. k : ~OutOfRange(order[i])
  BY <1>2, <1>3, Zenon DEF ExRead, TableRead
<1>5. k \in 0 .. n - 1 /\ k + 1 \in 1 .. n /\ k + 1 \in 0 .. n
  <2>1. t > 0
    OBVIOUS
  <2> HIDE DEF t, n
  <2> QED
    BY <1>2, <1>3, <1>4, <2>1 DEF n
<1>6. /\ ss[k + 1] = TableItem(ExForm, x, ExMin) /\ nn[k + 1] = TableNew(ExForm, x)
      /\ ItemSet(x, ExMin) \subseteq S
  <2>1. /\ FormFits(ExForm) /\ Len(order) \in Nat
        /\ \A i \in 1 .. Len(order) : GoodMember(order[i])
    BY <1>3, Zenon
  <2>2. \A i \in 1 .. Len(order) :
           /\ TableItems(ExForm, order, ExMin)[i] = TableItem(ExForm, order[i], ExMin)
           /\ TableNews(ExForm, order)[i] = TableNew(ExForm, order[i])
           /\ ItemSet(order[i], ExMin) \subseteq ItemsOf(order, ExMin)
    BY ONLY <2>1, TableTyped, Zenon
  <2> QED
    BY <1>5, <2>2, Zenon DEF ExItems, ExNews
<1>7. rest \in Seq(S) /\ file = ss[k + 1] \o rest
  <2> HIDE DEF ss, S, n
  <2>1. k \in 0 .. Len(ss) - 1 /\ k + 1 \in 0 .. Len(ss)
    BY <1>3, <1>5, Zenon
  <2>2. After(ss, k + 1) \in Seq(S) /\ After(ss, k) = ss[k + 1] \o After(ss, k + 1)
    BY <1>3, <2>1, AfterIs, Zenon
  <2> QED
    BY <1>4, <2>2, Zenon
<1>8. /\ TextItems(x.f) \subseteq S /\ TextItems(x.v) \subseteq S
      /\ Hdr(writeLength(RelativeTTL(x.e, ExMin))) \in S
      /\ Hdr(PutLE8(IF x.e = 0 THEN -1 ELSE x.e)) \in S
  BY <1>6, Zenon DEF ItemSet
<1>9. x \in H
  BY <1>3, <1>5, Zenon
<1>10. TableNew(ExForm, x) = <<Field(x.f, x.v, Kept(x))>>
  BY DEF TableNew, ExForm
<1> HIDE DEF ss, nn, S, rest, x
<1>11. ASSUME Turned(<<Field(x.f, x.v, Kept(x))>>, rest),
              ~object.valkey => ~OutOfRange(x)
       PROVE  HashExInv'
  <2>1. Turned(nn[k + 1], After(ss, k + 1))
    BY <1>6, <1>10, <1>11, Zenon DEF rest
  <2>2. k \in 0 .. Len(ss) - 1 /\ Len(nn) = Len(ss)
    BY <1>3, <1>5, Zenon
  <2>3. /\ phase' = phase /\ object' = object
        /\ reader'.form = reader.form /\ reader'.min = reader.min
        /\ reader'.todo = Len(ss) - (k + 1) /\ reader'.left = 0
        /\ file' = After(ss, k + 1) /\ got' = Concat(SubSeq(nn, 1, k + 1))
    BY <1>3, <1>4, <2>1, <2>2, TableTurned, Zenon
  <2>4. /\ ExForm' = ExForm /\ ExMin' = ExMin
        /\ ExItems(order)' = ExItems(order) /\ ExNews(order)' = ExNews(order)
    BY <2>3, ExSame, Zenon
  <2>5. TableRead(ExItems(order), ExNews(order), k + 1)'
    BY <2>3, <2>4, Zenon DEF TableRead, ss, nn
  <2>6. ~object.valkey => \A i \in 1 .. k + 1 : ~OutOfRange(order[i])
    <3>1. \A i \in 1 .. k + 1 : i \in 1 .. k \/ i = k + 1
      BY <1>3, <1>5
    <3> QED
      BY <1>4, <1>11, <3>1, Zenon DEF x
  <2>7. ExRead(order, k + 1)'
    BY <2>3, <2>5, <2>6, Zenon DEF ExRead, OutOfRange
  <2>8. \E o \in Orders(object.hash)' : \E j \in 0 .. Len(o) : ExRead(o, j)'
    BY <1>5, <2>3, <2>7, Zenon
  <2>9. /\ ~object.valkey => reader.min = ExMin
        /\ reader.form = ExForm /\ H # {}
    BY DEF HashExInv
  <2>10. /\ ~object'.valkey => reader'.min = ExMin'
         /\ reader'.form = ExForm' /\ object'.hash # {}
    BY <2>3, <2>4, <2>9, Zenon
  <2> QED
    BY <2>3, <2>8, <2>10 DEF HashExInv
<1>12. ASSUME ~object.valkey, ReadHfe PROVE HashExInv'
  <2>1. reader.min = ExMin
    BY <1>12 DEF HashExInv
  <2>2. TableItem(ExForm, x, ExMin) = writeHfe(x, ExMin)
    BY <1>12 DEF TableItem, ExForm
  <2>3. IF OutOfRange(x) THEN End("refused")
        ELSE Turned(<<Field(x.f, x.v, Kept(x))>>, rest)
    <3>1. file = writeHfe(x, ExMin) \o rest /\ x \in object.hash
      BY <1>6, <1>7, <1>9, <2>2, Zenon DEF x
    <3> QED
      BY <1>7, <1>8, <1>12, <2>1, <3>1, HfeRead, Zenon DEF ExMin
  <2>4. CASE OutOfRange(x)
    <3>1. phase' = "refused" /\ object' = object
      BY <2>3, <2>4, Zenon DEF End
    <3>2. ~object'.valkey /\ \E y \in object'.hash : OutOfRange(y)'
      BY <1>9, <1>12, <2>4, <3>1, Zenon DEF OutOfRange
    <3> QED
      BY <3>1, <3>2 DEF HashExInv
  <2>5. CASE ~OutOfRange(x)
    BY <1>11, <2>3, <2>5, Zenon
  <2> QED
    BY <2>4, <2>5, Zenon
<1>13. ASSUME object.valkey, ReadHash2 PROVE HashExInv'
  <2>1. TableItem(ExForm, x, ExMin) = writeHash2(x)
    BY <1>13 DEF TableItem, ExForm
  <2>2. file = writeHash2(x) \o rest /\ x \in object.hash
    BY <1>6, <1>7, <1>9, <2>1, Zenon DEF x
  <2>3. Turned(<<Field(x.f, x.v, Kept(x))>>, rest)
    BY <1>7, <1>8, <1>13, <2>2, Hash2Read, Zenon
  <2> QED
    BY <1>11, <1>13, <2>3, Zenon
<1> QED
  BY <1>12, <1>13, Zenon

\* The last turn is over.
LEMMA ExDone ==
    ASSUME object \in Objects, object.type = "hashEx", HashExInv, Done
    PROVE  HashExInv'
<1> DEFINE H == object.hash
<1>1. phase = "read" /\ reader.todo = 0 /\ phase' = "done" /\ UNCHANGED <<object, got>>
  BY Zenon DEF Done, AllRead, End
<1>2. PICK order \in Orders(H) : \E k \in 0 .. Len(order) : ExRead(order, k)
  BY <1>1, Zenon DEF HashExInv
<1>3. PICK k \in 0 .. Len(order) : ExRead(order, k)
  BY <1>2, Zenon
<1> DEFINE n == Len(order)
           nn == ExNews(order)
           t == reader.todo
<1>4. n \in Nat /\ Len(ExItems(order)) = n /\ Len(nn) = n /\ nn \in Seq(Seq(NewsOf(order)))
  BY <1>2, ExFits, Zenon
<1>5. k = n
  <2>1. t = n - k /\ t = 0
    BY <1>1, <1>3, <1>4, Zenon DEF ExRead, TableRead
  <2> HIDE DEF t, n
  <2> QED
    BY <1>3, <1>4, <2>1 DEF n
<1>6. got = Concat(nn)
  <2> DEFINE Z == Seq(NewsOf(order))
  <2>1. got = Concat(SubSeq(nn, 1, Len(nn)))
    BY <1>3, <1>4, <1>5, Zenon DEF ExRead, TableRead
  <2>2. nn \in Seq(Z)
    BY <1>4, Zenon
  <2> HIDE DEF Z, nn
  <2>3. nn = [i \in 1 .. Len(nn) |-> nn[i]] /\ Len(nn) \in Nat
    BY <2>2
  <2>4. IsSequence(nn)
    BY <2>3, FunctionTyped, Zenon
  <2> QED
    BY <2>1, <2>4, FrontAll, Zenon
<1>7. ~object.valkey => \A x \in H : ~OutOfRange(x)
  <2>1. IsFiniteSet(H)
    BY HashExObject, Zenon
  <2> HIDE DEF H
  <2>2. {order[i] : i \in 1 .. Len(order)} = H
    BY <1>2, <2>1, OrderIs, Zenon
  <2> QED
    BY <1>3, <1>5, <2>2, Zenon DEF ExRead
<1>8. object' = object /\ got' = got
  BY <1>1, Zenon
<1>9. ExNews(order)' = ExNews(order)
  BY <1>8, ExSame, Zenon
<1>10. \E o \in Orders(object.hash)' : got' = Concat(ExNews(o))'
  BY <1>6, <1>8, <1>9, Zenon
<1>11. ~object'.valkey => \A x \in object'.hash : ~OutOfRange(x)'
  BY <1>7, <1>8, Zenon DEF OutOfRange
<1>12. object'.hash # {}
  BY <1>1, <1>8 DEF HashExInv
<1> QED
  BY <1>1, <1>10, <1>11, <1>12 DEF HashExInv

HashesExInv ==
    /\ object \in Objects /\ DOMAIN reader = DOMAIN Locals
    /\ object.type = "hashEx" => HashExInv

LEMMA HashExStarts == Init => HashesExInv
<1> SUFFICES ASSUME Init PROVE HashesExInv
  OBVIOUS
<1>1. reader = Locals /\ object \in Objects /\ phase = "new" /\ got = << >>
  BY Zenon DEF Init
<1>2. reader.left = 0
  BY <1>1, TableDomain, Zenon
<1> QED
  BY <1>1, <1>2 DEF HashesExInv, HashExInv

LEMMA HashExInvStep == HashesExInv /\ [Next]_vars => HashesExInv'
<1> SUFFICES ASSUME HashesExInv, [Next]_vars PROVE HashesExInv'
  OBVIOUS
<1>1. CASE UNCHANGED vars
  <2>1. /\ phase' = phase /\ file' = file /\ got' = got /\ object' = object
        /\ reader' = reader
    BY <1>1 DEF vars
  <2>2. /\ ExForm' = ExForm /\ ExMin' = ExMin
        /\ \A order : ExItems(order)' = ExItems(order) /\ ExNews(order)' = ExNews(order)
    BY <2>1, ExSame, Zenon
  <2>3. \A order : ExFile(order)' = ExFile(order)
    BY <2>1, <2>2, Zenon DEF ExFile
  <2>4. \A order, k : ExRead(order, k) => ExRead(order, k)'
    BY <2>1, <2>2, Zenon DEF ExRead, TableRead, OutOfRange
  <2>5. HashExInv => HashExInv'
    <3> SUFFICES ASSUME HashExInv PROVE HashExInv'
      OBVIOUS
    <3>1. phase = "open" => \E order \in Orders(object.hash)' : file' = ExFile(order)'
      BY <2>1, <2>3, Zenon DEF HashExInv
    <3>2. phase = "read" => /\ ~object.valkey => reader.min = ExMin
                            /\ \E order \in Orders(object.hash)' :
                                  \E k \in 0 .. Len(order) : ExRead(order, k)'
      BY <2>1, <2>4, Zenon DEF HashExInv
    <3>3. phase = "done" => /\ \E order \in Orders(object.hash)' : got' = Concat(ExNews(order))'
                            /\ ~object.valkey => \A x \in object.hash : ~OutOfRange(x)'
      BY <2>1, <2>2, Zenon DEF HashExInv, OutOfRange
    <3>4. phase = "refused" => object.hash = {} \/ (~object.valkey /\ \E x \in object.hash : OutOfRange(x)')
      BY <2>1, Zenon DEF HashExInv, OutOfRange
    <3> QED
      BY <2>1, <2>2, <3>1, <3>2, <3>3, <3>4, Zenon DEF HashExInv
  <2> QED
    BY <2>1, <2>5, Zenon DEF HashesExInv
<1>2. CASE Next
  <2>1. object' = object /\ object \in Objects /\ DOMAIN reader = DOMAIN Locals
        /\ DOMAIN reader' = DOMAIN Locals
    BY <1>2, ObjectStays, LocalsKept, Zenon DEF HashesExInv
  <2>2. ASSUME object.type = "hashEx" PROVE HashExInv'
    <3>1. HashExInv
      BY <2>2, Zenon DEF HashesExInv
    <3>2. \/ WriteHashEx \/ OpenHashEx
          \/ (~object.valkey /\ ReadHfe) \/ (object.valkey /\ ReadHash2) \/ Done
      BY <1>2, <2>1, <2>2, <3>1, HashExSteps, Zenon
    <3>3. CASE WriteHashEx
      BY <2>1, <2>2, <3>1, <3>3, ExWritten, Zenon
    <3>4. CASE OpenHashEx
      BY <2>1, <2>2, <3>1, <3>4, ExOpened, Zenon
    <3>5. CASE (~object.valkey /\ ReadHfe) \/ (object.valkey /\ ReadHash2)
      <4>1. phase = "read" /\ reader.todo > 0
        BY <3>5, Zenon DEF ReadHfe, ReadHash2, InTable
      <4> QED
        BY <2>1, <2>2, <3>1, <3>5, <4>1, ExTurn, Zenon
    <3>6. CASE Done
      BY <2>1, <2>2, <3>1, <3>6, ExDone, Zenon
    <3> QED
      BY <3>2, <3>3, <3>4, <3>5, <3>6, Zenon
  <2> QED
    BY <2>1, <2>2, Zenon DEF HashesExInv
<1> QED
  BY <1>1, <1>2

LEMMA HashExMeans == HashesExInv => FieldExpirationsKept
<1> SUFFICES ASSUME HashesExInv, object.type = "hashEx"
             PROVE  /\ phase = "done" =>
                          /\ ToSet(got) = {Field(x.f, x.v, Kept(x)) : x \in object.hash}
                          /\ Len(got) = Cardinality(object.hash)
                    /\ phase \in Final =>
                          (phase = "refused" <=>
                               \/ object.hash = {}
                               \/ ~object.valkey /\ \E x \in object.hash : OutOfRange(x))
  BY Zenon DEF FieldExpirationsKept
<1> DEFINE H == object.hash
           g(x) == Field(x.f, x.v, Kept(x))
<1>1. HashExInv /\ IsFiniteSet(H)
  BY HashExObject, Zenon DEF HashesExInv
<1>2. ASSUME phase = "done"
      PROVE  ToSet(got) = {g(x) : x \in H} /\ Len(got) = Cardinality(H)
  <2>1. PICK order \in Orders(H) : got = Concat(ExNews(order))
    BY <1>1, <1>2, Zenon DEF HashExInv
  <2> HIDE DEF H
  <2>2. /\ Cardinality(H) \in Nat /\ Len(order) = Cardinality(H)
        /\ {order[i] : i \in 1 .. Len(order)} = H
    BY <1>1, <2>1, OrderIs, Zenon
  <2> DEFINE n == Len(order)
             a == [i \in 1 .. n |-> g(order[i])]
             b == [i \in 1 .. n |-> a[i]]
  <2>3. ExNews(order) = [i \in 1 .. n |-> <<g(order[i])>>]
    <3>1. \A x : TableNew(ExForm, x) = <<g(x)>>
      BY DEF TableNew, ExForm
    <3> QED
      BY <3>1, Zenon DEF ExNews, TableNews
  <2>4. [i \in 1 .. n |-> <<g(order[i])>>] = [i \in 1 .. n |-> <<a[i]>>]
    BY Zenon
  <2>5. n \in Nat
    BY <2>2, Zenon
  <2> HIDE DEF n, g
  <2>6. a = b
    BY Zenon
  <2> HIDE DEF a
  <2>7. Concat([i \in 1 .. n |-> <<a[i]>>]) = b
    BY <2>5, ConcatSingles, Zenon
  <2>8. got = a
    BY <2>1, <2>3, <2>4, <2>6, <2>7, Zenon
  <2>9. Len(a) = n /\ DOMAIN a = 1 .. n /\ \A i \in 1 .. n : a[i] = g(order[i])
    BY <2>5 DEF a
  <2>10. ToSet(a) = {g(order[i]) : i \in 1 .. n}
    BY <2>9, Zenon DEF ToSet
  <2>11. {g(order[i]) : i \in 1 .. n} = {g(x) : x \in H}
    <3>1. \A x : x \in H <=> \E i \in 1 .. n : x = order[i]
      BY <2>2, Zenon DEF n
    <3>2. \A y : (\E i \in 1 .. n : y = g(order[i])) <=> \E x \in H : y = g(x)
      BY <3>1, Zenon
    <3> DEFINE A == {g(order[i]) : i \in 1 .. n}
               B == {g(x) : x \in H}
    <3>3. \A y : y \in A <=> \E i \in 1 .. n : y = g(order[i])
      OBVIOUS
    <3>4. \A y : y \in B <=> \E x \in H : y = g(x)
      OBVIOUS
    <3> HIDE DEF A, B
    <3>5. A = B
      BY <3>2, <3>3, <3>4
    <3> QED
      BY <3>5, Zenon DEF A, B
  <2> QED
    BY <2>2, <2>8, <2>9, <2>10, <2>11, Zenon DEF n
<1>3. phase \in Final => (phase = "refused" <=>
          \/ object.hash = {}
          \/ ~object.valkey /\ \E x \in object.hash : OutOfRange(x))
  BY <1>1 DEF HashExInv, Final
<1> QED
  BY <1>2, <1>3, Zenon

\* The expirations of fields survive for every hash: whatever their number and
\* order, what writeHashEncodingEx and writeHash2Encoding write, readHashMapEx
\* and readHashMapExValkey (hash.go) give back, each field with its own
\* expiration, and what they refuse is empty or out of range.
THEOREM FieldExpirationsAreKept == Spec => []FieldExpirationsKept
<1>1. Init => HashesExInv
  BY HashExStarts
<1>2. HashesExInv /\ [Next]_vars => HashesExInv'
  BY HashExInvStep
<1>3. HashesExInv => FieldExpirationsKept
  BY HashExMeans
<1> QED
  BY <1>1, <1>2, <1>3, PTL DEF Spec

\* The number of digits.
LEMMA FewDigits == \A v : Digits(v) \in Nat /\ Digits(v) < 16384
<1> TAKE v
<1> DEFINE D == {k \in 1 .. 9 : Magnitude(v) >= 10 ^ k}
           c == Cardinality(D)
<1>1. IsFiniteSet(1 .. 9) /\ Cardinality(1 .. 9) = 9
  <2>1. 1 \in Int /\ 9 \in Int /\ ~(1 > 9) /\ 9 - 1 + 1 = 9
    OBVIOUS
  <2> QED
    BY <2>1, FS_Interval
<1>2. D \subseteq 1 .. 9
  OBVIOUS
<1> HIDE DEF D
<1>3. IsFiniteSet(D) /\ c <= 9
  BY <1>1, <1>2, FS_Subset
<1>4. c \in Nat
  BY <1>3, FS_CardinalityType
<1>5. Digits(v) = (IF v < 0 THEN 2 ELSE 1) + c
  BY Zenon DEF Digits, D
<1> HIDE DEF c
<1> DEFINE d == IF v < 0 THEN 2 ELSE 1
<1>6. d \in {1, 2}
  OBVIOUS
<1> HIDE DEF d
<1>7. Digits(v) = d + c
  BY <1>5, Zenon DEF d
<1> QED
  BY <1>3, <1>4, <1>6, <1>7

\* The bytes of a long length in the wrong order never make up for the four
\* bytes of the buffer that are left over (ziplist.go:148-160).
LEMMA SwappedLength ==
    ASSUME NEW n \in Nat, Upper(n) = 0
    PROVE  LET b == PutLE4(n) IN UintBE4(b) \in Nat /\ UintBE4(b) # n + 4
<1> DEFINE b == PutLE4(n)
<1>1. b \in Seq(Byte) /\ Len(b) = 4
  BY PutTypes
<1>2. UintLE4(b) = n
  BY UnsignedLE4
<1> HIDE DEF b
<1>3. b[1] \in 0 .. 255 /\ b[2] \in 0 .. 255 /\ b[3] \in 0 .. 255 /\ b[4] \in 0 .. 255
  <2>1. \A i \in 1 .. 4 : b[i] \in Byte
    BY <1>1, ElementOfSeq
  <2> QED
    BY <2>1 DEF Byte
<1>4. /\ n = b[1] + 256 * (b[2] + 256 * (b[3] + 256 * b[4]))
      /\ UintBE4(b) = b[4] + 256 * (b[3] + 256 * (b[2] + 256 * b[1]))
  BY <1>2, Zenon DEF UintLE4, UintBE4
<1> DEFINE p == b[1]
           q == b[2]
           r == b[3]
           s == b[4]
<1>5. /\ p \in 0 .. 255 /\ q \in 0 .. 255 /\ r \in 0 .. 255 /\ s \in 0 .. 255
      /\ n = p + 256 * (q + 256 * (r + 256 * s))
      /\ UintBE4(b) = s + 256 * (r + 256 * (q + 256 * p))
  BY <1>3, <1>4
<1> HIDE DEF p, q, r, s
<1>6. UintBE4(b) \in Nat
  BY <1>5
<1> DEFINE m == 65793 * (p - s) + 256 * (q - r)
<1>7. UintBE4(b) - n = 255 * m /\ m \in Int
  BY <1>5
<1> HIDE DEF m
<1>8. 255 * m # 4
  BY <1>7
<1>9. UintBE4(b) # n + 4
  BY <1>6, <1>7, <1>8
<1> QED
  BY <1>6, <1>9, Zenon DEF b

\* The header of a string entry: how much readZipListEntry takes for it.
LEMMA ZipStrHeadTakes ==
    ASSUME NEW n \in Nat, Upper(n) = 0
    PROVE  LET h == ZipStrHead(n)
           IN /\ h[1] < 192 /\ Len(h) \in Nat /\ ZipTakes(h) \in Int
              /\ (ZipTakes(h) = Len(h) + n <=> n < 16384)
<1> DEFINE h == ZipStrHead(n)
<1>1. CASE n <= 63
  <2>1. h = <<n>>
    BY <1>1, Zenon DEF ZipStrHead
  <2> HIDE DEF h
  <2>2. h[1] = n /\ Len(h) = 1
    BY <2>1
  <2>3. ZipTakes(h) = 1 + n
    BY <1>1, <2>2 DEF ZipTakes
  <2> QED
    BY <1>1, <2>2, <2>3 DEF h
<1>2. CASE ~(n <= 63) /\ n <= MaxUint14
  <2>1. h = <<64 + n \div 256, n % 256>>
    BY <1>2, Zenon DEF ZipStrHead
  <2>2. n \in 64 .. MaxUint14 /\ n < 16384
    <3>1. n \in Nat /\ ~(n <= 63) /\ n <= MaxUint14
      BY <1>2, Zenon
    <3> QED
      BY ONLY <3>1, Uint14
  <2> DEFINE u == n \div 256
             w == n % 256
  <2>3. u \in 0 .. 63
    BY <2>2, Quotient
  <2>4. w \in 0 .. 255 /\ n = 256 * u + w
    OBVIOUS
  <2> HIDE DEF h, u, w
  <2>5. h[1] = 64 + u /\ h[2] = w /\ Len(h) = 2
    BY <2>1 DEF u, w
  <2>6. (64 + u) % 64 = u /\ ~(64 + u < 64) /\ 64 + u < 128
    BY <2>3
  <2>7. ZipTakes(h) = 2 + u * 256 + w
    BY <2>5, <2>6 DEF ZipTakes
  <2>8. ZipTakes(h) = 2 + n
    BY <2>3, <2>4, <2>7
  <2>9. h[1] < 192
    BY <2>3, <2>5
  <2> QED
    BY <2>2, <2>5, <2>8, <2>9 DEF h
<1>3. CASE ~(n <= 63) /\ ~(n <= MaxUint14)
  <2> DEFINE b == PutLE4(n)
             z == <<0, 0, 0, 0>>
             t == b \o z
  <2>1. h = <<128>> \o b \o z
    BY <1>3, Zenon DEF ZipStrHead
  <2>2. b \in Seq(Byte) /\ Len(b) = 4
    BY PutTypes
  <2>3. z \in Seq(Byte) /\ Len(z) = 4 /\ <<128>> \in Seq(Byte) /\ 128 \in Byte
    BY DEF Byte
  <2>4. UintBE4(b) \in Nat /\ UintBE4(b) # n + 4
    BY SwappedLength, Zenon
  <2> HIDE DEF b, z, h
  <2>5. (<<128>> \o b) \o z = <<128>> \o (b \o z)
    BY <2>2, <2>3, ConcatAssociative
  <2>6. t \in Seq(Byte) /\ Len(t) = 8 /\ \A i \in 1 .. 4 : t[i] = b[i]
    <3>1. z \in Seq(Byte) /\ Len(z) = 4
      BY <2>3
    <3> QED
      BY <2>2, <3>1, ConcatProperties
  <2> HIDE DEF t
  <2>7. h = <<128>> \o t
    BY <2>1, <2>5, Zenon DEF t
  <2>8. Len(<<128>> \o t) = 1 + Len(t) /\ (<<128>> \o t)[1] = 128 /\ Tail(<<128>> \o t) = t
    <3> DEFINE x == 128
    <3>1. x \in Byte
      BY <2>3
    <3> HIDE DEF x
    <3>2. t \in Seq(Byte) /\ Len(t) > 0
      BY <2>6
    <3>3. Len(<<x>> \o t) = 1 + Len(t) /\ (<<x>> \o t)[1] = x /\ Tail(<<x>> \o t) = t
      BY <3>1, <3>2, Prepend, ZenonT(60)
    <3> QED
      BY <3>3 DEF x
  <2>9. h[1] = 128 /\ Tail(h) = t /\ Len(h) = 9
    BY <2>6, <2>7, <2>8
  <2>10. UintBE4(t) = UintBE4(b)
    <3>1. 1 \in 1 .. 4 /\ 2 \in 1 .. 4 /\ 3 \in 1 .. 4 /\ 4 \in 1 .. 4
      OBVIOUS
    <3>2. t[1] = b[1] /\ t[2] = b[2] /\ t[3] = b[3] /\ t[4] = b[4]
      BY <2>6, <3>1, Zenon
    <3> QED
      BY <3>2 DEF UintBE4
  <2>11. ZipTakes(h) = 5 + UintBE4(b)
    <3>1. ZipTakes(h) = 5 + UintBE4(Tail(h))
      BY <2>9 DEF ZipTakes
    <3> QED
      BY <2>9, <2>10, <3>1
  <2>12. ~(n < 16384)
    BY <1>3 DEF MaxUint14
  <2> DEFINE v == UintBE4(b)
  <2>13. v \in Nat /\ v # n + 4 /\ ZipTakes(h) = 5 + v
    BY <2>4, <2>11, Zenon
  <2> HIDE DEF v
  <2>14. ZipTakes(h) \in Int /\ ZipTakes(h) # 9 + n
    BY <2>13
  <2>15. h[1] < 192
    BY <2>9
  <2> QED
    BY <2>9, <2>12, <2>14, <2>15 DEF h
<1> QED
  BY <1>1, <1>2, <1>3

\* A ziplist entry with a string is that string again, or the reader loses its
\* place: exactly if the string is too long for 14 bits.
ZipEntryIs(s, r) == IF TooLong(s) THEN r.is = "lost" ELSE r.is = "str" /\ r.str = s

LEMMA ZipCellFields ==
    \A p, h, s : /\ ZipCell(p, h, s).prev = p /\ ZipCell(p, h, s).head = h
                 /\ ZipCell(p, h, s).body = s
BY DEF ZipCell

LEMMA ZipEntryReads ==
    ASSUME NEW s, IsText(s), Upper(s.len) = 0, NEW n \in Nat
    PROVE  /\ ZipSize(encodeZipListEntry(n, s)) \in Nat
           /\ ZipEntryIs(s, readZipListEntry(encodeZipListEntry(n, s)))
<1> DEFINE cell == encodeZipListEntry(n, s)
           p == PrevLen(n)
<1>1. s.len \in Nat
  BY DEF IsText
<1>2. Len(p) \in Nat /\ (IF p[1] = 254 THEN 5 ELSE 1) = Len(p)
  BY PrevLenSkipped
<1>3. ASSUME isEncodableUint64(s)
      PROVE  ZipSize(cell) \in Nat /\ ZipEntryIs(s, readZipListEntry(cell))
  <2> DEFINE v == s.val[1]
             h == ZipIntHead(v)
  <2>1. IsInt64(v) /\ s = Num(v)
    BY <1>3, Zenon DEF IsText, isEncodableUint64
  <2>2. v \in Int64s
    BY <2>1, Int64Wide, Zenon
  <2>3. readZipListEntry(ZipCell(p, h, Empty)) = [is |-> "str", str |-> Num(v)]
    BY <2>2, ZiplistIntReadsBack, Zenon
  <2>4. cell = ZipCell(p, h, Empty)
    BY <1>3, Zenon DEF encodeZipListEntry
  <2>5. ~TooLong(s)
    <3>1. s.len = Digits(v)
      BY <2>1 DEF Num
    <3> DEFINE d == Digits(v)
    <3>2. d \in Nat /\ d < 16384
      BY FewDigits
    <3> HIDE DEF d
    <3>3. ~(d >= 16384)
      BY <3>2
    <3>4. ~(s.len >= 16384)
      BY <3>1, <3>3 DEF d
    <3> QED
      BY <3>4 DEF TooLong
  <2>6. Len(h) \in Nat
    <3>1. v \in Int
      BY <2>2, Between64
    <3>2. /\ PutLE3(v) \in Seq(Byte) /\ PutLE4(v) \in Seq(Byte) /\ PutLE8(v) \in Seq(Byte)
      BY <3>1, PutTypes
    <3> DEFINE a == PutLE3(v)
               b == PutLE4(v)
               c == PutLE8(v)
    <3>3. h \in {<<240 + v + 1>>, <<254, v % 256>>, <<240>> \o a, <<208>> \o b, <<224>> \o c}
      BY DEF ZipIntHead
    <3> HIDE DEF a, b, c, h
    <3>4. a \in Seq(Byte) /\ b \in Seq(Byte) /\ c \in Seq(Byte)
      BY <3>2, Zenon DEF a, b, c
    <3>5. Len(<<240>> \o a) \in Nat /\ Len(<<208>> \o b) \in Nat /\ Len(<<224>> \o c) \in Nat
      BY <3>4 DEF Byte
    <3>6. Len(<<240 + v + 1>>) \in Nat /\ Len(<<254, v % 256>>) \in Nat
      OBVIOUS
    <3> QED
      BY <3>3, <3>5, <3>6
  <2> HIDE DEF h, p
  <2>7. ZipSize(cell) = Len(p) + Len(h) + 0
    <3>1. cell.prev = p /\ cell.head = h /\ cell.body = Empty
      BY <2>4, ZipCellFields
    <3> QED
      BY <3>1, EmptyLen, Zenon DEF ZipSize
  <2>8. ZipSize(cell) \in Nat
    BY <1>2, <2>6, <2>7
  <2> HIDE DEF cell
  <2>9. readZipListEntry(cell).is = "str" /\ readZipListEntry(cell).str = s
    <3>1. readZipListEntry(cell) = [is |-> "str", str |-> s]
      BY <2>1, <2>3, <2>4, Zenon
    <3> QED
      BY <3>1
  <2> QED
    BY <2>5, <2>8, <2>9, Zenon DEF ZipEntryIs
<1>4. ASSUME ~isEncodableUint64(s)
      PROVE  ZipSize(cell) \in Nat /\ ZipEntryIs(s, readZipListEntry(cell))
  <2> DEFINE h == ZipStrHead(s.len)
             skipped == IF p[1] = 254 THEN 5 ELSE 1
             l == s.len
  <2>1. cell = ZipCell(p, h, s)
    BY <1>4, Zenon DEF encodeZipListEntry
  <2>2. h[1] < 192 /\ Len(h) \in Nat /\ ZipTakes(h) \in Int
        /\ (ZipTakes(h) = Len(h) + l <=> l < 16384)
    <3>1. l \in Nat /\ Upper(l) = 0
      BY <1>1, Zenon
    <3> HIDE DEF l
    <3>2. /\ h[1] < 192 /\ Len(h) \in Nat /\ ZipTakes(h) \in Int
          /\ (ZipTakes(h) = Len(h) + l <=> l < 16384)
      BY <3>1, ZipStrHeadTakes DEF h, l
    <3> QED
      BY <3>2
  <2> HIDE DEF h, p, cell
  <2>3. cell.prev = p /\ cell.head = h /\ cell.body = s
    BY <2>1, ZipCellFields
  <2>4. ZipSize(cell) = Len(p) + Len(h) + l
    BY <2>3, Zenon DEF ZipSize
  <2>5. readZipListEntry(cell) =
            IF skipped + ZipTakes(h) # ZipSize(cell) THEN [is |-> "lost", str |-> Empty]
            ELSE IF h[1] < 192 THEN [is |-> "str", str |-> s]
            ELSE IF h[1] \div 16 = 15 \/ h[1] \in {192, 208, 224}
                 THEN [is |-> "str", str |-> Num(ZipIntOf(h))]
            ELSE [is |-> "error", str |-> Empty]
    BY <2>3 DEF readZipListEntry
  <2>6. skipped = Len(p)
    BY <1>2, Zenon
  <2> HIDE DEF skipped, l
  <2>7. l \in Nat
    BY <1>1, Zenon DEF l
  <2>8. ZipSize(cell) \in Nat
    BY <1>2, <2>2, <2>4, <2>7
  <2>9. skipped + ZipTakes(h) = ZipSize(cell) <=> l < 16384
    BY ONLY <1>2, <2>2, <2>4, <2>6, <2>7, SMTT(20)
  <2>10. TooLong(s) <=> ~(l < 16384)
    <3>1. l >= 16384 <=> ~(l < 16384)
      BY <2>7
    <3>2. TooLong(s) <=> l >= 16384
      BY DEF TooLong, l
    <3> QED
      BY <3>1, <3>2
  <2>11. CASE l < 16384
    <3>1. readZipListEntry(cell) = [is |-> "str", str |-> s]
      BY <2>2, <2>5, <2>9, <2>11
    <3>2. readZipListEntry(cell).is = "str" /\ readZipListEntry(cell).str = s
      BY <3>1
    <3> QED
      BY <2>8, <2>10, <2>11, <3>2 DEF ZipEntryIs
  <2>12. CASE ~(l < 16384)
    <3>1. readZipListEntry(cell) = [is |-> "lost", str |-> Empty]
      BY <2>5, <2>9, <2>12
    <3>2. readZipListEntry(cell).is = "lost"
      BY <3>1
    <3> QED
      BY <2>8, <2>10, <2>12, <3>2 DEF ZipEntryIs
  <2> QED
    BY <2>11, <2>12
<1> QED
  BY <1>3, <1>4

\* The turns of writeZipList, one value after the other.
AddCell(cells, s) ==
    Append(cells, encodeZipListEntry(IF cells = << >> THEN 0 ELSE ZipSize(Last(cells)), s))

CellTurns(h, ss, k) == h[0] = << >> /\ \A i \in 1 .. k : h[i] = AddCell(h[i - 1], ss[i])

LEMMA CellTurnsExist ==
    ASSUME NEW ss, NEW n \in Nat PROVE \E h : CellTurns(h, ss, n)
<1> DEFINE P == {k \in 0 .. n : \E h : CellTurns(h, ss, k)}
<1>1. 0 \in P
  <2>1. CellTurns([j \in {0} |-> << >>], ss, 0)
    BY DEF CellTurns
  <2> QED
    BY <2>1
<1>2. ASSUME NEW k \in 1 .. n, k - 1 \in P PROVE k \in P
  <2>1. PICK h : CellTurns(h, ss, k - 1)
    BY <1>2
  <2> DEFINE x == AddCell(h[k - 1], ss[k])
  <2> HIDE DEF x
  <2> DEFINE g == [j \in 0 .. k |-> IF j = k THEN x ELSE h[j]]
  <2>2. g[0] = << >>
    BY <2>1 DEF CellTurns
  <2>3. ASSUME NEW i \in 1 .. k PROVE g[i] = AddCell(g[i - 1], ss[i])
    <3>1. i - 1 \in 0 .. k /\ i - 1 # k /\ i \in 0 .. k
      OBVIOUS
    <3>2. g[i - 1] = h[i - 1]
      BY <3>1
    <3>3. CASE i = k
      <4>1. g[i] = x
        BY <3>1, <3>3
      <4> HIDE DEF g
      <4> QED
        BY <3>2, <3>3, <4>1, Zenon DEF x
    <3>4. CASE i # k
      <4>1. i \in 1 .. k - 1 /\ g[i] = h[i]
        BY <3>1, <3>4
      <4>2. h[i] = AddCell(h[i - 1], ss[i])
        BY <2>1, <4>1, Zenon DEF CellTurns
      <4> HIDE DEF g
      <4> QED
        BY <3>2, <4>1, <4>2, Zenon
    <3> QED
      BY <3>3, <3>4, Zenon
  <2> HIDE DEF g
  <2>4. CellTurns(g, ss, k)
    BY <2>2, <2>3, Zenon DEF CellTurns
  <2> QED
    BY <2>4
<1>3. n \in 0 .. n
  OBVIOUS
<1> HIDE DEF P
<1>4. n \in P
  BY <1>1, <1>2, <1>3, TurnByTurn
<1> QED
  BY <1>4, Zenon DEF P

LEMMA CellTurnsEnd ==
    ASSUME NEW ss, NEW n \in Nat, n = Len(ss), NEW h, CellTurns(h, ss, n)
    PROVE  ZipCells(ss) = h[n]
<1> DEFINE IsAfter(f) == f = [i \in 0 .. Len(ss) |-> IF i = 0 THEN {<< >>}
                                  ELSE {AddCell(x, ss[i]) : x \in f[i - 1]}]
           after == CHOOSE f : IsAfter(f)
<1>0. h[0] = << >> /\ \A i \in 1 .. n : h[i] = AddCell(h[i - 1], ss[i])
  BY Zenon DEF CellTurns
<1>1. ZipCells(ss) = CHOOSE x \in after[Len(ss)] : TRUE
  BY Zenon DEF Iterate, ZipCells, AddCell
<1> DEFINE f0 == [i \in 0 .. Len(ss) |-> {h[i]}]
<1>2. IsAfter(f0)
  <2>1. ASSUME NEW i \in 0 .. Len(ss)
        PROVE  f0[i] = IF i = 0 THEN {<< >>}
                       ELSE {AddCell(x, ss[i]) : x \in f0[i - 1]}
    <3>1. CASE i = 0
      BY <1>0, <3>1
    <3>2. CASE i # 0
      <4>1. i \in 1 .. n /\ i - 1 \in 0 .. Len(ss)
        BY <3>2
      <4>2. f0[i - 1] = {h[i - 1]} /\ f0[i] = {h[i]}
        BY <4>1
      <4>3. {AddCell(x, ss[i]) : x \in f0[i - 1]} = {AddCell(h[i - 1], ss[i])}
        BY <4>2, Zenon
      <4>4. h[i] = AddCell(h[i - 1], ss[i])
        BY <1>0, <4>1, Zenon
      <4> HIDE DEF f0
      <4> QED
        BY <3>2, <4>2, <4>3, <4>4, Zenon
    <3> QED
      BY <3>1, <3>2
  <2> HIDE DEF f0
  <2>2. f0 = [i \in 0 .. Len(ss) |-> f0[i]]
    BY Zenon DEF f0
  <2> QED
    BY <2>1, <2>2, Zenon
<1> HIDE DEF IsAfter
<1>3. IsAfter(after)
  BY <1>2, Zenon
<1> HIDE DEF after
<1>4. Loop(after, h, n)
  <2>1. after = [i \in 0 .. Len(ss) |-> IF i = 0 THEN {<< >>}
                                ELSE {AddCell(x, ss[i]) : x \in after[i - 1]}]
    BY <1>3, Zenon DEF IsAfter
  <2>2. DOMAIN after = 0 .. n /\ after[0] = {h[0]}
    BY <1>0, <2>1
  <2>3. ASSUME NEW i \in 1 .. n PROVE after[i] = {AddCell(x, ss[i]) : x \in after[i - 1]}
    <3>1. i \in 0 .. Len(ss) /\ i # 0
      OBVIOUS
    <3> QED
      BY <2>1, <3>1, Zenon
  <2>4. ASSUME NEW i \in 1 .. n, after[i - 1] = {h[i - 1]} PROVE after[i] = {h[i]}
    <3>1. {AddCell(x, ss[i]) : x \in after[i - 1]} = {AddCell(h[i - 1], ss[i])}
      BY <2>4, Zenon
    <3> QED
      BY <1>0, <2>3, <3>1, Zenon
  <2> QED
    BY <2>2, <2>4 DEF Loop
<1> QED
  BY <1>1, <1>4, LoopEnds

\* The turns of writeQuickList: the pages so far and the one being filled.
AddToPage(p, s) ==
    IF SumLen(p.open) + s.len >= PageSize
    THEN [done |-> Append(p.done, Append(p.open, s)), open |-> << >>]
    ELSE [p EXCEPT !.open = Append(@, s)]

NoPages == [done |-> << >>, open |-> << >>]

PageTurns(h, ss, k) == h[0] = NoPages /\ \A i \in 1 .. k : h[i] = AddToPage(h[i - 1], ss[i])

LEMMA PageTurnsExist ==
    ASSUME NEW ss, NEW n \in Nat PROVE \E h : PageTurns(h, ss, n)
<1> DEFINE P == {k \in 0 .. n : \E h : PageTurns(h, ss, k)}
<1>1. 0 \in P
  <2>1. PageTurns([j \in {0} |-> NoPages], ss, 0)
    BY DEF PageTurns
  <2> QED
    BY <2>1
<1>2. ASSUME NEW k \in 1 .. n, k - 1 \in P PROVE k \in P
  <2>1. PICK h : PageTurns(h, ss, k - 1)
    BY <1>2
  <2> DEFINE x == AddToPage(h[k - 1], ss[k])
  <2> HIDE DEF x
  <2> DEFINE g == [j \in 0 .. k |-> IF j = k THEN x ELSE h[j]]
  <2>2. g[0] = NoPages
    BY <2>1 DEF PageTurns
  <2>3. ASSUME NEW i \in 1 .. k PROVE g[i] = AddToPage(g[i - 1], ss[i])
    <3>1. i - 1 \in 0 .. k /\ i - 1 # k /\ i \in 0 .. k
      OBVIOUS
    <3>2. g[i - 1] = h[i - 1]
      BY <3>1
    <3>3. CASE i = k
      <4>1. g[i] = x
        BY <3>1, <3>3
      <4> HIDE DEF g
      <4> QED
        BY <3>2, <3>3, <4>1, Zenon DEF x
    <3>4. CASE i # k
      <4>1. i \in 1 .. k - 1 /\ g[i] = h[i]
        BY <3>1, <3>4
      <4>2. h[i] = AddToPage(h[i - 1], ss[i])
        BY <2>1, <4>1, Zenon DEF PageTurns
      <4> HIDE DEF g
      <4> QED
        BY <3>2, <4>1, <4>2, Zenon
    <3> QED
      BY <3>3, <3>4, Zenon
  <2> HIDE DEF g
  <2>4. PageTurns(g, ss, k)
    BY <2>2, <2>3, Zenon DEF PageTurns
  <2> QED
    BY <2>4
<1>3. n \in 0 .. n
  OBVIOUS
<1> HIDE DEF P
<1>4. n \in P
  BY <1>1, <1>2, <1>3, TurnByTurn
<1> QED
  BY <1>4, Zenon DEF P

LEMMA PageTurnsEnd ==
    ASSUME NEW ss, NEW n \in Nat, n = Len(ss), NEW h, PageTurns(h, ss, n)
    PROVE  Cut(ss) = h[n]
<1> DEFINE IsAfter(f) == f = [i \in 0 .. Len(ss) |-> IF i = 0 THEN {NoPages}
                                  ELSE {AddToPage(x, ss[i]) : x \in f[i - 1]}]
           after == CHOOSE f : IsAfter(f)
<1>0. h[0] = NoPages /\ \A i \in 1 .. n : h[i] = AddToPage(h[i - 1], ss[i])
  BY Zenon DEF PageTurns
<1>1. Cut(ss) = CHOOSE x \in after[Len(ss)] : TRUE
  BY Zenon DEF Iterate, Cut, AddToPage, NoPages
<1> DEFINE f0 == [i \in 0 .. Len(ss) |-> {h[i]}]
<1>2. IsAfter(f0)
  <2>1. ASSUME NEW i \in 0 .. Len(ss)
        PROVE  f0[i] = IF i = 0 THEN {NoPages}
                       ELSE {AddToPage(x, ss[i]) : x \in f0[i - 1]}
    <3>1. CASE i = 0
      BY <1>0, <3>1
    <3>2. CASE i # 0
      <4>1. i \in 1 .. n /\ i - 1 \in 0 .. Len(ss)
        BY <3>2
      <4>2. f0[i - 1] = {h[i - 1]} /\ f0[i] = {h[i]}
        BY <4>1
      <4>3. {AddToPage(x, ss[i]) : x \in f0[i - 1]} = {AddToPage(h[i - 1], ss[i])}
        BY <4>2, Zenon
      <4>4. h[i] = AddToPage(h[i - 1], ss[i])
        BY <1>0, <4>1, Zenon
      <4> HIDE DEF f0
      <4> QED
        BY <3>2, <4>2, <4>3, <4>4, Zenon
    <3> QED
      BY <3>1, <3>2
  <2> HIDE DEF f0
  <2>2. f0 = [i \in 0 .. Len(ss) |-> f0[i]]
    BY Zenon DEF f0
  <2> QED
    BY <2>1, <2>2, Zenon
<1> HIDE DEF IsAfter
<1>3. IsAfter(after)
  BY <1>2, Zenon
<1> HIDE DEF after
<1>4. Loop(after, h, n)
  <2>1. after = [i \in 0 .. Len(ss) |-> IF i = 0 THEN {NoPages}
                                ELSE {AddToPage(x, ss[i]) : x \in after[i - 1]}]
    BY <1>3, Zenon DEF IsAfter
  <2>2. DOMAIN after = 0 .. n /\ after[0] = {h[0]}
    BY <1>0, <2>1
  <2>3. ASSUME NEW i \in 1 .. n PROVE after[i] = {AddToPage(x, ss[i]) : x \in after[i - 1]}
    <3>1. i \in 0 .. Len(ss) /\ i # 0
      OBVIOUS
    <3> QED
      BY <2>1, <3>1, Zenon
  <2>4. ASSUME NEW i \in 1 .. n, after[i - 1] = {h[i - 1]} PROVE after[i] = {h[i]}
    <3>1. {AddToPage(x, ss[i]) : x \in after[i - 1]} = {AddToPage(h[i - 1], ss[i])}
      BY <2>4, Zenon
    <3> QED
      BY <1>0, <2>3, <3>1, Zenon
  <2> QED
    BY <2>2, <2>4 DEF Loop
<1> QED
  BY <1>1, <1>4, LoopEnds

\* The turns of a sum.
Plus(x, y) == x + y

Sums(h, ss, k) == h[0] = 0 /\ \A i \in 1 .. k : h[i] = Plus(h[i - 1], ss[i])

LEMMA SumsExist ==
    ASSUME NEW ss, NEW n \in Nat PROVE \E h : Sums(h, ss, n)
<1> DEFINE P == {k \in 0 .. n : \E h : Sums(h, ss, k)}
<1>1. 0 \in P
  <2>1. Sums([j \in {0} |-> 0], ss, 0)
    BY DEF Sums
  <2> QED
    BY <2>1
<1>2. ASSUME NEW k \in 1 .. n, k - 1 \in P PROVE k \in P
  <2>1. PICK h : Sums(h, ss, k - 1)
    BY <1>2
  <2> DEFINE x == Plus(h[k - 1], ss[k])
  <2> HIDE DEF x
  <2> DEFINE g == [j \in 0 .. k |-> IF j = k THEN x ELSE h[j]]
  <2>2. g[0] = 0
    BY <2>1 DEF Sums
  <2>3. ASSUME NEW i \in 1 .. k PROVE g[i] = Plus(g[i - 1], ss[i])
    <3>1. i - 1 \in 0 .. k /\ i - 1 # k /\ i \in 0 .. k
      OBVIOUS
    <3>2. g[i - 1] = h[i - 1]
      BY <3>1
    <3>3. CASE i = k
      <4>1. g[i] = x
        BY <3>1, <3>3
      <4> HIDE DEF g
      <4> QED
        BY <3>2, <3>3, <4>1, Zenon DEF x
    <3>4. CASE i # k
      <4>1. i \in 1 .. k - 1 /\ g[i] = h[i]
        BY <3>1, <3>4
      <4>2. h[i] = Plus(h[i - 1], ss[i])
        BY <2>1, <4>1, Zenon DEF Sums
      <4> HIDE DEF g
      <4> QED
        BY <3>2, <4>1, <4>2, Zenon
    <3> QED
      BY <3>3, <3>4, Zenon
  <2> HIDE DEF g
  <2>4. Sums(g, ss, k)
    BY <2>2, <2>3, Zenon DEF Sums
  <2> QED
    BY <2>4
<1>3. n \in 0 .. n
  OBVIOUS
<1> HIDE DEF P
<1>4. n \in P
  BY <1>1, <1>2, <1>3, TurnByTurn
<1> QED
  BY <1>4, Zenon DEF P

LEMMA SumsEnd ==
    ASSUME NEW ss, NEW n \in Nat, n = Len(ss), NEW h, Sums(h, ss, n)
    PROVE  Total(ss) = h[n]
<1> DEFINE IsAfter(f) == f = [i \in 0 .. Len(ss) |-> IF i = 0 THEN {0}
                                  ELSE {Plus(x, ss[i]) : x \in f[i - 1]}]
           after == CHOOSE f : IsAfter(f)
<1>0. h[0] = 0 /\ \A i \in 1 .. n : h[i] = Plus(h[i - 1], ss[i])
  BY Zenon DEF Sums
<1>1. Total(ss) = CHOOSE x \in after[Len(ss)] : TRUE
  BY Zenon DEF Iterate, Total, Plus
<1> DEFINE f0 == [i \in 0 .. Len(ss) |-> {h[i]}]
<1>2. IsAfter(f0)
  <2>1. ASSUME NEW i \in 0 .. Len(ss)
        PROVE  f0[i] = IF i = 0 THEN {0}
                       ELSE {Plus(x, ss[i]) : x \in f0[i - 1]}
    <3>1. CASE i = 0
      BY <1>0, <3>1
    <3>2. CASE i # 0
      <4>1. i \in 1 .. n /\ i - 1 \in 0 .. Len(ss)
        BY <3>2
      <4>2. f0[i - 1] = {h[i - 1]} /\ f0[i] = {h[i]}
        BY <4>1
      <4>3. {Plus(x, ss[i]) : x \in f0[i - 1]} = {Plus(h[i - 1], ss[i])}
        BY <4>2, Zenon
      <4>4. h[i] = Plus(h[i - 1], ss[i])
        BY <1>0, <4>1, Zenon
      <4> HIDE DEF f0
      <4> QED
        BY <3>2, <4>2, <4>3, <4>4, Zenon
    <3> QED
      BY <3>1, <3>2
  <2> HIDE DEF f0
  <2>2. f0 = [i \in 0 .. Len(ss) |-> f0[i]]
    BY Zenon DEF f0
  <2> QED
    BY <2>1, <2>2, Zenon
<1> HIDE DEF IsAfter
<1>3. IsAfter(after)
  BY <1>2, Zenon
<1> HIDE DEF after
<1>4. Loop(after, h, n)
  <2>1. after = [i \in 0 .. Len(ss) |-> IF i = 0 THEN {0}
                                ELSE {Plus(x, ss[i]) : x \in after[i - 1]}]
    BY <1>3, Zenon DEF IsAfter
  <2>2. DOMAIN after = 0 .. n /\ after[0] = {h[0]}
    BY <1>0, <2>1
  <2>3. ASSUME NEW i \in 1 .. n PROVE after[i] = {Plus(x, ss[i]) : x \in after[i - 1]}
    <3>1. i \in 0 .. Len(ss) /\ i # 0
      OBVIOUS
    <3> QED
      BY <2>1, <3>1, Zenon
  <2>4. ASSUME NEW i \in 1 .. n, after[i - 1] = {h[i - 1]} PROVE after[i] = {h[i]}
    <3>1. {Plus(x, ss[i]) : x \in after[i - 1]} = {Plus(h[i - 1], ss[i])}
      BY <2>4, Zenon
    <3> QED
      BY <1>0, <2>3, <3>1, Zenon
  <2> QED
    BY <2>2, <2>4 DEF Loop
<1> QED
  BY <1>1, <1>4, LoopEnds

\* A longer sequence.
LEMMA AppendedIs ==
    ASSUME NEW s, IsSequence(s), NEW x
    PROVE  /\ IsSequence(Append(s, x)) /\ Len(Append(s, x)) = Len(s) + 1
           /\ Append(s, x)[Len(s) + 1] = x /\ \A i \in 1 .. Len(s) : Append(s, x)[i] = s[i]
<1>1. s \in Seq(ToSet(s)) /\ Len(s) \in Nat
  BY SequenceTyped, Zenon
<1>2. IsSequence(Append(s, x)) /\ Len(Append(s, x)) = Len(s) + 1
  BY AppendSequence, Zenon
<1> DEFINE S == ToSet(s)
<1>3. s \in Seq(S)
  BY <1>1
<1> HIDE DEF S
<1>4. Append(s, x)[Len(s) + 1] = x /\ \A i \in 1 .. Len(s) : Append(s, x)[i] = s[i]
  BY <1>3
<1> QED
  BY <1>2, <1>4, Zenon

GoodStrings(s) ==
    IsSequence(s) /\ \A i \in 1 .. Len(s) : IsText(s[i]) /\ Upper(s[i].len) = 0

\* What writeZipList puts one after the other, readZipListEntry takes apart.
LEMMA ZipCellsAre ==
    ASSUME NEW s, GoodStrings(s)
    PROVE  /\ IsSequence(ZipCells(s)) /\ Len(ZipCells(s)) = Len(s)
           /\ \A i \in 1 .. Len(s) : ZipEntryIs(s[i], readZipListEntry(ZipCells(s)[i]))
<1> DEFINE n == Len(s)
           Good(c, j) == ZipSize(c[j]) \in Nat /\ ZipEntryIs(s[j], readZipListEntry(c[j]))
<1>1. n \in Nat /\ \A i \in 1 .. n : IsText(s[i]) /\ Upper(s[i].len) = 0
  BY SequenceTyped, Zenon DEF GoodStrings
<1>2. n = Len(s)
  OBVIOUS
<1> HIDE DEF n
<1>3. PICK h : CellTurns(h, s, n)
  BY <1>1, CellTurnsExist, Zenon
<1>4. ZipCells(s) = h[n]
  BY <1>1, <1>2, <1>3, CellTurnsEnd, Zenon
<1> DEFINE P == {k \in 0 .. n : /\ IsSequence(h[k]) /\ Len(h[k]) = k
                                /\ \A j \in 1 .. k : Good(h[k], j)}
<1>5. 0 \in P
  <2>1. h[0] = << >>
    BY <1>3, Zenon DEF CellTurns
  <2>2. IsSequence(h[0]) /\ Len(h[0]) = 0
    BY <2>1 DEF IsSequence
  <2>3. 0 \in 0 .. n /\ \A j \in 1 .. 0 : FALSE
    BY <1>1
  <2> QED
    BY <2>2, <2>3, Zenon
<1>6. ASSUME NEW i \in 1 .. n, i - 1 \in P PROVE i \in P
  <2> DEFINE k == i - 1
             c == h[k]
             prev == IF c = << >> THEN 0 ELSE ZipSize(Last(c))
             x == encodeZipListEntry(prev, s[i])
  <2>1. k \in 0 .. n /\ k \in Nat /\ k + 1 = i /\ i \in 0 .. n
    BY <1>1
  <2>2. IsSequence(c) /\ Len(c) = k /\ \A j \in 1 .. k : Good(c, j)
    BY <1>6, Zenon
  <2>3. h[i] = Append(c, x)
    BY <1>3, Zenon DEF CellTurns, AddCell
  <2>4. prev \in Nat
    <3>1. CASE c = << >>
      BY <3>1
    <3>2. CASE c # << >>
      <4>1. k \in 1 .. k
        <5>1. c \in Seq(ToSet(c))
          BY <2>2, SequenceTyped, Zenon
        <5> HIDE DEF c, k
        <5>2. Len(c) # 0
          BY <3>2, <5>1
        <5> QED
          BY <2>1, <2>2, <5>2
      <4>2. ZipSize(c[k]) \in Nat
        BY <2>2, <4>1, Zenon
      <4> QED
        BY <2>2, <3>2, <4>2, Zenon DEF Last
    <3> QED
      BY <3>1, <3>2
  <2> HIDE DEF prev
  <2>5. ZipSize(x) \in Nat /\ ZipEntryIs(s[i], readZipListEntry(x))
    BY <1>1, <2>4, ZipEntryReads, Zenon
  <2> HIDE DEF x, c
  <2>60. IsSequence(c) /\ Len(c) = k
    BY <2>2, Zenon
  <2>6. /\ IsSequence(Append(c, x)) /\ Len(Append(c, x)) = k + 1
        /\ Append(c, x)[k + 1] = x /\ \A j \in 1 .. k : Append(c, x)[j] = c[j]
    <3> HIDE DEF Good, k
    <3>0. IsSequence(c)
      BY <2>60
    <3>1. /\ IsSequence(Append(c, x)) /\ Len(Append(c, x)) = Len(c) + 1
          /\ Append(c, x)[Len(c) + 1] = x /\ \A j \in 1 .. Len(c) : Append(c, x)[j] = c[j]
      BY ONLY <3>0, AppendedIs
    <3> QED
      BY <2>60, <3>1, Zenon
  <2>7. \A j \in 1 .. i : j \in 1 .. k \/ j = i
    BY <2>1
  <2>8. ASSUME NEW j \in 1 .. i PROVE Good(Append(c, x), j)
    <3>1. CASE j \in 1 .. k
      <4>1. Append(c, x)[j] = c[j] /\ Good(c, j)
        BY <2>2, <2>6, <3>1, Zenon
      <4> QED
        BY <4>1, Zenon
    <3>2. CASE j = i
      BY <2>1, <2>5, <2>6, <3>2, Zenon
    <3> QED
      BY <2>7, <3>1, <3>2, Zenon
  <2> HIDE DEF Good, k
  <2> QED
    BY <2>1, <2>3, <2>6, <2>8, Zenon
<1>7. n \in P
  <2> HIDE DEF P
  <2>1. \A i \in 0 .. n : i \in P
    BY <1>1, <1>5, <1>6, TurnByTurn
  <2>2. n \in 0 .. n
    BY <1>1
  <2> QED
    BY <2>1, <2>2, Zenon
<1> QED
  BY <1>2, <1>4, <1>7, Zenon

\* The lengths of strings one after another.
Lens(s) == [i \in 1 .. Len(s) |-> s[i].len]

LEMMA LensAre ==
    ASSUME NEW s, GoodStrings(s)
    PROVE  /\ Len(s) \in Nat /\ Len(Lens(s)) = Len(s)
           /\ \A i \in 1 .. Len(s) : Lens(s)[i] = s[i].len /\ s[i].len \in Nat
<1>1. Len(s) \in Nat /\ \A i \in 1 .. Len(s) : s[i].len \in Nat
  BY SequenceTyped, Zenon DEF GoodStrings, IsText
<1> DEFINE n == Len(s)
           g == [i \in 1 .. n |-> s[i].len]
<1>2. n \in Nat
  BY <1>1
<1> HIDE DEF n
<1>3. Len(g) = n /\ \A i \in 1 .. n : g[i] = s[i].len
  BY <1>2
<1> HIDE DEF g
<1> QED
  BY <1>1, <1>3, Zenon DEF Lens, g, n

\* Sums over the first strings never fall.
LEMMA SumsGrow ==
    ASSUME NEW s, GoodStrings(s), NEW h, Sums(h, Lens(s), Len(s))
    PROVE  /\ \A i \in 0 .. Len(s) : h[i] \in Nat
           /\ \A i \in 1 .. Len(s) : h[i] = h[i - 1] + s[i].len
           /\ \A i, j \in 0 .. Len(s) : i <= j => h[i] <= h[j]
<1> DEFINE n == Len(s)
           N == {i \in 0 .. n : h[i] \in Nat}
<1>1. n \in Nat /\ \A i \in 1 .. n : Lens(s)[i] = s[i].len /\ s[i].len \in Nat
  BY LensAre, Zenon
<1>2. h[0] = 0 /\ \A i \in 1 .. n : h[i] = h[i - 1] + s[i].len
  BY <1>1, Zenon DEF Sums, Plus
<1> HIDE DEF n
<1>3. \A i \in 0 .. n : i \in N
  <2>1. 0 \in N
    BY <1>1, <1>2
  <2>2. ASSUME NEW i \in 1 .. n, i - 1 \in N PROVE i \in N
    <3> DEFINE a == h[i - 1]
               l == s[i].len
    <3>1. a \in Nat /\ l \in Nat /\ h[i] = a + l
      BY <1>1, <1>2, <2>2, Zenon
    <3> HIDE DEF a, l
    <3>2. h[i] \in Nat /\ i \in 0 .. n
      BY <1>1, <3>1
    <3> QED
      BY <3>2
  <2> HIDE DEF N
  <2> QED
    BY <1>1, <2>1, <2>2, TurnByTurn
<1>4. \A i \in 0 .. n : h[i] \in Nat
  BY <1>3
<1>5. ASSUME NEW i \in 0 .. n PROVE \A j \in 0 .. n : i <= j => h[i] <= h[j]
  <2> DEFINE P == {j \in 0 .. n : i <= j => h[i] <= h[j]}
  <2>1. 0 \in P
    <3>1. i <= 0 => i = 0
      BY <1>1
    <3>2. 0 \in 0 .. n /\ h[0] <= h[0]
      BY <1>1, <1>2
    <3> QED
      BY <3>1, <3>2, Zenon
  <2>2. ASSUME NEW j \in 1 .. n, j - 1 \in P PROVE j \in P
    <3> DEFINE a == h[j - 1]
               l == s[j].len
               b == h[i]
    <3>1. j \in 0 .. n /\ j - 1 \in 0 .. n /\ (i <= j => i = j \/ i <= j - 1)
      BY <1>1
    <3>2. a \in Nat /\ l \in Nat /\ b \in Nat /\ h[j] = a + l /\ (i <= j - 1 => b <= a)
      BY <1>1, <1>2, <1>4, <2>2, <3>1, Zenon
    <3> HIDE DEF a, l
    <3>3. i <= j - 1 => b <= h[j]
      <4> HIDE DEF b
      <4> QED
        BY <3>2
    <3>4. i = j => b <= h[j]
      <4>1. i = j => h[j] = b
        OBVIOUS
      <4> HIDE DEF b
      <4> QED
        BY <3>2, <4>1
    <3>5. i <= j => h[i] <= h[j]
      BY <3>1, <3>3, <3>4, Zenon
    <3> QED
      BY <3>1, <3>5, Zenon
  <2> HIDE DEF P
  <2>3. \A j \in 0 .. n : j \in P
    BY <1>1, <2>1, <2>2, TurnByTurn
  <2> QED
    BY <2>3 DEF P
<1> QED
  BY <1>2, <1>4, <1>5, Zenon DEF n

LEMMA SumLenIs ==
    ASSUME NEW s, GoodStrings(s), NEW h, Sums(h, Lens(s), Len(s))
    PROVE  SumLen(s) = h[Len(s)]
<1>1. Len(s) \in Nat /\ Len(Lens(s)) = Len(s)
  BY LensAre, Zenon
<1>2. Total(Lens(s)) = h[Len(s)]
  BY <1>1, SumsEnd, Zenon
<1> QED
  BY <1>2, Zenon DEF SumLen, Lens

\* A part of a sequence.
Some(v, a, c) == [i \in 1 .. c - a |-> v[a + i]]

LEMMA SomeIs ==
    ASSUME NEW v, GoodStrings(v), NEW a \in Nat, NEW c \in Nat, a <= c, c <= Len(v)
    PROVE  /\ GoodStrings(Some(v, a, c)) /\ Len(Some(v, a, c)) = c - a
           /\ \A i \in 1 .. c - a : Some(v, a, c)[i] = v[a + i]
           /\ Some(v, a, c) \in Seq(ToSet(v))
<1> DEFINE s == Some(v, a, c)
           w == c - a
           S == ToSet(v)
<1>1. w \in Nat /\ (\A i \in 1 .. w : a + i \in 1 .. Len(v))
  BY SequenceTyped DEF GoodStrings
<1>2. s = [i \in 1 .. w |-> v[a + i]] /\ \A i \in 1 .. w : s[i] = v[a + i]
  BY Zenon DEF Some
<1>3. \A i \in 1 .. w : v[a + i] \in S /\ IsText(v[a + i]) /\ Upper(v[a + i].len) = 0
  BY <1>1, SequenceTyped, Zenon DEF GoodStrings
<1> HIDE DEF s, S, w
<1>4. s = [i \in 1 .. w |-> s[i]]
  BY <1>2, Zenon
<1>5. IsSequence(s) /\ Len(s) = w
  BY <1>1, <1>4, FunctionTyped, Zenon
<1>6. s \in Seq(S)
  <2>1. w \in Nat /\ \A i \in 1 .. w : s[i] \in S
    BY <1>1, <1>2, <1>3, Zenon
  <2>2. s \in [1 .. w -> S]
    BY ONLY <1>4, <2>1
  <2> QED
    BY ONLY <2>1, <2>2
<1>7. GoodStrings(s)
  BY <1>2, <1>3, <1>5, Zenon DEF GoodStrings
<1> QED
  BY <1>2, <1>5, <1>6, <1>7, Zenon DEF s, w, S

\* A longer part is not smaller.
LEMMA SumLenGrows ==
    ASSUME NEW v, GoodStrings(v), NEW a \in Nat, NEW c \in Nat, NEW d \in Nat,
           a <= c, c <= d, d <= Len(v)
    PROVE  /\ SumLen(Some(v, a, c)) \in Nat /\ SumLen(Some(v, a, d)) \in Nat
           /\ SumLen(Some(v, a, c)) <= SumLen(Some(v, a, d))
           /\ d = c + 1 => SumLen(Some(v, a, d)) = SumLen(Some(v, a, c)) + v[d].len
<1> DEFINE s == Some(v, a, c)
           t == Some(v, a, d)
           k == c - a
           n == d - a
<1>1. Len(v) \in Nat
  BY SequenceTyped, Zenon DEF GoodStrings
<1>2. /\ k \in Nat /\ n \in Nat /\ k \in 0 .. n /\ n \in 0 .. n /\ k <= n
      /\ (\A i \in 1 .. k : i \in 1 .. n) /\ (d = c + 1 => n = k + 1 /\ a + n = d /\ n \in 1 .. n)
      /\ (n = k + 1 => n - 1 = k) /\ c <= Len(v) /\ a <= d
  BY <1>1
<1>3. GoodStrings(s) /\ Len(s) = k /\ \A i \in 1 .. k : s[i] = v[a + i]
  <2>1. GoodStrings(v) /\ a \in Nat /\ c \in Nat /\ a <= c /\ c <= Len(v)
    BY <1>2, Zenon
  <2> QED
    BY ONLY <2>1, SomeIs
<1>4. GoodStrings(t) /\ Len(t) = n /\ \A i \in 1 .. n : t[i] = v[a + i]
  <2>1. GoodStrings(v) /\ a \in Nat /\ d \in Nat /\ a <= d /\ d <= Len(v)
    BY <1>2, Zenon
  <2> QED
    BY ONLY <2>1, SomeIs
<1> HIDE DEF s, t, k, n
<1>5. PICK h : Sums(h, Lens(t), n)
  BY <1>2, SumsExist, Zenon
<1>6. /\ \A i \in 1 .. k : Lens(s)[i] = s[i].len
      /\ \A i \in 1 .. n : Lens(t)[i] = t[i].len
  BY <1>3, <1>4, LensAre, Zenon
<1>7. ASSUME NEW i \in 1 .. k PROVE Lens(s)[i] = Lens(t)[i]
  <2>1. i \in 1 .. n
    BY <1>2, Zenon
  <2>2. s[i] = v[a + i] /\ t[i] = v[a + i]
    BY <1>3, <1>4, <2>1, Zenon
  <2>3. Lens(s)[i] = s[i].len /\ Lens(t)[i] = t[i].len
    BY <1>6, <2>1, Zenon
  <2> QED
    BY <2>2, <2>3, Zenon
<1>8. Sums(h, Lens(s), k)
  BY <1>2, <1>5, <1>7, Zenon DEF Sums
<1>9. SumLen(t) = h[n] /\ SumLen(s) = h[k]
  BY <1>3, <1>4, <1>5, <1>8, SumLenIs, Zenon
<1>10. /\ \A i \in 0 .. n : h[i] \in Nat
       /\ \A i \in 1 .. n : h[i] = h[i - 1] + t[i].len
       /\ \A i, j \in 0 .. n : i <= j => h[i] <= h[j]
  BY <1>4, <1>5, SumsGrow, Zenon
<1>11. ASSUME d = c + 1 PROVE h[n] = h[k] + v[d].len
  <2>1. h[n] = h[n - 1] + t[n].len /\ t[n] = v[a + n] /\ n - 1 = k /\ a + n = d
    BY <1>2, <1>4, <1>10, <1>11, Zenon
  <2> QED
    BY <2>1, Zenon
<1> QED
  BY <1>2, <1>9, <1>10, <1>11, Zenon DEF s, t

\* One more value.
LEMMA SomeMore ==
    ASSUME NEW v, NEW a \in Nat, NEW k \in Nat, a <= k
    PROVE  Append(Some(v, a, k), v[k + 1]) = Some(v, a, k + 1)
<1> DEFINE w == k - a
           g == [i \in 1 .. w + 1 |-> v[a + i]]
<1>1. w \in Nat /\ w + 1 \in 1 .. w + 1 /\ a + (w + 1) = k + 1 /\ (k + 1) - a = w + 1
      /\ \A i \in 1 .. w : i \in 1 .. w + 1
  OBVIOUS
<1>2. g[w + 1] = v[a + (w + 1)] /\ \A i \in 1 .. w : g[i] = v[a + i]
  BY <1>1, Zenon
<1>3. [i \in 1 .. w + 1 |-> g[i]] = g
  BY Zenon
<1>4. g = Some(v, a, k + 1)
  <2>1. Some(v, a, k + 1) = [i \in 1 .. (k + 1) - a |-> v[a + i]]
    BY Zenon DEF Some
  <2> QED
    BY <1>1, <2>1, Zenon
<1> HIDE DEF g
<1>5. [i \in 1 .. w |-> g[i]] = Some(v, a, k)
  <2>1. [i \in 1 .. w |-> g[i]] = [i \in 1 .. w |-> v[a + i]]
    BY <1>2, Zenon
  <2> QED
    BY <2>1, Zenon DEF Some
<1> HIDE DEF w
<1>6. Append([i \in 1 .. w |-> g[i]], g[w + 1]) = [i \in 1 .. w + 1 |-> g[i]]
  BY <1>1, AppendNext, Zenon
<1>7. g[w + 1] = v[k + 1]
  BY <1>1, <1>2, Zenon
<1> QED
  BY <1>3, <1>4, <1>5, <1>6, <1>7, Zenon

LEMMA SomeNone ==
    ASSUME NEW v, NEW a \in Nat
    PROVE  Some(v, a, a) = << >> /\ SumLen(<< >>) = 0
<1>1. Some(v, a, a) = << >>
  BY DEF Some
<1>2. GoodStrings(<< >>) /\ Len(<< >>) = 0
  BY DEF GoodStrings, IsSequence
<1>3. PICK h : Sums(h, Lens(<< >>), 0)
  BY SumsExist
<1>4. SumLen(<< >>) = h[0]
  BY <1>2, <1>3, SumLenIs, Zenon
<1> QED
  BY <1>1, <1>3, <1>4, Zenon DEF Sums

LEMMA ConcatAppend ==
    ASSUME NEW S, NEW ss \in Seq(Seq(S)), NEW s \in Seq(S)
    PROVE  /\ Concat(Append(ss, s)) = Concat(ss) \o s
           /\ Append(ss, s) \in Seq(Seq(S)) /\ Len(Append(ss, s)) = Len(ss) + 1
           /\ Append(ss, s)[Len(ss) + 1] = s
           /\ \A i \in 1 .. Len(ss) : Append(ss, s)[i] = ss[i]
<1> DEFINE Z == Seq(S)
           n == Len(ss)
           t == Append(ss, s)
<1>1. ss \in Seq(Z) /\ s \in Z
  OBVIOUS
<1>2. n \in Nat /\ t \in Seq(Z) /\ Len(t) = n + 1 /\ t[n + 1] = s
      /\ \A i \in 1 .. n : t[i] = ss[i]
  <2> HIDE DEF Z
  <2> QED
    BY <1>1, AppendProperties
<1> HIDE DEF t
<1>3. SubSeq(t, 1, n + 1) = t
  <2> DEFINE b == SubSeq(t, 1, n + 1)
  <2>1. \A i \in 1 .. n + 1 : t[i] \in Z
    <3> HIDE DEF Z, n
    <3> QED
      BY <1>2, ElementOfSeq
  <2>2. b \in Seq(Z) /\ Len(b) = n + 1 /\ \A i \in 1 .. n + 1 : b[i] = t[i]
    <3>1. 1 \in Int /\ n + 1 \in Int /\ n + 1 \in Nat
      BY <1>2
    <3> HIDE DEF Z, n
    <3> QED
      BY <1>2, <2>1, <3>1, SubSeqProperties
  <2> HIDE DEF b, Z, n
  <2>3. b = t
    BY <1>2, <2>2, SeqEqual
  <2> QED
    BY <2>3, Zenon DEF b
<1>4. SubSeq(t, 1, n) = ss
  <2> DEFINE b == SubSeq(t, 1, n)
  <2>1. \A i \in 1 .. n : t[i] \in Z
    <3>1. \A i \in 1 .. n : ss[i] \in Z
      <4> HIDE DEF Z
      <4> QED
        BY <1>1, ElementOfSeq
    <3> QED
      BY <1>2, <3>1, Zenon
  <2>2. b \in Seq(Z) /\ Len(b) = n /\ \A i \in 1 .. n : b[i] = t[i]
    <3> HIDE DEF Z, n
    <3> QED
      BY <1>2, <2>1, SubSeqProperties
  <2>3. Len(b) = Len(ss) /\ \A i \in 1 .. Len(b) : b[i] = ss[i]
    BY <1>2, <2>2, Zenon
  <2> HIDE DEF b, Z, n
  <2>4. b = ss
    BY <1>1, <2>2, <2>3, SeqEqual
  <2> QED
    BY <2>4, Zenon DEF b
<1>5. t \in Seq(Seq(S))
  BY <1>2
<1>6. n \in 0 .. Len(t) - 1
  BY <1>2
<1> HIDE DEF Z
<1>7. Concat(SubSeq(t, 1, n + 1)) = Concat(SubSeq(t, 1, n)) \o t[n + 1]
  BY <1>5, <1>6, ConcatLast
<1> QED
  BY <1>2, <1>3, <1>4, <1>5, <1>7, Zenon DEF t, n

\* A page that was closed by its last value.
IsPage(s, v, k) ==
    \E b, c \in 0 .. k :
        b < c /\ s = Some(v, b, c) /\ SumLen(Some(v, b, c - 1)) < PageSize

CutIs(p, v, k) ==
    /\ p = [done |-> p.done, open |-> p.open]
    /\ p.done \in Seq(Seq(ToSet(v)))
    /\ \A i \in 1 .. Len(p.done) : IsPage(p.done[i], v, k)
    /\ \E a \in 0 .. k :
          /\ Len(p.done) <= a /\ Concat(p.done) = SubSeq(v, 1, a)
          /\ p.open = Some(v, a, k) /\ SumLen(p.open) < PageSize

LEMMA CutBegins == ASSUME NEW v, GoodStrings(v) PROVE CutIs(NoPages, v, 0)
<1> DEFINE T == ToSet(v)
           p == NoPages
<1>1. p = [done |-> p.done, open |-> p.open] /\ p.done = << >> /\ p.open = << >>
  BY DEF NoPages
<1> HIDE DEF p
<1>2. << >> \in Seq(Seq(T)) /\ Len(<< >>) = 0
  BY EmptySeq
<1>3. Concat(<< >>) = << >> /\ SubSeq(v, 1, 0) = << >>
  BY ConcatNone, FrontAll, Zenon DEF GoodStrings
<1>4. Some(v, 0, 0) = << >> /\ SumLen(<< >>) = 0
  BY SomeNone
<1>5. 0 < PageSize
  BY ListAssumption
<1>6. \A i \in 1 .. 0 : FALSE
  OBVIOUS
<1>7. 0 \in 0 .. 0 /\ 0 <= 0
  OBVIOUS
<1>8. \A i \in 1 .. Len(p.done) : IsPage(p.done[i], v, 0)
  BY <1>1, <1>2, <1>6, Zenon
<1>9. Len(p.done) <= 0 /\ Concat(p.done) = SubSeq(v, 1, 0)
  BY <1>1, <1>2, <1>3, <1>7, Zenon
<1>10. p.open = Some(v, 0, 0) /\ SumLen(p.open) < PageSize
  BY <1>1, <1>4, <1>5
<1>11. p.done \in Seq(Seq(ToSet(v)))
  BY <1>1, <1>2, Zenon
<1>12. CutIs(p, v, 0)
  BY <1>1, <1>7, <1>8, <1>9, <1>10, <1>11, Zenon DEF CutIs
<1> QED
  BY <1>12, Zenon DEF p

LEMMA CutGoesOn ==
    ASSUME NEW v, GoodStrings(v), NEW k \in Nat, k + 1 <= Len(v), NEW p, CutIs(p, v, k)
    PROVE  CutIs(AddToPage(p, v[k + 1]), v, k + 1)
<1> DEFINE T == ToSet(v)
           d == p.done
           o == p.open
           x == v[k + 1]
           t == Append(o, x)
           j == k + 1
<1>1. p = [done |-> d, open |-> o] /\ d \in Seq(Seq(T))
  BY Zenon DEF CutIs
<1>2. \A i \in 1 .. Len(d) : IsPage(d[i], v, k)
  BY Zenon DEF CutIs
<1>3. PICK a \in 0 .. k : /\ Len(d) <= a /\ Concat(d) = SubSeq(v, 1, a)
                          /\ o = Some(v, a, k) /\ SumLen(o) < PageSize
  BY Zenon DEF CutIs
<1>4. /\ a \in Nat /\ j \in Nat /\ a <= k /\ k <= j /\ j <= Len(v) /\ a <= j /\ k <= Len(v)
      /\ j = k + 1 /\ j \in 0 .. j /\ a \in 0 .. j /\ a < j /\ j - 1 = k /\ j - a \in Nat
      /\ a + (j - a) = j /\ a + 1 <= j
  <2>1. Len(v) \in Nat
    BY SequenceTyped, Zenon DEF GoodStrings
  <2> QED
    BY <2>1
<1> HIDE DEF j
<1>5. t = Some(v, a, j)
  <2>1. Append(Some(v, a, k), v[k + 1]) = Some(v, a, k + 1)
    BY <1>4, SomeMore, Zenon
  <2> QED
    BY <1>3, <1>4, <2>1, Zenon
<1>6. /\ SumLen(Some(v, a, j)) = SumLen(Some(v, a, k)) + v[j].len
      /\ SumLen(Some(v, a, j)) \in Nat
  <2>1. /\ GoodStrings(v) /\ a \in Nat /\ k \in Nat /\ j \in Nat
        /\ a <= k /\ k <= j /\ j <= Len(v) /\ j = k + 1
    BY <1>4, Zenon
  <2>2. /\ SumLen(Some(v, a, j)) \in Nat
        /\ j = k + 1 => SumLen(Some(v, a, j)) = SumLen(Some(v, a, k)) + v[j].len
    BY ONLY <2>1, SumLenGrows, ZenonT(120)
  <2> QED
    BY <2>1, <2>2, Zenon
<1>7. SumLen(t) = SumLen(o) + x.len /\ SumLen(t) \in Nat
  BY <1>3, <1>4, <1>5, <1>6, Zenon
<1>8. t \in Seq(T) /\ t = [i \in 1 .. j - a |-> v[a + i]]
  <2>1. Some(v, a, j) \in Seq(ToSet(v))
    BY <1>4, SomeIs, Zenon
  <2> QED
    BY <1>5, <2>1, Zenon DEF Some
<1>9. \A s : IsPage(s, v, k) => IsPage(s, v, j)
  <2>1. \A b \in 0 .. k : b \in 0 .. j
    BY <1>4
  <2> QED
    BY <2>1, Zenon DEF IsPage
<1>10. PageSize \in Nat /\ 0 < PageSize
  BY ListAssumption
<1>11. Len(d) \in Nat
  <2> DEFINE Z == Seq(T)
  <2>1. d \in Seq(Z)
    BY <1>1
  <2> HIDE DEF Z
  <2> QED
    BY <2>1
<1> HIDE DEF d, o, x, t, T
<1>12. CASE SumLen(o) + x.len >= PageSize
  <2> DEFINE e == Append(d, t)
             q == [done |-> e, open |-> << >>]
  <2>1. AddToPage(p, x) = q
    BY <1>12, Zenon DEF AddToPage, d, o, t
  <2>2. /\ Concat(e) = Concat(d) \o t /\ e \in Seq(Seq(T)) /\ Len(e) = Len(d) + 1
        /\ e[Len(d) + 1] = t /\ \A i \in 1 .. Len(d) : e[i] = d[i]
    <3>1. d \in Seq(Seq(T)) /\ t \in Seq(T)
      BY <1>1, <1>8, Zenon
    <3>2. /\ Concat(Append(d, t)) = Concat(d) \o t
          /\ Append(d, t) \in Seq(Seq(T)) /\ Len(Append(d, t)) = Len(d) + 1
          /\ Append(d, t)[Len(d) + 1] = t
          /\ \A i \in 1 .. Len(d) : Append(d, t)[i] = d[i]
      BY ONLY <3>1, ConcatAppend
    <3> QED
      BY <3>2, Zenon
  <2>3. SubSeq(v, 1, a) \o t = SubSeq(v, 1, j)
    <3>1. SubSeq(v, 1, a) \o t = SubSeq(v, 1, a + (j - a))
      <4> DEFINE w == j - a
      <4>1. /\ IsSequence(v) /\ a \in Nat /\ w \in Nat /\ a + w <= Len(v)
            /\ t = [i \in 1 .. w |-> v[a + i]]
        BY <1>4, <1>8, Zenon DEF GoodStrings
      <4> HIDE DEF w
      <4>2. SubSeq(v, 1, a) \o t = SubSeq(v, 1, a + w)
        BY ONLY <4>1, FrontGoesOn, Zenon
      <4> QED
        BY <4>2, Zenon DEF w
    <3> QED
      BY <1>4, <3>1, Zenon
  <2> HIDE DEF e
  <2>4. q = [done |-> q.done, open |-> q.open] /\ q.done = e /\ q.open = << >>
    OBVIOUS
  <2> HIDE DEF q
  <2>5. IsPage(t, v, j)
    <3>1. SumLen(Some(v, a, j - 1)) < PageSize
      BY <1>3, <1>4, Zenon
    <3> QED
      BY <1>4, <1>5, <3>1, Zenon DEF IsPage
  <2>6. \A i \in 1 .. Len(e) : IsPage(e[i], v, j)
    <3>1. \A i \in 1 .. Len(e) : i \in 1 .. Len(d) \/ i = Len(d) + 1
      BY <1>11, <2>2
    <3> QED
      BY <1>2, <1>9, <2>2, <2>5, <3>1, Zenon
  <2>7. Len(e) <= j
    <3> HIDE DEF GoodStrings
    <3>1. Len(e) = Len(d) + 1 /\ Len(d) <= a /\ Len(d) \in Nat
      BY <1>3, <1>11, <2>2, Zenon
    <3> QED
      BY <1>4, <3>1
  <2>8. Some(v, j, j) = << >> /\ SumLen(<< >>) = 0
    BY <1>4, SomeNone, Zenon
  <2>9. SumLen(<< >>) < PageSize
    BY <1>10, <2>8
  <2>10. Concat(e) = SubSeq(v, 1, j)
    BY <1>3, <2>2, <2>3, Zenon
  <2>11. e \in Seq(Seq(ToSet(v)))
    BY <2>2, Zenon DEF T
  <2>12. CutIs(q, v, j)
    BY <1>4, <2>4, <2>6, <2>7, <2>8, <2>9, <2>10, <2>11, Zenon DEF CutIs
  <2> QED
    BY <2>1, <2>12, Zenon DEF x, j
<1>13. CASE ~(SumLen(o) + x.len >= PageSize)
  <2> DEFINE q == [done |-> d, open |-> t]
  <2>1. AddToPage(p, x) = q
    <3>1. AddToPage(p, x) = [p EXCEPT !.open = t]
      BY <1>13, Zenon DEF AddToPage, o, t
    <3>2. [p EXCEPT !.open = t] = q
      BY <1>1
    <3> QED
      BY <3>1, <3>2, Zenon
  <2>2. q = [done |-> q.done, open |-> q.open] /\ q.done = d /\ q.open = t
    OBVIOUS
  <2> HIDE DEF q
  <2>3. SumLen(t) < PageSize
    BY <1>7, <1>10, <1>13
  <2>4. \A i \in 1 .. Len(d) : IsPage(d[i], v, j)
    BY <1>2, <1>9, Zenon
  <2>5. d \in Seq(Seq(ToSet(v)))
    BY <1>1, Zenon DEF T
  <2>6. CutIs(q, v, j)
    BY <1>3, <1>4, <1>5, <2>2, <2>3, <2>4, <2>5, Zenon DEF CutIs
  <2> QED
    BY <2>1, <2>6, Zenon DEF x, j
<1> QED
  BY <1>12, <1>13, Zenon

LEMMA CutAll == ASSUME NEW v, GoodStrings(v) PROVE CutIs(Cut(v), v, Len(v))
<1> DEFINE n == Len(v)
<1>1. n \in Nat /\ n \in 0 .. n
  BY SequenceTyped DEF GoodStrings
<1>2. PICK h : PageTurns(h, v, n)
  BY <1>1, PageTurnsExist, Zenon
<1>3. Cut(v) = h[n]
  BY <1>1, <1>2, PageTurnsEnd, Zenon
<1> DEFINE P == {k \in 0 .. n : CutIs(h[k], v, k)}
<1>4. 0 \in P
  <2>1. h[0] = NoPages
    BY <1>2, Zenon DEF PageTurns
  <2>2. 0 \in 0 .. n
    BY <1>1
  <2> QED
    BY <2>1, <2>2, CutBegins, Zenon
<1>5. ASSUME NEW i \in 1 .. n, i - 1 \in P PROVE i \in P
  <2> DEFINE k == i - 1
             p == h[k]
  <2>1. k \in Nat /\ k + 1 = i /\ k + 1 <= Len(v) /\ i \in 0 .. n
    BY <1>1
  <2>2. CutIs(p, v, k)
    BY <1>5, Zenon
  <2>3. h[i] = AddToPage(p, v[i])
    BY <1>2, Zenon DEF PageTurns
  <2> HIDE DEF k, p
  <2>4. CutIs(AddToPage(p, v[k + 1]), v, k + 1)
    BY <2>1, <2>2, CutGoesOn, Zenon
  <2> QED
    BY <2>1, <2>3, <2>4, Zenon
<1>6. n \in P
  <2> HIDE DEF P, n
  <2>1. \A i \in 0 .. n : i \in P
    BY <1>1, <1>4, <1>5, TurnByTurn
  <2> QED
    BY <1>1, <2>1, Zenon
<1> QED
  BY <1>3, <1>6, Zenon

\* The pages of writeQuickList: together they are the list, and each is a part
\* of it that was open before its last value came.
LEMMA PagesAre ==
    ASSUME NEW v, GoodStrings(v)
    PROVE  /\ Pages(v) \in Seq(Seq(ToSet(v))) /\ Concat(Pages(v)) = v
           /\ Len(Pages(v)) <= Len(v)
           /\ \A i \in 1 .. Len(Pages(v)) : IsPage(Pages(v)[i], v, Len(v))
<1> DEFINE T == ToSet(v)
           n == Len(v)
           p == Cut(v)
           d == p.done
           o == p.open
           e == Append(d, o)
<1>1. n \in Nat /\ n \in 0 .. n
  BY SequenceTyped DEF GoodStrings
<1>2. CutIs(p, v, n)
  BY CutAll, Zenon
<1>3. d \in Seq(Seq(T)) /\ \A i \in 1 .. Len(d) : IsPage(d[i], v, n)
  BY <1>2, Zenon DEF CutIs
<1>4. PICK a \in 0 .. n : /\ Len(d) <= a /\ Concat(d) = SubSeq(v, 1, a)
                          /\ o = Some(v, a, n) /\ SumLen(o) < PageSize
  BY <1>2, Zenon DEF CutIs
<1>5. Pages(v) = IF o = << >> THEN d ELSE e
  BY Zenon DEF Pages
<1>6. Len(d) \in Nat
  <2> DEFINE Z == Seq(T)
  <2>1. d \in Seq(Z)
    BY <1>3
  <2> HIDE DEF Z, d
  <2> QED
    BY <2>1
<1>7. n = Len(v) /\ a \in Nat /\ a <= n /\ n - a \in Nat /\ a + (n - a) <= n /\ a + (n - a) = n
      /\ a \in 0 .. n
  BY <1>1
<1>8. o \in Seq(T) /\ Len(o) = n - a /\ o = [i \in 1 .. n - a |-> v[a + i]]
  <2>1. Some(v, a, n) \in Seq(ToSet(v)) /\ Len(Some(v, a, n)) = n - a
    <3>1. n \in Nat /\ n <= Len(v) /\ a \in Nat /\ a <= n
      BY <1>1, <1>7
    <3> HIDE DEF n
    <3> QED
      BY <3>1, SomeIs, Zenon
  <2> QED
    BY <1>4, <2>1, Zenon DEF Some
<1>9. SubSeq(v, 1, a) \o o = v /\ SubSeq(v, 1, n) = v
  <2> DEFINE w == n - a
  <2>1. /\ IsSequence(v) /\ a \in Nat /\ w \in Nat /\ a + w <= Len(v)
        /\ o = [i \in 1 .. w |-> v[a + i]]
    BY <1>7, <1>8, Zenon DEF GoodStrings
  <2> HIDE DEF w, o
  <2>2. SubSeq(v, 1, a) \o o = SubSeq(v, 1, a + w)
    BY ONLY <2>1, FrontGoesOn, Zenon
  <2>3. SubSeq(v, 1, Len(v)) = v
    BY <2>1, FrontAll, Zenon
  <2> QED
    BY <1>7, <2>2, <2>3, Zenon DEF w
<1> HIDE DEF T, n, p, d, o, e
<1>10. CASE o = << >>
  <2>1. Len(o) = 0
    BY <1>10
  <2>2. a = n
    BY <1>1, <1>7, <1>8, <2>1
  <2>3. Concat(d) = v /\ Len(d) <= n
    BY <1>4, <1>9, <2>2, Zenon
  <2>4. Pages(v) = d
    BY <1>5, <1>10, Zenon
  <2> QED
    BY <1>3, <2>3, <2>4, Zenon DEF T, n
<1>11. CASE o # << >>
  <2>1. Len(o) # 0
    BY <1>8, <1>11
  <2>2. a < n /\ n - 1 \in Nat /\ a <= n - 1 /\ n - 1 <= n /\ n <= Len(v) /\ n \in Nat
    BY <1>1, <1>7, <1>8, <2>1
  <2>3. Pages(v) = e
    BY <1>5, <1>11, Zenon
  <2>4. /\ Concat(e) = Concat(d) \o o /\ e \in Seq(Seq(T)) /\ Len(e) = Len(d) + 1
        /\ e[Len(d) + 1] = o /\ \A i \in 1 .. Len(d) : e[i] = d[i]
    <3>1. d \in Seq(Seq(T)) /\ o \in Seq(T)
      BY <1>3, <1>8, Zenon
    <3>2. /\ Concat(Append(d, o)) = Concat(d) \o o
          /\ Append(d, o) \in Seq(Seq(T)) /\ Len(Append(d, o)) = Len(d) + 1
          /\ Append(d, o)[Len(d) + 1] = o
          /\ \A i \in 1 .. Len(d) : Append(d, o)[i] = d[i]
      BY ONLY <3>1, ConcatAppend
    <3> QED
      BY <3>2, Zenon DEF e
  <2>5. IsPage(o, v, n)
    <3> DEFINE m == n - 1
               x == SumLen(Some(v, a, m))
               y == SumLen(Some(v, a, n))
    <3>1. /\ GoodStrings(v) /\ a \in Nat /\ m \in Nat /\ n \in Nat
          /\ a <= m /\ m <= n /\ n <= Len(v)
      BY <1>7, <2>2, Zenon
    <3> HIDE DEF m
    <3>2. x \in Nat /\ y \in Nat /\ x <= y
      BY ONLY <3>1, SumLenGrows, Zenon
    <3>3. y < PageSize
      BY <1>4, Zenon
    <3> HIDE DEF x, y
    <3>4. x < PageSize
      BY <3>2, <3>3, ListAssumption
    <3>5. SumLen(Some(v, a, n - 1)) < PageSize
      BY <3>4, Zenon DEF x, m
    <3> QED
      BY <1>1, <1>4, <1>7, <2>2, <3>5, Zenon DEF IsPage
  <2>6. \A i \in 1 .. Len(e) : IsPage(e[i], v, n)
    <3>1. \A i \in 1 .. Len(e) : i \in 1 .. Len(d) \/ i = Len(d) + 1
      BY <1>6, <2>4
    <3> QED
      BY <1>3, <2>4, <2>5, <3>1, Zenon
  <2>7. Len(e) <= n
    <3>1. Len(e) = Len(d) + 1 /\ Len(d) <= a
      BY <1>4, <2>4, Zenon
    <3> QED
      BY <1>1, <1>6, <1>7, <2>2, <3>1
  <2>8. Concat(e) = v
    BY <1>4, <1>9, <2>4, Zenon
  <2> QED
    BY <2>3, <2>4, <2>6, <2>7, <2>8, Zenon DEF T, n
<1> QED
  BY <1>10, <1>11, Zenon

\* A page that cannot be counted comes of many short values together.
ShortRun(v) ==
    \E i \in 1 .. Len(v) - CountMod + 1 :
        SumLen(SubSeq(v, i, i + CountMod - 2)) < PageSize

LEMMA PageCounted ==
    ASSUME NEW v, GoodStrings(v), NEW s, IsPage(s, v, Len(v)), Len(s) >= CountMod
    PROVE  ShortRun(v)
<1> DEFINE n == Len(v)
           M == CountMod
           T == ToSet(v)
<1>1. /\ n \in Nat /\ M \in Nat /\ M > 0 /\ v \in Seq(T) /\ PageSize \in Nat
      /\ \A i \in 1 .. n : v[i] \in T
  BY CountModAssumption, ListAssumption, SequenceTyped DEF GoodStrings
<1>2. PICK b \in 0 .. n : \E c \in 0 .. n :
          b < c /\ s = Some(v, b, c) /\ SumLen(Some(v, b, c - 1)) < PageSize
  BY Zenon DEF IsPage
<1>3. PICK c \in 0 .. n : b < c /\ s = Some(v, b, c) /\ SumLen(Some(v, b, c - 1)) < PageSize
  BY <1>2, Zenon
<1>4. Len(s) = c - b
  <2>1. b \in Nat /\ c \in Nat /\ b <= c /\ c <= Len(v)
    BY <1>1, <1>3
  <2> QED
    BY <1>3, <2>1, SomeIs, Zenon
<1> DEFINE m == b + M - 1
           i0 == b + 1
           e == c - 1
<1>5. /\ b \in Nat /\ m \in Nat /\ e \in Nat /\ b <= m /\ m <= e /\ e <= Len(v) /\ m <= Len(v)
      /\ i0 \in 1 .. Len(v) - CountMod + 1 /\ i0 + CountMod - 2 = m
  BY <1>1, <1>3, <1>4
<1> HIDE DEF m, e, i0
<1>6. /\ SumLen(Some(v, b, m)) \in Nat /\ SumLen(Some(v, b, e)) \in Nat
      /\ SumLen(Some(v, b, m)) <= SumLen(Some(v, b, e))
  BY ONLY <1>5, GoodStrings(v), SumLenGrows, Zenon
<1>7. SubSeq(v, i0, m) = Some(v, b, m)
  <2> DEFINE x == SubSeq(v, i0, m)
             y == Some(v, b, m)
             w == m - b
  <2>1. /\ i0 \in Int /\ m \in Int /\ (\A i \in i0 .. m : v[i] \in T)
        /\ w \in Nat /\ m - i0 + 1 = w /\ (i0 <= m => m - i0 + 1 = w)
        /\ (~(i0 <= m) => w = 0) /\ \A i \in 1 .. w : i0 + i - 1 = b + i
    BY <1>1, <1>5 DEF i0
  <2>2. /\ x \in Seq(T) /\ Len(x) = w /\ \A i \in 1 .. w : x[i] = v[b + i]
    <3>1. /\ SubSeq(v, i0, m) \in Seq(T)
          /\ Len(SubSeq(v, i0, m)) = IF i0 <= m THEN m - i0 + 1 ELSE 0
          /\ \A i \in 1 .. m - i0 + 1 : SubSeq(v, i0, m)[i] = v[i0 + i - 1]
      BY <1>1, <2>1, SubSeqProperties
    <3> HIDE DEF w
    <3>2. x \in Seq(T) /\ Len(x) = w /\ \A i \in 1 .. w : x[i] = v[i0 + i - 1]
      BY <2>1, <3>1, Zenon
    <3> QED
      BY <2>1, <3>2, Zenon
  <2>3. /\ y \in Seq(T) /\ Len(y) = w /\ \A i \in 1 .. w : y[i] = v[b + i]
    BY <1>5, SomeIs
  <2> HIDE DEF x, y, w, T
  <2>4. x = y
    BY <2>1, <2>2, <2>3, SeqEqual
  <2> QED
    BY <2>4, Zenon DEF x, y
<1>8. SumLen(SubSeq(v, i0, i0 + CountMod - 2)) < PageSize
  <2> DEFINE x == SumLen(Some(v, b, m))
             y == SumLen(Some(v, b, e))
  <2>1. x \in Nat /\ y \in Nat /\ x <= y /\ y < PageSize
    BY <1>3, <1>6, Zenon DEF e
  <2>2. SumLen(SubSeq(v, i0, i0 + CountMod - 2)) = x
    BY <1>5, <1>7, Zenon
  <2> HIDE DEF x, y
  <2>3. x < PageSize
    BY <1>1, <2>1
  <2> QED
    BY <2>2, <2>3
<1> QED
  BY <1>5, <1>8, Zenon DEF ShortRun

LEMMA Products ==
    \A m, p \in Nat : m * p \in Nat /\ m * (p + 1) = m * p + m /\ m * 0 = 0
<1>1. \A m, p \in Nat : m * p \in Nat
  BY SMT
<1>2. \A m, p \in Nat : m * (p + 1) = m * p + m /\ m * 0 = 0
  BY SMT
<1> QED
  BY <1>1, <1>2, Zenon

LEMMA Modulo ==
    ASSUME NEW n \in Nat, NEW m \in Nat \ {0}
    PROVE  n % m \in 0 .. n /\ n % m < m /\ (n < m => n % m = n)
<1> DEFINE r == n % m
           q == n \div m
<1>1. r \in 0 .. m - 1
  OBVIOUS
<1>2. n = m * q + r /\ q \in Int
  OBVIOUS
<1> HIDE DEF r, q
<1>3. q \in Nat
  BY <1>1, <1>2
<1> DEFINE x == m * q
           p == q - 1
<1>4. x \in Nat /\ n = x + r
  BY <1>2, <1>3, Products, Zenon
<1>5. q = 0 => x = 0
  BY Products, <1>3, Zenon
<1>6. q # 0 => x >= m
  <2>1. SUFFICES ASSUME q # 0 PROVE x >= m
    OBVIOUS
  <2>2. p \in Nat /\ p + 1 = q
    BY <1>3, <2>1
  <2> HIDE DEF p
  <2>3. x = m * p + m /\ m * p \in Nat
    <3>1. m * (p + 1) = m * p + m /\ m * p \in Nat
      BY <2>2, Products, Zenon
    <3> QED
      BY <2>2, <3>1, Zenon
  <2> DEFINE y == m * p
  <2>4. x = y + m /\ y \in Nat
    BY <2>3, Zenon
  <2> HIDE DEF x, y
  <2> QED
    BY <2>4
<1> HIDE DEF x
<1>7. r <= n
  BY <1>1, <1>4
<1>8. n < m => r = n
  BY <1>1, <1>4, <1>5, <1>6
<1> QED
  BY <1>1, <1>7, <1>8 DEF r

-----------------------------------------------------------------------------
(***************************************************************************)
(* The pages of a list, a hash or a sorted set, one ziplist entry after    *)
(* the other.                                                              *)
(***************************************************************************)
ZipItems(pp) == [i \in 1 .. Len(pp) |-> writeZipList(pp[i])]

GoodPages(pp, T) == pp \in Seq(Seq(T)) /\ \A i \in 1 .. Len(pp) : GoodStrings(pp[i])

\* No page has more entries than it can count.
Exact(pp) == \A i \in 1 .. Len(pp) : Len(pp[i]) < CountMod

AllShort(g) == IsSequence(g) /\ \A i \in 1 .. Len(g) : ~TooLong(g[i])
LongPart(pp) == \E i \in 1 .. Len(pp) : \E l \in 1 .. Len(pp[i]) : TooLong(pp[i][l])

Counted(s) == Len(s) % CountMod

\* k entries of page j have been read.
PageAt(pp, j, k) ==
    /\ reader.left = Counted(pp[j]) - k
    /\ IsRest(reader.page, ZipCells(pp[j]), k)
    /\ Exact(pp) => got = Concat(SubSeq(pp, 1, j - 1)) \o SubSeq(pp[j], 1, k)

PagesAt(pp, j) ==
    /\ reader.todo = Len(pp) - j
    /\ IsRest(file, ZipItems(pp), j)
    /\ AllShort(got)
    /\ j = 0 => reader.left = 0 /\ got = << >>
    /\ j # 0 => \E k \in 0 .. Counted(pp[j]) : PageAt(pp, j, k)

PagesRead(pp) == \E j \in 0 .. Len(pp) : PagesAt(pp, j)

PageLocals == {"form", "todo", "left", "page"}

LEMMA PageDomain ==
    PageLocals \subseteq DOMAIN Locals /\ Locals.todo = 0 /\ Locals.left = 0
BY DEF PageLocals, Locals

LEMMA PagesTyped ==
    ASSUME NEW T, NEW pp, GoodPages(pp, T)
    PROVE  /\ Len(pp) \in Nat /\ IsSequence(ZipItems(pp)) /\ Len(ZipItems(pp)) = Len(pp)
           /\ \A i \in 1 .. Len(pp) :
                 /\ GoodStrings(pp[i]) /\ pp[i] \in Seq(T) /\ Len(pp[i]) \in Nat
                 /\ Counted(pp[i]) \in 0 .. Len(pp[i])
                 /\ Len(pp[i]) < CountMod => Counted(pp[i]) = Len(pp[i])
                 /\ IsSequence(ZipCells(pp[i])) /\ Len(ZipCells(pp[i])) = Len(pp[i])
                 /\ \A l \in 1 .. Len(pp[i]) :
                       ZipEntryIs(pp[i][l], readZipListEntry(ZipCells(pp[i])[l]))
                 /\ ZipItems(pp)[i].p = "page" /\ ZipItems(pp)[i].count = Counted(pp[i])
                 /\ ZipItems(pp)[i].cells = ZipCells(pp[i])
<1> DEFINE n == Len(pp)
           s == ZipItems(pp)
           Z == Seq(T)
<1>1. pp \in Seq(Z)
  BY DEF GoodPages
<1> HIDE DEF Z
<1>2. n \in Nat /\ \A i \in 1 .. n : pp[i] \in Z
  BY <1>1, ElementOfSeq
<1>3. s = [i \in 1 .. n |-> writeZipList(pp[i])]
  BY Zenon DEF ZipItems
<1> HIDE DEF n, s
<1>4. s = [i \in 1 .. n |-> s[i]] /\ \A i \in 1 .. n : s[i] = writeZipList(pp[i])
  BY <1>3, Zenon
<1>5. IsSequence(s) /\ Len(s) = n
  BY <1>2, <1>4, FunctionTyped, Zenon
<1>6. ASSUME NEW i \in 1 .. n
      PROVE  /\ GoodStrings(pp[i]) /\ pp[i] \in Seq(T) /\ Len(pp[i]) \in Nat
             /\ Counted(pp[i]) \in 0 .. Len(pp[i])
             /\ Len(pp[i]) < CountMod => Counted(pp[i]) = Len(pp[i])
             /\ IsSequence(ZipCells(pp[i])) /\ Len(ZipCells(pp[i])) = Len(pp[i])
             /\ \A l \in 1 .. Len(pp[i]) :
                   ZipEntryIs(pp[i][l], readZipListEntry(ZipCells(pp[i])[l]))
             /\ s[i].p = "page" /\ s[i].count = Counted(pp[i]) /\ s[i].cells = ZipCells(pp[i])
  <2>1. GoodStrings(pp[i]) /\ pp[i] \in Seq(T)
    BY <1>2, Zenon DEF GoodPages, n, Z
  <2>2. Len(pp[i]) \in Nat
    BY <2>1, SequenceTyped, Zenon DEF GoodStrings
  <2>3. /\ Counted(pp[i]) \in 0 .. Len(pp[i])
        /\ Len(pp[i]) < CountMod => Counted(pp[i]) = Len(pp[i])
    BY <2>2, CountModAssumption, Modulo, Zenon DEF Counted
  <2>4. /\ IsSequence(ZipCells(pp[i])) /\ Len(ZipCells(pp[i])) = Len(pp[i])
        /\ \A l \in 1 .. Len(pp[i]) :
              ZipEntryIs(pp[i][l], readZipListEntry(ZipCells(pp[i])[l]))
    BY <2>1, ZipCellsAre, Zenon
  <2>5. s[i] = Page(Counted(pp[i]), ZipCells(pp[i]))
    BY <1>4, Zenon DEF writeZipList, Counted
  <2>6. s[i].p = "page" /\ s[i].count = Counted(pp[i]) /\ s[i].cells = ZipCells(pp[i])
    BY <2>5, PageFields
  <2> QED
    BY <2>1, <2>2, <2>3, <2>4, <2>6, Zenon
<1> QED
  BY <1>2, <1>5, <1>6, Zenon DEF n, s

\* At the end of a page got is what was in the pages so far.
LEMMA PageEnds ==
    ASSUME NEW T, NEW pp, GoodPages(pp, T), NEW j \in 0 .. Len(pp), PagesAt(pp, j),
           ~(reader.left > 0), Exact(pp)
    PROVE  got = Concat(SubSeq(pp, 1, j))
<1>1. CASE j = 0
  <2>1. got = << >>
    BY <1>1, Zenon DEF PagesAt
  <2>2. SubSeq(pp, 1, 0) = << >>
    <3> DEFINE Z == Seq(T)
    <3>1. pp \in Seq(Z)
      BY DEF GoodPages
    <3> HIDE DEF Z
    <3> QED
      BY <3>1
  <2> QED
    BY <1>1, <2>1, <2>2, ConcatNone, Zenon
<1>2. CASE j # 0
  <2> DEFINE s == pp[j]
             i == j - 1
             m == Counted(s)
             left == reader.left
  <2>1. j \in 1 .. Len(pp) /\ i \in 0 .. Len(pp) - 1 /\ i + 1 = j
    <3>1. Len(pp) \in Nat
      BY PagesTyped, Zenon
    <3> QED
      BY <1>2, <3>1
  <2>2. /\ GoodStrings(s) /\ Len(s) \in Nat /\ m \in 0 .. Len(s)
        /\ Len(s) < CountMod => m = Len(s)
    <3>1. j \in 1 .. Len(pp)
      BY <2>1
    <3>2. GoodStrings(pp[j]) /\ Len(pp[j]) \in Nat
      BY <3>1, PagesTyped, Zenon
    <3>3. /\ Counted(pp[j]) \in 0 .. Len(pp[j])
          /\ Len(pp[j]) < CountMod => Counted(pp[j]) = Len(pp[j])
      BY <3>2, CountModAssumption, Modulo, Zenon DEF Counted
    <3> QED
      BY <3>2, <3>3, Zenon
  <2>3. PICK k \in 0 .. m : PageAt(pp, j, k)
    BY <1>2, Zenon DEF PagesAt
  <2>4. left = m - k /\ got = Concat(SubSeq(pp, 1, i)) \o SubSeq(s, 1, k)
    BY <2>3, Zenon DEF PageAt
  <2>5. m = Len(s)
    BY <2>1, <2>2, Zenon DEF Exact
  <2>6. ~(left > 0)
    OBVIOUS
  <2> HIDE DEF left, m, i
  <2>7. k = Len(s)
    BY <2>2, <2>4, <2>5, <2>6
  <2>8. SubSeq(s, 1, Len(s)) = s
    BY <2>2, FrontAll, Zenon DEF GoodStrings
  <2>9. Concat(SubSeq(pp, 1, i + 1)) = Concat(SubSeq(pp, 1, i)) \o pp[i + 1]
    BY <2>1, ConcatLast DEF GoodPages
  <2> QED
    BY <2>1, <2>4, <2>7, <2>8, <2>9, Zenon
<1> QED
  BY <1>1, <1>2

LEMMA PagesOpen ==
    ASSUME NEW T, NEW pp, GoodPages(pp, T), DOMAIN reader = DOMAIN Locals, PagesRead(pp),
           OpenPage
    PROVE  phase' = "read" /\ reader'.form = reader.form /\ PagesRead(pp)'
<1>1. PICK j \in 0 .. Len(pp) : PagesAt(pp, j)
  BY Zenon DEF PagesRead
<1> DEFINE n == Len(pp)
           i == j + 1
           s == ZipItems(pp)
           todo == reader.todo
           q == pp[i]
<1>2. todo = n - j /\ IsRest(file, s, j) /\ AllShort(got)
  BY <1>1, Zenon DEF PagesAt
<1>3. phase = "read" /\ todo > 0 /\ ~(reader.left > 0)
  BY Zenon DEF OpenPage, InPage
<1>4. Len(s) = n /\ n \in Nat
  BY PagesTyped, Zenon
<1> HIDE DEF n, s, todo
<1>5. i \in 0 .. n /\ i \in 1 .. n /\ j + 1 <= n /\ i # 0 /\ i - 1 = j /\ j \in Nat
  BY <1>2, <1>3, <1>4 DEF n
<1> HIDE DEF i
<1>6. IsRest(Tail(file), s, i) /\ file[1] = s[i]
  <2>1. Len(s) \in Nat /\ j \in Nat /\ IsRest(file, s, j) /\ j + 1 <= Len(s)
    BY <1>2, <1>4, <1>5, Zenon
  <2>2. IsRest(Tail(file), s, j + 1) /\ file[1] = s[j + 1]
    BY ONLY <2>1, RestTail
  <2> QED
    BY <2>2, Zenon DEF i
<1>7. /\ GoodStrings(q) /\ q \in Seq(T) /\ Counted(q) \in 0 .. Len(q)
      /\ IsSequence(ZipCells(q)) /\ s[i].count = Counted(q) /\ s[i].cells = ZipCells(q)
  BY <1>5, PagesTyped DEF n, s
<1>8. /\ reader' = [reader EXCEPT !.todo = @ - 1, !.left = Counted(q), !.page = ZipCells(q)]
      /\ file' = Tail(file) /\ phase' = phase /\ got' = got
  BY <1>6, <1>7, Zenon DEF OpenPage
<1>9. /\ reader'.todo = todo - 1 /\ reader'.left = Counted(q) /\ reader'.page = ZipCells(q)
      /\ reader'.form = reader.form
  <2> DEFINE c == Counted(q)
             z == ZipCells(q)
  <2>1. reader' = [reader EXCEPT !.todo = @ - 1, !.left = c, !.page = z]
    BY <1>8, Zenon
  <2> HIDE DEF c, z
  <2>2. /\ reader'.todo = reader.todo - 1 /\ reader'.left = c /\ reader'.page = z
        /\ reader'.form = reader.form
    BY <2>1, PageDomain DEF PageLocals
  <2> QED
    BY <2>2, Zenon DEF c, z, todo
<1>10. reader'.todo = n - i
  BY <1>2, <1>4, <1>9 DEF i
<1>11. 0 \in 0 .. Counted(q) /\ Counted(q) = Counted(q) - 0
  <2> DEFINE c == Counted(q)
             l == Len(q)
  <2>1. c \in 0 .. l
    BY <1>7, Zenon
  <2> HIDE DEF c, l
  <2>2. 0 \in 0 .. c /\ c = c - 0
    BY <2>1
  <2> QED
    BY <2>2, Zenon DEF c
<1>12. IsRest(ZipCells(q), ZipCells(q), 0)
  BY <1>7, RestBegins, Zenon
<1>13. ASSUME Exact(pp) PROVE got' = Concat(SubSeq(pp, 1, i - 1)) \o SubSeq(q, 1, 0)
  <2>1. got = Concat(SubSeq(pp, 1, j))
    BY <1>1, <1>3, <1>13, PageEnds, Zenon
  <2>2. SubSeq(q, 1, 0) = << >>
    BY <1>7, FrontAll, Zenon DEF GoodStrings
  <2>3. got \in Seq(ToSet(got))
    BY <1>2, Zenon DEF AllShort, IsSequence
  <2>4. got \o << >> = got
    <3> DEFINE G == ToSet(got)
    <3>1. got \in Seq(G)
      BY <2>3
    <3> HIDE DEF G
    <3> QED
      BY <3>1
  <2> QED
    BY <1>5, <1>8, <2>1, <2>2, <2>4, Zenon
<1>14. PageAt(pp, i, 0)'
  BY <1>9, <1>11, <1>12, <1>13, Zenon DEF PageAt
<1>15. PagesAt(pp, i)'
  BY <1>2, <1>5, <1>6, <1>8, <1>10, <1>11, <1>14, Zenon DEF PagesAt, n, s
<1> QED
  BY <1>3, <1>5, <1>8, <1>9, <1>15, Zenon DEF PagesRead, n

LEMMA PageTurn ==
    ASSUME NEW T, NEW pp, GoodPages(pp, T), DOMAIN reader = DOMAIN Locals, PagesRead(pp),
           phase = "read", InPage, TakeEntry(readZipListEntry(reader.page[1]))
    PROVE  /\ reader'.form = reader.form
           /\ \/ phase' = "read" /\ PagesRead(pp)'
              \/ phase' = "lost" /\ LongPart(pp)
<1>1. PICK j \in 0 .. Len(pp) : PagesAt(pp, j)
  BY Zenon DEF PagesRead
<1> DEFINE n == Len(pp)
           s == pp[j]
           m == Counted(s)
           left == reader.left
           t == reader.page
           cells == ZipCells(s)
           e == readZipListEntry(t[1])
<1>2. left > 0 /\ TakeEntry(e)
  BY Zenon DEF InPage
<1>3. j # 0
  <2>1. j = 0 => left = 0
    BY <1>1, Zenon DEF PagesAt
  <2> QED
    BY <1>2, <2>1
<1>4. PICK k \in 0 .. m : PageAt(pp, j, k)
  BY <1>1, <1>3, Zenon DEF PagesAt
<1>5. /\ left = m - k /\ IsRest(t, cells, k)
      /\ Exact(pp) => got = Concat(SubSeq(pp, 1, j - 1)) \o SubSeq(s, 1, k)
  BY <1>4, Zenon DEF PageAt
<1>6. j \in 1 .. n /\ n \in Nat
  BY <1>3, PagesTyped
<1>7. /\ GoodStrings(s) /\ s \in Seq(T) /\ Len(s) \in Nat /\ m \in 0 .. Len(s)
      /\ Len(cells) = Len(s)
      /\ \A l \in 1 .. Len(s) : ZipEntryIs(s[l], readZipListEntry(cells[l]))
  <2>1. GoodStrings(pp[j]) /\ pp[j] \in Seq(T) /\ Len(pp[j]) \in Nat
    BY <1>6, PagesTyped, Zenon
  <2>2. Counted(pp[j]) \in 0 .. Len(pp[j])
    BY <2>1, CountModAssumption, Modulo, Zenon DEF Counted
  <2>3. /\ Len(ZipCells(pp[j])) = Len(pp[j])
        /\ \A l \in 1 .. Len(pp[j]) : ZipEntryIs(pp[j][l], readZipListEntry(ZipCells(pp[j])[l]))
    BY <2>1, ZipCellsAre, Zenon
  <2> QED
    BY <2>1, <2>2, <2>3, Zenon
<1> DEFINE i == k + 1
           x == s[i]
<1>8. IF e.is = "str"
      THEN /\ got' = Append(got, e.str) /\ phase' = phase /\ file' = file
           /\ reader' = [reader EXCEPT !.left = left - 1, !.page = Tail(t)]
      ELSE reader' = reader /\ phase' = IF e.is = "error" THEN "refused" ELSE "lost"
  <2> HIDE DEF e
  <2> QED
    BY <1>2 DEF TakeEntry, End
<1> HIDE DEF s, n, m, left, cells, t
<1>9. /\ k \in Nat /\ i \in Nat /\ i = k + 1 /\ i \in 1 .. Len(s) /\ i \in 0 .. m /\ i <= Len(s)
      /\ left - 1 = m - i
  BY <1>2, <1>5, <1>7
<1>10. IsRest(Tail(t), cells, i) /\ t[1] = cells[i]
  <2>1. Len(cells) \in Nat /\ k \in Nat /\ IsRest(t, cells, k) /\ k + 1 <= Len(cells)
    BY <1>5, <1>7, <1>9, Zenon
  <2>2. IsRest(Tail(t), cells, k + 1) /\ t[1] = cells[k + 1]
    BY ONLY <2>1, RestTail
  <2> QED
    BY <2>2, Zenon
<1> HIDE DEF i
<1>11. ZipEntryIs(x, e)
  BY <1>7, <1>9, <1>10, Zenon
<1>12. AllShort(got) /\ reader.todo = n - j /\ IsRest(file, ZipItems(pp), j)
  BY <1>1, Zenon DEF PagesAt, n
<1> HIDE DEF e, x
<1>13. CASE TooLong(x)
  <2>1. e.is = "lost"
    BY <1>11, <1>13, Zenon DEF ZipEntryIs
  <2>2. phase' = "lost" /\ reader' = reader
    BY <1>8, <2>1
  <2>3. LongPart(pp)
    BY <1>6, <1>9, <1>13, Zenon DEF LongPart, x, s, n
  <2> QED
    BY <2>2, <2>3, Zenon
<1>14. CASE ~TooLong(x)
  <2>1. e.is = "str" /\ e.str = x
    BY <1>11, <1>14, Zenon DEF ZipEntryIs
  <2>2. /\ got' = Append(got, x) /\ phase' = "read" /\ file' = file
        /\ reader' = [reader EXCEPT !.left = left - 1, !.page = Tail(t)]
    BY <1>8, <2>1, Zenon
  <2>3. /\ reader'.left = left - 1 /\ reader'.page = Tail(t)
        /\ reader'.todo = reader.todo /\ reader'.form = reader.form
    <3> DEFINE l == left - 1
               p == Tail(t)
    <3>1. reader' = [reader EXCEPT !.left = l, !.page = p]
      BY <2>2, Zenon
    <3> HIDE DEF l, p
    <3>2. /\ reader'.left = l /\ reader'.page = p
          /\ reader'.todo = reader.todo /\ reader'.form = reader.form
      BY <3>1, PageDomain DEF PageLocals
    <3> QED
      BY <3>2, Zenon DEF l, p
  <2>4. AllShort(got')
    <3>1. IsSequence(got) /\ \A a \in 1 .. Len(got) : ~TooLong(got[a])
      BY <1>12, Zenon DEF AllShort
    <3>2. Len(got) \in Nat
      BY <3>1, SequenceTyped, Zenon
    <3>3. /\ IsSequence(Append(got, x)) /\ Len(Append(got, x)) = Len(got) + 1
          /\ Append(got, x)[Len(got) + 1] = x
          /\ \A a \in 1 .. Len(got) : Append(got, x)[a] = got[a]
      BY <3>1, AppendedIs
    <3>4. \A a \in 1 .. Len(got) + 1 : a \in 1 .. Len(got) \/ a = Len(got) + 1
      BY <3>2
    <3>5. ASSUME NEW a \in 1 .. Len(Append(got, x)) PROVE ~TooLong(Append(got, x)[a])
      <4>1. a \in 1 .. Len(got) + 1
        BY <3>3, Zenon
      <4>2. CASE a \in 1 .. Len(got)
        BY <3>1, <3>3, <4>2, Zenon
      <4>3. CASE a = Len(got) + 1
        BY <1>14, <3>3, <4>3, Zenon
      <4> QED
        BY <3>4, <4>1, <4>2, <4>3, Zenon
    <3> QED
      BY <2>2, <3>3, <3>5, Zenon DEF AllShort
  <2>5. ASSUME Exact(pp) PROVE got' = Concat(SubSeq(pp, 1, j - 1)) \o SubSeq(s, 1, i)
    <3> DEFINE c == Concat(SubSeq(pp, 1, j - 1))
               d == SubSeq(s, 1, k)
               y == <<x>>
    <3>1. got = c \o d
      BY <1>5, <2>5, Zenon
    <3>2. c \in Seq(T)
      <4> DEFINE Z == Seq(T)
                 f == SubSeq(pp, 1, j - 1)
      <4>1. pp \in Seq(Z)
        BY DEF GoodPages
      <4>2. f \in Seq(Z)
        <5> HIDE DEF Z
        <5>1. j - 1 \in Int /\ 1 \in Int /\ \A a \in 1 .. j - 1 : a \in 1 .. n
          BY <1>6
        <5>2. \A a \in 1 .. j - 1 : pp[a] \in Z
          BY <4>1, <5>1, ElementOfSeq DEF n
        <5> QED
          BY <4>1, <5>1, <5>2, SubSeqProperties
      <4> HIDE DEF f
      <4>3. f \in Seq(Seq(T))
        BY <4>2
      <4>4. Concat(f) \in Seq(T)
        BY <4>3, ConcatTyped
      <4> QED
        BY <4>4, Zenon DEF f
    <3>3. d \in Seq(T) /\ x \in T
      <4>1. \A a \in 1 .. k : a \in 1 .. Len(s)
        BY <1>7, <1>9
      <4>2. \A a \in 1 .. k : s[a] \in T
        BY <1>7, <4>1, ElementOfSeq
      <4>3. d \in Seq(T)
        <5>1. k \in Int /\ 1 \in Int
          BY <1>9
        <5> QED
          BY <1>7, <4>2, <5>1, SubSeqProperties
      <4>4. x \in T
        BY <1>7, <1>9, ElementOfSeq DEF x
      <4> QED
        BY <4>3, <4>4, Zenon
    <3>4. Append(d, x) = SubSeq(s, 1, i)
      <4>1. Append(SubSeq(s, 1, k), s[k + 1]) = SubSeq(s, 1, k + 1)
        BY <1>7, <1>9, FrontAppend, Zenon DEF GoodStrings
      <4> QED
        BY <1>9, <4>1, Zenon DEF x
    <3> HIDE DEF c, d
    <3>5. Append(d, x) = d \o y /\ Append(c \o d, x) = (c \o d) \o y /\ y \in Seq(T)
      <4>1. c \o d \in Seq(T)
        BY <3>2, <3>3, ConcatProperties
      <4>2. Append(d, x) = d \o <<x>>
        BY <3>3, AppendIsConcat
      <4>3. Append(c \o d, x) = (c \o d) \o <<x>>
        BY <3>3, <4>1, AppendIsConcat
      <4>4. y \in Seq(T)
        BY <3>3
      <4> QED
        BY <4>2, <4>3, <4>4, Zenon
    <3> HIDE DEF y
    <3>6. (c \o d) \o y = c \o (d \o y)
      BY ONLY <3>2, <3>3, <3>5, ConcatAssociative, SMTT(20)
    <3> QED
      BY <2>2, <3>1, <3>4, <3>5, <3>6, Zenon DEF c
  <2>6. PageAt(pp, j, i)'
    BY <1>9, <1>10, <2>3, <2>5, Zenon DEF PageAt, s, m, cells
  <2>7. PagesAt(pp, j)'
    BY <1>3, <1>9, <1>12, <2>2, <2>3, <2>4, <2>6, Zenon DEF PagesAt, n, m, s
  <2> QED
    BY <2>2, <2>3, <2>7, Zenon DEF PagesRead, n
<1> QED
  BY <1>13, <1>14, Zenon

LEMMA PagesEnd ==
    ASSUME NEW T, NEW pp, GoodPages(pp, T), PagesRead(pp), AllRead
    PROVE  AllShort(got) /\ (Exact(pp) => got = Concat(pp))
<1>1. PICK j \in 0 .. Len(pp) : PagesAt(pp, j)
  BY Zenon DEF PagesRead
<1> DEFINE n == Len(pp)
<1>2. reader.todo = n - j /\ AllShort(got)
  BY <1>1, Zenon DEF PagesAt
<1>3. reader.todo = 0 /\ ~(reader.left > 0)
  BY Zenon DEF AllRead, InPage
<1>4. n \in Nat
  BY PagesTyped, Zenon
<1>5. j = n
  <2> HIDE DEF n
  <2>1. j \in 0 .. n
    BY DEF n
  <2> QED
    BY <1>2, <1>3, <1>4, <2>1
<1>6. Exact(pp) => got = Concat(SubSeq(pp, 1, j))
  BY <1>1, <1>3, PageEnds, Zenon
<1>7. SubSeq(pp, 1, n) = pp
  <2> DEFINE Z == Seq(T)
             b == SubSeq(pp, 1, n)
  <2>1. pp \in Seq(Z)
    BY DEF GoodPages
  <2> HIDE DEF Z
  <2>2. \A i \in 1 .. n : pp[i] \in Z
    BY <2>1, ElementOfSeq
  <2> HIDE DEF n
  <2>3. b \in Seq(Z) /\ Len(b) = n /\ \A i \in 1 .. n : b[i] = pp[i]
    BY <1>4, <2>1, <2>2, SubSeqProperties
  <2> HIDE DEF b
  <2>4. b = pp
    BY <2>1, <2>3, SeqEqual DEF n
  <2> QED
    BY <2>4, Zenon DEF b
<1> QED
  BY <1>2, <1>5, <1>6, <1>7, Zenon

\* What writeList puts into pages.
ListPages(v) == IF FitsZipList(v) THEN << v >> ELSE Pages(v)

Wrapping(v) == IF FitsZipList(v) THEN Len(v) >= CountMod ELSE ShortRun(v)

LEMMA OnePageIs ==
    ASSUME NEW v, GoodStrings(v), NEW T, v \in Seq(T)
    PROVE  /\ GoodPages(<< v >>, T) /\ Concat(<< v >>) = v /\ Len(<< v >>) = 1
           /\ << v >>[1] = v /\ ZipItems(<< v >>) = <<writeZipList(v)>>
<1> DEFINE p == << v >>
<1>1. Len(p) = 1 /\ p[1] = v /\ p \in Seq(Seq(T)) /\ p # << >>
  OBVIOUS
<1>2. \A i \in 1 .. 1 : i = 1
  OBVIOUS
<1>3. \A i \in 1 .. Len(p) : GoodStrings(p[i])
  BY <1>1, <1>2, Zenon
<1>4. ZipItems(p) = <<writeZipList(v)>>
  <2> DEFINE w == writeZipList(v)
             f == [i \in 1 .. 1 |-> writeZipList(p[i])]
  <2>1. ZipItems(p) = f
    BY <1>1, Zenon DEF ZipItems
  <2>2. f = [i \in 1 .. 1 |-> w]
    BY <1>1, <1>2, Zenon
  <2> HIDE DEF w, f
  <2>3. [i \in 1 .. 1 |-> w] = <<w>>
    BY SMT
  <2> QED
    BY <2>1, <2>2, <2>3, Zenon DEF w
<1>5. Concat(p) = v
  <2>1. Concat(Append(<< >>, v)) = Concat(<< >>) \o v
    <3>1. << >> \in Seq(Seq(T)) /\ v \in Seq(T)
      BY EmptySeq
    <3> QED
      BY ONLY <3>1, ConcatAppend
  <2>2. Append(<< >>, v) = p
    OBVIOUS
  <2>3. << >> \o v = v
    OBVIOUS
  <2> QED
    BY <2>1, <2>2, <2>3, ConcatNone, Zenon
<1> QED
  BY <1>1, <1>3, <1>4, <1>5, Zenon DEF GoodPages

LEMMA ListPagesAre ==
    ASSUME NEW v, GoodStrings(v), IsInt64(Len(v))
    PROVE  LET pp == ListPages(v)
           IN /\ GoodPages(pp, ToSet(v)) /\ Concat(pp) = v /\ Len(pp) \in Int64s
              /\ LongPart(pp) => \E i \in 1 .. Len(v) : TooLong(v[i])
              /\ ~Wrapping(v) => Exact(pp)
<1> DEFINE n == Len(v)
           T == ToSet(v)
           pp == ListPages(v)
<1>1. n \in Nat /\ v \in Seq(T)
  BY SequenceTyped, Zenon DEF GoodStrings
<1>2. CASE FitsZipList(v)
  <2>1. pp = << v >>
    BY <1>2, Zenon DEF ListPages
  <2>2. GoodPages(pp, T) /\ Concat(pp) = v /\ Len(pp) = 1 /\ pp[1] = v
    BY <1>1, <2>1, OnePageIs, Zenon
  <2>3. Len(pp) \in Int64s
    <3>1. 1 \in Int64s
      <4>1. W4 \in Nat /\ W4 > 0
        BY DEF W1, W2, W3, W4
      <4>2. W8 = 256 * (256 * (256 * (256 * W4)))
        BY Zenon DEF W5, W6, W7, W8
      <4>3. -W8 <= 1 /\ 1 < W8 /\ 1 \in Int
        BY <4>1, <4>2
      <4> QED
        BY <4>3, Zenon DEF Int64s, Wide
    <3> QED
      BY <2>2, <3>1, Zenon
  <2>4. \A i \in 1 .. 1 : i = 1
    OBVIOUS
  <2> HIDE DEF pp
  <2>5. LongPart(pp) => \E i \in 1 .. n : TooLong(v[i])
    BY <2>2, <2>4, Zenon DEF LongPart
  <2>6. ASSUME ~Wrapping(v) PROVE Exact(pp)
    <3>1. ~(n >= CountMod)
      BY <1>2, <2>6, Zenon DEF Wrapping
    <3>2. n < CountMod
      <4> HIDE DEF n
      <4> QED
        BY <1>1, <3>1, CountModAssumption
    <3> QED
      BY <2>2, <2>4, <3>2, Zenon DEF Exact
  <2> QED
    BY <2>2, <2>3, <2>5, <2>6, Zenon DEF pp
<1>3. CASE ~FitsZipList(v)
  <2>1. pp = Pages(v)
    BY <1>3, Zenon DEF ListPages
  <2>2. /\ pp \in Seq(Seq(T)) /\ Concat(pp) = v /\ Len(pp) <= n
        /\ \A i \in 1 .. Len(pp) : IsPage(pp[i], v, n)
    BY <2>1, PagesAre, Zenon
  <2> HIDE DEF pp
  <2>3. ASSUME NEW i \in 1 .. Len(pp)
        PROVE  /\ GoodStrings(pp[i]) /\ Len(pp[i]) \in Nat
               /\ \A l \in 1 .. Len(pp[i]) : \E a \in 1 .. n : pp[i][l] = v[a]
               /\ ~Wrapping(v) => Len(pp[i]) < CountMod
    <3> DEFINE s == pp[i]
    <3>1. IsPage(s, v, n)
      BY <2>2, Zenon
    <3>2. PICK b \in 0 .. n : \E c \in 0 .. n : b < c /\ s = Some(v, b, c)
      BY <3>1, Zenon DEF IsPage
    <3>3. PICK c \in 0 .. n : b < c /\ s = Some(v, b, c)
      BY <3>2, Zenon
    <3> HIDE DEF s, n
    <3>4. b \in Nat /\ c \in Nat /\ b <= c /\ c <= n
          /\ \A l \in 1 .. c - b : b + l \in 1 .. n
      BY <1>1, <3>3
    <3>5. GoodStrings(s) /\ Len(s) = c - b /\ \A l \in 1 .. c - b : s[l] = v[b + l]
      BY <3>3, <3>4, SomeIs, Zenon DEF n
    <3>6. Len(s) \in Nat
      BY <3>4, <3>5
    <3>7. \A l \in 1 .. Len(s) : \E a \in 1 .. n : s[l] = v[a]
      BY <3>4, <3>5, Zenon
    <3>8. ASSUME ~Wrapping(v) PROVE Len(s) < CountMod
      <4>1. ~ShortRun(v)
        BY <1>3, <3>8, Zenon DEF Wrapping
      <4>2. ~(Len(s) >= CountMod)
        BY <3>1, <4>1, PageCounted, Zenon DEF n
      <4> QED
        BY <3>6, <4>2, CountModAssumption
    <3> QED
      BY <3>5, <3>6, <3>7, <3>8, Zenon DEF s
  <2>4. Len(pp) \in Int64s
    <3> DEFINE l == Len(pp)
    <3>1. l \in Nat
      <4> DEFINE Z == Seq(T)
      <4>1. pp \in Seq(Z)
        BY <2>2
      <4> HIDE DEF Z
      <4> QED
        BY <4>1
    <3>2. IsInt64(n) /\ l <= n
      BY <2>2, Zenon
    <3> HIDE DEF l, n
    <3>3. n \in Int64s
      BY <3>2, Int64Wide, Zenon
    <3>4. l \in Int64s
      BY <3>1, <3>2, <3>3, Int64Below, Zenon
    <3> QED
      BY <3>4, Zenon DEF l
  <2>5. GoodPages(pp, T)
    BY <2>2, <2>3, Zenon DEF GoodPages
  <2>6. LongPart(pp) => \E i \in 1 .. n : TooLong(v[i])
    <3> SUFFICES ASSUME LongPart(pp) PROVE \E i \in 1 .. n : TooLong(v[i])
      OBVIOUS
    <3>1. PICK i \in 1 .. Len(pp) : \E l \in 1 .. Len(pp[i]) : TooLong(pp[i][l])
      BY Zenon DEF LongPart
    <3>2. PICK l \in 1 .. Len(pp[i]) : TooLong(pp[i][l])
      BY <3>1, Zenon
    <3>3. PICK a \in 1 .. n : pp[i][l] = v[a]
      BY <2>3, Zenon
    <3> QED
      BY <3>2, <3>3, Zenon
  <2>7. ~Wrapping(v) => Exact(pp)
    BY <2>3, Zenon DEF Exact
  <2> QED
    BY <2>2, <2>4, <2>5, <2>6, <2>7, Zenon DEF pp
<1> QED
  BY <1>2, <1>3

-----------------------------------------------------------------------------
\* Lists.
ListForm(v) == IF FitsZipList(v) THEN "ziplist" ELSE "quicklist"

ListItems(v) ==
    IF FitsZipList(v) THEN ZipItems(ListPages(v))
    ELSE <<Hdr(writeLength(Len(ListPages(v))))>> \o ZipItems(ListPages(v))

ListInv ==
    /\ phase \in {"new", "open", "read", "done", "lost"}
    /\ phase \in {"new", "open"} => got = << >> /\ reader.left = 0
    /\ phase \in {"open", "read"} => reader.form = ListForm(object.values)
    /\ phase = "open" => file = ListItems(object.values)
    /\ phase = "read" => \E pp : pp = ListPages(object.values) /\ PagesRead(pp)
    /\ phase = "lost" => LongPart(ListPages(object.values))
    /\ phase = "done" =>
           /\ AllShort(got)
           /\ Exact(ListPages(object.values)) => got = object.values

LEMMA ListObject ==
    ASSUME object \in Objects, IsList
    PROVE  GoodStrings(object.values) /\ IsInt64(Len(object.values))
<1>1. /\ IsSequence(object.values) /\ IsInt64(Len(object.values))
      /\ \A i \in 1 .. Len(object.values) :
            IsText(object.values[i]) /\ Upper(object.values[i].len) = 0
  BY ListAssumption, Zenon DEF IsList
<1> QED
  BY <1>1, Zenon DEF GoodStrings

LEMMA ListSteps ==
    ASSUME object \in Objects, IsList, ListInv, Next
    PROVE  WriteList \/ OpenList \/ OpenPage \/ ReadEntry \/ Done
<1>1. object.type = "list" /\ phase \in {"new", "open", "read", "done", "lost"}
  BY DEF ListInv, IsList
<1>2. phase \in {"open", "read"} => reader.form \in {"ziplist", "quicklist"}
  <2>1. phase \in {"open", "read"} => reader.form = ListForm(object.values)
    BY Zenon DEF ListInv
  <2> QED
    BY <2>1 DEF ListForm
<1>3. CASE StringNext
  BY <1>1, <1>3 DEF StringNext, BeginString, WritePiece, FailPiece, ReadStringValue, IsString
<1>4. CASE ListNext
  BY <1>1, <1>4 DEF ListNext, RedisQuicklist, ReadPage, ReadNode, SizeOfQuicklist2, IsQuicklist2
<1>5. CASE TableNext
  BY <1>1, <1>2, <1>5 DEF TableNext, WriteHash, WriteHashEx, WriteSet, WriteZSet,
       OpenTable, OpenHashEx, ReadTablePage, ReadTableEntry, ReadMember, ReadField,
       ReadScored, ReadHfe, ReadHash2, InTable, ReadCount, OnePage, IsTable, Tables
<1>6. CASE StreamNext
  BY <1>1, <1>2, <1>6 DEF StreamNext, WriteStream, OpenStream, ReadStreamEntry, ReadMessage,
       ReadStreamMeta, ReadGroup, ReadConsumer, StreamDone, AllRead, ReadCount, IsStream
<1>7. CASE RedisNext
  BY <1>1, <1>7 DEF RedisNext, RedisWrites, OpenListpack, ReadMembers, OpenZipmap,
       ReadZipmapEntry, OpenModule, SkipPart, IsListpack, IsZipmap, IsModule
<1> QED
  BY <1>3, <1>4, <1>5, <1>6, <1>7 DEF Next

LEMMA ListWritten ==
    ASSUME object \in Objects, IsList, DOMAIN reader = DOMAIN Locals, ListInv, WriteList
    PROVE  ListInv'
<1> DEFINE v == object.values
           pp == Pages(v)
           items == ListItems(v)
           form == ListForm(v)
<1>0. GoodStrings(v)
  BY ListObject, Zenon
<1>1. phase = "new" /\ Written(items, form)
  <2>1. CASE FitsZipList(v)
    <3>1. phase = "new" /\ Written(<<writeZipList(v)>>, "ziplist")
      BY <2>1, Zenon DEF WriteList
    <3>2. ListPages(v) = << v >>
      BY <2>1, Zenon DEF ListPages
    <3>3. v \in Seq(ToSet(v))
      BY <1>0, Zenon DEF GoodStrings, IsSequence
    <3>4. ZipItems(<< v >>) = <<writeZipList(v)>>
      BY <1>0, <3>3, OnePageIs, Zenon
    <3>5. items = <<writeZipList(v)>> /\ form = "ziplist"
      BY <2>1, <3>2, <3>4, Zenon DEF ListItems, ListForm
    <3> QED
      BY <3>1, <3>5, Zenon
  <2>2. CASE ~FitsZipList(v)
    <3>1. phase = "new" /\ Written(<<Hdr(writeLength(Len(pp)))>>
                                   \o [i \in 1 .. Len(pp) |-> writeZipList(pp[i])], "quicklist")
      BY <2>2, Zenon DEF WriteList
    <3>2. ListPages(v) = pp /\ form = "quicklist"
      BY <2>2, Zenon DEF ListPages, ListForm
    <3>3. items = <<Hdr(writeLength(Len(pp)))>> \o ZipItems(pp)
      BY <2>2, <3>2, Zenon DEF ListItems
    <3> QED
      BY <3>1, <3>2, <3>3, Zenon DEF ZipItems
  <2> QED
    BY <2>1, <2>2
<1> HIDE DEF items, form
<1>2. /\ phase' = "open" /\ file' = items /\ got' = got /\ object' = object
      /\ reader' = [reader EXCEPT !.form = form]
  BY <1>1, Zenon DEF Written
<1>3. reader'.form = form /\ reader'.left = reader.left
  BY <1>2, PageDomain DEF PageLocals
<1>4. got = << >> /\ reader.left = 0
  BY <1>1, Zenon DEF ListInv
<1>5. file' = ListItems(object'.values) /\ reader'.form = ListForm(object'.values)
  BY <1>2, <1>3, Zenon DEF items, form
<1> QED
  BY <1>2, <1>3, <1>4, <1>5 DEF ListInv

LEMMA ListOpened ==
    ASSUME object \in Objects, IsList, DOMAIN reader = DOMAIN Locals, ListInv, OpenList
    PROVE  /\ phase' = "read" /\ reader'.form = reader.form
           /\ \E pp : pp = ListPages(object.values) /\ PagesRead(pp)'
<1> DEFINE v == object.values
<1>1. GoodStrings(v) /\ IsInt64(Len(v))
  BY ListObject, Zenon
<1>2. PICK pp : pp = ListPages(v)
  OBVIOUS
<1> DEFINE n == Len(pp)
           s == ZipItems(pp)
           T == ToSet(v)
<1>3. GoodPages(pp, T) /\ n \in Int64s
  BY <1>1, <1>2, ListPagesAre, Zenon
<1>4. n \in Nat /\ IsSequence(s) /\ Len(s) = n
  BY <1>3, PagesTyped, Zenon
<1>5. phase = "open"
  BY DEF OpenList, ReadCount, OnePage
<1>6. got = << >> /\ reader.left = 0 /\ reader.form = ListForm(v) /\ file = ListItems(v)
  BY <1>5, Zenon DEF ListInv
<1>7. ASSUME NEW m \in Nat, m = n, reader' = [reader EXCEPT !.todo = m], file' = s,
             got' = got
      PROVE  PagesRead(pp)' /\ reader'.form = reader.form
  <2>1. reader'.todo = m /\ reader'.left = reader.left /\ reader'.form = reader.form
    BY <1>7, PageDomain DEF PageLocals
  <2>2. n - 0 = n /\ 0 \in 0 .. n
    BY <1>4
  <2>3. IsRest(s, s, 0)
    BY <1>4, RestBegins, Zenon
  <2>4. AllShort(<< >>)
    <3>1. IsSequence(<< >>) /\ Len(<< >>) = 0 /\ \A i \in 1 .. 0 : FALSE
      BY DEF IsSequence
    <3> QED
      BY <3>1, Zenon DEF AllShort
  <2>5. PagesAt(pp, 0)'
    BY <1>6, <1>7, <2>1, <2>2, <2>3, <2>4, Zenon DEF PagesAt
  <2> QED
    BY <2>1, <2>2, <2>5, Zenon DEF PagesRead
<1>8. CASE FitsZipList(v)
  <2>1. reader.form = "ziplist"
    BY <1>6, <1>8, Zenon DEF ListForm
  <2>2. OnePage
    BY <2>1 DEF OpenList
  <2>3. /\ reader' = [reader EXCEPT !.todo = 1] /\ phase' = "read"
        /\ file' = file /\ got' = got
    BY <2>2, Zenon DEF OnePage
  <2>4. pp = << v >>
    BY <1>2, <1>8, Zenon DEF ListPages
  <2>5. n = 1 /\ 1 \in Nat
    BY <2>4
  <2>6. file = s
    BY <1>2, <1>6, <1>8, Zenon DEF ListItems
  <2>7. PagesRead(pp)' /\ reader'.form = reader.form
    BY <1>7, <2>3, <2>5, <2>6, Zenon
  <2> QED
    BY <1>2, <2>3, <2>7, Zenon
<1>9. CASE ~FitsZipList(v)
  <2>1. reader.form = "quicklist"
    BY <1>6, <1>9, Zenon DEF ListForm
  <2>2. ReadCount
    BY <2>1 DEF OpenList
  <2>3. /\ reader' = [reader EXCEPT !.todo = readLength(file[1].bytes).val]
        /\ phase' = "read" /\ file' = Tail(file) /\ got' = got
    BY <2>2, Zenon DEF ReadCount
  <2> DEFINE h == Hdr(writeLength(n))
             S == ToSet(s) \cup {h}
  <2>4. file = <<h>> \o s
    BY <1>2, <1>6, <1>9, Zenon DEF ListItems
  <2>5. s \in Seq(ToSet(s))
    BY <1>4, Zenon DEF IsSequence
  <2>6. h.bytes = writeLength(n)
    BY ItemFields, Zenon
  <2> HIDE DEF s, h
  <2>7. h \in S /\ s \in Seq(S)
    <3> DEFINE Z == ToSet(s)
    <3>1. s \in Seq(Z)
      BY <2>5
    <3> HIDE DEF Z
    <3>2. s \in Seq(Z \cup {h}) /\ h \in Z \cup {h}
      BY <3>1
    <3> QED
      BY <3>2, Zenon DEF Z
  <2> HIDE DEF S
  <2>8. (<<h>> \o s)[1] = h /\ Tail(<<h>> \o s) = s
    BY ONLY <2>7, OneAndRest
  <2>9. readLength(file[1].bytes).val = n
    BY <1>3, <2>4, <2>6, <2>8, PlainLength, Zenon
  <2>10. reader' = [reader EXCEPT !.todo = n] /\ file' = s
    BY <2>3, <2>4, <2>8, <2>9, Zenon
  <2>11. PagesRead(pp)' /\ reader'.form = reader.form
    BY <1>4, <1>7, <2>3, <2>10, Zenon
  <2> QED
    BY <1>2, <2>3, <2>11, Zenon
<1> QED
  BY <1>8, <1>9

LEMMA ListKept ==
    ASSUME object \in Objects, IsList, DOMAIN reader = DOMAIN Locals, ListInv, Next
    PROVE  ListInv'
<1> DEFINE v == object.values
<1>1. object' = object
  BY ObjectStays
<1>2. GoodStrings(v) /\ IsInt64(Len(v))
  BY ListObject, Zenon
<1>3. PICK pp : pp = ListPages(v)
  OBVIOUS
<1> DEFINE T == ToSet(v)
<1>4. GoodPages(pp, T) /\ Concat(pp) = v
  BY <1>2, <1>3, ListPagesAre, Zenon
<1>5. phase = "read" => PagesRead(pp) /\ reader.form = ListForm(v)
  BY <1>3, Zenon DEF ListInv
<1>6. pp = ListPages(object'.values) /\ object'.values = v
  BY <1>1, <1>3, Zenon
<1>7. ASSUME phase = "read", reader'.form = reader.form, phase' = "read", PagesRead(pp)'
      PROVE  ListInv'
  <2>1. reader'.form = ListForm(object'.values)
    BY <1>5, <1>6, <1>7, Zenon
  <2>2. \E qq : qq = ListPages(object'.values) /\ PagesRead(qq)'
    BY <1>6, <1>7, Zenon
  <2> QED
    BY <1>7, <2>1, <2>2 DEF ListInv
<1> HIDE DEF T, v
<1>8. CASE WriteList
  BY <1>8, ListWritten, Zenon
<1>9. CASE OpenList
  <2>1. /\ phase' = "read" /\ reader'.form = reader.form
        /\ \E qq : qq = ListPages(object.values) /\ PagesRead(qq)'
    BY <1>9, ListOpened, Zenon
  <2>2. phase = "open"
    BY <1>9 DEF OpenList, ReadCount, OnePage
  <2>3. reader.form = ListForm(object.values)
    BY <2>2, Zenon DEF ListInv
  <2>4. \E qq : qq = ListPages(object'.values) /\ PagesRead(qq)'
    <3>1. PICK qq : qq = ListPages(object.values) /\ PagesRead(qq)'
      BY <2>1, Zenon
    <3>2. qq = ListPages(object'.values)
      BY <1>1, <3>1, Zenon
    <3> QED
      BY <3>1, <3>2, Zenon
  <2>5. reader'.form = ListForm(object'.values)
    BY <1>1, <2>1, <2>3, Zenon
  <2> QED
    BY <2>1, <2>4, <2>5 DEF ListInv
<1>10. CASE OpenPage
  <2>1. phase = "read"
    BY <1>10, Zenon DEF OpenPage
  <2>2. PagesRead(pp)
    BY <1>5, <2>1, Zenon
  <2>3. phase' = "read" /\ reader'.form = reader.form /\ PagesRead(pp)'
    BY <1>4, <1>10, <2>2, PagesOpen, Zenon
  <2> QED
    BY <1>7, <2>1, <2>3, Zenon
<1>11. CASE ReadEntry
  <2>1. phase = "read" /\ InPage /\ TakeEntry(readZipListEntry(reader.page[1]))
    BY <1>11, Zenon DEF ReadEntry
  <2>2. PagesRead(pp)
    BY <1>5, <2>1, Zenon
  <2>3. /\ reader'.form = reader.form
        /\ \/ phase' = "read" /\ PagesRead(pp)'
           \/ phase' = "lost" /\ LongPart(pp)
    BY <1>4, <2>1, <2>2, PageTurn, Zenon
  <2>4. CASE phase' = "read" /\ PagesRead(pp)'
    BY <1>7, <2>1, <2>3, <2>4, Zenon
  <2>5. CASE phase' = "lost" /\ LongPart(pp)
    <3>1. LongPart(ListPages(object'.values))
      BY <1>6, <2>5, Zenon
    <3> QED
      BY <2>5, <3>1 DEF ListInv
  <2> QED
    BY <2>3, <2>4, <2>5, Zenon
<1>12. CASE Done
  <2>1. AllRead /\ phase' = "done" /\ got' = got /\ phase = "read"
    BY <1>12, Zenon DEF Done, End, AllRead
  <2>2. PagesRead(pp)
    BY <1>5, <2>1, Zenon
  <2>3. AllShort(got) /\ (Exact(pp) => got = Concat(pp))
    BY <1>4, <2>1, <2>2, PagesEnd, Zenon
  <2>4. AllShort(got') /\ (Exact(ListPages(object'.values)) => got' = object'.values)
    BY <1>4, <1>6, <2>1, <2>3, Zenon
  <2> QED
    BY <2>1, <2>4 DEF ListInv
<1> QED
  BY <1>8, <1>9, <1>10, <1>11, <1>12, ListSteps, Zenon

ListsInv ==
    /\ object \in Objects /\ DOMAIN reader = DOMAIN Locals
    /\ IsList => ListInv

LEMMA ListStarts == Init => ListsInv
<1> SUFFICES ASSUME Init PROVE ListsInv
  OBVIOUS
<1>1. reader = Locals /\ object \in Objects /\ phase = "new" /\ got = << >>
  BY Zenon DEF Init
<1>2. reader.left = 0
  BY <1>1, PageDomain, Zenon
<1> QED
  BY <1>1, <1>2 DEF ListsInv, ListInv

LEMMA ListInvStep == ListsInv /\ [Next]_vars => ListsInv'
<1> SUFFICES ASSUME ListsInv, [Next]_vars PROVE ListsInv'
  OBVIOUS
<1>1. CASE UNCHANGED vars
  <2>1. /\ phase' = phase /\ file' = file /\ got' = got /\ object' = object
        /\ reader' = reader
    BY <1>1 DEF vars
  <2>2. ASSUME NEW pp PROVE PagesRead(pp) => PagesRead(pp)'
    BY <2>1, Zenon DEF PagesRead, PagesAt, PageAt
  <2>3. ListInv => ListInv'
    <3> SUFFICES ASSUME ListInv PROVE ListInv'
      OBVIOUS
    <3>1. ASSUME phase = "read"
          PROVE  \E qq : qq = ListPages(object'.values) /\ PagesRead(qq)'
      <4>1. PICK qq : qq = ListPages(object.values) /\ PagesRead(qq)
        BY <3>1, Zenon DEF ListInv
      <4>2. qq = ListPages(object'.values) /\ PagesRead(qq)'
        BY <2>1, <2>2, <4>1, Zenon
      <4> QED
        BY <4>2, Zenon
    <3> QED
      BY <2>1, <3>1, Zenon DEF ListInv
  <2> QED
    BY <2>1, <2>3, Zenon DEF ListsInv, IsList
<1>2. CASE Next
  <2>1. object' = object /\ object \in Objects /\ DOMAIN reader = DOMAIN Locals
        /\ DOMAIN reader' = DOMAIN Locals
    BY <1>2, ObjectStays, LocalsKept, Zenon DEF ListsInv
  <2>2. IsList => ListInv'
    BY <1>2, <2>1, ListKept, Zenon DEF ListsInv
  <2> QED
    BY <2>1, <2>2, Zenon DEF ListsInv, IsList
<1> QED
  BY <1>1, <1>2

LEMMA ListMeans == ListsInv => ListReadBack
<1> SUFFICES ASSUME ListsInv, IsList
             PROVE  /\ phase = "done" /\ ~CountWraps => got = object.values
                    /\ phase \in {"lost", "refused"} =>
                           \E i \in 1 .. Len(object.values) : TooLong(object.values[i])
                    /\ phase = "done" /\ got = object.values =>
                           \A i \in 1 .. Len(got) : ~TooLong(got[i])
  BY Zenon DEF ListReadBack
<1> DEFINE v == object.values
<1>1. ListInv /\ object \in Objects
  BY Zenon DEF ListsInv
<1>2. GoodStrings(v) /\ IsInt64(Len(v))
  BY <1>1, ListObject, Zenon
<1>3. CountWraps <=> Wrapping(v)
  BY Zenon DEF CountWraps, Wrapping, ShortRun
<1>4. /\ LongPart(ListPages(v)) => \E i \in 1 .. Len(v) : TooLong(v[i])
      /\ ~Wrapping(v) => Exact(ListPages(v))
  BY <1>2, ListPagesAre, Zenon
<1>5. phase \in {"lost", "refused"} => phase = "lost"
  BY <1>1 DEF ListInv
<1>6. phase = "lost" => LongPart(ListPages(v))
  BY <1>1, Zenon DEF ListInv
<1>7. phase = "done" => AllShort(got) /\ (Exact(ListPages(v)) => got = v)
  BY <1>1, Zenon DEF ListInv
<1> QED
  BY <1>3, <1>4, <1>5, <1>6, <1>7, Zenon DEF AllShort

\* Every list reads back in order: however WriteListObject (list.go) cuts it
\* into ziplists and however many values it has, readZipList and readQuickList give
\* it back unless a page has more values than its 16 bits count, and they lose
\* their place only at a value of 16384 bytes or more, and at any such value.
THEOREM ListsReadBack == Spec => []ListReadBack
<1>1. Init => ListsInv
  BY ListStarts
<1>2. ListsInv /\ [Next]_vars => ListsInv'
  BY ListInvStep
<1>3. ListsInv => ListReadBack
  BY ListMeans
<1> QED
  BY <1>1, <1>2, <1>3, PTL DEF Spec

-----------------------------------------------------------------------------
(***************************************************************************)
(* Hashes without expirations, sets and sorted sets.                       *)
(***************************************************************************)
\* The members' parts in the order of a ziplist: f, v, f, v, ...
PartOf(order, j) == IF j % 2 = 0 THEN order[j \div 2].v ELSE order[(j + 1) \div 2].f

LEMMA EvenAndOdd ==
    /\ \A i \in Nat : /\ (2 * i) % 2 = 0 /\ (2 * i) \div 2 = i
                      /\ (2 * i + 1) % 2 # 0 /\ (2 * i + 2) \div 2 = i + 1
    /\ \A j \in Nat : /\ j % 2 = 0 => j = 2 * (j \div 2) /\ j \div 2 \in Nat
                      /\ j % 2 # 0 => j + 1 = 2 * ((j + 1) \div 2) /\ (j + 1) \div 2 \in Nat
OBVIOUS

LEMMA PartsAre ==
    ASSUME NEW order, NEW i \in Nat
    PROVE  PartOf(order, 2 * i + 1) = order[i + 1].f /\ PartOf(order, 2 * i + 2) = order[i + 1].v
<1> DEFINE a == 2 * i + 1
           b == 2 * i + 2
<1>1. a % 2 # 0 /\ (a + 1) \div 2 = i + 1
  BY EvenAndOdd
<1>2. b % 2 = 0 /\ b \div 2 = i + 1
  BY EvenAndOdd
<1> HIDE DEF a, b
<1>3. PartOf(order, a) = order[i + 1].f /\ PartOf(order, b) = order[i + 1].v
  BY <1>1, <1>2, Zenon DEF PartOf
<1> QED
  BY <1>3, Zenon DEF a, b

LEMMA PartFrom ==
    ASSUME NEW order, NEW n \in Nat, NEW j \in 1 .. 2 * n
    PROVE  \E i \in 1 .. n : PartOf(order, j) = order[i].f \/ PartOf(order, j) = order[i].v
<1>1. CASE j % 2 = 0
  <2>1. j \div 2 \in 1 .. n
    BY <1>1, EvenAndOdd
  <2> QED
    BY <1>1, <2>1, Zenon DEF PartOf
<1>2. CASE j % 2 # 0
  <2>1. (j + 1) \div 2 \in 1 .. n
    BY <1>2, EvenAndOdd
  <2> QED
    BY <1>2, <2>1, Zenon DEF PartOf
<1> QED
  BY <1>1, <1>2

\* Two more at the end of a sequence.
LEMMA AppendTwo ==
    ASSUME NEW k \in Nat, NEW g
    PROVE  [j \in 1 .. k |-> g[j]] \o <<g[k + 1], g[k + 2]>> = [j \in 1 .. k + 2 |-> g[j]]
<1> DEFINE S == {g[j] : j \in 1 .. k + 2}
           s == [j \in 1 .. k |-> g[j]]
           t == [j \in 1 .. k + 1 |-> g[j]]
           u == [j \in 1 .. k + 2 |-> g[j]]
           x == g[k + 1]
           y == g[k + 2]
<1>1. Append(s, x) = t
  BY AppendNext, Zenon
<1>2. Append(t, y) = u
  <2> DEFINE m == k + 1
  <2>1. m \in Nat /\ m + 1 = k + 2
    OBVIOUS
  <2>2. Append([j \in 1 .. m |-> g[j]], g[m + 1]) = [j \in 1 .. m + 1 |-> g[j]]
    BY <2>1, AppendNext, Zenon
  <2> QED
    BY <2>1, <2>2, Zenon
<1>3. x \in S /\ y \in S /\ \A j \in 1 .. k : g[j] \in S
  OBVIOUS
<1> HIDE DEF S
<1>4. s \in Seq(S)
  BY <1>3
<1> HIDE DEF s, x, y
<1>5. Append(Append(s, x), y) = s \o <<x, y>>
  BY <1>3, <1>4
<1> QED
  BY <1>1, <1>2, <1>5, Zenon DEF s, t, u, x, y

LEMMA PairsAre ==
    ASSUME NEW order, NEW n \in Nat, n = Len(order)
    PROVE  /\ IsSequence(Pairs(order)) /\ Len(Pairs(order)) = 2 * n
           /\ \A j \in 1 .. 2 * n : Pairs(order)[j] = PartOf(order, j)
<1> DEFINE ss == [i \in 1 .. n |-> <<order[i].f, order[i].v>>]
           g == [j \in 1 .. 2 * n |-> PartOf(order, j)]
           front(k) == [j \in 1 .. 2 * k |-> g[j]]
           h == [k \in 0 .. n |-> front(k)]
<1>1. n = Len(ss) /\ \A i \in 1 .. n : ss[i] = <<order[i].f, order[i].v>>
  OBVIOUS
<1>2. \A k \in 0 .. n : h[k] = front(k)
  BY Zenon
<1>3. front(0) = << >>
  <2> HIDE DEF h, ss, g
  <2> QED
    BY SMT
<1>4. ASSUME NEW i \in 1 .. n PROVE front(i) = front(i - 1) \o <<order[i].f, order[i].v>>
  <2> DEFINE k == i - 1
             m == 2 * k
  <2>1. /\ k \in Nat /\ k + 1 = i /\ m \in Nat /\ m + 1 = 2 * k + 1 /\ m + 2 = 2 * k + 2
        /\ m + 2 = 2 * i /\ m + 1 \in 1 .. 2 * n /\ m + 2 \in 1 .. 2 * n
    OBVIOUS
  <2>2. g[m + 1] = PartOf(order, 2 * k + 1) /\ g[m + 2] = PartOf(order, 2 * k + 2)
    BY <2>1, Zenon
  <2>3. g[m + 1] = order[i].f /\ g[m + 2] = order[i].v
    BY <2>1, <2>2, PartsAre, Zenon
  <2> HIDE DEF g, k, m
  <2>4. [j \in 1 .. m |-> g[j]] \o <<g[m + 1], g[m + 2]>> = [j \in 1 .. m + 2 |-> g[j]]
    BY <2>1, AppendTwo, Zenon
  <2> QED
    BY <2>1, <2>3, <2>4, Zenon DEF k, m
<1>5. 0 \in 0 .. n /\ n \in 0 .. n /\ \A i \in 1 .. n : i \in 0 .. n /\ i - 1 \in 0 .. n
  OBVIOUS
<1> HIDE DEF h, ss, front
<1>6. Stages(h, ss, n)
  BY <1>1, <1>2, <1>3, <1>4, <1>5, Zenon DEF Stages
<1>7. Concat(ss) = front(n)
  BY <1>1, <1>2, <1>5, <1>6, ConcatOf, Zenon
<1>8. Pairs(order) = g
  BY <1>7, Zenon DEF Pairs, ss, front, g
<1>9. 2 * n \in Nat /\ g = [j \in 1 .. 2 * n |-> g[j]]
  BY Zenon, SMT
<1>10. IsSequence(g) /\ Len(g) = 2 * n
  <2> DEFINE m == 2 * n
  <2>1. m \in Nat /\ g = [j \in 1 .. m |-> g[j]]
    BY <1>9, Zenon
  <2> HIDE DEF g, m
  <2> QED
    BY <2>1, FunctionTyped, Zenon DEF m
<1> QED
  BY <1>8, <1>10, Zenon

\* How a table without expirations is written, and in which orders.
PlainTables == {"hash", "set", "zset"}

PlainForm ==
    IF object.type = "hash" THEN IF FitsZipHash(object.hash) THEN "ziplist" ELSE "table"
    ELSE IF object.type = "set"
         THEN IF \A i \in 1 .. Len(object.values) : isEncodableUint64(object.values[i])
              THEN "intset" ELSE "set"
    ELSE IF /\ Len(object.entries) <= MaxEntries
            /\ \A i \in 1 .. Len(object.entries) : object.entries[i].f.len <= MaxValue
         THEN "ziplist" ELSE "zset2"

PlainOrders ==
    IF PlainForm = "intset" THEN Orders(ToSet(object.values)) ELSE TableOrders(object)

PlainItems(order) == TableItems(PlainForm, order, 0)
PlainNews(order) == TableNews(PlainForm, order)
IntCells(order) == [i \in 1 .. Len(order) |-> PutInt(IntSize(order), order[i].val[1])]

PlainFile(order) ==
    IF PlainForm = "ziplist" THEN <<writeZipList(Pairs(order))>>
    ELSE IF PlainForm = "intset" THEN <<IntSet(order)>>
    ELSE Table(Len(order), PlainItems(order))

\* k entries of an intset have been read.
IntsAt(order, k) ==
    /\ reader.left = Len(order) - k /\ IsRest(reader.page, IntCells(order), k)
    /\ got = SubSeq(order, 1, k)

IntsRead(order) ==
    \/ reader.todo = 1 /\ reader.left = 0 /\ file = <<IntSet(order)>> /\ got = << >>
    \/ reader.todo = 0 /\ \E k \in 0 .. Len(order) : IntsAt(order, k)

PlainRead(order) ==
    IF PlainForm = "ziplist" THEN PagesRead(<< Pairs(order) >>)
    ELSE IF PlainForm = "intset" THEN IntsRead(order)
    ELSE \E k \in 0 .. Len(order) : TableRead(PlainItems(order), PlainNews(order), k)

PlainGot(order) ==
    IF PlainForm = "ziplist"
    THEN AllShort(got) /\ (2 * Len(order) < CountMod => got = Pairs(order))
    ELSE IF PlainForm = "intset" THEN got = order
    ELSE got = Concat(PlainNews(order))

PlainInv ==
    /\ phase \in {"new", "open", "read", "done", "lost"}
    /\ phase \in {"new", "open"} => got = << >> /\ reader.left = 0
    /\ phase # "new" => reader.form = PlainForm
    /\ phase = "open" => \E order \in PlainOrders : file = PlainFile(order)
    /\ phase = "read" => \E order \in PlainOrders : PlainRead(order)
    /\ phase = "done" => \E order \in PlainOrders : PlainGot(order)
    /\ phase = "lost" =>
           PlainForm = "ziplist" /\ \E x \in Zipped : TooLong(x.f) \/ TooLong(x.v)

LEMMA PlainSame ==
    ASSUME object' = object
    PROVE  /\ PlainForm' = PlainForm /\ PlainOrders' = PlainOrders /\ Zipped' = Zipped
           /\ \A order : /\ PlainItems(order)' = PlainItems(order)
                         /\ PlainNews(order)' = PlainNews(order)
                         /\ PlainFile(order)' = PlainFile(order)
<1>1. PlainForm' = PlainForm /\ Zipped' = Zipped
  BY Zenon DEF PlainForm, Zipped
<1>2. PlainOrders' = PlainOrders
  BY <1>1, Zenon DEF PlainOrders
<1>3. \A x : Kept(x)' = Kept(x)
  BY Zenon DEF Kept
<1>4. ASSUME NEW order
      PROVE  /\ PlainItems(order)' = PlainItems(order) /\ PlainNews(order)' = PlainNews(order)
             /\ PlainFile(order)' = PlainFile(order)
  <2>1. PlainItems(order)' = PlainItems(order)
    BY <1>1, Zenon DEF PlainItems
  <2>2. PlainNews(order)' = PlainNews(order)
    BY <1>1, <1>3, Zenon DEF PlainNews, TableNews, TableNew
  <2>3. PlainFile(order)' = PlainFile(order)
    BY <1>1, <2>1, Zenon DEF PlainFile
  <2> QED
    BY <2>1, <2>2, <2>3, Zenon
<1> QED
  BY <1>1, <1>2, <1>4, Zenon

LEMMA PlainForms ==
    ASSUME object.type \in PlainTables
    PROVE  /\ PlainForm \in {"ziplist", "intset", "table", "set", "zset2"}
           /\ PlainForm \in {"table", "set", "zset2"} => FormFits(PlainForm)
           /\ PlainForm = "ziplist" => object.type \in {"hash", "zset"}
           /\ PlainForm = "intset" <=>
                  /\ object.type = "set"
                  /\ \A i \in 1 .. Len(object.values) : isEncodableUint64(object.values[i])
           /\ IsTable
<1> DEFINE Z == FitsZipHash(object.hash)
           I == \A i \in 1 .. Len(object.values) : isEncodableUint64(object.values[i])
           S == /\ Len(object.entries) <= MaxEntries
                /\ \A i \in 1 .. Len(object.entries) : object.entries[i].f.len <= MaxValue
<1>1. PlainForm = IF object.type = "hash" THEN IF Z THEN "ziplist" ELSE "table"
                  ELSE IF object.type = "set" THEN IF I THEN "intset" ELSE "set"
                  ELSE IF S THEN "ziplist" ELSE "zset2"
  BY Zenon DEF PlainForm
<1>2. object.type \in {"hash", "set", "zset"}
  BY DEF PlainTables
<1> HIDE DEF Z, I, S
<1>3. /\ PlainForm \in {"ziplist", "intset", "table", "set", "zset2"}
      /\ PlainForm \in {"table", "set", "zset2"} => FormFits(PlainForm)
      /\ PlainForm = "ziplist" => object.type \in {"hash", "zset"}
      /\ PlainForm = "intset" <=> object.type = "set" /\ I
  BY <1>1, <1>2 DEF FormFits, TableForms
<1> QED
  BY <1>2, <1>3 DEF I, IsTable, Tables

\* A table that is no page: its items.
LEMMA PlainTyped ==
    ASSUME object \in Objects, object.type \in PlainTables,
           PlainForm \in {"table", "set", "zset2"}, NEW order \in PlainOrders
    PROVE  /\ FormFits(PlainForm) /\ Len(order) \in Nat /\ Len(order) \in Int64s
           /\ \A i \in 1 .. Len(order) : GoodMember(order[i])
           /\ PlainItems(order) \in Seq(Seq(ItemsOf(order, 0)))
           /\ PlainNews(order) \in Seq(Seq(NewsOf(order)))
           /\ Len(PlainItems(order)) = Len(order) /\ Len(PlainNews(order)) = Len(order)
           /\ \A i \in 1 .. Len(order) :
                 /\ PlainItems(order)[i] = TableItem(PlainForm, order[i], 0)
                 /\ PlainNews(order)[i] = TableNew(PlainForm, order[i])
                 /\ ItemSet(order[i], 0) \subseteq ItemsOf(order, 0)
<1>1. PlainForm # "intset" /\ FormFits(PlainForm) /\ IsTable
  BY PlainForms
<1>2. order \in TableOrders(object)
  BY <1>1, Zenon DEF PlainOrders
<1>3. /\ Len(order) \in Nat /\ Len(order) \in Int64s
      /\ \A i \in 1 .. Len(order) : GoodMember(order[i])
  BY <1>1, <1>2, TableOrderIs, Zenon
<1>4. /\ FormFits(PlainForm) /\ Len(order) \in Nat
      /\ \A i \in 1 .. Len(order) : GoodMember(order[i])
  BY <1>1, <1>3, Zenon
<1>5. TableItems(PlainForm, order, 0) \in Seq(Seq(ItemsOf(order, 0)))
      /\ TableNews(PlainForm, order) \in Seq(Seq(NewsOf(order)))
      /\ Len(TableItems(PlainForm, order, 0)) = Len(order)
      /\ Len(TableNews(PlainForm, order)) = Len(order)
  BY ONLY <1>4, TableTyped
<1>6. \A i \in 1 .. Len(order) :
         /\ TableItems(PlainForm, order, 0)[i] = TableItem(PlainForm, order[i], 0)
         /\ TableNews(PlainForm, order)[i] = TableNew(PlainForm, order[i])
         /\ ItemSet(order[i], 0) \subseteq ItemsOf(order, 0)
  BY ONLY <1>4, TableTyped, Zenon
<1> QED
  BY <1>3, <1>4, <1>5, <1>6, Zenon DEF PlainItems, PlainNews

\* What a ziplist of pairs holds.
LEMMA ZipPairs ==
    ASSUME object \in Objects, object.type \in PlainTables, PlainForm = "ziplist",
           NEW order \in PlainOrders
    PROVE  /\ Len(order) \in Nat /\ GoodStrings(Pairs(order))
           /\ Pairs(order) \in Seq(ToSet(Pairs(order))) /\ Len(Pairs(order)) = 2 * Len(order)
           /\ Zipped = {order[i] : i \in 1 .. Len(order)}
           /\ object.type = "hash" => IsFiniteSet(object.hash) /\ Cardinality(object.hash) = Len(order)
           /\ object.type = "zset" => order = object.entries
<1> DEFINE n == Len(order)
           good(x) == IsText(x.f) /\ IsText(x.v) /\ Upper(x.f.len) = 0 /\ Upper(x.v.len) = 0
<1>1. object.type \in {"hash", "zset"} /\ IsTable
  BY PlainForms
<1>2. order \in TableOrders(object)
  BY Zenon DEF PlainOrders
<1>3. n \in Nat
  BY <1>1, <1>2, TableOrderIs, Zenon
<1>4. /\ \A i \in 1 .. n : good(order[i])
      /\ Zipped = {order[i] : i \in 1 .. n}
      /\ object.type = "hash" => IsFiniteSet(object.hash) /\ Cardinality(object.hash) = n
      /\ object.type = "zset" => order = object.entries
  <2>1. CASE object.type = "hash"
    <3>1. IsFiniteSet(object.hash) /\ \A x \in object.hash : good(x)
      BY <2>1, TableAssumption DEF Tables
    <3>2. order \in Orders(object.hash)
      BY <1>2, <2>1 DEF TableOrders
    <3>3. n = Cardinality(object.hash) /\ {order[i] : i \in 1 .. n} = object.hash
      BY <3>1, <3>2, OrderIs, Zenon
    <3>4. \A i \in 1 .. n : order[i] \in object.hash
      BY <3>3, Zenon
    <3>5. Zipped = object.hash
      BY <2>1 DEF Zipped
    <3> HIDE DEF n, good
    <3> QED
      BY <2>1, <3>1, <3>3, <3>4, <3>5
  <2>2. CASE object.type = "zset"
    <3>1. order = object.entries
      BY <1>2, <2>2 DEF TableOrders
    <3>2. \A i \in 1 .. Len(object.entries) : good(object.entries[i])
      BY <2>2, TableAssumption
    <3>3. Zipped = ToSet(object.entries) /\ IsSequence(object.entries)
      BY <2>2, TableAssumption DEF Zipped
    <3>4. ToSet(order) = {order[i] : i \in 1 .. n}
      <4>1. order \in Seq(ToSet(order))
        BY <3>1, <3>3, Zenon DEF IsSequence
      <4> DEFINE Z == ToSet(order)
      <4> HIDE DEF Z
      <4>2. DOMAIN order = 1 .. n
        BY <4>1 DEF Z
      <4> QED
        BY <4>2, Zenon DEF ToSet
    <3> HIDE DEF n, good
    <3>5. \A i \in 1 .. n : good(order[i])
      BY <3>1, <3>2, Zenon DEF n
    <3> QED
      BY <2>2, <3>1, <3>3, <3>4, <3>5
  <2> QED
    BY <1>1, <2>1, <2>2
<1>5. /\ IsSequence(Pairs(order)) /\ Len(Pairs(order)) = 2 * n
      /\ \A j \in 1 .. 2 * n : Pairs(order)[j] = PartOf(order, j)
  BY <1>3, PairsAre, Zenon
<1>6. ASSUME NEW j \in 1 .. Len(Pairs(order))
      PROVE  IsText(Pairs(order)[j]) /\ Upper(Pairs(order)[j].len) = 0
  <2>1. j \in 1 .. 2 * n
    BY <1>5, Zenon
  <2>2. PICK i \in 1 .. n : PartOf(order, j) = order[i].f \/ PartOf(order, j) = order[i].v
    BY <1>3, <2>1, PartFrom, Zenon
  <2> QED
    BY <1>4, <1>5, <2>1, <2>2, Zenon
<1> QED
  BY <1>3, <1>4, <1>5, <1>6, Zenon DEF GoodStrings, IsSequence

\* Something in it is too long.
LEMMA ZipLong ==
    ASSUME NEW order, NEW n \in Nat, n = Len(order)
    PROVE  (\E j \in 1 .. Len(Pairs(order)) : TooLong(Pairs(order)[j]))
           <=> \E i \in 1 .. n : TooLong(order[i].f) \/ TooLong(order[i].v)
<1> DEFINE p == Pairs(order)
<1>1. Len(p) = 2 * n /\ \A j \in 1 .. 2 * n : p[j] = PartOf(order, j)
  BY PairsAre, Zenon
<1> HIDE DEF p
<1>2. ASSUME NEW j \in 1 .. 2 * n, TooLong(p[j])
      PROVE  \E i \in 1 .. n : TooLong(order[i].f) \/ TooLong(order[i].v)
  <2>1. PICK i \in 1 .. n : PartOf(order, j) = order[i].f \/ PartOf(order, j) = order[i].v
    BY PartFrom, Zenon
  <2> QED
    BY <1>1, <1>2, <2>1, Zenon
<1>3. ASSUME NEW i \in 1 .. n, TooLong(order[i].f) \/ TooLong(order[i].v)
      PROVE  \E j \in 1 .. 2 * n : TooLong(p[j])
  <2> DEFINE k == i - 1
             a == 2 * k + 1
             b == 2 * k + 2
  <2>1. k \in Nat /\ k + 1 = i /\ a \in 1 .. 2 * n /\ b \in 1 .. 2 * n
    OBVIOUS
  <2> HIDE DEF k
  <2>2. PartOf(order, a) = order[k + 1].f /\ PartOf(order, b) = order[k + 1].v
    BY <2>1, PartsAre, Zenon
  <2>3. p[a] = order[i].f /\ p[b] = order[i].v
    BY <1>1, <2>1, <2>2, Zenon
  <2> HIDE DEF a, b
  <2> QED
    BY <1>3, <2>1, <2>3, Zenon
<1> QED
  BY <1>1, <1>2, <1>3, Zenon DEF p

LEMMA ZipPage ==
    ASSUME object \in Objects, object.type \in PlainTables, PlainForm = "ziplist",
           NEW order \in PlainOrders, NEW p, p = Pairs(order)
    PROVE  /\ GoodPages(<< p >>, ToSet(p)) /\ Len(<< p >>) = 1 /\ Concat(<< p >>) = p
           /\ ZipItems(<< p >>) = <<writeZipList(p)>>
           /\ 2 * Len(order) < CountMod => Exact(<< p >>)
           /\ LongPart(<< p >>) => \E x \in Zipped : TooLong(x.f) \/ TooLong(x.v)
<1> DEFINE q == << p >>
           n == Len(order)
<1>1. GoodStrings(p) /\ p \in Seq(ToSet(p)) /\ n \in Nat /\ Len(p) = 2 * n
      /\ Zipped = {order[i] : i \in 1 .. n}
  BY ZipPairs, Zenon
<1>2. GoodPages(q, ToSet(p)) /\ Concat(q) = p /\ Len(q) = 1 /\ q[1] = p
      /\ ZipItems(q) = <<writeZipList(p)>>
  BY <1>1, OnePageIs, Zenon
<1>3. \A i \in 1 .. 1 : i = 1
  OBVIOUS
<1> HIDE DEF q, n
<1>4. 2 * n < CountMod => Exact(q)
  BY <1>1, <1>2, <1>3, Zenon DEF Exact
<1>5. LongPart(q) => \E x \in Zipped : TooLong(x.f) \/ TooLong(x.v)
  <2>1. LongPart(q) => \E j \in 1 .. Len(p) : TooLong(p[j])
    BY <1>2, <1>3, Zenon DEF LongPart
  <2>2. (\E j \in 1 .. Len(p) : TooLong(p[j]))
        => \E i \in 1 .. n : TooLong(order[i].f) \/ TooLong(order[i].v)
    BY <1>1, ZipLong, Zenon DEF n
  <2> QED
    BY <1>1, <2>1, <2>2, Zenon
<1> QED
  BY <1>2, <1>4, <1>5, Zenon DEF q, n

\* An entry of an intset is read back as its number.
LEMMA IntSetEntryReads ==
    ASSUME NEW order, NEW i \in 1 .. Len(order), IsText(order[i]), isEncodableUint64(order[i])
    PROVE  LET r == readIntSetEntry(PutInt(IntSize(order), order[i].val[1]))
           IN r.is = "str" /\ r.str = order[i]
<1> DEFINE v == order[i].val[1]
           s == IntSize(order)
           b == PutInt(s, v)
           two == \A j \in 1 .. Len(order) : Fits(order[j].val[1], MaxInt16)
           four == \A j \in 1 .. Len(order) : Fits(order[j].val[1], MaxInt32)
<1>1. v \in Int /\ IsInt64(v) /\ order[i] = Num(v)
  BY Zenon DEF IsText, IsInt64, isEncodableUint64
<1>2. s = IF two THEN 2 ELSE IF four THEN 4 ELSE 8
  BY Zenon DEF IntSize
<1>3. (two => Fits(v, MaxInt16)) /\ (four => Fits(v, MaxInt32))
  BY Zenon
<1>4. v \in Int64s /\ (two => v \in Wide(W2)) /\ (four => v \in Wide(W4))
  BY <1>1, <1>3, Int64Wide, FitsWide, Zenon
<1>5. /\ Len(PutLE2(v)) = 2 /\ Len(PutLE4(v)) = 4 /\ Len(PutLE8(v)) = 8
  BY <1>1, PutTypes, Zenon
<1>6. /\ two => IntLE2(PutLE2(v)) = v
      /\ four => IntLE4(PutLE4(v)) = v
      /\ IntLE8(PutLE8(v)) = v
  BY <1>4, LE2, LE4, LE8, Zenon
<1>7. b = IF s = 2 THEN PutLE2(v) ELSE IF s = 4 THEN PutLE4(v) ELSE PutLE8(v)
  BY Zenon DEF PutInt
<1> DEFINE r == readIntSetEntry(b)
           e == IF Len(b) = 2 THEN IntLE2(b) ELSE IF Len(b) = 4 THEN IntLE4(b) ELSE IntLE8(b)
<1>8. r = [is |-> "str", str |-> Num(e)]
  BY Zenon DEF readIntSetEntry
<1> HIDE DEF v, s, two, four, r
<1>9. e = v
  <2> HIDE DEF e, b
  <2>1. CASE two
    <3>1. s = 2 /\ b = PutLE2(v) /\ Len(b) = 2
      BY <1>2, <1>5, <1>7, <2>1
    <3> QED
      BY <1>6, <2>1, <3>1, Zenon DEF e
  <2>2. CASE ~two /\ four
    <3>1. s = 4 /\ b = PutLE4(v) /\ Len(b) = 4 /\ ~(Len(b) = 2)
      BY <1>2, <1>5, <1>7, <2>2
    <3> QED
      BY <1>6, <2>2, <3>1, Zenon DEF e
  <2>3. CASE ~two /\ ~four
    <3>1. s = 8
      BY <1>2, <2>3, Zenon
    <3>2. b = PutLE8(v)
      BY <1>7, <3>1
    <3>3. Len(b) = 8
      BY <1>5, <3>2, Zenon
    <3>4. ~(Len(b) = 2) /\ ~(Len(b) = 4)
      BY <3>3
    <3> QED
      BY <1>6, <3>2, <3>4, Zenon DEF e
  <2> QED
    BY <2>1, <2>2, <2>3
<1>10. r.is = "str" /\ r.str = Num(e)
  BY <1>8
<1> QED
  BY <1>1, <1>9, <1>10, Zenon DEF r, s, v

\* A set of numbers: in any order the same strings, as many.
LEMMA IntsAre ==
    ASSUME object \in Objects, object.type \in PlainTables, PlainForm = "intset",
           NEW order \in PlainOrders
    PROVE  /\ IsSequence(order) /\ Len(order) \in Nat
           /\ Len(order) = Len(object.values) /\ ToSet(order) = ToSet(object.values)
           /\ IsSequence(IntCells(order)) /\ Len(IntCells(order)) = Len(order)
           /\ \A i \in 1 .. Len(order) :
                 LET r == readIntSetEntry(IntCells(order)[i])
                 IN r.is = "str" /\ r.str = order[i]
           /\ IntSet(order).p = "page" /\ IntSet(order).count = Len(order)
           /\ IntSet(order).cells = IntCells(order)
<1> DEFINE n == Len(order)
           values == object.values
           S == ToSet(values)
<1>1. object.type = "set" /\ \A i \in 1 .. Len(values) : isEncodableUint64(values[i])
  BY PlainForms
<1>2. /\ IsSequence(values) /\ Cardinality(S) = Len(values)
      /\ \A i \in 1 .. Len(values) : IsText(values[i])
  BY <1>1, TableAssumption, Zenon
<1>3. /\ Len(values) \in Nat
      /\ \A x \in S : \E i \in 1 .. Len(values) : x = values[i]
      /\ IsFiniteSet(S)
  <2>1. values \in Seq(S) /\ Len(values) \in Nat
    BY <1>2, SequenceTyped, Zenon
  <2>2. DOMAIN values = 1 .. Len(values)
    <3> HIDE DEF S
    <3> QED
      BY <2>1
  <2>3. S = {values[i] : i \in 1 .. Len(values)}
    BY <2>2, Zenon DEF ToSet
  <2>4. IsFiniteSet(S)
    <3> DEFINE m == Len(values)
    <3>1. values \in Seq(S) /\ m \in Nat /\ DOMAIN values = 1 .. m
          /\ S = {values[i] : i \in 1 .. m}
      BY <2>1, <2>2, <2>3, Zenon
    <3> HIDE DEF S, m
    <3>2. values \in Surjection(1 .. m, S)
      <4>1. values \in [1 .. m -> S]
        BY <3>1 DEF m
      <4>2. \A x \in S : \E i \in 1 .. m : values[i] = x
        BY <3>1, Zenon
      <4> QED
        BY <4>1, <4>2, Zenon DEF Surjection
    <3>3. IsFiniteSet(1 .. m)
      BY <3>1, FS_Interval
    <3> QED
      BY ONLY <3>2, <3>3, FS_Surjection
  <2> QED
    BY <2>1, <2>3, <2>4, Zenon
<1> HIDE DEF S
<1>4. order \in Orders(S)
  BY Zenon DEF PlainOrders, S
<1>5. /\ order \in Seq(S) /\ n = Cardinality(S) /\ {order[i] : i \in 1 .. n} = S
  BY <1>3, <1>4, OrderIs, Zenon
<1>6. n \in Nat /\ n = Len(values) /\ DOMAIN order = 1 .. n
  BY <1>2, <1>3, <1>5
<1>7. ToSet(order) = S
  BY <1>5, <1>6, Zenon DEF ToSet
<1>8. IsSequence(order)
  BY <1>5, <1>7, Zenon DEF IsSequence
<1>9. \A i \in 1 .. n : IsText(order[i]) /\ isEncodableUint64(order[i])
  BY <1>1, <1>2, <1>3, <1>5, Zenon
<1> DEFINE cells == IntCells(order)
<1>10. cells = [i \in 1 .. n |-> PutInt(IntSize(order), order[i].val[1])]
  BY Zenon DEF IntCells
<1>11. \A i \in 1 .. n :
          LET r == readIntSetEntry(cells[i])
          IN r.is = "str" /\ r.str = order[i]
  <2>1. ASSUME NEW i \in 1 .. n
        PROVE  /\ readIntSetEntry(cells[i]).is = "str"
               /\ readIntSetEntry(cells[i]).str = order[i]
    <3>1. i \in 1 .. Len(order) /\ IsText(order[i]) /\ isEncodableUint64(order[i])
      BY <1>9, Zenon
    <3>2. cells[i] = PutInt(IntSize(order), order[i].val[1])
      BY <1>10, Zenon
    <3> HIDE DEF cells, n
    <3>3. LET r == readIntSetEntry(PutInt(IntSize(order), order[i].val[1]))
          IN r.is = "str" /\ r.str = order[i]
      BY ONLY <3>1, IntSetEntryReads, Zenon
    <3> QED
      BY <3>2, <3>3, Zenon
  <2> QED
    BY <2>1, Zenon
<1>12. IsSequence(cells) /\ Len(cells) = n
  <2> HIDE DEF cells, n
  <2>1. cells = [i \in 1 .. n |-> cells[i]]
    BY <1>10, Zenon
  <2> QED
    BY <1>6, <2>1, FunctionTyped, Zenon
<1>13. IntSet(order) = Page(n, cells)
  BY Zenon DEF IntSet, IntCells
<1>14. IntSet(order).p = "page" /\ IntSet(order).count = n /\ IntSet(order).cells = cells
  BY <1>13, PageFields
<1> QED
  BY <1>6, <1>7, <1>8, <1>11, <1>12, <1>14, Zenon DEF S

LEMMA IntsOpen ==
    ASSUME object \in Objects, object.type \in PlainTables, PlainForm = "intset",
           NEW order \in PlainOrders, DOMAIN reader = DOMAIN Locals, IntsRead(order), OpenPage
    PROVE  phase' = "read" /\ reader'.form = reader.form /\ IntsRead(order)'
<1> DEFINE n == Len(order)
           c == IntCells(order)
           todo == reader.todo
           item == IntSet(order)
<1>1. /\ IsSequence(order) /\ n \in Nat /\ IsSequence(c) /\ Len(c) = n
      /\ item.count = n /\ item.cells = c
  BY IntsAre, Zenon
<1>2. phase = "read" /\ todo > 0
  BY Zenon DEF OpenPage
<1>3. ~(todo = 0)
  <2> HIDE DEF todo
  <2> QED
    BY <1>2
<1>4. todo = 1 /\ file = <<item>> /\ got = << >>
  BY <1>3, Zenon DEF IntsRead
<1> HIDE DEF item, c, n
<1>5. file[1] = item
  BY <1>4
<1>6. /\ reader' = [reader EXCEPT !.todo = @ - 1, !.left = n, !.page = c]
      /\ phase' = phase /\ got' = got
  BY <1>1, <1>5, Zenon DEF OpenPage
<1>7. /\ reader'.todo = todo - 1 /\ reader'.left = n /\ reader'.page = c
      /\ reader'.form = reader.form
  BY <1>6, PageDomain DEF PageLocals
<1>8. reader'.todo = 0 /\ n = n - 0 /\ 0 \in 0 .. n
  BY <1>1, <1>4, <1>7
<1>9. IsRest(c, c, 0) /\ SubSeq(order, 1, 0) = << >>
  BY <1>1, RestBegins, FrontAll, Zenon
<1>10. IntsAt(order, 0)'
  BY <1>4, <1>6, <1>7, <1>8, <1>9, Zenon DEF IntsAt, n, c
<1>11. IntsRead(order)'
  BY <1>8, <1>10, Zenon DEF IntsRead, n
<1> QED
  BY <1>2, <1>6, <1>7, <1>11, Zenon

LEMMA IntsTurn ==
    ASSUME object \in Objects, object.type \in PlainTables, PlainForm = "intset",
           NEW order \in PlainOrders, DOMAIN reader = DOMAIN Locals, IntsRead(order),
           phase = "read", InPage, TakeEntry(readIntSetEntry(reader.page[1]))
    PROVE  phase' = "read" /\ reader'.form = reader.form /\ IntsRead(order)'
<1> DEFINE n == Len(order)
           c == IntCells(order)
           left == reader.left
           t == reader.page
           e == readIntSetEntry(t[1])
<1>1. /\ IsSequence(order) /\ n \in Nat /\ IsSequence(c) /\ Len(c) = n
  BY IntsAre, Zenon
<1>2. left > 0 /\ TakeEntry(e)
  BY Zenon DEF InPage
<1>3. ~(left = 0)
  <2> HIDE DEF left
  <2> QED
    BY <1>2
<1>4. reader.todo = 0 /\ \E k \in 0 .. n : IntsAt(order, k)
  BY <1>3, Zenon DEF IntsRead
<1>5. PICK k \in 0 .. n : IntsAt(order, k)
  BY <1>4, Zenon
<1>6. left = n - k /\ IsRest(t, c, k) /\ got = SubSeq(order, 1, k)
  BY <1>5, Zenon DEF IntsAt
<1> DEFINE i == k + 1
<1> HIDE DEF n, left, c, t
<1>7. /\ k \in Nat /\ i \in Nat /\ i = k + 1 /\ i \in 1 .. n /\ i \in 0 .. n /\ k + 1 <= n
      /\ left - 1 = n - i
  BY <1>1, <1>2, <1>5, <1>6
<1>8. IsRest(Tail(t), c, i) /\ t[1] = c[i]
  <2>1. Len(c) \in Nat /\ k \in Nat /\ IsRest(t, c, k) /\ k + 1 <= Len(c)
    BY <1>1, <1>6, <1>7, Zenon
  <2>2. IsRest(Tail(t), c, k + 1) /\ t[1] = c[k + 1]
    BY ONLY <2>1, RestTail
  <2> QED
    BY <2>2, Zenon
<1>9. e.is = "str" /\ e.str = order[i]
  <2>1. \A j \in 1 .. Len(order) : /\ readIntSetEntry(IntCells(order)[j]).is = "str"
                                   /\ readIntSetEntry(IntCells(order)[j]).str = order[j]
    BY IntsAre, Zenon
  <2> QED
    BY <1>7, <1>8, <2>1, Zenon DEF c, n
<1> HIDE DEF e
<1>10. /\ got' = Append(got, e.str) /\ phase' = phase
       /\ reader' = [reader EXCEPT !.left = @ - 1, !.page = Tail(@)]
  BY <1>2, <1>9, Zenon DEF TakeEntry
<1>11. /\ reader'.left = left - 1 /\ reader'.page = Tail(t) /\ reader'.todo = reader.todo
       /\ reader'.form = reader.form
  BY <1>10, PageDomain DEF PageLocals, left, t
<1>12. got' = SubSeq(order, 1, i)
  <2>1. IsSequence(order) /\ k \in Nat /\ k + 1 <= Len(order)
    BY <1>1, <1>7, Zenon DEF n
  <2>2. Append(SubSeq(order, 1, k), order[k + 1]) = SubSeq(order, 1, k + 1)
    BY ONLY <2>1, FrontAppend
  <2> QED
    BY <1>6, <1>9, <1>10, <2>2, Zenon
<1> HIDE DEF i
<1>13. IntsAt(order, i)'
  BY <1>7, <1>8, <1>11, <1>12, Zenon DEF IntsAt, n, c
<1>14. IntsRead(order)'
  BY <1>4, <1>7, <1>11, <1>13, Zenon DEF IntsRead, n
<1> QED
  BY <1>10, <1>11, <1>14, Zenon

LEMMA IntsEnd ==
    ASSUME object \in Objects, object.type \in PlainTables, PlainForm = "intset",
           NEW order \in PlainOrders, IntsRead(order), AllRead
    PROVE  got = order
<1> DEFINE n == Len(order)
           left == reader.left
           todo == reader.todo
<1>1. IsSequence(order) /\ n \in Nat
  BY IntsAre, Zenon
<1>2. ~(left > 0) /\ todo = 0
  BY Zenon DEF AllRead, InPage
<1>3. ~(todo = 1)
  <2> HIDE DEF todo
  <2> QED
    BY <1>2
<1>4. PICK k \in 0 .. n : IntsAt(order, k)
  BY <1>3, Zenon DEF IntsRead
<1>5. left = n - k /\ got = SubSeq(order, 1, k)
  BY <1>4, Zenon DEF IntsAt
<1> HIDE DEF left, n
<1>6. k = n
  BY <1>1, <1>2, <1>4, <1>5
<1> QED
  BY <1>1, <1>5, <1>6, FrontAll, Zenon DEF n

LEMMA PlainSteps ==
    ASSUME object \in Objects, object.type \in PlainTables, DOMAIN reader = DOMAIN Locals,
           PlainInv, Next
    PROVE  \/ WriteHash \/ WriteSet \/ WriteZSet \/ OpenTable \/ Done
           \/ PlainForm \in {"ziplist", "intset"} /\ (OpenPage \/ ReadTableEntry)
           \/ PlainForm \in {"set", "table", "zset2"}
              /\ (ReadMember \/ ReadField \/ ReadScored)
<1>1. /\ object.type \in {"hash", "set", "zset"}
      /\ phase \in {"new", "open", "read", "done", "lost"}
  BY DEF PlainInv, PlainTables
<1>2. /\ phase \in {"open", "read"} =>
            reader.form \in {"ziplist", "intset", "table", "set", "zset2"}
      /\ phase \in {"open", "read"} => reader.form = PlainForm
      /\ PlainForm \in {"ziplist", "intset", "table", "set", "zset2"}
  <2>1. phase # "new" => reader.form = PlainForm
    BY Zenon DEF PlainInv
  <2>2. PlainForm \in {"ziplist", "intset", "table", "set", "zset2"}
    BY PlainForms, Zenon
  <2> QED
    BY <2>1, <2>2
<1>3. CASE StringNext
  BY <1>1, <1>3 DEF StringNext, BeginString, WritePiece, FailPiece, ReadStringValue, IsString
<1>4. CASE ListNext
  BY <1>1, <1>2, <1>4 DEF ListNext, WriteList, ReadPage, ReadEntry, IsList, RedisQuicklist,
       IsQuicklist2, OpenList, ReadCount, ReadNode, SizeOfQuicklist2
<1>5. CASE TableNext
  <2>1. ~WriteHashEx
    BY <1>1 DEF WriteHashEx
  <2>2. ~OpenHashEx /\ ~ReadHfe /\ ~ReadHash2
    BY <1>2 DEF OpenHashEx, ReadHfe, ReadHash2, InTable
  <2>3. ReadMember \/ ReadField \/ ReadScored => PlainForm \in {"set", "table", "zset2"}
    BY <1>2 DEF ReadMember, ReadField, ReadScored, InTable
  <2>4. ASSUME ReadTablePage \/ ReadTableEntry
        PROVE  PlainForm \in {"ziplist", "intset"} /\ (OpenPage \/ ReadTableEntry)
    <3>1. phase = "read"
      BY <2>4, Zenon DEF ReadTablePage, ReadTableEntry, OpenPage
    <3>2. PICK order \in PlainOrders : PlainRead(order)
      BY <3>1, Zenon DEF PlainInv
    <3>3. ASSUME PlainForm \in {"table", "set", "zset2"} PROVE FALSE
      <4>1. PlainForm # "ziplist" /\ PlainForm # "intset"
        BY <3>3
      <4>2. PICK k \in 0 .. Len(order) : TableRead(PlainItems(order), PlainNews(order), k)
        BY <3>2, <4>1, Zenon DEF PlainRead
      <4>3. file = After(TableItems(PlainForm, order, 0), k) /\ reader.left = 0
        BY <4>2, Zenon DEF TableRead, PlainItems
      <4>4. ~OpenPage
        <5>1. /\ FormFits(PlainForm) /\ Len(order) \in Nat
              /\ \A i \in 1 .. Len(order) : GoodMember(order[i])
          BY <3>3, PlainTyped, Zenon
        <5> QED
          BY <4>3, <5>1, NoPage, Zenon
      <4>5. ~InPage
        <5> DEFINE l == reader.left
        <5>1. l = 0
          BY <4>3, Zenon
        <5> HIDE DEF l
        <5>2. ~(l > 0)
          BY <5>1
        <5> QED
          BY <5>2, Zenon DEF InPage, l
      <4> QED
        BY <2>4, <4>4, <4>5, Zenon DEF ReadTablePage, ReadTableEntry
    <3>4. PlainForm \in {"ziplist", "intset"}
      BY <1>2, <3>3
    <3> QED
      BY <2>4, <3>4, Zenon DEF ReadTablePage
  <2> QED
    BY <1>5, <2>1, <2>2, <2>3, <2>4, Zenon DEF TableNext
<1>6. CASE StreamNext
  BY <1>1, <1>2, <1>6 DEF StreamNext, WriteStream, OpenStream, ReadStreamEntry, ReadMessage,
       ReadStreamMeta, ReadGroup, ReadConsumer, StreamDone, AllRead, ReadCount, IsStream
<1>7. CASE RedisNext
  BY <1>1, <1>2, <1>7 DEF RedisNext, RedisWrites, OpenListpack, ReadMembers, OpenZipmap,
       ReadZipmapEntry, OpenModule, SkipPart, IsListpack, IsZipmap, IsModule
<1> QED
  BY <1>3, <1>4, <1>5, <1>6, <1>7, Zenon DEF Next

LEMMA PlainWritten ==
    ASSUME object \in Objects, object.type \in PlainTables, DOMAIN reader = DOMAIN Locals,
           PlainInv, WriteHash \/ WriteSet \/ WriteZSet
    PROVE  PlainInv'
<1>1. phase = "new"
  BY Zenon DEF WriteHash, WriteSet, WriteZSet
<1>2. \E order \in PlainOrders : Written(PlainFile(order), PlainForm)
  <2>1. CASE WriteHash
    <3>1. object.type = "hash" /\ PlainForm = IF FitsZipHash(object.hash) THEN "ziplist" ELSE "table"
      BY <2>1, Zenon DEF WriteHash, PlainForm
    <3>2. PlainForm # "intset" /\ PlainOrders = Orders(object.hash)
      <4>1. PlainForm # "intset"
        BY <3>1
      <4> QED
        BY <3>1, <4>1 DEF PlainOrders, TableOrders
    <3> DEFINE T(order) == Table(Len(order), [i \in 1 .. Len(order) |-> writeField(order[i])])
    <3>3. PICK order \in Orders(object.hash) :
             IF FitsZipHash(object.hash) THEN Written(<<writeZipList(Pairs(order))>>, "ziplist")
             ELSE Written(T(order), "table")
      BY <2>1, Zenon DEF WriteHash
    <3>4. CASE FitsZipHash(object.hash)
      <4>1. PlainForm = "ziplist"
        BY <3>1, <3>4, Zenon
      <4>2. PlainFile(order) = <<writeZipList(Pairs(order))>>
        BY <4>1, Zenon DEF PlainFile
      <4> QED
        BY <3>2, <3>3, <3>4, <4>1, <4>2, Zenon
    <3>5. CASE ~FitsZipHash(object.hash)
      <4>1. PlainForm = "table"
        BY <3>1, <3>5, Zenon
      <4>2. \A x : TableItem("table", x, 0) = writeField(x)
        BY DEF TableItem
      <4>3. PlainForm # "ziplist" /\ PlainForm # "intset"
        BY <4>1
      <4>4. PlainFile(order) = T(order)
        BY <4>1, <4>2, <4>3, Zenon DEF PlainFile, PlainItems, TableItems
      <4> QED
        BY <3>2, <3>3, <3>5, <4>1, <4>4, Zenon
    <3> QED
      BY <3>4, <3>5
  <2>2. CASE WriteSet
    <3> DEFINE v == object.values
               I == \A i \in 1 .. Len(v) : isEncodableUint64(v[i])
               T == Table(Len(v), [i \in 1 .. Len(v) |-> writeString(v[i])])
    <3>1. object.type = "set" /\ PlainForm = IF I THEN "intset" ELSE "set"
      <4>1. object.type = "set" /\ object.type # "hash"
        BY <2>2 DEF WriteSet
      <4> QED
        BY <4>1, Zenon DEF PlainForm
    <3>2. IF I THEN \E sorted \in Orders(ToSet(v)) : Ascending(sorted) /\ Written(<<IntSet(sorted)>>, "intset")
          ELSE Written(T, "set")
      BY <2>2, Zenon DEF WriteSet
    <3>3. CASE I
      <4>1. PICK sorted \in Orders(ToSet(v)) : Written(<<IntSet(sorted)>>, "intset")
        BY <3>2, <3>3, Zenon
      <4>2. PlainForm = "intset"
        BY <3>1, <3>3, Zenon
      <4>3. sorted \in PlainOrders
        BY <4>1, <4>2, Zenon DEF PlainOrders
      <4>4. PlainForm # "ziplist"
        BY <4>2
      <4>5. PlainFile(sorted) = <<IntSet(sorted)>>
        BY <4>2, <4>4, Zenon DEF PlainFile
      <4> QED
        BY <4>1, <4>2, <4>3, <4>5, Zenon
    <3>4. CASE ~I
      <4>1. PlainForm = "set" /\ Written(T, "set")
        BY <3>1, <3>2, <3>4, Zenon
      <4>2. PlainForm # "ziplist" /\ PlainForm # "intset"
        BY <4>1
      <4>3. v \in PlainOrders
        BY <3>1, <4>2 DEF PlainOrders, TableOrders
      <4>4. \A x : TableItem("set", x, 0) = writeString(x)
        BY DEF TableItem
      <4>5. PlainFile(v) = T
        BY <4>1, <4>2, <4>4, Zenon DEF PlainFile, PlainItems, TableItems
      <4> QED
        BY <4>1, <4>3, <4>5, Zenon
    <3> QED
      BY <3>3, <3>4
  <2>3. CASE WriteZSet
    <3> DEFINE e == object.entries
               S == /\ Len(e) <= MaxEntries
                    /\ \A i \in 1 .. Len(e) : e[i].f.len <= MaxValue
               T == Table(Len(e), [i \in 1 .. Len(e) |-> writeScored(e[i])])
    <3>1. object.type = "zset" /\ PlainForm = IF S THEN "ziplist" ELSE "zset2"
      <4>1. object.type = "zset" /\ object.type # "hash" /\ object.type # "set"
        BY <2>3 DEF WriteZSet
      <4> QED
        BY <4>1, Zenon DEF PlainForm
    <3>2. IF S THEN Written(<<writeZipList(Pairs(e))>>, "ziplist") ELSE Written(T, "zset2")
      BY <2>3, Zenon DEF WriteZSet
    <3>3. e \in PlainOrders
      <4> HIDE DEF S
      <4>1. PlainForm # "intset"
        BY <3>1
      <4> QED
        BY <3>1, <4>1 DEF PlainOrders, TableOrders
    <3>4. CASE S
      <4>1. PlainForm = "ziplist" /\ Written(<<writeZipList(Pairs(e))>>, "ziplist")
        BY <3>1, <3>2, <3>4, Zenon
      <4>2. PlainFile(e) = <<writeZipList(Pairs(e))>>
        BY <4>1, Zenon DEF PlainFile
      <4> QED
        BY <3>3, <4>1, <4>2, Zenon
    <3>5. CASE ~S
      <4>1. PlainForm = "zset2" /\ Written(T, "zset2")
        BY <3>1, <3>2, <3>5, Zenon
      <4>2. PlainForm # "ziplist" /\ PlainForm # "intset"
        BY <4>1
      <4>3. \A x : TableItem("zset2", x, 0) = writeScored(x)
        BY DEF TableItem
      <4>4. PlainFile(e) = T
        BY <4>1, <4>2, <4>3, Zenon DEF PlainFile, PlainItems, TableItems
      <4> QED
        BY <3>3, <4>1, <4>4, Zenon
    <3> QED
      BY <3>4, <3>5
  <2> QED
    BY <2>1, <2>2, <2>3
<1>3. PICK order \in PlainOrders : Written(PlainFile(order), PlainForm)
  BY <1>2
<1> DEFINE f == PlainFile(order)
           form == PlainForm
<1>4. /\ phase' = "open" /\ file' = f /\ got' = got /\ object' = object
      /\ reader' = [reader EXCEPT !.form = form]
  BY <1>3, Zenon DEF Written
<1> HIDE DEF f, form
<1>5. reader'.form = form /\ reader'.left = reader.left
  BY <1>4, PageDomain DEF PageLocals
<1>6. got = << >> /\ reader.left = 0
  BY <1>1, Zenon DEF PlainInv
<1>7. /\ PlainForm' = PlainForm /\ PlainOrders' = PlainOrders /\ PlainFile(order)' = f
  BY <1>4, PlainSame, Zenon DEF f
<1>8. /\ \E o \in PlainOrders' : file' = PlainFile(o)'
      /\ reader'.form = PlainForm'
  BY <1>4, <1>5, <1>7, Zenon DEF form
<1> QED
  BY <1>4, <1>5, <1>6, <1>8 DEF PlainInv

\* A step of the loop that leaves something to be read.
LEMMA PlainGoesOn ==
    ASSUME PlainInv, object' = object, phase # "new", phase' = "read",
           reader'.form = reader.form, NEW order \in PlainOrders,
           \/ PlainForm = "ziplist" /\ PagesRead(<< Pairs(order) >>)'
           \/ PlainForm = "intset" /\ IntsRead(order)'
           \/ /\ PlainForm \in {"table", "set", "zset2"}
              /\ \E k \in 0 .. Len(order) :
                    TableRead(PlainItems(order), PlainNews(order), k)'
    PROVE  PlainInv'
<1>1. /\ PlainForm' = PlainForm /\ PlainOrders' = PlainOrders
  BY PlainSame, Zenon
<1>2. PlainRead(order)'
  <2>1. CASE PlainForm = "ziplist" /\ PagesRead(<< Pairs(order) >>)'
    BY <1>1, <2>1, Zenon DEF PlainRead
  <2>2. CASE PlainForm = "intset" /\ IntsRead(order)'
    <3>1. PlainForm # "ziplist"
      BY <2>2
    <3> QED
      BY <1>1, <2>2, <3>1, Zenon DEF PlainRead
  <2>3. CASE /\ PlainForm \in {"table", "set", "zset2"}
             /\ \E k \in 0 .. Len(order) :
                   TableRead(PlainItems(order), PlainNews(order), k)'
    <3>1. PlainForm # "ziplist" /\ PlainForm # "intset"
      BY <2>3
    <3> QED
      BY <1>1, <2>3, <3>1, Zenon DEF PlainRead
  <2> QED
    BY <2>1, <2>2, <2>3
<1>3. \E o \in PlainOrders' : PlainRead(o)'
  BY <1>1, <1>2, Zenon
<1>4. reader'.form = PlainForm'
  BY <1>1, Zenon DEF PlainInv
<1> QED
  BY <1>3, <1>4 DEF PlainInv

LEMMA PlainOpened ==
    ASSUME object \in Objects, object.type \in PlainTables, DOMAIN reader = DOMAIN Locals,
           PlainInv, OpenTable
    PROVE  PlainInv'
<1>1. phase = "open" /\ object' = object
  BY DEF OpenTable, OnePage, ReadCount
<1>2. got = << >> /\ reader.left = 0 /\ reader.form = PlainForm
  BY <1>1 DEF PlainInv
<1>3. PICK order \in PlainOrders : file = PlainFile(order)
  BY <1>1, Zenon DEF PlainInv
<1>4. CASE PlainForm \in {"ziplist", "intset"}
  <2>1. OnePage
    BY <1>2, <1>4 DEF OpenTable
  <2>2. /\ reader' = [reader EXCEPT !.todo = 1] /\ phase' = "read" /\ file' = file /\ got' = got
    BY <2>1, Zenon DEF OnePage
  <2>3. reader'.todo = 1 /\ reader'.left = reader.left /\ reader'.form = reader.form
    BY <2>2, PageDomain DEF PageLocals
  <2>4. CASE PlainForm = "ziplist"
    <3> DEFINE p == Pairs(order)
               q == << p >>
    <3>1. Len(q) = 1 /\ ZipItems(q) = <<writeZipList(p)>> /\ GoodPages(q, ToSet(p))
      BY <2>4, ZipPage, Zenon
    <3>2. file = ZipItems(q)
      BY <1>3, <2>4, <3>1, Zenon DEF PlainFile
    <3> HIDE DEF q
    <3>3. IsSequence(ZipItems(q))
      BY <3>1, PagesTyped, Zenon
    <3>4. IsRest(file, ZipItems(q), 0)
      BY <3>2, <3>3, RestBegins, Zenon
    <3>5. 1 = Len(q) - 0 /\ 0 \in 0 .. Len(q)
      BY <3>1
    <3>6. AllShort(<< >>)
      <4>1. IsSequence(<< >>) /\ Len(<< >>) = 0 /\ \A i \in 1 .. 0 : FALSE
        BY DEF IsSequence
      <4> QED
        BY <4>1, Zenon DEF AllShort
    <3>7. PagesAt(q, 0)'
      BY <1>2, <2>2, <2>3, <3>4, <3>5, <3>6, Zenon DEF PagesAt
    <3>8. PagesRead(q)'
      BY <3>5, <3>7, Zenon DEF PagesRead
    <3> QED
      BY <1>1, <2>2, <2>3, <2>4, <3>8, PlainGoesOn DEF q
  <2>5. CASE PlainForm = "intset"
    <3>1. PlainForm # "ziplist"
      BY <2>5
    <3>2. file = <<IntSet(order)>>
      BY <1>3, <2>5, <3>1, Zenon DEF PlainFile
    <3>3. IntsRead(order)'
      BY <1>2, <2>2, <2>3, <3>2, Zenon DEF IntsRead
    <3> QED
      BY <1>1, <2>2, <2>3, <2>5, <3>3, PlainGoesOn
  <2> QED
    BY <1>4, <2>4, <2>5
<1>5. CASE PlainForm \in {"table", "set", "zset2"}
  <2> DEFINE n == Len(order)
             ss == PlainItems(order)
             nn == PlainNews(order)
             S == ItemsOf(order, 0)
             t == Table(n, ss)
  <2>1. ReadCount
    BY <1>2, <1>5 DEF OpenTable
  <2>2. PlainForm # "ziplist" /\ PlainForm # "intset"
    BY <1>5
  <2>3. file = t
    BY <1>3, <2>2, Zenon DEF PlainFile
  <2>4. n \in Nat /\ n \in Int64s /\ ss \in Seq(Seq(S)) /\ Len(ss) = n
    BY <1>5, PlainTyped, Zenon
  <2>5. /\ IsHead(t, 1) /\ readLength(t[1].bytes).val = n /\ Tail(t) = After(ss, 0)
        /\ Concat(SubSeq(nn, 1, 0)) = << >>
    <3>1. Len(ss) \in Int64s /\ t = Table(Len(ss), ss) /\ ss \in Seq(Seq(S))
      BY <2>4, Zenon
    <3> HIDE DEF S, ss, nn, t
    <3>2. /\ IsHead(t, 1) /\ readLength(t[1].bytes).val = Len(ss) /\ Tail(t) = After(ss, 0)
          /\ Concat(SubSeq(nn, 1, 0)) = << >>
      BY <3>1, TableBegins, Zenon
    <3> QED
      BY <2>4, <3>2, Zenon
  <2>6. /\ reader' = [reader EXCEPT !.todo = n] /\ phase' = "read"
        /\ file' = After(ss, 0) /\ got' = got
    BY <2>1, <2>3, <2>5, Zenon DEF ReadCount
  <2>7. reader'.todo = n /\ reader'.left = reader.left /\ reader'.form = reader.form
    <3> HIDE DEF n
    <3> QED
      BY <2>6, PageDomain DEF PageLocals
  <2>8. n = Len(ss) - 0 /\ 0 \in 0 .. n
    <3>1. n = n - 0 /\ 0 \in 0 .. n
      BY <2>4
    <3> QED
      BY <2>4, <3>1, Zenon
  <2>9. PlainItems(order)' = ss /\ PlainNews(order)' = nn
    BY <1>1, PlainSame, Zenon
  <2>10. TableRead(PlainItems(order), PlainNews(order), 0)'
    BY <1>2, <2>5, <2>6, <2>7, <2>8, <2>9, Zenon DEF TableRead
  <2>11. \E k \in 0 .. Len(order) : TableRead(PlainItems(order), PlainNews(order), k)'
    BY <2>8, <2>10, Zenon
  <2>12. phase # "new"
    BY <1>1
  <2> HIDE DEF n, ss, nn, S, t
  <2> QED
    BY <1>1, <1>5, <2>6, <2>7, <2>11, <2>12, PlainGoesOn, Zenon
<1> QED
  BY <1>4, <1>5, PlainForms, SMT

\* A page of a table, one entry after another.
LEMMA PlainPage ==
    ASSUME object \in Objects, object.type \in PlainTables, DOMAIN reader = DOMAIN Locals,
           PlainInv, PlainForm \in {"ziplist", "intset"}, OpenPage \/ ReadTableEntry,
           object' = object
    PROVE  PlainInv'
<1>1. phase = "read" /\ phase # "new"
  <2>1. phase = "read"
    BY Zenon DEF OpenPage, ReadTableEntry
  <2> QED
    BY <2>1
<1>2. PICK order \in PlainOrders : PlainRead(order)
  BY <1>1, Zenon DEF PlainInv
<1>3. reader.form = PlainForm
  BY <1>1, Zenon DEF PlainInv
<1>4. CASE PlainForm = "ziplist"
  <2> DEFINE p == Pairs(order)
             q == << p >>
             T == ToSet(p)
  <2>1. GoodPages(q, T) /\ (LongPart(q) => \E x \in Zipped : TooLong(x.f) \/ TooLong(x.v))
    BY <1>4, ZipPage, Zenon
  <2>2. PagesRead(q)
    BY <1>2, <1>4, Zenon DEF PlainRead
  <2> HIDE DEF T
  <2>3. CASE OpenPage
    <3>1. phase' = "read" /\ reader'.form = reader.form /\ PagesRead(q)'
      BY <2>1, <2>2, <2>3, PagesOpen, Zenon
    <3> QED
      BY <1>1, <1>4, <3>1, PlainGoesOn, Zenon
  <2>4. CASE ReadTableEntry
    <3>1. reader.form # "intset"
      BY <1>3, <1>4
    <3>2. InPage /\ TakeEntry(readZipListEntry(reader.page[1]))
      BY <2>4, <3>1, Zenon DEF ReadTableEntry
    <3>3. /\ reader'.form = reader.form
          /\ \/ phase' = "read" /\ PagesRead(q)'
             \/ phase' = "lost" /\ LongPart(q)
      BY <1>1, <2>1, <2>2, <3>2, PageTurn, Zenon
    <3>4. CASE phase' = "read" /\ PagesRead(q)'
      BY <1>1, <1>4, <3>3, <3>4, PlainGoesOn, Zenon
    <3>5. CASE phase' = "lost" /\ LongPart(q)
      <4>1. PlainForm' = PlainForm /\ Zipped' = Zipped
        BY PlainSame, Zenon
      <4>2. /\ reader'.form = PlainForm' /\ PlainForm' = "ziplist"
            /\ \E x \in Zipped' : TooLong(x.f) \/ TooLong(x.v)
        BY <1>3, <1>4, <2>1, <3>3, <3>5, <4>1, Zenon
      <4>3. (\E x \in Zipped : TooLong(x.f) \/ TooLong(x.v))'
        BY <4>2, Zenon
      <4> QED
        BY <3>5, <4>2, <4>3 DEF PlainInv
    <3> QED
      BY <3>3, <3>4, <3>5, Zenon
  <2> QED
    BY <2>3, <2>4
<1>5. CASE PlainForm = "intset"
  <2>1. PlainForm # "ziplist"
    BY <1>5
  <2>2. IntsRead(order)
    BY <1>2, <1>5, <2>1, Zenon DEF PlainRead
  <2>3. CASE OpenPage
    <3>1. phase' = "read" /\ reader'.form = reader.form /\ IntsRead(order)'
      BY <1>5, <2>2, <2>3, IntsOpen, Zenon
    <3> QED
      BY <1>1, <1>5, <3>1, PlainGoesOn, Zenon
  <2>4. CASE ReadTableEntry
    <3>1. InPage /\ TakeEntry(readIntSetEntry(reader.page[1]))
      BY <1>3, <1>5, <2>4, Zenon DEF ReadTableEntry
    <3>2. phase' = "read" /\ reader'.form = reader.form /\ IntsRead(order)'
      BY <1>1, <1>5, <2>2, <3>1, IntsTurn, Zenon
    <3> QED
      BY <1>1, <1>5, <3>2, PlainGoesOn, Zenon
  <2> QED
    BY <2>3, <2>4
<1> QED
  BY <1>4, <1>5

\* One turn of readHashMap, readSet or readZSet2.
LEMMA PlainTurn ==
    ASSUME object \in Objects, object.type \in PlainTables, DOMAIN reader = DOMAIN Locals,
           PlainInv, PlainForm \in {"set", "table", "zset2"},
           ReadMember \/ ReadField \/ ReadScored
    PROVE  PlainInv'
<1>1. phase = "read" /\ reader.todo > 0 /\ phase # "new"
  <2>1. phase = "read" /\ reader.todo > 0
    BY Zenon DEF ReadMember, ReadField, ReadScored, InTable
  <2> QED
    BY <2>1
<1>2. PICK order \in PlainOrders : PlainRead(order)
  BY <1>1, Zenon DEF PlainInv
<1>3. PlainForm # "ziplist" /\ PlainForm # "intset" /\ PlainForm \in {"table", "set", "zset2"}
  OBVIOUS
<1>4. PICK k \in 0 .. Len(order) : TableRead(PlainItems(order), PlainNews(order), k)
  BY <1>2, <1>3, Zenon DEF PlainRead
<1> DEFINE n == Len(order)
           ss == PlainItems(order)
           nn == PlainNews(order)
           S == ItemsOf(order, 0)
           x == order[k + 1]
           rest == After(ss, k + 1)
           t == reader.todo
<1>5. /\ FormFits(PlainForm) /\ n \in Nat
      /\ \A i \in 1 .. n : GoodMember(order[i])
      /\ ss \in Seq(Seq(S)) /\ nn \in Seq(Seq(NewsOf(order))) /\ Len(ss) = n /\ Len(nn) = n
      /\ \A i \in 1 .. n : /\ ss[i] = TableItem(PlainForm, order[i], 0)
                           /\ nn[i] = TableNew(PlainForm, order[i])
                           /\ ItemSet(order[i], 0) \subseteq S
  BY <1>3, PlainTyped, Zenon
<1>6. t = n - k /\ file = After(ss, k)
  BY <1>4, <1>5, Zenon DEF TableRead
<1>7. k \in 0 .. n - 1 /\ k + 1 \in 1 .. n /\ k + 1 \in 0 .. n
  <2>1. t > 0
    BY <1>1
  <2> HIDE DEF t, n
  <2> QED
    BY <1>4, <1>5, <1>6, <2>1 DEF n
<1>8. /\ ss[k + 1] = TableItem(PlainForm, x, 0) /\ nn[k + 1] = TableNew(PlainForm, x)
      /\ ItemSet(x, 0) \subseteq S /\ GoodMember(x)
  BY <1>5, <1>7, Zenon
<1>9. rest \in Seq(S) /\ file = ss[k + 1] \o rest
  <2> HIDE DEF ss, S, n
  <2>1. k \in 0 .. Len(ss) - 1 /\ k + 1 \in 0 .. Len(ss)
    BY <1>5, <1>7, Zenon
  <2>2. After(ss, k + 1) \in Seq(S) /\ After(ss, k) = ss[k + 1] \o After(ss, k + 1)
    BY <1>5, <2>1, AfterIs, Zenon
  <2> QED
    BY <1>6, <2>2, Zenon
<1>10. /\ TextItems(x) \subseteq S /\ TextItems(x.f) \subseteq S /\ TextItems(x.v) \subseteq S
       /\ Float(x.v) \in S
  BY <1>8, Zenon DEF ItemSet
<1>11. reader.form = PlainForm
  BY <1>1, Zenon DEF PlainInv
<1> HIDE DEF ss, nn, S, rest, x
<1>12. Turned(nn[k + 1], After(ss, k + 1))
  <2>1. CASE ReadMember
    <3>1. PlainForm = "set"
      BY <1>11, <2>1 DEF ReadMember, InTable
    <3>2. TableItem(PlainForm, x, 0) = writeString(x) /\ TableNew(PlainForm, x) = <<x>>
      BY <3>1 DEF TableItem, TableNew
    <3>3. IsText(x)
      <4>1. object.type = "set"
        BY <1>5, <3>1, Zenon DEF FormFits
      <4> QED
        BY <1>8, <4>1, Zenon DEF GoodMember
    <3>4. file = writeString(x) \o rest
      BY <1>8, <1>9, <3>2, Zenon
    <3>5. Turned(<<x>>, rest)
      BY <1>9, <1>10, <2>1, <3>3, <3>4, MemberRead, Zenon
    <3> QED
      BY <1>8, <3>2, <3>5, Zenon DEF rest
  <2>2. CASE ReadField
    <3>1. PlainForm = "table"
      BY <1>11, <2>2 DEF ReadField, InTable
    <3>2. TableItem(PlainForm, x, 0) = writeField(x) /\ TableNew(PlainForm, x) = <<x.f, x.v>>
      BY <3>1 DEF TableItem, TableNew
    <3>3. IsText(x.f) /\ IsText(x.v)
      <4>1. object.type # "set"
        BY <1>5, <3>1 DEF FormFits
      <4> QED
        BY <1>8, <4>1, Zenon DEF GoodMember
    <3>4. file = writeField(x) \o rest
      BY <1>8, <1>9, <3>2, Zenon
    <3>5. Turned(<<x.f, x.v>>, rest)
      BY <1>9, <1>10, <2>2, <3>3, <3>4, FieldRead, Zenon
    <3> QED
      BY <1>8, <3>2, <3>5, Zenon DEF rest
  <2>3. CASE ReadScored
    <3>1. PlainForm = "zset2"
      BY <1>11, <2>3 DEF ReadScored, InTable
    <3>2. TableItem(PlainForm, x, 0) = writeScored(x) /\ TableNew(PlainForm, x) = <<x.f, x.v>>
      BY <3>1 DEF TableItem, TableNew
    <3>3. IsText(x.f)
      <4>1. object.type # "set"
        BY <1>5, <3>1 DEF FormFits
      <4> QED
        BY <1>8, <4>1, Zenon DEF GoodMember
    <3>4. file = writeScored(x) \o rest
      BY <1>8, <1>9, <3>2, Zenon
    <3>5. Turned(<<x.f, x.v>>, rest)
      BY <1>9, <1>10, <2>3, <3>3, <3>4, ScoredRead, Zenon
    <3> QED
      BY <1>8, <3>2, <3>5, Zenon DEF rest
  <2> QED
    BY <2>1, <2>2, <2>3
<1>13. /\ phase' = phase /\ object' = object /\ reader'.form = reader.form
       /\ reader'.todo = Len(ss) - (k + 1) /\ reader'.left = 0
       /\ file' = After(ss, k + 1) /\ got' = Concat(SubSeq(nn, 1, k + 1))
  <2>1. k \in 0 .. Len(ss) - 1 /\ Len(nn) = Len(ss) /\ TableRead(ss, nn, k)
    BY <1>4, <1>5, <1>7, Zenon DEF ss, nn
  <2> QED
    BY <1>5, <1>12, <2>1, TableTurned, Zenon
<1>14. PlainItems(order)' = ss /\ PlainNews(order)' = nn
  BY <1>13, PlainSame, Zenon DEF ss, nn
<1>15. TableRead(PlainItems(order), PlainNews(order), k + 1)'
  BY <1>13, <1>14, Zenon DEF TableRead
<1>16. \E j \in 0 .. Len(order) : TableRead(PlainItems(order), PlainNews(order), j)'
  BY <1>7, <1>15, Zenon
<1> QED
  BY <1>1, <1>3, <1>13, <1>16, PlainGoesOn, Zenon

LEMMA PlainEnds ==
    ASSUME object \in Objects, object.type \in PlainTables, PlainInv, Done
    PROVE  PlainInv'
<1>1. /\ phase = "read" /\ AllRead /\ reader.todo = 0 /\ phase' = "done"
      /\ object' = object /\ got' = got /\ reader' = reader
  BY Zenon DEF Done, AllRead, End
<1>2. PICK order \in PlainOrders : PlainRead(order)
  BY <1>1, Zenon DEF PlainInv
<1>3. PlainGot(order)
  <2>1. CASE PlainForm = "ziplist"
    <3> DEFINE p == Pairs(order)
               q == << p >>
               T == ToSet(p)
    <3>1. GoodPages(q, T) /\ Concat(q) = p /\ (2 * Len(order) < CountMod => Exact(q))
      BY <2>1, ZipPage, Zenon
    <3>2. PagesRead(q)
      BY <1>2, <2>1, Zenon DEF PlainRead
    <3> HIDE DEF T
    <3>3. AllShort(got) /\ (Exact(q) => got = Concat(q))
      BY <1>1, <3>1, <3>2, PagesEnd, Zenon
    <3> QED
      BY <2>1, <3>1, <3>3, Zenon DEF PlainGot
  <2>2. CASE PlainForm = "intset"
    <3>1. PlainForm # "ziplist"
      BY <2>2
    <3>2. IntsRead(order)
      BY <1>2, <2>2, <3>1, Zenon DEF PlainRead
    <3>3. got = order
      BY <1>1, <2>2, <3>2, IntsEnd, Zenon
    <3> QED
      BY <2>2, <3>1, <3>3, Zenon DEF PlainGot
  <2>3. CASE PlainForm \in {"table", "set", "zset2"}
    <3>1. PlainForm # "ziplist" /\ PlainForm # "intset"
      BY <2>3
    <3>2. PICK k \in 0 .. Len(order) : TableRead(PlainItems(order), PlainNews(order), k)
      BY <1>2, <3>1, Zenon DEF PlainRead
    <3> DEFINE n == Len(order)
               nn == PlainNews(order)
               t == reader.todo
    <3>3. n \in Nat /\ Len(PlainItems(order)) = n /\ Len(nn) = n /\ nn \in Seq(Seq(NewsOf(order)))
      BY <2>3, PlainTyped, Zenon
    <3>4. k = n
      <4>1. t = n - k /\ t = 0
        BY <1>1, <3>2, <3>3, Zenon DEF TableRead
      <4> HIDE DEF t, n
      <4> QED
        BY <3>2, <3>3, <4>1 DEF n
    <3>5. got = Concat(nn)
      <4> DEFINE Z == Seq(NewsOf(order))
      <4>1. got = Concat(SubSeq(nn, 1, Len(nn)))
        BY <3>2, <3>3, <3>4, Zenon DEF TableRead
      <4>2. nn \in Seq(Z)
        BY <3>3, Zenon
      <4> HIDE DEF Z, nn
      <4>3. nn = [i \in 1 .. Len(nn) |-> nn[i]] /\ Len(nn) \in Nat
        BY <4>2
      <4>4. IsSequence(nn)
        BY <4>3, FunctionTyped, Zenon
      <4> QED
        BY <4>1, <4>4, FrontAll, Zenon
    <3> QED
      BY <3>1, <3>5, Zenon DEF PlainGot
  <2> QED
    BY <2>1, <2>2, <2>3, PlainForms, SMT
<1>4. /\ PlainForm' = PlainForm /\ PlainOrders' = PlainOrders
      /\ PlainNews(order)' = PlainNews(order)
  BY <1>1, PlainSame, Zenon
<1>5. PlainGot(order)'
  BY <1>1, <1>3, <1>4, Zenon DEF PlainGot, AllShort
<1>6. \E o \in PlainOrders' : PlainGot(o)'
  BY <1>4, <1>5, Zenon
<1>7. reader'.form = PlainForm'
  <2>1. phase # "new"
    BY <1>1
  <2> QED
    BY <1>1, <1>4, <2>1, Zenon DEF PlainInv
<1> QED
  BY <1>1, <1>6, <1>7 DEF PlainInv

TablesInv ==
    /\ HashesExInv
    /\ object.type = "hashEx" => reader.form # "ziplist"
    /\ object.type \in PlainTables => PlainInv

LEMMA TableStarts == Init => TablesInv
<1> SUFFICES ASSUME Init PROVE TablesInv
  OBVIOUS
<1>1. HashesExInv
  BY HashExStarts
<1>2. reader = Locals /\ phase = "new" /\ got = << >>
  BY Zenon DEF Init
<1>3. reader.left = 0 /\ reader.form = "none"
  BY <1>2 DEF Locals
<1> QED
  BY <1>1, <1>2, <1>3 DEF TablesInv, PlainInv

\* A hash with expirations is never read as a ziplist.
LEMMA HashExForm ==
    ASSUME object \in Objects, object.type = "hashEx", DOMAIN reader = DOMAIN Locals,
           HashExInv, reader.form # "ziplist", Next
    PROVE  reader'.form # "ziplist"
<1>1. \/ WriteHashEx \/ OpenHashEx
      \/ (~object.valkey /\ ReadHfe) \/ (object.valkey /\ ReadHash2) \/ Done
  BY HashExSteps, Zenon
<1>2. "form" \in DOMAIN reader /\ "todo" \in DOMAIN reader /\ "min" \in DOMAIN reader
  BY TableDomain DEF TableLocals
<1>3. CASE WriteHashEx
  <2>1. \/ reader' = [reader EXCEPT !.form = "hash2"]
        \/ reader' = [reader EXCEPT !.form = "hfe"]
    BY <1>3, Zenon DEF WriteHashEx, Written
  <2> QED
    BY <1>2, <2>1
<1>4. CASE OpenHashEx
  <2>1. \/ reader' = reader
        \/ \E size, min : reader' = [reader EXCEPT !.todo = size, !.min = min]
    BY <1>4, Zenon DEF OpenHashEx, End
  <2> QED
    BY <1>2, <2>1
<1>5. CASE ReadHfe \/ ReadHash2
  <2>1. \/ reader' = reader
        \/ reader' = [reader EXCEPT !.todo = @ - 1]
    BY <1>5, Zenon DEF ReadHfe, ReadHash2, Turned, End
  <2> QED
    BY <1>2, <2>1
<1>6. CASE Done
  BY <1>6, Zenon DEF Done, End
<1> QED
  BY <1>1, <1>3, <1>4, <1>5, <1>6, Zenon

LEMMA TableInvStep == TablesInv /\ [Next]_vars => TablesInv'
<1> SUFFICES ASSUME TablesInv, [Next]_vars PROVE TablesInv'
  OBVIOUS
<1>1. HashesExInv /\ HashesExInv'
  BY HashExInvStep, Zenon DEF TablesInv
<1>2. object \in Objects /\ DOMAIN reader = DOMAIN Locals
  BY <1>1, Zenon DEF HashesExInv
<1>3. CASE UNCHANGED vars
  <2>1. /\ phase' = phase /\ file' = file /\ got' = got /\ object' = object
        /\ reader' = reader
    BY <1>3 DEF vars
  <2>2. /\ PlainForm' = PlainForm /\ PlainOrders' = PlainOrders /\ Zipped' = Zipped
        /\ \A order : /\ PlainItems(order)' = PlainItems(order)
                      /\ PlainNews(order)' = PlainNews(order)
                      /\ PlainFile(order)' = PlainFile(order)
    BY <2>1, PlainSame, Zenon
  <2>3. ASSUME NEW pp PROVE PagesRead(pp) => PagesRead(pp)'
    BY <2>1, Zenon DEF PagesRead, PagesAt, PageAt
  <2>4. ASSUME NEW order PROVE IntsRead(order) => IntsRead(order)'
    BY <2>1, Zenon DEF IntsRead, IntsAt
  <2>5. ASSUME NEW ss, NEW nn, NEW k PROVE TableRead(ss, nn, k) => TableRead(ss, nn, k)'
    BY <2>1, Zenon DEF TableRead
  <2>6. ASSUME NEW order PROVE PlainRead(order) => PlainRead(order)'
    <3>1. PagesRead(<< Pairs(order) >>) => PagesRead(<< Pairs(order) >>)'
      BY <2>3, Zenon
    <3>2. ASSUME NEW k,
                 TableRead(PlainItems(order), PlainNews(order), k)
          PROVE  TableRead(PlainItems(order), PlainNews(order), k)'
      BY <2>1, <2>2, <3>2, Zenon DEF TableRead
    <3> QED
      BY <2>2, <2>4, <3>1, <3>2, Zenon DEF PlainRead
  <2>7. ASSUME NEW order PROVE PlainGot(order) => PlainGot(order)'
    BY <2>1, <2>2, Zenon DEF PlainGot
  <2>8. PlainInv => PlainInv'
    <3> SUFFICES ASSUME PlainInv PROVE PlainInv'
      OBVIOUS
    <3>1. phase' = "open" => \E order \in PlainOrders' : file' = PlainFile(order)'
      BY <2>1, <2>2, Zenon DEF PlainInv
    <3>2. phase' = "read" => \E order \in PlainOrders' : PlainRead(order)'
      BY <2>1, <2>2, <2>6, Zenon DEF PlainInv
    <3>3. phase' = "done" => \E order \in PlainOrders' : PlainGot(order)'
      BY <2>1, <2>2, <2>7, Zenon DEF PlainInv
    <3>4. phase' = "lost" =>
              PlainForm' = "ziplist" /\ \E x \in Zipped' : TooLong(x.f) \/ TooLong(x.v)
      BY <2>1, <2>2, Zenon DEF PlainInv
    <3>5. /\ phase' \in {"new", "open", "read", "done", "lost"}
          /\ phase' \in {"new", "open"} => got' = << >> /\ reader'.left = 0
          /\ phase' # "new" => reader'.form = PlainForm'
      BY <2>1, <2>2, Zenon DEF PlainInv
    <3> QED
      BY <3>1, <3>2, <3>3, <3>4, <3>5, Zenon DEF PlainInv
  <2> QED
    BY <1>1, <2>1, <2>8, Zenon DEF TablesInv
<1>4. CASE Next
  <2>1. object' = object
    BY <1>4, ObjectStays, Zenon
  <2>2. object.type = "hashEx" => reader'.form # "ziplist"
    BY <1>1, <1>2, <1>4, HashExForm, Zenon DEF TablesInv, HashesExInv
  <2>3. ASSUME object.type \in PlainTables PROVE PlainInv'
    <3>1. PlainInv
      BY <2>3, Zenon DEF TablesInv
    <3>2. \/ WriteHash \/ WriteSet \/ WriteZSet \/ OpenTable \/ Done
          \/ PlainForm \in {"ziplist", "intset"} /\ (OpenPage \/ ReadTableEntry)
          \/ PlainForm \in {"set", "table", "zset2"}
             /\ (ReadMember \/ ReadField \/ ReadScored)
      BY <1>2, <1>4, <2>3, <3>1, PlainSteps, Zenon
    <3>3. CASE WriteHash \/ WriteSet \/ WriteZSet
      BY <1>2, <2>3, <3>1, <3>3, PlainWritten, Zenon
    <3>4. CASE OpenTable
      BY <1>2, <2>3, <3>1, <3>4, PlainOpened, Zenon
    <3>5. CASE PlainForm \in {"ziplist", "intset"} /\ (OpenPage \/ ReadTableEntry)
      BY <1>2, <2>1, <2>3, <3>1, <3>5, PlainPage, Zenon
    <3>6. CASE PlainForm \in {"set", "table", "zset2"} /\ (ReadMember \/ ReadField \/ ReadScored)
      BY <1>2, <2>3, <3>1, <3>6, PlainTurn, Zenon
    <3>7. CASE Done
      BY <1>2, <2>3, <3>1, <3>7, PlainEnds, Zenon
    <3> QED
      BY <3>2, <3>3, <3>4, <3>5, <3>6, <3>7, Zenon
  <2> QED
    BY <1>1, <2>1, <2>2, <2>3, Zenon DEF TablesInv
<1> QED
  BY <1>3, <1>4


\* What is read of a hash, if nothing is lost of it.
LEMMA HashRead ==
    ASSUME object \in Objects, object.type = "hash", NEW order \in Orders(object.hash),
           got = Pairs(order)
    PROVE  /\ ReadPairs = {[f |-> x.f, v |-> x.v] : x \in object.hash}
           /\ Len(got) = 2 * Cardinality(object.hash)
<1> DEFINE H == object.hash
           n == Len(order)
           g(x) == [f |-> x.f, v |-> x.v]
           p == Pairs(order)
<1>1. IsFiniteSet(H)
  BY TableAssumption
<1> HIDE DEF H
<1>2. Cardinality(H) \in Nat /\ n = Cardinality(H) /\ {order[i] : i \in 1 .. n} = H
  <2>1. order \in Orders(H)
    BY DEF H
  <2> QED
    BY ONLY <1>1, <2>1, OrderIs, Zenon
<1>3. n \in Nat
  BY <1>2, Zenon
<1>4. Len(p) = 2 * n /\ \A j \in 1 .. 2 * n : p[j] = PartOf(order, j)
  BY <1>3, PairsAre, Zenon
<1> HIDE DEF n, p
<1>5. Len(got) \div 2 = n
  <2>1. (2 * n) \div 2 = n
    BY <1>3
  <2> QED
    BY <1>4, <2>1, Zenon DEF p
<1>6. ASSUME NEW i \in 1 .. n PROVE got[2 * i - 1] = order[i].f /\ got[2 * i] = order[i].v
  <2> DEFINE k == i - 1
             a == 2 * k + 1
             b == 2 * k + 2
  <2>1. /\ k \in Nat /\ k + 1 = i /\ a \in 1 .. 2 * n /\ b \in 1 .. 2 * n
        /\ a = 2 * i - 1 /\ b = 2 * i
    BY <1>3
  <2> HIDE DEF k
  <2>2. PartOf(order, a) = order[k + 1].f /\ PartOf(order, b) = order[k + 1].v
    BY <2>1, PartsAre, Zenon
  <2>3. p[a] = order[i].f /\ p[b] = order[i].v
    BY <1>4, <2>1, <2>2, Zenon
  <2> HIDE DEF a, b
  <2> QED
    BY <2>1, <2>3, Zenon DEF p
<1>7. ReadPairs = {g(x) : x \in H}
  <2> DEFINE A == {[f |-> got[2 * i - 1], v |-> got[2 * i]] : i \in 1 .. Len(got) \div 2}
             C == {[f |-> got[2 * i - 1], v |-> got[2 * i]] : i \in 1 .. n}
             B == {g(x) : x \in H}
  <2>1. A = C
    BY <1>5, Zenon
  <2>2. \A y : y \in C <=> \E i \in 1 .. n : y = [f |-> got[2 * i - 1], v |-> got[2 * i]]
    OBVIOUS
  <2>3. \A y : y \in B <=> \E x \in H : y = g(x)
    OBVIOUS
  <2>4. \A i \in 1 .. n : [f |-> got[2 * i - 1], v |-> got[2 * i]] = g(order[i])
    BY <1>6, Zenon
  <2>5. \A x : x \in H <=> \E i \in 1 .. n : x = order[i]
    BY <1>2, Zenon DEF n
  <2>6. \A y : y \in C <=> y \in B
    <3> DEFINE r(i) == [f |-> got[2 * i - 1], v |-> got[2 * i]]
    <3>1. \A y : y \in C <=> \E i \in 1 .. n : y = r(i)
      BY <2>2, Zenon
    <3>2. \A i \in 1 .. n : r(i) = g(order[i])
      BY <2>4, Zenon
    <3> HIDE DEF C, B, g, r
    <3>3. ASSUME NEW y, NEW i \in 1 .. n, y = r(i) PROVE \E x \in H : y = g(x)
      BY <2>5, <3>2, <3>3, Zenon
    <3>4. ASSUME NEW y, NEW x \in H, y = g(x) PROVE \E i \in 1 .. n : y = r(i)
      BY <2>5, <3>2, <3>4, Zenon
    <3>5. ASSUME NEW y PROVE y \in C <=> y \in B
      BY <2>3, <3>1, <3>3, <3>4, Zenon
    <3> QED
      BY <3>5
  <2>7. C = B
    <3> HIDE DEF C, B
    <3> QED
      BY <2>6
  <2> QED
    BY <2>1, <2>7, Zenon DEF ReadPairs
<1> QED
  BY <1>2, <1>4, <1>7, Zenon DEF H, n, p

\* What has been read when the value is done, for some order.
LEMMA PlainDone ==
    ASSUME object \in Objects, object.type \in PlainTables, PlainInv, phase = "done", ~ZipWraps
    PROVE  \E order \in PlainOrders :
              /\ PlainForm \in {"ziplist", "table", "zset2"} => got = Pairs(order)
              /\ PlainForm = "ziplist" => AllShort(got)
              /\ PlainForm = "intset" => got = order
              /\ PlainForm = "set" => got = order
<1>1. PICK order \in PlainOrders : PlainGot(order)
  BY Zenon DEF PlainInv
<1>2. /\ PlainForm \in {"ziplist", "intset", "table", "set", "zset2"}
      /\ reader.form = PlainForm
  <2>1. phase # "new"
    OBVIOUS
  <2> QED
    BY <2>1, PlainForms, Zenon DEF PlainInv
<1>3. CASE PlainForm = "ziplist"
  <2>1. /\ Len(order) \in Nat
        /\ object.type = "hash" => Cardinality(object.hash) = Len(order)
        /\ object.type = "zset" => order = object.entries
    BY <1>3, ZipPairs, Zenon
  <2>2. object.type \in {"hash", "zset"}
    BY <1>3, PlainForms, Zenon
  <2> DEFINE n == IF object.type = "hash" THEN Cardinality(object.hash) ELSE Len(object.entries)
  <2>3. n = Len(order)
    BY <2>1, <2>2
  <2>4. ~(2 * n >= CountMod)
    BY <1>2, <1>3, Zenon DEF ZipWraps
  <2> HIDE DEF n
  <2>5. 2 * Len(order) < CountMod
    BY <2>1, <2>3, <2>4, CountModAssumption
  <2> QED
    BY <1>1, <1>3, <2>5 DEF PlainGot
<1>4. CASE PlainForm = "intset"
  BY <1>1, <1>4 DEF PlainGot
<1>5. CASE PlainForm \in {"table", "zset2"}
  <2>1. got = Concat(PlainNews(order))
    BY <1>1, <1>5 DEF PlainGot
  <2>2. \A x : TableNew(PlainForm, x) = <<x.f, x.v>>
    BY <1>5 DEF TableNew
  <2>3. PlainNews(order) = [i \in 1 .. Len(order) |-> <<order[i].f, order[i].v>>]
    BY <2>2, Zenon DEF PlainNews, TableNews
  <2>4. got = Pairs(order)
    BY <2>1, <2>3, Zenon DEF Pairs
  <2> QED
    BY <1>1, <1>5, <2>4
<1>6. CASE PlainForm = "set"
  <2>1. got = Concat(PlainNews(order))
    BY <1>1, <1>6 DEF PlainGot
  <2>2. \A x : TableNew(PlainForm, x) = <<x>>
    BY <1>6, Zenon DEF TableNew
  <2> DEFINE n == Len(order)
             b == [i \in 1 .. n |-> order[i]]
  <2>3. PlainNews(order) = [i \in 1 .. n |-> <<order[i]>>]
    BY <2>2, Zenon DEF PlainNews, TableNews
  <2>4. n \in Nat /\ IsSequence(order)
    <3>1. PlainForm # "intset" /\ IsTable
      BY <1>6, PlainForms
    <3>2. order \in TableOrders(object)
      BY <3>1, Zenon DEF PlainOrders
    <3> QED
      BY <3>1, <3>2, TableOrderIs, Zenon
  <2>5. order = b
    BY <2>4 DEF IsSequence
  <2>6. got = b
    <3> HIDE DEF n, b
    <3>1. Concat([i \in 1 .. n |-> <<order[i]>>]) = [i \in 1 .. n |-> order[i]]
      BY <2>4, ConcatSingles, Zenon
    <3> QED
      BY <2>1, <2>3, <3>1, Zenon DEF b
  <2>7. got = order
    BY <2>5, <2>6, Zenon
  <2> QED
    BY <1>1, <1>6, <2>7
<1> QED
  BY <1>2, <1>3, <1>4, <1>5, <1>6

\* The place is lost exactly at a part too long for a ziplist.
LEMMA PlainLost ==
    ASSUME object \in Objects, object.type \in PlainTables, PlainInv, ~ZipWraps
    PROVE  phase = "lost" <=>
               /\ phase \in Final /\ reader.form = "ziplist"
               /\ \E x \in Zipped : TooLong(x.f) \/ TooLong(x.v)
<1>1. phase = "lost" => /\ phase \in Final /\ reader.form = "ziplist"
                        /\ \E x \in Zipped : TooLong(x.f) \/ TooLong(x.v)
  BY DEF PlainInv, Final
<1>2. ASSUME phase \in Final, reader.form = "ziplist", phase # "lost",
             NEW x \in Zipped, TooLong(x.f) \/ TooLong(x.v)
      PROVE  FALSE
  <2>1. phase = "done" /\ PlainForm = "ziplist"
    BY <1>2 DEF PlainInv, Final
  <2>2. PICK order \in PlainOrders : got = Pairs(order) /\ AllShort(got)
    BY <2>1, PlainDone, Zenon
  <2>3. Len(order) \in Nat /\ Zipped = {order[i] : i \in 1 .. Len(order)}
    BY <2>1, <2>2, ZipPairs, Zenon
  <2>4. PICK i \in 1 .. Len(order) : x = order[i]
    BY <1>2, <2>3, Zenon
  <2>5. \E k \in 1 .. Len(order) : TooLong(order[k].f) \/ TooLong(order[k].v)
    BY <1>2, <2>4, Zenon
  <2>6. \E j \in 1 .. Len(Pairs(order)) : TooLong(Pairs(order)[j])
    BY <2>3, <2>5, ZipLong, Zenon
  <2> QED
    BY <2>2, <2>6, Zenon DEF AllShort
<1> QED
  BY <1>1, <1>2, Zenon

LEMMA TableMeans == TablesInv => TableReadBack
<1> DEFINE Read == CASE object.type = "hash" ->
                          /\ ReadPairs = {[f |-> x.f, v |-> x.v] : x \in object.hash}
                          /\ Len(got) = 2 * Cardinality(object.hash)
                   [] object.type = "set" ->
                          /\ ToSet(got) = ToSet(object.values)
                          /\ Len(got) = Len(object.values)
                   [] object.type = "zset" -> got = Pairs(object.entries)
                   [] OTHER -> TRUE
           Lost == phase = "lost" <=>
                       /\ phase \in Final /\ reader.form = "ziplist"
                       /\ \E x \in Zipped : TooLong(x.f) \/ TooLong(x.v)
<1>1. SUFFICES ASSUME TablesInv, IsTable, ~ZipWraps PROVE (phase = "done" => Read) /\ Lost
  BY Zenon DEF TableReadBack
<1>2. object \in Objects
  BY <1>1, Zenon DEF TablesInv, HashesExInv
<1>3. CASE object.type = "hashEx"
  <2>1. phase # "lost"
    BY <1>1, <1>3 DEF TablesInv, HashesExInv, HashExInv
  <2>2. reader.form # "ziplist"
    BY <1>1, <1>3, Zenon DEF TablesInv
  <2>3. Lost
    BY <2>1, <2>2, Zenon
  <2>4. Read
    BY <1>3
  <2> QED
    BY <2>3, <2>4
<1>4. CASE object.type \in PlainTables
  <2>1. PlainInv
    BY <1>1, <1>4, Zenon DEF TablesInv
  <2>2. Lost
    BY <1>1, <1>2, <1>4, <2>1, PlainLost, Zenon
  <2>3. ASSUME phase = "done" PROVE Read
    <3>1. PICK order \in PlainOrders :
              /\ PlainForm \in {"ziplist", "table", "zset2"} => got = Pairs(order)
              /\ PlainForm = "intset" => got = order
              /\ PlainForm = "set" => got = order
      BY <1>1, <1>2, <1>4, <2>1, <2>3, PlainDone, Zenon
    <3>2. CASE object.type = "hash"
      <4>1. PlainForm \in {"ziplist", "table"}
        BY <3>2 DEF PlainForm
      <4>2. got = Pairs(order) /\ PlainOrders = Orders(object.hash)
        BY <3>1, <3>2, <4>1 DEF PlainOrders, TableOrders
      <4>3. /\ ReadPairs = {[f |-> x.f, v |-> x.v] : x \in object.hash}
            /\ Len(got) = 2 * Cardinality(object.hash)
        BY <1>2, <3>2, <4>2, HashRead, Zenon
      <4> DEFINE L == /\ ReadPairs = {[f |-> x.f, v |-> x.v] : x \in object.hash}
                      /\ Len(got) = 2 * Cardinality(object.hash)
                 M == /\ ToSet(got) = ToSet(object.values) /\ Len(got) = Len(object.values)
                 N == got = Pairs(object.entries)
      <4>4. Read <=> CASE object.type = "hash" -> L [] object.type = "set" -> M
                       [] object.type = "zset" -> N [] OTHER -> TRUE
        BY Zenon
      <4>5. L
        BY <4>3, Zenon
      <4> HIDE DEF Read, L, M, N
      <4> QED
        BY <3>2, <4>4, <4>5
    <3>3. CASE object.type = "set"
      <4>1. PlainForm \in {"intset", "set"} /\ got = order
        BY <3>1, <3>3 DEF PlainForm
      <4>2. ToSet(got) = ToSet(object.values) /\ Len(got) = Len(object.values)
        <5>1. CASE PlainForm = "intset"
          BY <1>2, <1>4, <4>1, <5>1, IntsAre, Zenon
        <5>2. CASE PlainForm = "set"
          <6>1. order = object.values
            BY <3>3, <5>2 DEF PlainOrders, TableOrders
          <6> QED
            BY <4>1, <6>1, Zenon
        <5> QED
          BY <4>1, <5>1, <5>2
      <4> HIDE DEF Lost
      <4> QED
        BY <3>3, <4>2
    <3>4. CASE object.type = "zset"
      <4>1. PlainForm \in {"ziplist", "zset2"} /\ PlainOrders = {object.entries}
        BY <3>4 DEF PlainForm, PlainOrders, TableOrders
      <4>2. got = Pairs(object.entries)
        BY <3>1, <4>1
      <4> QED
        BY <3>4, <4>2
    <3> QED
      BY <1>4, <3>2, <3>3, <3>4 DEF PlainTables
  <2> QED
    BY <2>2, <2>3, Zenon
<1>5. object.type = "hashEx" \/ object.type \in PlainTables
  BY <1>1 DEF IsTable, Tables, PlainTables
<1> QED
  BY <1>3, <1>4, <1>5, Zenon

\* Every hash, set and sorted set reads back: in whatever order Go visits the
\* map and whichever of a ziplist, an intset and a table of members the encoder
\* takes (tryWriteZipListHashMap, tryWriteIntSetEncoding, tryWriteZipListZSet
\* and their callers in hash.go, set.go and zset.go), the decoder pairs every
\* field with its own value and every member with its own score, and has each of
\* them once; it loses its place exactly at a field, member or value too long
\* for a ziplist.  A ziplist of more entries than its 16 bits count is the one
\* exception.
THEOREM TablesReadBack == Spec => []TableReadBack
<1>1. Init => TablesInv
  BY TableStarts
<1>2. TablesInv /\ [Next]_vars => TablesInv'
  BY TableInvStep
<1>3. TablesInv => TableReadBack
  BY TableMeans
<1> QED
  BY <1>1, <1>2, <1>3, PTL DEF Spec
=============================================================================
