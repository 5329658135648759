---------------------------- MODULE CodecProofs ----------------------------
(***************************************************************************)
(* What is written is read back by the codecs: numbers, lengths and the    *)
(* entries of listpacks and ziplists, for every integer of 64 bits, at the *)
(* real widths; what LZF compresses; and a string in each of its forms.    *)
(*                                                                         *)
(* An integer is followed through its bytes one byte at a time: a number   *)
(* of n + 1 bytes is its lowest byte (Low) and a number of n bytes (High). *)
(* Wide(m) are the integers from -m up to m, W1, ..., W8 the bounds of a   *)
(* signed integer of that many bytes.                                      *)
(***************************************************************************)
EXTENDS StringCodec, ListPack, ZipList, SequencesExt, SequenceTheorems,
        FiniteSetTheorems, WellFoundedInduction, TLAPS

Wide(m) == {v \in Int : -m <= v /\ v < m}
W1 == 128
W2 == 256 * W1
W3 == 256 * W2
W4 == 256 * W3
W5 == 256 * W4
W6 == 256 * W5
W7 == 256 * W6
W8 == 256 * W7
Int64s == Wide(W8)

\* The bounds are numbers.
LEMMA Widths == W1 \in Nat /\ W2 \in Nat /\ W3 \in Nat /\ W4 \in Nat
                /\ W5 \in Nat /\ W6 \in Nat /\ W7 \in Nat
BY DEF W1, W2, W3, W4, W5, W6, W7

\* int8(byte(u)) is u for a signed byte u.
LEMMA SignedByte == \A u \in Wide(W1) : Signed(Low(u)) = u
BY DEF Signed, Wide, W1, Low

\* A number is its lowest byte and the rest.
LEMMA LowHigh ==
    \A v \in Int : Low(v) \in 0 .. 255 /\ High(v) \in Int /\ Low(v) + 256 * High(v) = v
BY DEF Low, High

\* v >> 8 is a number of one byte less.
LEMMA Rest == \A m \in Nat : \A v \in Wide(256 * m) : v \in Int /\ High(v) \in Wide(m)
BY DEF Wide, High

\* Two bytes, little endian: written by PutUint16 and read as an int16.
LEMMA LE2 ==
    ASSUME NEW v \in Wide(W2) PROVE IntLE2(PutLE2(v)) = v
<1>1. v \in Int /\ High(v) \in Wide(W1)
  BY Rest, Widths DEF W2
<1>2. IntLE2(PutLE2(v)) = Low(v) + 256 * Signed(Low(High(v)))
  BY DEF IntLE2, PutLE2
<1>3. Signed(Low(High(v))) = High(v)
  BY <1>1, SignedByte, Zenon
<1> QED
  BY <1>1, <1>2, <1>3, LowHigh, Zenon

\* Three bytes, little endian.
LEMMA LE3 ==
    ASSUME NEW v \in Wide(W3) PROVE IntLE3(PutLE3(v)) = v
<1>1. v \in Int /\ High(v) \in Wide(W2)
  BY Rest, Widths DEF W3
<1>2. IntLE3(PutLE3(v)) = Low(v) + 256 * IntLE2(PutLE2(High(v)))
  BY DEF IntLE2, PutLE2, IntLE3, PutLE3
<1>3. IntLE2(PutLE2(High(v))) = High(v)
  BY <1>1, LE2, Zenon
<1> QED
  BY <1>1, <1>2, <1>3, LowHigh, Zenon

\* Four bytes, little endian.
LEMMA LE4 ==
    ASSUME NEW v \in Wide(W4) PROVE IntLE4(PutLE4(v)) = v
<1>1. v \in Int /\ High(v) \in Wide(W3)
  BY Rest, Widths DEF W4
<1>2. IntLE4(PutLE4(v)) = Low(v) + 256 * IntLE3(PutLE3(High(v)))
  BY DEF IntLE3, PutLE3, IntLE4, PutLE4
<1>3. IntLE3(PutLE3(High(v))) = High(v)
  BY <1>1, LE3, Zenon
<1> QED
  BY <1>1, <1>2, <1>3, LowHigh, Zenon

\* v >> 32 of a 64-bit number is a number of four bytes.
LEMMA UpperHalf == \A v \in Int64s : Upper(v) \in Wide(W4)
BY Rest, Widths DEF Int64s, W8, W7, W6, W5, Upper

\* Eight bytes, little endian: PutLE8 writes two halves of four bytes.
LEMMA LE8 ==
    ASSUME NEW v \in Int64s PROVE IntLE8(PutLE8(v)) = v
<1> DEFINE u == High(v)
           w == High(u)
           x == High(w)
<1>1. v \in Int /\ u \in Int /\ w \in Int /\ x \in Int
  <2>1. v \in Int
    BY DEF Int64s, Wide
  <2> QED
    BY <2>1, LowHigh, Zenon
<1>2. Upper(v) \in Wide(W4) /\ Upper(v) = High(x)
  BY UpperHalf, Zenon DEF Upper
<1>3. IntLE4(PutLE4(Upper(v))) = Upper(v)
  BY <1>2, LE4, Zenon
<1>4. PutLE4(v) = <<Low(v), Low(u), Low(w), Low(x)>>
  BY Zenon DEF PutLE4
<1> HIDE DEF u, w, x
<1>5. IntLE8(PutLE8(v)) = Low(v) + 256 * (Low(u) + 256 * (Low(w) + 256 * (Low(x)
                            + 256 * IntLE4(PutLE4(Upper(v))))))
  <2> DEFINE q == PutLE4(Upper(v))
  <2>1. PutLE8(v) = <<PutLE4(v)[1], PutLE4(v)[2], PutLE4(v)[3], PutLE4(v)[4],
                      q[1], q[2], q[3], q[4]>>
    BY Zenon DEF PutLE8
  <2> HIDE DEF q
  <2>2. IntLE8(PutLE8(v)) = Low(v) + 256 * (Low(u) + 256 * (Low(w) + 256 * (Low(x)
                              + 256 * IntLE4(q))))
    BY <1>4, <2>1 DEF IntLE8, IntLE4
  <2> QED
    BY <2>2, Zenon DEF q
<1>6. Low(x) + 256 * High(x) = x
  BY <1>1, LowHigh, Zenon
<1>7. Low(w) + 256 * x = w
  BY <1>1, LowHigh, Zenon DEF x
<1>8. Low(u) + 256 * w = u
  BY <1>1, LowHigh, Zenon DEF w
<1>9. Low(v) + 256 * u = v
  BY <1>1, LowHigh, Zenon DEF u
<1> HIDE DEF u, w, x
<1>10. Low(x) + 256 * IntLE4(PutLE4(Upper(v))) = x
  BY <1>2, <1>3, <1>6, Zenon
<1>11. IntLE8(PutLE8(v)) = Low(v) + 256 * (Low(u) + 256 * (Low(w) + 256 * x))
  BY <1>5, <1>10, ZenonT(60)
<1> QED
  BY <1>7, <1>8, <1>9, <1>11

\* The encoders of binary.LittleEndian give bytes, as many as they say.
LEMMA PutTypes ==
    ASSUME NEW v \in Int
    PROVE  /\ PutLE2(v) \in Seq(Byte) /\ Len(PutLE2(v)) = 2
           /\ PutLE3(v) \in Seq(Byte) /\ Len(PutLE3(v)) = 3
           /\ PutLE4(v) \in Seq(Byte) /\ Len(PutLE4(v)) = 4
           /\ PutLE8(v) \in Seq(Byte) /\ Len(PutLE8(v)) = 8
<1>1. \A u \in Int : High(u) \in Int /\ Low(u) \in Byte
  BY LowHigh DEF Byte
<1>2. \A u \in Int : /\ PutLE2(u) \in Seq(Byte) /\ Len(PutLE2(u)) = 2
                     /\ PutLE3(u) \in Seq(Byte) /\ Len(PutLE3(u)) = 3
                     /\ PutLE4(u) \in Seq(Byte) /\ Len(PutLE4(u)) = 4
  <2> SUFFICES ASSUME NEW u \in Int
               PROVE  /\ PutLE2(u) \in Seq(Byte) /\ Len(PutLE2(u)) = 2
                      /\ PutLE3(u) \in Seq(Byte) /\ Len(PutLE3(u)) = 3
                      /\ PutLE4(u) \in Seq(Byte) /\ Len(PutLE4(u)) = 4
    OBVIOUS
  <2>1. Low(u) \in Byte /\ Low(High(u)) \in Byte /\ Low(High(High(u))) \in Byte
        /\ Low(High(High(High(u)))) \in Byte
    BY <1>1, Zenon
  <2> QED
    BY <2>1 DEF PutLE2, PutLE3, PutLE4
<1>3. Upper(v) \in Int
  BY <1>1, Zenon DEF Upper
<1>4. \A u \in Int : \A i \in 1 .. 4 : PutLE4(u)[i] \in Byte
  BY <1>2, ElementOfSeq
<1>5. /\ PutLE4(v)[1] \in Byte /\ PutLE4(v)[2] \in Byte
      /\ PutLE4(v)[3] \in Byte /\ PutLE4(v)[4] \in Byte
      /\ PutLE4(Upper(v))[1] \in Byte /\ PutLE4(Upper(v))[2] \in Byte
      /\ PutLE4(Upper(v))[3] \in Byte /\ PutLE4(Upper(v))[4] \in Byte
  BY <1>3, <1>4
<1>6. PutLE8(v) \in Seq(Byte) /\ Len(PutLE8(v)) = 8
  BY <1>5 DEF PutLE8
<1> QED
  BY <1>2, <1>6, Zenon

\* A header byte in front of other bytes.
LEMMA Prepend ==
    ASSUME NEW h \in Byte, NEW s \in Seq(Byte), Len(s) > 0
    PROVE  /\ <<h>> \o s \in Seq(Byte)
           /\ Len(<<h>> \o s) = 1 + Len(s)
           /\ (<<h>> \o s)[1] = h
           /\ Tail(<<h>> \o s) = s
<1> DEFINE t == <<h>> \o s
<1>1. <<h>> \in Seq(Byte) /\ Len(<<h>>) = 1 /\ <<h>>[1] = h
  OBVIOUS
<1>2. Len(s) \in Nat /\ Len(s) > 0
  OBVIOUS
<1>3. /\ t \in Seq(Byte) /\ Len(t) = 1 + Len(s)
      /\ \A i \in 1 .. Len(s) + 1 : t[i] = IF i <= 1 THEN h ELSE s[i - 1]
  BY <1>1, <1>2, ConcatProperties
<1> HIDE DEF t
<1>4. t # << >>
  BY <1>2, <1>3
<1>5. /\ Tail(t) \in Seq(Byte) /\ Len(Tail(t)) = Len(s)
      /\ \A i \in 1 .. Len(s) : Tail(t)[i] = t[i + 1]
  BY <1>2, <1>3, <1>4, HeadTailProperties
<1>6. \A i \in 1 .. Len(s) : Tail(t)[i] = s[i]
  BY <1>2, <1>3, <1>5
<1>7. Tail(t) = s
  BY <1>5, <1>6, SeqEqual
<1>8. t[1] = h
  BY <1>2, <1>3
<1> QED
  BY <1>3, <1>7, <1>8, Zenon DEF t

\* The empty string has no length.
LEMMA EmptyLen == Empty.len = 0
<1>1. Len(<< >>) = 0
  BY EmptySeq
<1> QED
  BY <1>1, Zenon DEF Empty, Spelled

\* An integer entry with this header is read back as v, and the reader then
\* stands at the next entry.
ReadsBack(head, v) ==
    LET cell == Cell(head, Empty, encodeBacklen(Len(head)))
    IN readListPackEntry(cell) = IntEntry(v, Size(cell))

\* The header of an integer, complete.
IntHead(h) ==
    /\ h[1] \in Byte /\ h[1] <= 244
    /\ h[1] \notin 128 .. 191 /\ h[1] \notin 224 .. 240
    /\ Len(h) \in 1 .. 9 /\ Len(h) = HeadLen(h[1])

\* Up to nine bytes have a back length of one byte, for both sides.
LEMMA ShortBack == \A n \in 1 .. 9 : encodeBacklen(n) = 1 /\ getBackLen(n) = 1
BY SMT DEF encodeBacklen, getBackLen

\* A complete integer header gives the integer in it, and the reader then
\* stands at the next entry.
LEMMA HeadReadsBack == ASSUME NEW h, IntHead(h) PROVE ReadsBack(h, IntOf(h))
<1> DEFINE k == Len(h)
           c == Cell(h, Empty, encodeBacklen(k))
<1>0. h[1] \notin 128 .. 191 /\ h[1] \notin 224 .. 239 /\ h[1] # 240
      /\ h[1] \notin 224 .. 240 /\ ~(h[1] > 244) /\ k \in 1 .. 9 /\ HeadLen(h[1]) = k
  <2>1. k \in 1 .. 9 /\ HeadLen(h[1]) = k
    BY Zenon DEF IntHead
  <2>2. /\ h[1] \in Byte /\ h[1] <= 244
        /\ h[1] \notin 128 .. 191 /\ h[1] \notin 224 .. 240
    BY Zenon DEF IntHead
  <2>3. h[1] \notin 224 .. 239 /\ h[1] # 240 /\ ~(h[1] > 244)
    BY ONLY <2>2, SMT DEF Byte
  <2> QED
    BY <2>1, <2>2, <2>3, Zenon
<1>1. encodeBacklen(k) = 1 /\ getBackLen(k) = 1
  BY <1>0, ShortBack, Zenon
<1>2. StrLen(h) = 0
  <2> HIDE DEF c, k
  <2>1. StrLen(h) = IF h[1] \in 128 .. 191 THEN h[1] % 64
                    ELSE IF h[1] \in 224 .. 239 THEN (h[1] % 16) * 256 + h[2]
                    ELSE IF h[1] = 240 THEN UintLE4(Tail(h))
                    ELSE 0
    BY ONLY TRUE, Zenon DEF StrLen
  <2> QED
    BY ONLY <1>0, <2>1, Zenon
<1>3. c.head = h /\ c.body = Empty /\ c.back = 1
  BY <1>1 DEF Cell
<1> HIDE DEF c, k
<1>4. Size(c) = k + 1
  <2>1. Size(c) = k + Empty.len + 1
    BY <1>3 DEF Size, k
  <2> QED
    BY <1>0, <2>1, EmptyLen
<1>5. readListPackEntry(c) = IntEntry(IntOf(h), k + 1)
  <2>1. ~(Len(h) < HeadLen(h[1]))
    BY <1>0 DEF k
  <2>2. HeadLen(h[1]) + StrLen(h) + getBackLen(HeadLen(h[1]) + StrLen(h)) = k + 1
    <3>1. HeadLen(h[1]) + StrLen(h) = k
      BY <1>0, <1>2
    <3> QED
      BY <1>0, <1>1, <3>1
  <2>3. ~(h[1] \in 128 .. 191 \/ h[1] \in 224 .. 240)
    BY <1>0, Zenon
  <2> QED
    BY <1>0, <1>3, <1>4, <2>1, <2>2, <2>3, Zenon DEF readListPackEntry
<1> QED
  BY <1>4, <1>5, Zenon DEF c, k, ReadsBack

\* A header byte 241..244 and its 2, 3, 4 or 8 bytes are a complete header.
LEMMA WideHead ==
    ASSUME NEW b \in 241 .. 244, NEW s \in Seq(Byte), Len(s) > 0, HeadLen(b) = 1 + Len(s)
    PROVE  LET h == <<b>> \o s
           IN /\ ReadsBack(h, IntOf(h))
              /\ b = 241 => IntOf(h) = IntLE2(s)
              /\ b = 242 => IntOf(h) = IntLE3(s)
              /\ b = 243 => IntOf(h) = IntLE4(s)
              /\ b = 244 => IntOf(h) = IntLE8(s)
<1> DEFINE h == <<b>> \o s
<1>1. b \in Byte /\ b <= 244 /\ b \notin 128 .. 191 /\ b \notin 224 .. 240
  BY DEF Byte
<1>2. Len(h) = 1 + Len(s) /\ h[1] = b /\ Tail(h) = s
  BY <1>1, Prepend
<1> HIDE DEF h
<1>3. HeadLen(b) \in 1 .. 9
  BY DEF HeadLen
<1>4. IntHead(h)
  BY <1>1, <1>2, <1>3 DEF IntHead
<1>5. ~(h[1] < 128) /\ ~(h[1] < 224)
  BY <1>2
<1>6. b = 241 => IntOf(h) = IntLE2(s)
  BY <1>2, <1>5, Zenon DEF IntOf
<1>7. b = 242 => h[1] # 241
  BY <1>2
<1>8. b = 242 => IntOf(h) = IntLE3(s)
  BY <1>2, <1>5, <1>7, Zenon DEF IntOf
<1>9. b = 243 => h[1] # 241 /\ h[1] # 242
  BY <1>2
<1>10. b = 243 => IntOf(h) = IntLE4(s)
  BY <1>2, <1>5, <1>9, Zenon DEF IntOf
<1>11. b = 244 => h[1] # 241 /\ h[1] # 242 /\ h[1] # 243
  BY <1>2
<1>12. b = 244 => IntOf(h) = IntLE8(s)
  BY <1>2, <1>5, <1>11, Zenon DEF IntOf
<1>13. ReadsBack(h, IntOf(h))
  BY <1>4, HeadReadsBack, Zenon
<1> QED
  BY <1>6, <1>8, <1>10, <1>12, <1>13, Zenon DEF h

\* readListPackEntry, header 241.
LEMMA Read16 == ASSUME NEW v \in Wide(W2) PROVE ReadsBack(<<241>> \o PutLE2(v), v)
<1> DEFINE s == PutLE2(v)
           b == 241
<1>1. v \in Int
  BY DEF Wide, Int64s
<1>2. s \in Seq(Byte) /\ Len(s) = 2
  BY <1>1, PutTypes, Zenon
<1>3. IntLE2(s) = v
  BY LE2, Zenon
<1>4. b \in 241 .. 244 /\ b = 241 /\ HeadLen(b) = 1 + 2
  BY DEF HeadLen
<1> HIDE DEF s, b
<1>5. Len(s) > 0 /\ HeadLen(b) = 1 + Len(s)
  BY <1>2, <1>4
<1>6. ReadsBack(<<b>> \o s, IntOf(<<b>> \o s)) /\ IntOf(<<b>> \o s) = IntLE2(s)
  BY <1>2, <1>4, <1>5, WideHead, ZenonT(60)
<1>7. ReadsBack(<<b>> \o s, v)
  BY <1>3, <1>6, Zenon
<1> QED
  BY <1>4, <1>7, Zenon DEF s

\* readListPackEntry, header 242.
LEMMA Read24 == ASSUME NEW v \in Wide(W3) PROVE ReadsBack(<<242>> \o PutLE3(v), v)
<1> DEFINE s == PutLE3(v)
           b == 242
<1>1. v \in Int
  BY DEF Wide, Int64s
<1>2. s \in Seq(Byte) /\ Len(s) = 3
  BY <1>1, PutTypes, Zenon
<1>3. IntLE3(s) = v
  BY LE3, Zenon
<1>4. b \in 241 .. 244 /\ b = 242 /\ HeadLen(b) = 1 + 3
  BY DEF HeadLen
<1> HIDE DEF s, b
<1>5. Len(s) > 0 /\ HeadLen(b) = 1 + Len(s)
  BY <1>2, <1>4
<1>6. ReadsBack(<<b>> \o s, IntOf(<<b>> \o s)) /\ IntOf(<<b>> \o s) = IntLE3(s)
  BY <1>2, <1>4, <1>5, WideHead, ZenonT(60)
<1>7. ReadsBack(<<b>> \o s, v)
  BY <1>3, <1>6, Zenon
<1> QED
  BY <1>4, <1>7, Zenon DEF s

\* readListPackEntry, header 243.
LEMMA Read32 == ASSUME NEW v \in Wide(W4) PROVE ReadsBack(<<243>> \o PutLE4(v), v)
<1> DEFINE s == PutLE4(v)
           b == 243
<1>1. v \in Int
  BY DEF Wide, Int64s
<1>2. s \in Seq(Byte) /\ Len(s) = 4
  BY <1>1, PutTypes, Zenon
<1>3. IntLE4(s) = v
  BY LE4, Zenon
<1>4. b \in 241 .. 244 /\ b = 243 /\ HeadLen(b) = 1 + 4
  BY DEF HeadLen
<1> HIDE DEF s, b
<1>5. Len(s) > 0 /\ HeadLen(b) = 1 + Len(s)
  BY <1>2, <1>4
<1>6. ReadsBack(<<b>> \o s, IntOf(<<b>> \o s)) /\ IntOf(<<b>> \o s) = IntLE4(s)
  BY <1>2, <1>4, <1>5, WideHead, ZenonT(60)
<1>7. ReadsBack(<<b>> \o s, v)
  BY <1>3, <1>6, Zenon
<1> QED
  BY <1>4, <1>7, Zenon DEF s

\* readListPackEntry, header 244.
LEMMA Read64 == ASSUME NEW v \in Int64s PROVE ReadsBack(<<244>> \o PutLE8(v), v)
<1> DEFINE s == PutLE8(v)
           b == 244
<1>1. v \in Int
  BY DEF Wide, Int64s
<1>2. s \in Seq(Byte) /\ Len(s) = 8
  BY <1>1, PutTypes, Zenon
<1>3. IntLE8(s) = v
  BY LE8, Zenon
<1>4. b \in 241 .. 244 /\ b = 244 /\ HeadLen(b) = 1 + 8
  BY DEF HeadLen
<1> HIDE DEF s, b
<1>5. Len(s) > 0 /\ HeadLen(b) = 1 + Len(s)
  BY <1>2, <1>4
<1>6. ReadsBack(<<b>> \o s, IntOf(<<b>> \o s)) /\ IntOf(<<b>> \o s) = IntLE8(s)
  BY <1>2, <1>4, <1>5, WideHead, ZenonT(60)
<1>7. ReadsBack(<<b>> \o s, v)
  BY <1>3, <1>6, Zenon
<1> QED
  BY <1>4, <1>7, Zenon DEF s

\* Seven bits.
LEMMA Read7 == ASSUME NEW v \in 0 .. 127 PROVE ReadsBack(<<v>>, v)
<1> DEFINE h == <<v>>
<1>1. h[1] = v /\ Len(h) = 1
  OBVIOUS
<1> HIDE DEF h
<1>2. IntHead(h)
  BY <1>1 DEF IntHead, HeadLen, Byte
<1>3. h[1] < 128
  BY <1>1
<1>4. IntOf(h) = v
  BY <1>1, <1>3, Zenon DEF IntOf
<1>5. ReadsBack(h, v)
  BY <1>2, <1>4, HeadReadsBack, Zenon
<1> QED
  BY <1>5, Zenon DEF h

\* Thirteen bits u, of which the highest is the sign.
LEMMA Read13 ==
    ASSUME NEW x \in 192 .. 223, NEW y
    PROVE  ReadsBack(<<x, y>>, Signed13((x % 32) * 256 + y))
<1> DEFINE h == <<x, y>>
<1>1. h[1] = x /\ h[2] = y /\ Len(h) = 2
  OBVIOUS
<1> HIDE DEF h
<1>2. IntHead(h) /\ ~(h[1] < 128) /\ h[1] < 224
  BY <1>1 DEF IntHead, HeadLen, Byte
<1>3. IntOf(h) = Signed13((x % 32) * 256 + y)
  BY <1>1, <1>2, ZenonT(60) DEF IntOf
<1>4. ReadsBack(h, Signed13((x % 32) * 256 + y))
  BY <1>2, <1>3, HeadReadsBack, ZenonT(60)
<1> QED
  BY <1>4, Zenon DEF h

\* The integers a stream's listpack gets wrong: encodeListPackInt takes one
\* byte for all of -127..127, of which readListPackEntry reads only 0..127
\* back, and 13 bits for -8191..8191, of which it reads -4096..4095.
Misread == -127 .. -1 \cup 4096 .. 8191 \cup -8191 .. -4097

\* Thirteen bits survive the split over two bytes.
LEMMA Halves ==
    \A u \in 0 .. MaxInt13 : /\ 192 + u \div 256 \in 192 .. 223
                             /\ ((192 + u \div 256) % 32) * 256 + (u % 256) = u
BY SMT DEF MaxInt13

\* The bounds of the encoders lie within the widths they choose.
LEMMA FitsWide ==
    \A v \in Int :
        /\ Fits(v, MaxInt8) => v \in Wide(W1)
        /\ Fits(v, MaxInt16) => v \in Wide(W2)
        /\ Fits(v, MaxInt24) => v \in Wide(W3)
        /\ Fits(v, MaxInt32) => v \in Wide(W4)
        /\ FitsBothWays(v, MaxInt16) => v \in Wide(W2)
        /\ FitsBothWays(v, MaxInt24) => v \in Wide(W3)
        /\ FitsBothWays(v, MaxInt32) => v \in Wide(W4)
BY SMT DEF Fits, FitsBothWays, MaxInt8, MaxInt16, MaxInt24, MaxInt32, Wide, W1, W2, W3, W4

\* readListPackEntry (listpack.go:64) reads back every 64-bit integer that
\* encodeListPackInt (stream.go:762) wrote, at its full size, but for those
\* of Misread.
THEOREM ListpackIntReadsBack ==
    \A v \in Int64s \ Misread :
        readListPackEntry(IntCell(v)) = IntEntry(v, Size(IntCell(v)))
<1>0. \A v \in Int64s \ Misread : v \in Int /\ v \in Int64s /\ v \notin Misread
  BY DEF Int64s, Wide
<1> SUFFICES ASSUME NEW v \in Int, v \in Int64s, v \notin Misread
             PROVE  ReadsBack(encodeListPackInt(v), v)
  BY <1>0, Zenon DEF ReadsBack, IntCell
<1>1. CASE FitsBothWays(v, MaxInt8)
  <2>1. v \in 0 .. 127 /\ v % 256 = v
    BY <1>1, SMT DEF FitsBothWays, MaxInt8, Misread
  <2>2. encodeListPackInt(v) = <<v>>
    BY <1>1, <2>1, Zenon DEF encodeListPackInt
  <2> QED
    BY <2>1, <2>2, Read7, Zenon
<1>2. CASE ~FitsBothWays(v, MaxInt8) /\ FitsBothWays(v, MaxInt13)
  <2> DEFINE u == Bits13(v)
             x == 192 + u \div 256
             y == u % 256
  <2>1. encodeListPackInt(v) = <<x, y>>
    BY <1>2, Zenon DEF encodeListPackInt
  <2>2. u \in 0 .. MaxInt13
    BY <1>2, SMT DEF FitsBothWays, MaxInt8, MaxInt13, Bits13
  <2>4. Signed13(u) = v
    BY <1>2, SMT DEF FitsBothWays, MaxInt8, MaxInt13, Misread, Bits13, Signed13
  <2> HIDE DEF u
  <2>3. x \in 192 .. 223 /\ (x % 32) * 256 + y = u
    BY <2>2, Halves, Zenon
  <2> HIDE DEF x, y
  <2>5. ReadsBack(<<x, y>>, Signed13((x % 32) * 256 + y))
    BY <2>3, Read13, Zenon
  <2> QED
    BY <2>1, <2>3, <2>4, <2>5, Zenon
<1> DEFINE Wider == ~FitsBothWays(v, MaxInt8) /\ ~FitsBothWays(v, MaxInt13)
<1>3. CASE Wider /\ FitsBothWays(v, MaxInt16)
  <2>1. encodeListPackInt(v) = <<241>> \o PutLE2(v)
    BY <1>3, Zenon DEF encodeListPackInt
  <2> QED
    BY <1>3, <2>1, Read16, FitsWide, Zenon
<1>4. CASE Wider /\ ~FitsBothWays(v, MaxInt16) /\ FitsBothWays(v, MaxInt24)
  <2>1. encodeListPackInt(v) = <<242>> \o PutLE3(v)
    BY <1>4, Zenon DEF encodeListPackInt
  <2> QED
    BY <1>4, <2>1, Read24, FitsWide, Zenon
<1>5. CASE /\ Wider /\ ~FitsBothWays(v, MaxInt16) /\ ~FitsBothWays(v, MaxInt24)
           /\ FitsBothWays(v, MaxInt32)
  <2>1. encodeListPackInt(v) = <<243>> \o PutLE4(v)
    BY <1>5, Zenon DEF encodeListPackInt
  <2> QED
    BY <1>5, <2>1, Read32, FitsWide, Zenon
<1>6. CASE /\ Wider /\ ~FitsBothWays(v, MaxInt16) /\ ~FitsBothWays(v, MaxInt24)
           /\ ~FitsBothWays(v, MaxInt32)
  <2>1. encodeListPackInt(v) = <<244>> \o PutLE8(v)
    BY <1>6, Zenon DEF encodeListPackInt
  <2> QED
    BY <2>1, Read64, Zenon
<1> QED
  BY <1>1, <1>2, <1>3, <1>4, <1>5, <1>6, Zenon

\* Redis itself chooses other widths, and readListPackEntry reads all 64-bit
\* integers of its listpacks: what is wrong lies in the encoder alone.
THEOREM RedisIntReadsBack ==
    \A v \in Int64s : readListPackEntry(RedisInt(v)) = IntEntry(v, Size(RedisInt(v)))
<1>0. \A v \in Int64s : v \in Int
  BY DEF Int64s, Wide
<1> SUFFICES ASSUME NEW v \in Int, v \in Int64s
             PROVE  readListPackEntry(RedisInt(v)) = IntEntry(v, Size(RedisInt(v)))
  BY <1>0, Zenon
<1> DEFINE h == IF v \in 0 .. 127 THEN <<v>>
                ELSE IF Fits(v, MaxInt12)
                     THEN <<192 + Low13(v) \div 256, Low13(v) % 256>>
                ELSE IF Fits(v, MaxInt16) THEN <<241>> \o PutLE2(v)
                ELSE IF Fits(v, MaxInt24) THEN <<242>> \o PutLE3(v)
                ELSE IF Fits(v, MaxInt32) THEN <<243>> \o PutLE4(v)
                ELSE <<244>> \o PutLE8(v)
<1> SUFFICES ReadsBack(h, v)
  BY Zenon DEF ReadsBack, RedisInt
<1> DEFINE u == Low13(v)
           x == 192 + u \div 256
           y == u % 256
<1>1. Fits(v, MaxInt12) => ReadsBack(<<x, y>>, v)
  <2> SUFFICES ASSUME Fits(v, MaxInt12) PROVE ReadsBack(<<x, y>>, v)
    OBVIOUS
  <2>1. u \in 0 .. MaxInt13
    BY SMT DEF MaxInt13, Low13
  <2>3. Signed13(u) = v
    BY SMT DEF Fits, MaxInt12, Low13, Signed13
  <2> HIDE DEF u
  <2>2. x \in 192 .. 223 /\ (x % 32) * 256 + y = u
    BY <2>1, Halves, Zenon
  <2> HIDE DEF x, y
  <2>4. ReadsBack(<<x, y>>, Signed13((x % 32) * 256 + y))
    BY <2>2, Read13, Zenon
  <2> QED
    BY <2>2, <2>3, <2>4, Zenon
<1> QED
  BY <1>1, Read7, Read16, Read24, Read32, Read64, FitsWide, ZenonT(60)

\* readZipListEntry skips the length of the previous entry whole.
LEMMA PrevLenSkipped ==
    \A n \in Nat : /\ Len(PrevLen(n)) \in Nat
                   /\ (IF PrevLen(n)[1] = 254 THEN 5 ELSE 1) = Len(PrevLen(n))
<1> SUFFICES ASSUME NEW n \in Nat
             PROVE  /\ Len(PrevLen(n)) \in Nat
                    /\ (IF PrevLen(n)[1] = 254 THEN 5 ELSE 1) = Len(PrevLen(n))
  OBVIOUS
<1>1. CASE n < 254
  BY <1>1 DEF PrevLen
<1>2. CASE ~(n < 254)
  <2> DEFINE s == PutLE4(n)
             t == <<254>> \o s
  <2>1. s \in Seq(Byte) /\ Len(s) = 4
    BY PutTypes
  <2>2. 254 \in Byte
    BY DEF Byte
  <2> HIDE DEF s
  <2>3. t[1] = 254 /\ Len(t) = 5
    <3>1. Len(s) > 0
      BY <2>1
    <3>2. t[1] = 254 /\ Len(t) = 1 + Len(s)
      BY <2>1, <2>2, <3>1, Prepend, ZenonT(60)
    <3> QED
      BY <2>1, <3>2
  <2>4. PrevLen(n) = t
    BY <1>2, Zenon DEF PrevLen, s
  <2> HIDE DEF t
  <2> QED
    BY <2>3, <2>4
<1> QED
  BY <1>1, <1>2

\* The header of an integer, complete.
ZipIntHeadOk(h) ==
    /\ ~(h[1] < 192)
    /\ h[1] \div 16 = 15 \/ h[1] \in {192, 208, 224}
    /\ Len(h) \in Nat /\ ZipTakes(h) = Len(h)

\* A complete integer header of a ziplist gives the integer in it.
LEMMA ZipHeadReads ==
    ASSUME NEW n \in Nat, NEW h, ZipIntHeadOk(h)
    PROVE  readZipListEntry(ZipCell(PrevLen(n), h, Empty))
             = [is |-> "str", str |-> Num(ZipIntOf(h))]
<1> DEFINE c == ZipCell(PrevLen(n), h, Empty)
           skipped == IF c.prev[1] = 254 THEN 5 ELSE 1
<1>1. c.prev = PrevLen(n) /\ c.head = h /\ c.body = Empty
  BY DEF ZipCell
<1> HIDE DEF c
<1>2. skipped = Len(PrevLen(n)) /\ Len(PrevLen(n)) \in Nat
  <2>1. /\ Len(PrevLen(n)) \in Nat
        /\ (IF PrevLen(n)[1] = 254 THEN 5 ELSE 1) = Len(PrevLen(n))
    BY PrevLenSkipped, Zenon
  <2> QED
    BY <1>1, <2>1
<1>3. ZipSize(c) = Len(PrevLen(n)) + Len(h) + Empty.len
  BY <1>1, Zenon DEF ZipSize
<1>4. skipped + ZipTakes(h) = ZipSize(c)
  <2> HIDE DEF skipped
  <2>1. Len(h) \in Nat /\ ZipTakes(h) = Len(h)
    BY Zenon DEF ZipIntHeadOk
  <2> QED
    BY <1>2, <1>3, <2>1, EmptyLen
<1>5. readZipListEntry(c) = [is |-> "str", str |-> Num(ZipIntOf(h))]
  BY <1>1, <1>4, ZenonT(60) DEF readZipListEntry, ZipIntHeadOk
<1> QED
  BY <1>5, Zenon DEF c

\* The three-byte form.
LEMMA ZipHead24 ==
    ASSUME NEW s \in Seq(Byte), Len(s) = 3
    PROVE  ZipIntHeadOk(<<240>> \o s) /\ ZipIntOf(<<240>> \o s) = IntLE3(s)
<1> DEFINE b == 240
           h == <<b>> \o s
<1>0. b = 240
  OBVIOUS
<1>1. b \in Byte /\ Len(s) > 0
  BY DEF Byte
<1> HIDE DEF b
<1>2. Len(h) = 1 + Len(s) /\ h[1] = b /\ Tail(h) = s
  BY ONLY s \in Seq(Byte), <1>1, Prepend, Zenon DEF h
<1> HIDE DEF h
<1>3. ZipIntHeadOk(h) /\ h[1] # 254 /\ h[1] # 192
  BY <1>0, <1>2 DEF ZipIntHeadOk, ZipTakes
<1>4. h[1] = 240 /\ Tail(h) = s
  BY <1>0, <1>2, Zenon
<1>5. ZipIntOf(h) = IntLE3(s)
  BY ONLY <1>3, <1>4, Zenon DEF ZipIntOf
<1> QED
  BY <1>0, <1>3, <1>5, Zenon DEF h

\* The four-byte form.
LEMMA ZipHead32 ==
    ASSUME NEW s \in Seq(Byte), Len(s) = 4
    PROVE  ZipIntHeadOk(<<208>> \o s) /\ ZipIntOf(<<208>> \o s) = IntLE4(s)
<1> DEFINE b == 208
           h == <<b>> \o s
<1>0. b = 208
  OBVIOUS
<1>1. b \in Byte /\ Len(s) > 0
  BY DEF Byte
<1> HIDE DEF b
<1>2. Len(h) = 1 + Len(s) /\ h[1] = b /\ Tail(h) = s
  BY ONLY s \in Seq(Byte), <1>1, Prepend, Zenon DEF h
<1> HIDE DEF h
<1>3. ZipIntHeadOk(h) /\ h[1] # 254 /\ h[1] # 192 /\ h[1] # 240
  BY <1>0, <1>2 DEF ZipIntHeadOk, ZipTakes
<1>4. h[1] = 208 /\ Tail(h) = s
  BY <1>0, <1>2, Zenon
<1>5. ZipIntOf(h) = IntLE4(s)
  BY ONLY <1>3, <1>4, Zenon DEF ZipIntOf
<1> QED
  BY <1>0, <1>3, <1>5, Zenon DEF h

\* The eight-byte form.
LEMMA ZipHead64 ==
    ASSUME NEW s \in Seq(Byte), Len(s) = 8
    PROVE  ZipIntHeadOk(<<224>> \o s) /\ ZipIntOf(<<224>> \o s) = IntLE8(s)
<1> DEFINE b == 224
           h == <<b>> \o s
<1>0. b = 224
  OBVIOUS
<1>1. b \in Byte /\ Len(s) > 0
  BY DEF Byte
<1> HIDE DEF b
<1>2. Len(h) = 1 + Len(s) /\ h[1] = b /\ Tail(h) = s
  BY ONLY s \in Seq(Byte), <1>1, Prepend, Zenon DEF h
<1> HIDE DEF h
<1>3. ZipIntHeadOk(h) /\ h[1] # 254 /\ h[1] # 192 /\ h[1] # 240 /\ h[1] # 208
  BY <1>0, <1>2 DEF ZipIntHeadOk, ZipTakes
<1>4. h[1] = 224 /\ Tail(h) = s
  BY <1>0, <1>2, Zenon
<1>5. ZipIntOf(h) = IntLE8(s)
  BY ONLY <1>3, <1>4, Zenon DEF ZipIntOf
<1> QED
  BY <1>0, <1>3, <1>5, Zenon DEF h

\* readZipListEntry (ziplist.go) reads back every 64-bit integer that
\* encodeZipListEntry wrote, whatever entry of n bytes is in front of it: no
\* boundary between its five widths is off by one.
THEOREM ZiplistIntReadsBack ==
    \A v \in Int64s, n \in Nat :
        readZipListEntry(ZipCell(PrevLen(n), ZipIntHead(v), Empty))
          = [is |-> "str", str |-> Num(v)]
<1>0. \A v \in Int64s : v \in Int
  BY DEF Int64s, Wide
<1> SUFFICES ASSUME NEW v \in Int, v \in Int64s
             PROVE  ZipIntHeadOk(ZipIntHead(v)) /\ ZipIntOf(ZipIntHead(v)) = v
  BY <1>0, ZipHeadReads, Zenon
<1>1. CASE v \in 0 .. 12
  <2> DEFINE h == <<240 + v + 1>>
  <2>1. h[1] = 241 + v /\ Len(h) = 1
    BY <1>1
  <2> HIDE DEF h
  <2>2. ZipIntHeadOk(h)
    BY <1>1, <2>1 DEF ZipIntHeadOk, ZipTakes
  <2>3. ZipIntOf(h) = v
    BY <1>1, <2>1 DEF ZipIntOf
  <2>4. ZipIntHead(v) = h
    BY <1>1, Zenon DEF ZipIntHead, h
  <2> QED
    BY <2>2, <2>3, <2>4, Zenon
<1>2. CASE v \notin 0 .. 12 /\ Fits(v, MaxInt8)
  <2> DEFINE h == <<254, v % 256>>
  <2>1. h[1] = 254 /\ h[2] = Low(v) /\ Len(h) = 2
    BY DEF Low
  <2> HIDE DEF h
  <2>2. ZipIntHeadOk(h)
    BY <2>1 DEF ZipIntHeadOk, ZipTakes
  <2>3. ZipIntOf(h) = Signed(Low(v))
    BY <2>1, Zenon DEF ZipIntOf
  <2>4. Signed(Low(v)) = v
    BY <1>2, SignedByte, FitsWide, Zenon
  <2>5. ZipIntHead(v) = h
    BY <1>2, Zenon DEF ZipIntHead, h
  <2> QED
    BY <2>2, <2>3, <2>4, <2>5, Zenon
<1> DEFINE Wider == v \notin 0 .. 12 /\ ~Fits(v, MaxInt8)
<1>3. CASE Wider /\ Fits(v, MaxInt24)
  <2>1. ZipIntHead(v) = <<240>> \o PutLE3(v)
    BY <1>3, Zenon DEF ZipIntHead
  <2>2. IntLE3(PutLE3(v)) = v
    BY <1>3, FitsWide, LE3, Zenon
  <2>3. PutLE3(v) \in Seq(Byte) /\ Len(PutLE3(v)) = 3
    BY PutTypes, Zenon
  <2> QED
    BY <2>1, <2>2, <2>3, ZipHead24, Zenon
<1>4. CASE Wider /\ ~Fits(v, MaxInt24) /\ Fits(v, MaxInt32)
  <2>1. ZipIntHead(v) = <<208>> \o PutLE4(v)
    BY <1>4, Zenon DEF ZipIntHead
  <2>2. IntLE4(PutLE4(v)) = v
    BY <1>4, FitsWide, LE4, Zenon
  <2>3. PutLE4(v) \in Seq(Byte) /\ Len(PutLE4(v)) = 4
    BY PutTypes, Zenon
  <2> QED
    BY <2>1, <2>2, <2>3, ZipHead32, Zenon
<1>5. CASE Wider /\ ~Fits(v, MaxInt24) /\ ~Fits(v, MaxInt32)
  <2>1. ZipIntHead(v) = <<224>> \o PutLE8(v)
    BY <1>5, Zenon DEF ZipIntHead
  <2>2. IntLE8(PutLE8(v)) = v
    BY LE8, Zenon
  <2>3. PutLE8(v) \in Seq(Byte) /\ Len(PutLE8(v)) = 8
    BY PutTypes, Zenon
  <2> QED
    BY <2>1, <2>2, <2>3, ZipHead64, Zenon
<1> QED
  BY <1>1, <1>2, <1>3, <1>4, <1>5, Zenon

(***************************************************************************)
(* Lengths and integer strings.                                            *)
(***************************************************************************)
\* Four bytes, little endian, read as unsigned.
LEMMA UnsignedLE4 ==
    ASSUME NEW v \in Int, Upper(v) = 0
    PROVE  UintLE4(PutLE4(v)) = v /\ UintBE4(PutBE4(v)) = v
<1> DEFINE u == High(v)
           w == High(u)
           x == High(w)
<1>1. u \in Int /\ w \in Int /\ x \in Int
  BY LowHigh, Zenon
<1>2. High(x) = 0
  BY Zenon DEF Upper
<1>3. PutLE4(v) = <<Low(v), Low(u), Low(w), Low(x)>>
  BY Zenon DEF PutLE4
<1>4. /\ Low(v) \in 0 .. 255 /\ Low(v) + 256 * u = v
      /\ Low(u) \in 0 .. 255 /\ Low(u) + 256 * w = u
      /\ Low(w) \in 0 .. 255 /\ Low(w) + 256 * x = w
      /\ Low(x) \in 0 .. 255 /\ Low(x) + 256 * High(x) = x
  BY <1>1, LowHigh, ZenonT(60)
<1> HIDE DEF u, w, x
<1>5. Low(x) = x
  BY <1>1, <1>2, <1>4
<1> DEFINE q == PutLE4(v)
<1>6. q[1] = Low(v) /\ q[2] = Low(u) /\ q[3] = Low(w) /\ q[4] = Low(x)
  BY <1>3
<1>7. PutBE4(v) = <<q[4], q[3], q[2], q[1]>>
  BY Zenon DEF PutBE4
<1> HIDE DEF q
<1>8. q[1] + 256 * (q[2] + 256 * (q[3] + 256 * q[4])) = v
  <2>1. q[3] + 256 * q[4] = w
    BY <1>4, <1>5, <1>6, ZenonT(60)
  <2>2. q[2] + 256 * (q[3] + 256 * q[4]) = u
    BY <1>4, <1>6, <2>1, ZenonT(60)
  <2> QED
    BY <1>4, <1>6, <2>2, ZenonT(60)
<1>9. UintLE4(q) = v
  BY <1>8, Zenon DEF UintLE4
<1>10. UintBE4(PutBE4(v)) = v
  <2> DEFINE r == PutBE4(v)
  <2>1. r[1] = q[4] /\ r[2] = q[3] /\ r[3] = q[2] /\ r[4] = q[1]
    BY <1>7
  <2> HIDE DEF r
  <2>2. UintBE4(r) = v
    BY <1>8, <2>1, ZenonT(60) DEF UintBE4
  <2> QED
    BY <2>2, Zenon DEF r
<1> QED
  BY <1>9, <1>10, Zenon DEF q

\* The encoders of binary.BigEndian give bytes.
LEMMA BigEndianTypes ==
    \A v \in Int : /\ PutBE4(v) \in Seq(Byte) /\ Len(PutBE4(v)) > 0
                  /\ PutBE8(v) \in Seq(Byte) /\ Len(PutBE8(v)) > 0
<1> SUFFICES ASSUME NEW v \in Int
             PROVE  /\ PutBE4(v) \in Seq(Byte) /\ Len(PutBE4(v)) > 0
                    /\ PutBE8(v) \in Seq(Byte) /\ Len(PutBE8(v)) > 0
  OBVIOUS
<1> DEFINE q == PutLE4(v)
           p == PutLE8(v)
<1>1. q \in Seq(Byte) /\ Len(q) = 4 /\ p \in Seq(Byte) /\ Len(p) = 8
  BY PutTypes, Zenon
<1>2. PutBE4(v) = <<q[4], q[3], q[2], q[1]>>
  BY Zenon DEF PutBE4
<1>3. PutBE8(v) = <<p[8], p[7], p[6], p[5], p[4], p[3], p[2], p[1]>>
  BY Zenon DEF PutBE8
<1> HIDE DEF p, q
<1>4. (\A i \in 1 .. 4 : q[i] \in Byte) /\ (\A i \in 1 .. 8 : p[i] \in Byte)
  BY <1>1, ElementOfSeq
<1>5. q[1] \in Byte /\ q[2] \in Byte /\ q[3] \in Byte /\ q[4] \in Byte
  BY <1>4
<1>6. /\ p[1] \in Byte /\ p[2] \in Byte /\ p[3] \in Byte /\ p[4] \in Byte
      /\ p[5] \in Byte /\ p[6] \in Byte /\ p[7] \in Byte /\ p[8] \in Byte
  BY <1>4
<1>7. PutBE4(v) \in Seq(Byte) /\ Len(PutBE4(v)) = 4
  BY <1>2, <1>5
<1>8. PutBE8(v) \in Seq(Byte) /\ Len(PutBE8(v)) = 8
  BY <1>3, <1>6
<1> QED
  BY <1>7, <1>8

\* Eight bytes, big endian.
LEMMA BE8 == ASSUME NEW v \in Int64s PROVE IntBE8(PutBE8(v)) = v
<1> DEFINE p == PutLE8(v)
           r == PutBE8(v)
<1>1. v \in Int
  BY DEF Int64s, Wide
<1>2. IntLE8(p) = v
  BY LE8, Zenon
<1>3. r = <<p[8], p[7], p[6], p[5], p[4], p[3], p[2], p[1]>>
  BY Zenon DEF PutBE8
<1> HIDE DEF p, r
<1>4. /\ r[8] = p[1] /\ r[7] = p[2] /\ r[6] = p[3] /\ r[5] = p[4]
      /\ r[4] = p[5] /\ r[3] = p[6] /\ r[2] = p[7] /\ r[1] = p[8]
  BY <1>3
<1>5. IntBE8(r) = IntLE8(p)
  <2> DEFINE t == <<r[8], r[7], r[6], r[5], r[4], r[3], r[2], r[1]>>
  <2>1. /\ t[1] = p[1] /\ t[2] = p[2] /\ t[3] = p[3] /\ t[4] = p[4]
        /\ t[5] = p[5] /\ t[6] = p[6] /\ t[7] = p[7] /\ t[8] = p[8]
    BY <1>4
  <2>2. IntBE8(r) = IntLE8(t)
    BY Zenon DEF IntBE8
  <2> HIDE DEF t
  <2>3. IntLE8(t) = IntLE8(p)
    BY <2>1, ZenonT(60) DEF IntLE8
  <2> QED
    BY <2>2, <2>3, Zenon
<1> QED
  BY <1>2, <1>5, Zenon DEF r

\* The upper byte of a length of 14 bits.
LEMMA Uint14 == MaxUint14 \in Nat /\ \A v \in Int : v <= MaxUint14 <=> v < 16384
BY DEF MaxUint14

LEMMA Quotient == \A v \in 64 .. MaxUint14 : v \div 256 \in 0 .. 63
<1> TAKE v \in 64 .. MaxUint14
<1>1. v \in Int /\ 64 <= v /\ v < 16384
  BY Uint14
<1> QED
  BY ONLY <1>1

\* readLength (string.go) reads back every length writeLength wrote, in 6, 14,
\* 32 or 64 bits, and takes none for a special encoding.
THEOREM LengthReadsBack ==
    \A v \in Int64s : readLength(writeLength(v)) = [val |-> v, special |-> FALSE]
<1>0. \A v \in Int64s : v \in Int
  BY DEF Int64s, Wide
<1> SUFFICES ASSUME NEW v \in Int, v \in Int64s
             PROVE  readLength(writeLength(v)) = [val |-> v, special |-> FALSE]
  BY <1>0, Zenon
<1>1. CASE v \in 0 .. 63
  <2> DEFINE h == <<v>>
  <2>1. h[1] = v /\ h[1] < 64
    BY <1>1
  <2>2. writeLength(v) = h
    BY <1>1, Zenon DEF writeLength
  <2> HIDE DEF h
  <2> QED
    BY <2>1, <2>2, Zenon DEF readLength
<1>2. CASE v \notin 0 .. 63 /\ v \in 0 .. MaxUint14
  <2> DEFINE x == v \div 256 + 64
             y == v % 256
             h == <<x, y>>
  <2>1. writeLength(v) = h
    BY <1>2, Zenon DEF writeLength
  <2>2. ~(x < 64) /\ x < 128 /\ (x % 64) * 256 + y = v
    <3>1. v \in 64 .. MaxUint14
      BY ONLY <1>2, Uint14
    <3> DEFINE u == v \div 256
    <3>2. u \in Int /\ (v % 256) \in 0 .. 255 /\ (v % 256) + 256 * u = v
      BY LowHigh DEF Low, High
    <3>4. u \in 0 .. 63
      BY <3>1, Quotient, Zenon
    <3> HIDE DEF u
    <3>3. \A k \in 0 .. 63 : (k + 64) % 64 = k /\ ~(k + 64 < 64) /\ k + 64 < 128
      OBVIOUS
    <3>5. (u + 64) % 64 = u /\ ~(u + 64 < 64) /\ u + 64 < 128
      BY ONLY <3>3, <3>4, Zenon
    <3> QED
      BY <3>2, <3>5 DEF u
  <2>3. h[1] = x /\ h[2] = y
    OBVIOUS
  <2> HIDE DEF h, x, y
  <2> QED
    BY <2>1, <2>2, <2>3, ZenonT(60) DEF readLength
<1> DEFINE Longer == v \notin 0 .. 63 /\ v \notin 0 .. MaxUint14
<1>3. CASE Longer /\ Upper(v) = 0
  <2> DEFINE s == PutBE4(v)
             b == 128
             h == <<b>> \o s
  <2>1. writeLength(v) = h
    BY <1>3, Zenon DEF writeLength
  <2>2. UintBE4(s) = v
    BY <1>3, UnsignedLE4, Zenon
  <2>3. s \in Seq(Byte) /\ Len(s) > 0
    BY BigEndianTypes, Zenon
  <2>4. b \in Byte /\ b = 128 /\ ~(b < 64) /\ ~(b < 128)
    BY DEF Byte
  <2> HIDE DEF b, s
  <2>5. h[1] = b /\ Tail(h) = s
    BY <2>3, <2>4, Prepend, ZenonT(60)
  <2> HIDE DEF h
  <2>6. readLength(h) = [val |-> UintBE4(Tail(h)), special |-> FALSE]
    BY <2>4, <2>5, Zenon DEF readLength
  <2> QED
    BY <2>1, <2>2, <2>5, <2>6, Zenon
<1>4. CASE Longer /\ Upper(v) # 0
  <2> DEFINE s == PutBE8(v)
             b == 129
             h == <<b>> \o s
  <2>1. writeLength(v) = h
    BY <1>4, Zenon DEF writeLength
  <2>2. IntBE8(s) = v
    BY BE8, Zenon
  <2>3. s \in Seq(Byte) /\ Len(s) > 0
    BY BigEndianTypes, Zenon
  <2>4. b \in Byte /\ b = 129 /\ ~(b < 64) /\ ~(b < 128)
    BY DEF Byte
  <2>7. b # 128
    OBVIOUS
  <2> HIDE DEF b, s
  <2>5. h[1] = b /\ Tail(h) = s
    BY <2>3, <2>4, Prepend, ZenonT(60)
  <2> HIDE DEF h
  <2>6. readLength(h) = [val |-> IntBE8(Tail(h)), special |-> FALSE]
    BY <2>4, <2>5, <2>7, ZenonT(60) DEF readLength
  <2> QED
    BY <2>1, <2>2, <2>5, <2>6, Zenon
<1> QED
  BY <1>1, <1>2, <1>3, <1>4, Zenon

\* Different integers are different strings.
LEMMA NumInjective == \A v, w : Num(v) = Num(w) => v = w
<1> SUFFICES ASSUME NEW v, NEW w, Num(v) = Num(w) PROVE v = w
  OBVIOUS
<1>1. Num(v).val = <<v>> /\ Num(w).val = <<w>>
  BY DEF Num
<1>2. <<v>> = <<w>>
  BY <1>1, Zenon
<1> QED
  BY <1>2

\* The exception of ListpackIntReadsBack is exact: of each integer in Misread
\* readListPackEntry makes a string, an error, another integer, or it loses
\* its place in the listpack.
THEOREM MisreadIsMisread ==
    \A v \in Misread : readListPackEntry(IntCell(v)) # IntEntry(v, Size(IntCell(v)))
<1> SUFFICES ASSUME NEW v \in Int, v \in Misread
             PROVE  readListPackEntry(IntCell(v)) # IntEntry(v, Size(IntCell(v)))
  BY DEF Misread
<1> DEFINE h == encodeListPackInt(v)
           c == Cell(h, Empty, encodeBacklen(Len(h)))
<1>0. IntCell(v) = c
  BY Zenon DEF IntCell
<1>1. CASE FitsBothWays(v, MaxInt8)
  <2> DEFINE x == v % 256
  <2>1. x \in 129 .. 255
    BY <1>1, SMT DEF FitsBothWays, MaxInt8, Misread
  <2>2. h = <<x>>
    BY <1>1, Zenon DEF encodeListPackInt
  <2>3. h[1] = x /\ Len(h) = 1
    BY <2>2
  <2> HIDE DEF x, h
  <2>4. encodeBacklen(Len(h)) = 1
    BY <2>3, ShortBack
  <2>5. c.head = h /\ c.body = Empty /\ c.back = 1
    BY <2>4 DEF Cell
  <2> HIDE DEF c
  <2>6. Size(c) = 2
    <3>1. Size(c) = Len(h) + Empty.len + 1
      BY ONLY <2>5, Zenon DEF Size
    <3> QED
      BY ONLY <2>3, <3>1, EmptyLen
  <2>7. CASE x > 244
    <3>1. readListPackEntry(c) = BadEntry
      BY <2>3, <2>5, <2>7, Zenon DEF readListPackEntry
    <3> QED
      BY <1>0, <3>1 DEF BadEntry, IntEntry
  <2>8. CASE x \in 192 .. 244
    <3>1. Len(h) < HeadLen(h[1])
      BY <2>3, <2>8 DEF HeadLen
    <3>2. ~(h[1] > 244)
      BY <2>3, <2>8
    <3>3. readListPackEntry(c) = LostEntry
      BY <2>5, <3>1, <3>2, Zenon DEF readListPackEntry
    <3> QED
      BY <1>0, <3>3 DEF LostEntry, IntEntry
  <2>9. CASE x \in 129 .. 191
    <3>1. StrLen(h) = x % 64 /\ HeadLen(h[1]) = 1
      BY <2>3, <2>9 DEF StrLen, HeadLen
    <3> DEFINE len == HeadLen(h[1]) + StrLen(h)
    <3>2. len \in 2 .. 64
      BY <2>9, <3>1
    <3> HIDE DEF len
    <3>3. getBackLen(len) = 1
      BY <3>2, SMT DEF getBackLen
    <3>4. len + getBackLen(len) # Size(c)
      BY <2>6, <3>2, <3>3
    <3>5. ~(h[1] > 244)
      BY <2>3, <2>9
    <3>6. readListPackEntry(c) = LostEntry
      BY <2>5, <3>4, <3>5, Zenon DEF readListPackEntry, len
    <3> QED
      BY <1>0, <3>6 DEF LostEntry, IntEntry
  <2> QED
    BY <2>1, <2>7, <2>8, <2>9
<1>2. CASE ~FitsBothWays(v, MaxInt8)
  <2> DEFINE u == Bits13(v)
             x == 192 + u \div 256
             y == u % 256
             w == Signed13(u)
  <2>1. FitsBothWays(v, MaxInt13)
    BY <1>2, SMT DEF FitsBothWays, MaxInt8, MaxInt13, Misread
  <2>2. h = <<x, y>>
    BY <1>2, <2>1, Zenon DEF encodeListPackInt
  <2>3. u \in 0 .. MaxInt13
    BY <2>1, SMT DEF FitsBothWays, MaxInt13, Bits13
  <2>4. w # v
    BY <1>2, <2>1, SMT DEF FitsBothWays, MaxInt8, MaxInt13, Misread, Bits13, Signed13
  <2> HIDE DEF u
  <2>5. x \in 192 .. 223 /\ (x % 32) * 256 + y = u
    BY <2>3, Halves, Zenon
  <2> HIDE DEF x, y
  <2>6. ReadsBack(<<x, y>>, w)
    BY <2>5, Read13, ZenonT(60)
  <2>7. readListPackEntry(c) = IntEntry(w, Size(c))
    BY <2>2, <2>6, Zenon DEF ReadsBack
  <2> HIDE DEF w, c
  <2>8. IntEntry(w, Size(c)).str = Num(w) /\ IntEntry(v, Size(c)).str = Num(v)
    BY DEF IntEntry
  <2> QED
    BY <1>0, <2>4, <2>7, <2>8, NumInjective, Zenon
<1> QED
  BY <1>1, <1>2

\* The header of a string says its own length and that of the string.
LEMMA StringHead ==
    ASSUME NEW n \in Nat, Upper(n) = 0
    PROVE  LET h == encodeListPackString(n)
           IN /\ h[1] \in 128 .. 191 \/ h[1] \in 224 .. 240
              /\ Len(h) \in Nat /\ HeadLen(h[1]) = Len(h) /\ StrLen(h) = n
<1> DEFINE h == encodeListPackString(n)
           Good == /\ h[1] \in 128 .. 191 \/ h[1] \in 224 .. 240
                   /\ Len(h) \in Nat /\ HeadLen(h[1]) = Len(h) /\ StrLen(h) = n
<1>1. CASE n <= 63
  <2>1. h = <<128 + n>>
    BY <1>1, Zenon DEF encodeListPackString
  <2>2. h[1] = 128 + n /\ Len(h) = 1
    BY <2>1
  <2> HIDE DEF h
  <2> QED
    BY <1>1, <2>2 DEF HeadLen, StrLen, h
<1>2. CASE ~(n <= 63) /\ n <= MaxInt12
  <2> DEFINE x == 224 + n \div 256
             y == n % 256
  <2>1. h = <<x, y>>
    BY <1>2, Zenon DEF encodeListPackString
  <2>2. x \in 224 .. 239 /\ (x % 16) * 256 + y = n
    BY <1>2, SMT DEF MaxInt12
  <2>3. h[1] = x /\ h[2] = y /\ Len(h) = 2
    BY <2>1
  <2> HIDE DEF h, x, y
  <2>4. HeadLen(h[1]) = 2
    BY <2>2, <2>3 DEF HeadLen
  <2>5. h[1] \notin 128 .. 191 /\ h[1] \in 224 .. 239 /\ h[1] \in 224 .. 240
    BY <2>2, <2>3
  <2>6. StrLen(h) = n
    <3>1. StrLen(h) = IF h[1] \in 128 .. 191 THEN h[1] % 64
                     ELSE IF h[1] \in 224 .. 239 THEN (h[1] % 16) * 256 + h[2]
                     ELSE IF h[1] = 240 THEN UintLE4(Tail(h))
                     ELSE 0
      BY ONLY TRUE, Zenon DEF StrLen
    <3>2. StrLen(h) = (h[1] % 16) * 256 + h[2]
      BY ONLY <2>5, <3>1
    <3> QED
      BY ONLY <2>2, <2>3, <3>2, Zenon
  <2>7. Good
    BY <2>3, <2>4, <2>5, <2>6
  <2> QED
    BY <2>7, Zenon DEF h
<1>3. CASE ~(n <= 63) /\ ~(n <= MaxInt12)
  <2> DEFINE s == PutLE4(n)
             b == 240
  <2>1. h = <<b>> \o s
    BY <1>3, Zenon DEF encodeListPackString
  <2>2. s \in Seq(Byte) /\ Len(s) = 4
    BY PutTypes
  <2>3. UintLE4(s) = n
    BY UnsignedLE4
  <2>4. b \in Byte
    BY DEF Byte
  <2>b. b = 240
    OBVIOUS
  <2> HIDE DEF h, b, s
  <2>5. Len(s) > 0
    BY <2>2
  <2>6. h[1] = b /\ Len(h) = 1 + Len(s) /\ Tail(h) = s
    <3>1. (<<b>> \o s)[1] = b /\ Len(<<b>> \o s) = 1 + Len(s) /\ Tail(<<b>> \o s) = s
      BY ONLY <2>2, <2>4, <2>5, Prepend, Zenon
    <3> QED
      BY ONLY <2>1, <3>1, Zenon
  <2>7. HeadLen(h[1]) = 5 /\ Len(h) = 5
    BY <2>2, <2>b, <2>6 DEF HeadLen
  <2>8. h[1] \notin 128 .. 191 /\ h[1] \notin 224 .. 239 /\ h[1] \in 224 .. 240 /\ h[1] = 240
    BY <2>b, <2>6
  <2>9. StrLen(h) = n
    <3>1. StrLen(h) = IF h[1] \in 128 .. 191 THEN h[1] % 64
                     ELSE IF h[1] \in 224 .. 239 THEN (h[1] % 16) * 256 + h[2]
                     ELSE IF h[1] = 240 THEN UintLE4(Tail(h))
                     ELSE 0
      BY ONLY TRUE, Zenon DEF StrLen
    <3>2. StrLen(h) = UintLE4(Tail(h))
      BY ONLY <2>8, <3>1
    <3> QED
      BY ONLY <2>3, <2>6, <3>2, Zenon
  <2>10. Good
    BY <2>7, <2>8, <2>9
  <2> QED
    BY <2>10, Zenon DEF h
<1> QED
  BY <1>1, <1>2, <1>3, Zenon

\* encodeBacklen and getBackLen agree on the size of a back length.
LEMMA SameBackLen == \A n \in Nat : encodeBacklen(n) = getBackLen(n) /\ getBackLen(n) \in Nat
BY SMT DEF encodeBacklen, getBackLen

\* A string with its header and its back length.
TextCell(s) ==
    LET head == encodeListPackString(s.len)
    IN Cell(head, s, encodeBacklen(Len(head) + s.len))

LEMMA TextCellReads ==
    ASSUME NEW s, s.len \in Nat, Upper(s.len) = 0
    PROVE  readListPackEntry(TextCell(s)) = StrEntry(s, Size(TextCell(s)))
<1> DEFINE n == s.len
           h == encodeListPackString(n)
           len == Len(h) + n
           c == Cell(h, s, encodeBacklen(len))
<1>1. TextCell(s) = c
  BY Zenon DEF TextCell
<1>2. /\ h[1] \in 128 .. 191 \/ h[1] \in 224 .. 240
      /\ Len(h) \in Nat /\ HeadLen(h[1]) = Len(h) /\ StrLen(h) = n
  BY StringHead, Zenon
<1>3. c.head = h /\ c.body = s /\ c.back = encodeBacklen(len)
  BY DEF Cell
<1> HIDE DEF c, h
<1>4. len \in Nat
  BY <1>2
<1>5. encodeBacklen(len) = getBackLen(len) /\ getBackLen(len) \in Nat
  BY <1>4, SameBackLen, Zenon
<1>6. Size(c) = len + getBackLen(len)
  BY <1>3, <1>5, Zenon DEF Size
<1>7. ~(h[1] > 244) /\ ~(Len(h) < HeadLen(h[1]))
  <2>0. \A x : x \in 128 .. 191 \/ x \in 224 .. 240 => ~(x > 244)
    OBVIOUS
  <2>1. ~(h[1] > 244)
    BY ONLY <1>2, <2>0, Zenon
  <2>2. \A k \in Nat : ~(k < k)
    OBVIOUS
  <2>3. ~(Len(h) < HeadLen(h[1]))
    BY ONLY <1>2, <2>2, Zenon
  <2> QED
    BY <2>1, <2>3
<1>8. HeadLen(h[1]) + StrLen(h) = len
  BY <1>2, Zenon
<1> HIDE DEF len
<1>9. readListPackEntry(c) = StrEntry(s, Size(c))
  BY <1>2, <1>3, <1>6, <1>7, <1>8, Zenon DEF readListPackEntry
<1> QED
  BY <1>1, <1>9, Zenon

\* readListPackEntry reads back every string of up to 2^32 - 1 bytes that
\* is not empty as encodeListPackString and buildListpackWithBacklen put it,
\* and ends behind its back length.
THEOREM ListpackStringReadsBack ==
    ASSUME NEW s, s.len \in Nat, s.len # 0, Upper(s.len) = 0
    PROVE  readListPackEntry(StrCell(s)) = StrEntry(s, Size(StrCell(s)))
<1>1. StrCell(s) = TextCell(s)
  BY Zenon DEF StrCell, TextCell
<1> QED
  BY <1>1, TextCellReads, Zenon

Less == {p \in Nat \X Nat : p[1] < p[2]}

\* There is no endless descent in the natural numbers.
LEMMA NatWellFounded == IsWellFoundedOn(Less, Nat)
<1>1. OpToRel(<, Nat) = Less
  BY Zenon DEF OpToRel, Less
<1> QED
  BY <1>1, NatLessThanWellFounded

\* Every set of natural numbers that is not empty has a least element.
LEMMA LeastNumber ==
    ASSUME NEW T \in SUBSET Nat, T # {}
    PROVE  \E x \in T : \A y \in T : x <= y
<1>1. \E x \in T : \A y \in T : ~(<<y, x>> \in Less)
  BY NatWellFounded, WFMin, Zenon
<1>2. \A x, y \in Nat : y < x => <<y, x>> \in Less
  BY DEF Less
<1>3. PICK x \in T : \A y \in T : ~(<<y, x>> \in Less)
  BY <1>1
<1>4. ASSUME NEW y \in T PROVE x <= y
  <2>1. x \in Nat /\ y \in Nat
    OBVIOUS
  <2>2. <<y, x>> \notin Less
    BY <1>3
  <2>3. ~(y < x)
    BY <1>2, <2>1, <2>2, Zenon
  <2> QED
    BY <2>1, <2>3
<1> QED
  BY <1>4

\* What is true at 0 and passed on from each turn of a loop to the next.
LEMMA TurnByTurn ==
    ASSUME NEW n \in Nat, NEW P,
           0 \in P,
           \A i \in 1 .. n : i - 1 \in P => i \in P
    PROVE  \A i \in 0 .. n : i \in P
<1> DEFINE T == {i \in 0 .. n : i \notin P}
<1>1. ASSUME T # {} PROVE FALSE
  <2>1. T \in SUBSET Nat
    OBVIOUS
  <2> HIDE DEF T
  <2>2. PICK x \in T : \A y \in T : x <= y
    BY <1>1, <2>1, LeastNumber
  <2> USE DEF T
  <2>3. x \in 0 .. n /\ x \notin P
    OBVIOUS
  <2>4. x # 0
    BY <2>3
  <2>5. x \in 1 .. n /\ x - 1 \in 0 .. n /\ ~(x <= x - 1)
    BY <2>3, <2>4
  <2>6. x - 1 \notin T
    BY <2>2, <2>5
  <2> QED
    BY <2>3, <2>5, <2>6
<1> QED
  BY <1>1

\* The loop of Iterate with the values h of its variable before and after each turn.
Loop(f, h, n) == DOMAIN f = 0 .. n /\ f[0] = {h[0]}
                 /\ \A i \in 1 .. n : f[i - 1] = {h[i - 1]} => f[i] = {h[i]}

LEMMA LoopEnds ==
    ASSUME NEW n \in Nat, NEW f, NEW h, Loop(f, h, n)
    PROVE  f[n] = {h[n]} /\ (CHOOSE x \in f[n] : TRUE) = h[n]
<1> DEFINE P == {i \in 0 .. n : f[i] = {h[i]}}
<1>1. 0 \in P
  BY DEF Loop
<1>2. ASSUME NEW i \in 1 .. n, i - 1 \in P PROVE i \in P
  BY <1>2 DEF Loop
<1>3. \A i \in 0 .. n : i \in P
  <2> HIDE DEF P
  <2> QED
    BY <1>1, <1>2, TurnByTurn
<1>4. f[n] = {h[n]}
  BY <1>3
<1> QED
  BY <1>4

\* Concatenation of items.
LEMMA ConcatTest ==
    ASSUME NEW ss, NEW n \in Nat, n = Len(ss), NEW h,
           h[0] = << >>, \A i \in 1 .. n : h[i] = h[i - 1] \o ss[i]
    PROVE  Iterate(Len(ss), << >>, LAMBDA x, i : x \o ss[i]) = h[n]
<1> DEFINE IsAfter(f) == f = [i \in 0 .. Len(ss) |-> IF i = 0 THEN {<< >>}
                                                ELSE {x \o ss[i] : x \in f[i - 1]}]
           after == CHOOSE f : IsAfter(f)
<1>1. Iterate(Len(ss), << >>, LAMBDA x, i : x \o ss[i]) = CHOOSE x \in after[Len(ss)] : TRUE
  BY Zenon DEF Iterate
<1> DEFINE f0 == [i \in 0 .. Len(ss) |-> {h[i]}]
<1>2. IsAfter(f0)
  <2>1. ASSUME NEW i \in 0 .. Len(ss)
        PROVE  f0[i] = IF i = 0 THEN {<< >>} ELSE {x \o ss[i] : x \in f0[i - 1]}
    <3>1. CASE i = 0
      BY <3>1
    <3>2. CASE i # 0
      <4>1. i \in 1 .. n /\ i - 1 \in 0 .. Len(ss)
        BY <3>2
      <4>2. f0[i - 1] = {h[i - 1]} /\ f0[i] = {h[i]}
        BY <4>1
      <4>3. {x \o ss[i] : x \in f0[i - 1]} = {h[i - 1] \o ss[i]}
        BY <4>2, Zenon
      <4> QED
        BY <3>2, <4>1, <4>2, <4>3
    <3> QED
      BY <3>1, <3>2
  <2> HIDE DEF f0
  <2>2. f0 = [i \in 0 .. Len(ss) |-> f0[i]]
    BY Zenon DEF f0
  <2> QED
    BY <2>1, <2>2, Zenon
<1> HIDE DEF IsAfter
<1>3. IsAfter(after)
  BY <1>2, Zenon
<1> HIDE DEF after
<1>4. Loop(after, h, n)
  <2>1. after = [i \in 0 .. Len(ss) |-> IF i = 0 THEN {<< >>}
                                        ELSE {x \o ss[i] : x \in after[i - 1]}]
    BY <1>3, Zenon DEF IsAfter
  <2>2. DOMAIN after = 0 .. n /\ after[0] = {<< >>}
    BY <2>1
  <2>3. ASSUME NEW i \in 1 .. n PROVE after[i] = {x \o ss[i] : x \in after[i - 1]}
    <3>1. i \in 0 .. Len(ss) /\ i # 0
      OBVIOUS
    <3> QED
      BY <2>1, <3>1, Zenon
  <2>4. ASSUME NEW i \in 1 .. n, after[i - 1] = {h[i - 1]} PROVE after[i] = {h[i]}
    <3>1. {x \o ss[i] : x \in after[i - 1]} = {h[i - 1] \o ss[i]}
      BY <2>4, Zenon
    <3> QED
      BY <2>3, <3>1
  <2> QED
    BY <2>2, <2>4 DEF Loop
<1> QED
  BY <1>1, <1>4, LoopEnds

-----------------------------------------------------------------------------
(***************************************************************************)
(* Sequences that follow each other.                                       *)
(***************************************************************************)
\* In a, then t, then m: where the elements of t are.
LEMMA Middle ==
    ASSUME NEW S, NEW a \in Seq(S), NEW t \in Seq(S), NEW m \in Seq(S)
    PROVE  /\ (a \o t) \o m \in Seq(S)
           /\ Len((a \o t) \o m) = Len(a) + Len(t) + Len(m)
           /\ \A i \in 1 .. Len(t) : ((a \o t) \o m)[Len(a) + i] = t[i]
<1> DEFINE u == a \o t
           o == u \o m
<1>0. Len(a) \in Nat /\ Len(t) \in Nat /\ Len(m) \in Nat
  OBVIOUS
<1>1. /\ u \in Seq(S) /\ Len(u) = Len(a) + Len(t)
      /\ \A i \in 1 .. Len(a) + Len(t) : u[i] = IF i <= Len(a) THEN a[i] ELSE t[i - Len(a)]
  BY ConcatProperties
<1> HIDE DEF u
<1>2. /\ o \in Seq(S) /\ Len(o) = Len(u) + Len(m)
      /\ \A i \in 1 .. Len(u) + Len(m) : o[i] = IF i <= Len(u) THEN u[i] ELSE m[i - Len(u)]
  <2>1. u \in Seq(S)
    BY <1>1
  <2> QED
    BY <2>1, ConcatProperties
<1> HIDE DEF o
<1>3. ASSUME NEW i \in 1 .. Len(t) PROVE o[Len(a) + i] = t[i]
  <2>1. Len(a) + i \in 1 .. Len(u) + Len(m) /\ Len(a) + i <= Len(u)
    BY <1>0, <1>1
  <2>2. o[Len(a) + i] = u[Len(a) + i]
    BY <1>2, <2>1
  <2>3. Len(a) + i \in 1 .. Len(a) + Len(t) /\ ~(Len(a) + i <= Len(a)) /\ Len(a) + i - Len(a) = i
    BY <1>0
  <2>4. u[Len(a) + i] = t[i]
    BY <1>1, <2>3
  <2> QED
    BY <2>2, <2>4
<1>4. Len(o) = Len(a) + Len(t) + Len(m)
  BY <1>0, <1>1, <1>2
<1> QED
  BY <1>2, <1>3, <1>4 DEF o, u

-----------------------------------------------------------------------------
(***************************************************************************)
(* LZF.  What Compress has written before a place decodes to what it has   *)
(* read before it, whatever follows.                                       *)
(***************************************************************************)
LzfByte == 0 .. ByteBase - 1

\* The states of Decompress before the first turn and after k turns.
At(i, p) == [in |-> i, out |-> p, ok |-> TRUE]
IsDecoding(f, k, o, outLen) ==
    /\ DOMAIN f = 0 .. k
    /\ f[0] = At(0, << >>)
    /\ \A i \in 1 .. k : f[i] = Decode(f[i - 1], o, outLen)

Decodes(out, p) ==
    \E k \in 0 .. Len(out) : \A more \in Seq(LzfByte), outLen \in Nat :
        outLen >= Len(p) =>
            \E f : IsDecoding(f, k, out \o more, outLen) /\ f[k] = At(Len(out), p)

\* The numbers of the format.
LEMMA LzfNumbers == /\ MaxLit \in Nat /\ MaxLit >= 1 /\ LongMark \in Nat /\ LongMark >= 1
                    /\ ByteBase \in Nat /\ ByteBase >= MaxLit + MaxLit
                    /\ ByteBase = MaxLit * LongMark + MaxLit
                    /\ MaxOff = MaxLit * ByteBase /\ MaxRef = ByteBase + LongMark + 1
<1>1. MaxLit \in Nat /\ MaxLit >= 1 /\ LongMark \in Nat /\ LongMark >= 1
  BY LzfAssumption
<1>2. ByteBase = MaxLit * LongMark + MaxLit
  BY <1>1 DEF ByteBase
<1>3. MaxLit * LongMark \in Nat /\ MaxLit * LongMark >= MaxLit
  BY <1>1
<1> QED
  BY <1>1, <1>2, <1>3 DEF MaxOff, MaxRef

\* One more turn.
LEMMA DecodeOnce ==
    ASSUME NEW k \in Nat, NEW f, NEW o, NEW outLen, IsDecoding(f, k, o, outLen)
    PROVE  \E g : IsDecoding(g, k + 1, o, outLen) /\ g[k + 1] = Decode(f[k], o, outLen)
<1> DEFINE g == [i \in 0 .. k + 1 |-> IF i <= k THEN f[i] ELSE Decode(f[k], o, outLen)]
<1>1. DOMAIN g = 0 .. k + 1 /\ g[0] = f[0] /\ g[k + 1] = Decode(f[k], o, outLen)
  OBVIOUS
<1>2. ASSUME NEW i \in 1 .. k + 1 PROVE g[i] = Decode(g[i - 1], o, outLen)
  <2>1. i - 1 \in 0 .. k + 1 /\ i - 1 <= k /\ g[i - 1] = f[i - 1]
    OBVIOUS
  <2>2. CASE i <= k
    <3>1. i \in 1 .. k /\ g[i] = f[i]
      BY <2>2
    <3>2. f[i] = Decode(f[i - 1], o, outLen)
      BY <3>1 DEF IsDecoding
    <3> QED
      BY <2>1, <3>1, <3>2, Zenon
  <2>3. CASE ~(i <= k)
    <3>1. i = k + 1 /\ i - 1 = k
      BY <2>3
    <3>2. g[i] = Decode(f[k], o, outLen)
      BY <1>1, <3>1, Zenon
    <3> QED
      BY <2>1, <3>1, <3>2, Zenon
  <2> QED
    BY <2>2, <2>3
<1> HIDE DEF g
<1>3. IsDecoding(g, k + 1, o, outLen)
  BY <1>1, <1>2, Zenon DEF IsDecoding
<1> QED
  BY <1>1, <1>3, Zenon

\* Nothing decodes to nothing.
LEMMA DecodesNothing == Decodes(<< >>, << >>)
<1>1. Len(<< >>) = 0
  OBVIOUS
<1>2. 0 \in 0 .. Len(<< >>)
  BY <1>1
<1>3. ASSUME NEW more \in Seq(LzfByte), NEW outLen \in Nat
      PROVE  \E f : IsDecoding(f, 0, << >> \o more, outLen) /\ f[0] = At(Len(<< >>), << >>)
  <2> DEFINE f == [i \in 0 .. 0 |-> At(0, << >>)]
  <2>1. DOMAIN f = 0 .. 0 /\ f[0] = At(0, << >>)
    OBVIOUS
  <2> HIDE DEF f
  <2>2. IsDecoding(f, 0, << >> \o more, outLen)
    BY <2>1 DEF IsDecoding
  <2> QED
    BY <1>1, <2>1, <2>2, Zenon
<1> QED
  BY <1>2, <1>3, Zenon DEF Decodes

\* A token that is read in one turn wherever it stands.
LEMMA DecodesToken ==
    ASSUME NEW out \in Seq(LzfByte), NEW p, NEW t \in Seq(LzfByte), NEW q,
           Len(p) \in Nat, Len(q) \in Nat, Len(p) <= Len(q), Len(t) > 0,
           Decodes(out, p),
           \A more \in Seq(LzfByte), outLen \in Nat :
               outLen >= Len(q) =>
                   Decode(At(Len(out), p), (out \o t) \o more, outLen) = At(Len(out) + Len(t), q)
    PROVE  out \o t \in Seq(LzfByte) /\ Len(out \o t) = Len(out) + Len(t) /\ Decodes(out \o t, q)
<1>1. /\ out \o t \in Seq(LzfByte) /\ Len(out \o t) = Len(out) + Len(t)
      /\ Len(out) \in Nat /\ Len(t) \in Nat
  BY ConcatProperties
<1>2. PICK k \in 0 .. Len(out) : \A more \in Seq(LzfByte), outLen \in Nat :
          outLen >= Len(p) =>
            \E f : IsDecoding(f, k, out \o more, outLen) /\ f[k] = At(Len(out), p)
  BY Zenon DEF Decodes
<1>3. k + 1 \in 0 .. Len(out \o t) /\ k \in Nat
  BY <1>1
<1>4. ASSUME NEW more \in Seq(LzfByte), NEW outLen \in Nat, outLen >= Len(q)
      PROVE  \E g : /\ IsDecoding(g, k + 1, (out \o t) \o more, outLen)
                    /\ g[k + 1] = At(Len(out \o t), q)
  <2>1. t \o more \in Seq(LzfByte)
    BY ConcatProperties
  <2>2. outLen >= Len(p)
    BY <1>4
  <2>3. PICK f : IsDecoding(f, k, out \o (t \o more), outLen) /\ f[k] = At(Len(out), p)
    BY <1>2, <2>1, <2>2, Zenon
  <2>4. (out \o t) \o more = out \o (t \o more)
    BY ConcatAssociative
  <2>5. IsDecoding(f, k, (out \o t) \o more, outLen)
    BY <2>3, <2>4, Zenon
  <2>6. Decode(At(Len(out), p), (out \o t) \o more, outLen) = At(Len(out) + Len(t), q)
    BY <1>4
  <2>7. \E g : /\ IsDecoding(g, k + 1, (out \o t) \o more, outLen)
               /\ g[k + 1] = Decode(f[k], (out \o t) \o more, outLen)
    BY <1>3, <2>5, DecodeOnce
  <2> QED
    BY <1>1, <2>3, <2>6, <2>7, Zenon
<1>5. Decodes(out \o t, q)
  BY <1>3, <1>4, Zenon DEF Decodes
<1> QED
  BY <1>1, <1>5

\* A beginning of a sequence and the element after it.
LEMMA OneMore ==
    ASSUME NEW S, NEW s \in Seq(S), NEW n \in 1 .. Len(s)
    PROVE  /\ SubSeq(s, 1, n - 1) \in Seq(S) /\ Len(SubSeq(s, 1, n - 1)) = n - 1
           /\ \A i \in 1 .. n - 1 : SubSeq(s, 1, n - 1)[i] = s[i]
           /\ SubSeq(s, 1, n) = Append(SubSeq(s, 1, n - 1), s[n])
<1>1. \A i \in 1 .. n : s[i] \in S
  OBVIOUS
<1>2. \A i \in 1 .. n - 1 : s[i] \in S
  OBVIOUS
<1>3. /\ SubSeq(s, 1, n - 1) \in Seq(S)
      /\ Len(SubSeq(s, 1, n - 1)) = IF 1 <= n - 1 THEN n - 1 - 1 + 1 ELSE 0
      /\ \A i \in 1 .. n - 1 - 1 + 1 : SubSeq(s, 1, n - 1)[i] = s[1 + i - 1]
  <2>1. 1 \in Int /\ n - 1 \in Int
    OBVIOUS
  <2> QED
    BY <1>2, <2>1, SubSeqProperties
<1>4. /\ SubSeq(s, 1, n) \in Seq(S)
      /\ Len(SubSeq(s, 1, n)) = IF 1 <= n THEN n - 1 + 1 ELSE 0
      /\ \A i \in 1 .. n - 1 + 1 : SubSeq(s, 1, n)[i] = s[1 + i - 1]
  <2>1. 1 \in Int /\ n \in Int
    OBVIOUS
  <2> QED
    BY <1>1, <2>1, SubSeqProperties
<1> DEFINE u == SubSeq(s, 1, n - 1)
           w == Append(u, s[n])
<1>5. u \in Seq(S) /\ Len(u) = n - 1 /\ \A i \in 1 .. n - 1 : u[i] = s[i]
  BY <1>3
<1>6. SubSeq(s, 1, n) \in Seq(S) /\ Len(SubSeq(s, 1, n)) = n
      /\ \A i \in 1 .. n : SubSeq(s, 1, n)[i] = s[i]
  BY <1>4
<1>7. s[n] \in S
  OBVIOUS
<1> HIDE DEF u
<1>8. w \in Seq(S) /\ Len(w) = Len(u) + 1 /\ (\A i \in 1 .. Len(u) : w[i] = u[i])
      /\ w[Len(u) + 1] = s[n]
  BY <1>5, <1>7, AppendProperties
<1> HIDE DEF w
<1>9. Len(w) = n /\ \A i \in 1 .. n : w[i] = s[i]
  BY <1>5, <1>8
<1>10. SubSeq(s, 1, n) = w
  BY <1>6, <1>8, <1>9, SeqEqual
<1> QED
  BY <1>5, <1>10 DEF u, w

\* The referred bytes one by one are the bytes that come next.
LEMMA CopyBackIs ==
    ASSUME NEW input \in Seq(LzfByte), NEW in \in Nat, NEW n \in Nat, NEW ref \in Nat,
           ref < in, in + n <= Len(input),
           \A k \in 1 .. n : input[ref + k] = input[in + k]
    PROVE  CopyBack(SubSeq(input, 1, in), ref, n) = SubSeq(input, 1, in + n)
<1> DEFINE out == SubSeq(input, 1, in)
           h == [k \in 0 .. n |-> SubSeq(input, 1, in + k)]
           IsAfter(f) == f = [k \in 0 .. n |-> IF k = 0 THEN {out}
                                               ELSE {Append(x, x[ref + k]) : x \in f[k - 1]}]
           after == CHOOSE f : IsAfter(f)
           f0 == [k \in 0 .. n |-> {h[k]}]
<1>1. CopyBack(out, ref, n) = CHOOSE x \in after[n] : TRUE
  BY Zenon DEF CopyBack, Iterate
<1>2. h[0] = out /\ h[n] = SubSeq(input, 1, in + n)
  <2>1. in + 0 = in
    OBVIOUS
  <2> QED
    BY <2>1
<1>3. ASSUME NEW k \in 1 .. n PROVE Append(h[k - 1], h[k - 1][ref + k]) = h[k]
  <2>1. in + k \in 1 .. Len(input) /\ in + k - 1 = in + (k - 1) /\ ref + k \in 1 .. in + k - 1
    OBVIOUS
  <2>2. h[k] = SubSeq(input, 1, in + k) /\ h[k - 1] = SubSeq(input, 1, in + k - 1)
    <3>1. k \in 0 .. n /\ k - 1 \in 0 .. n
      OBVIOUS
    <3> QED
      BY <2>1, <3>1
  <2> HIDE DEF h
  <2>3. \A i \in 1 .. in + k - 1 : SubSeq(input, 1, in + k - 1)[i] = input[i]
    BY <2>1, OneMore
  <2>4. h[k - 1][ref + k] = input[in + k]
    BY <2>1, <2>2, <2>3
  <2>5. SubSeq(input, 1, in + k) = Append(SubSeq(input, 1, in + k - 1), input[in + k])
    BY <2>1, OneMore
  <2> QED
    BY <2>2, <2>4, <2>5, Zenon
<1> HIDE DEF out, h
<1>4. IsAfter(f0)
  <2>1. ASSUME NEW k \in 0 .. n
        PROVE  f0[k] = IF k = 0 THEN {out} ELSE {Append(x, x[ref + k]) : x \in f0[k - 1]}
    <3>1. CASE k = 0
      BY <1>2, <3>1
    <3>2. CASE k # 0
      <4>1. k \in 1 .. n /\ k - 1 \in 0 .. n
        BY <3>2
      <4>2. f0[k - 1] = {h[k - 1]} /\ f0[k] = {h[k]}
        BY <4>1
      <4>3. {Append(x, x[ref + k]) : x \in f0[k - 1]} = {h[k]}
        BY <1>3, <4>1, <4>2, Zenon
      <4> QED
        BY <3>2, <4>2, <4>3
    <3> QED
      BY <3>1, <3>2
  <2>2. f0 = [k \in 0 .. n |-> f0[k]]
    BY Zenon DEF f0
  <2> HIDE DEF f0
  <2> QED
    BY <2>1, <2>2, Zenon
<1> HIDE DEF IsAfter
<1>5. IsAfter(after)
  BY <1>4, Zenon
<1> HIDE DEF after
<1>6. after = [k \in 0 .. n |-> IF k = 0 THEN {out}
                                ELSE {Append(x, x[ref + k]) : x \in after[k - 1]}]
  BY <1>5, Zenon DEF IsAfter
<1>7. Loop(after, h, n)
  <2>1. DOMAIN after = 0 .. n /\ after[0] = {h[0]}
    BY <1>2, <1>6
  <2>2. ASSUME NEW k \in 1 .. n, after[k - 1] = {h[k - 1]} PROVE after[k] = {h[k]}
    <3>1. k \in 0 .. n /\ k # 0
      OBVIOUS
    <3>2. after[k] = {Append(x, x[ref + k]) : x \in after[k - 1]}
      BY <1>6, <3>1, Zenon
    <3> QED
      BY <1>3, <2>2, <3>2, Zenon
  <2> QED
    BY <2>1, <2>2, Zenon DEF Loop
<1> QED
  BY <1>1, <1>2, <1>7, LoopEnds DEF out

\* Division is determined by its result.
LEMMA DividedIs ==
    ASSUME NEW d \in Nat \ {0}, NEW q \in Nat, NEW r \in 0 .. d - 1, NEW x, x = q * d + r
    PROVE  x \in Nat /\ x \div d = q /\ x % d = r
<1>1. x \in Nat
  <2>1. q * d \in Nat
    OBVIOUS
  <2> QED
    BY <2>1
<1>2. x \div d = q
  BY <1>1
<1>3. x % d = r
  BY <1>1
<1> QED
  BY <1>1, <1>2, <1>3

LEMMA DividedInto ==
    ASSUME NEW d \in Nat \ {0}, NEW x \in Nat
    PROVE  /\ x \div d \in Nat /\ x % d \in 0 .. d - 1
           /\ x = (x \div d) * d + (x % d)
<1>1. x \div d \in Nat
  OBVIOUS
<1>2. x % d \in 0 .. d - 1
  OBVIOUS
<1>3. x = (x \div d) * d + (x % d)
  OBVIOUS
<1> QED
  BY <1>1, <1>2, <1>3

\* d with another index and another output.
MoveTo(d, j, q) ==
    [x \in DOMAIN d |-> IF x = "in" THEN j ELSE IF x = "out" THEN q ELSE d[x]]

\* The record of Decompress before and after a token.
LEMMA AtFields == ASSUME NEW i, NEW p PROVE At(i, p).in = i /\ At(i, p).out = p /\ At(i, p).ok
BY DEF At

LEMMA Moved ==
    ASSUME NEW i, NEW p, NEW j, NEW q PROVE MoveTo(At(i, p), j, q) = At(j, q)
<1>1. PICK c : c = TRUE
  OBVIOUS
<1>2. \A x, y : At(x, y) = [in |-> x, out |-> y, ok |-> c]
  BY <1>1, Zenon DEF At
<1>3. MoveTo([in |-> i, out |-> p, ok |-> c], j, q) = [in |-> j, out |-> q, ok |-> c]
  BY DEF MoveTo
<1> QED
  BY <1>2, <1>3, Zenon

\* The control byte of a reference holds the length and the upper part of the offset.
LEMMA LzfControl ==
    ASSUME NEW off \in Nat, off < MaxOff, NEW len \in Nat, 1 <= len, len <= LongMark
    PROVE  /\ off \div ByteBase \in Nat /\ off % ByteBase \in LzfByte
           /\ (off \div ByteBase) * ByteBase + (off % ByteBase) = off
           /\ off \div ByteBase + len * MaxLit \in LzfByte
           /\ ~(off \div ByteBase + len * MaxLit < MaxLit)
           /\ (off \div ByteBase + len * MaxLit) \div MaxLit = len
           /\ (off \div ByteBase + len * MaxLit) % MaxLit = off \div ByteBase
<1> DEFINE hi == off \div ByteBase
           lo == off % ByteBase
           b == ByteBase
           m == MaxLit
           c == len * MaxLit + hi
<1>1. /\ m \in Nat \ {0} /\ b \in Nat \ {0} /\ LongMark \in Nat /\ b = m * LongMark + m
      /\ off < m * b
  BY LzfNumbers
<1>2. hi \in Nat /\ lo \in 0 .. b - 1 /\ off = hi * b + lo
  BY <1>1, DividedInto
<1> HIDE DEF hi, lo, b, m
<1>3. hi < m
  <2>1. ASSUME hi >= m PROVE FALSE
    <3>1. hi * b >= m * b
      <4> DEFINE e == hi - m
      <4>1. e \in Nat /\ hi = m + e
        BY <1>1, <1>2, <2>1
      <4> HIDE DEF e
      <4>2. (m + e) * b = m * b + e * b
        BY <1>1, <4>1
      <4>3. e * b \in Nat /\ m * b \in Nat
        BY <1>1, <4>1
      <4> QED
        BY <4>1, <4>2, <4>3
    <3>2. m * b \in Nat /\ hi * b \in Nat
      BY <1>1, <1>2
    <3> QED
      BY <1>1, <1>2, <3>1, <3>2
  <2> QED
    BY <1>1, <1>2, <2>1
<1>4. len * m \in Nat /\ len * m >= m /\ len * m <= m * LongMark
  <2>1. len * m \in Nat
    BY <1>1
  <2>2. len * m >= m
    <3> DEFINE e == len - 1
    <3>1. e \in Nat /\ len = e + 1
      OBVIOUS
    <3> HIDE DEF e
    <3>2. (e + 1) * m = e * m + m /\ e * m \in Nat
      BY <1>1, <3>1
    <3> QED
      BY <1>1, <3>1, <3>2
  <2>3. len * m <= m * LongMark
    <3> DEFINE e == LongMark - len
    <3>1. e \in Nat /\ LongMark = len + e
      BY <1>1
    <3> HIDE DEF e
    <3>2. m * (len + e) = len * m + m * e /\ m * e \in Nat
      BY <1>1, <3>1
    <3> QED
      BY <2>1, <3>1, <3>2
  <2> QED
    BY <2>1, <2>2, <2>3
<1>5. hi \in 0 .. m - 1 /\ m * LongMark \in Nat
  BY <1>1, <1>2, <1>3
<1>6. c = len * m + hi
  BY Zenon DEF m
<1> HIDE DEF c
<1>7. c \in Nat /\ c \div m = len /\ c % m = hi
  BY <1>1, <1>5, <1>6, DividedIs
<1>8. c \in 0 .. b - 1 /\ ~(c < m)
  BY <1>1, <1>4, <1>5, <1>6
<1>9. hi + len * m = c
  BY <1>4, <1>5, <1>6
<1>10. hi + len * MaxLit = c
  BY <1>9, Zenon DEF m
<1>11. (hi + len * MaxLit) \div MaxLit = len /\ (hi + len * MaxLit) % MaxLit = hi
       /\ ~(hi + len * MaxLit < MaxLit)
  BY <1>7, <1>8, <1>10, Zenon DEF m
<1>12. hi + len * MaxLit \in LzfByte
  BY <1>8, <1>10, Zenon DEF LzfByte, b
<1>13. hi \in Nat /\ lo \in LzfByte /\ hi * ByteBase + lo = off
  BY <1>2, Zenon DEF LzfByte, b
<1> QED
  <2>1. off \div ByteBase + len * MaxLit \in LzfByte
    BY <1>12, Zenon DEF hi
  <2>2. /\ (off \div ByteBase + len * MaxLit) \div MaxLit = len
        /\ (off \div ByteBase + len * MaxLit) % MaxLit = off \div ByteBase
    BY <1>11, Zenon DEF hi
  <2>3. ~(off \div ByteBase + len * MaxLit < MaxLit)
    BY <1>11, Zenon DEF hi
  <2>4. /\ off \div ByteBase \in Nat /\ off % ByteBase \in LzfByte
        /\ (off \div ByteBase) * ByteBase + (off % ByteBase) = off
    BY <1>13, Zenon DEF hi, lo
  <2> QED
    BY <2>1, <2>2, <2>3, <2>4, Zenon

\* A run of literals is read in one turn.
LEMMA RunToken ==
    ASSUME NEW out \in Seq(LzfByte), NEW p \in Seq(LzfByte), NEW lit \in Seq(LzfByte),
           Len(lit) \in 1 .. MaxLit, Decodes(out, p)
    PROVE  /\ StopRun(out, lit) \in Seq(LzfByte)
           /\ Len(StopRun(out, lit)) = Len(out) + 1 + Len(lit)
           /\ Decodes(StopRun(out, lit), p \o lit)
<1> DEFINE n == Len(lit)
           t == <<n - 1>> \o lit
           q == p \o lit
<1>1. n \in Nat /\ n >= 1 /\ n - 1 \in LzfByte /\ n - 1 < MaxLit /\ lit # << >>
      /\ Len(out) \in Nat /\ Len(p) \in Nat
  <2>1. lit # << >> /\ Len(out) \in Nat /\ Len(p) \in Nat
    OBVIOUS
  <2>2. n \in 1 .. MaxLit
    OBVIOUS
  <2> HIDE DEF n
  <2> QED
    BY <2>1, <2>2, LzfNumbers DEF LzfByte
<1>2. <<n - 1>> \in Seq(LzfByte) /\ Len(<<n - 1>>) = 1 /\ <<n - 1>>[1] = n - 1
  BY <1>1
<1>3. /\ t \in Seq(LzfByte) /\ Len(t) = 1 + n
      /\ \A i \in 1 .. 1 + n : t[i] = IF i <= 1 THEN n - 1 ELSE lit[i - 1]
  <2> HIDE DEF n
  <2>1. /\ t \in Seq(LzfByte) /\ Len(t) = Len(<<n - 1>>) + Len(lit)
        /\ \A i \in 1 .. Len(<<n - 1>>) + Len(lit) :
               t[i] = IF i <= Len(<<n - 1>>) THEN <<n - 1>>[i] ELSE lit[i - Len(<<n - 1>>)]
    BY <1>2, ConcatProperties
  <2> HIDE DEF t
  <2>2. Len(<<n - 1>>) + Len(lit) = 1 + n
    BY <1>2 DEF n
  <2>3. Len(<<n - 1>>) = 1 /\ <<n - 1>>[1] = n - 1
    BY <1>2
  <2>4. ASSUME NEW i \in 1 .. 1 + n PROVE t[i] = IF i <= 1 THEN n - 1 ELSE lit[i - 1]
    <3>1. t[i] = IF i <= 1 THEN <<n - 1>>[i] ELSE lit[i - 1]
      BY <2>1, <2>2, <2>3
    <3>2. i <= 1 => i = 1
      BY <1>1
    <3> QED
      BY <2>3, <3>1, <3>2
  <2> QED
    BY <2>1, <2>2, <2>4
<1>4. q \in Seq(LzfByte) /\ Len(q) = Len(p) + n
  BY ConcatProperties
<1>5. StopRun(out, lit) = out \o t
  <2>1. StopRun(out, lit) = (out \o <<n - 1>>) \o lit
    BY <1>1, Zenon DEF StopRun
  <2> HIDE DEF n
  <2> QED
    BY ONLY <1>2, <2>1, ConcatAssociative, SMTT(20)
<1>6. ASSUME NEW more \in Seq(LzfByte), NEW outLen \in Nat, outLen >= Len(q)
      PROVE  Decode(At(Len(out), p), (out \o t) \o more, outLen) = At(Len(out) + Len(t), q)
  <2> DEFINE o == (out \o t) \o more
             d == At(Len(out), p)
  <2> HIDE DEF t, q, n
  <2>1. /\ o \in Seq(LzfByte) /\ Len(o) = Len(out) + Len(t) + Len(more)
        /\ \A i \in 1 .. Len(t) : o[Len(out) + i] = t[i]
    <3>1. t \in Seq(LzfByte)
      BY <1>3
    <3>2. o \in Seq(LzfByte)
      BY <3>1, Middle
    <3>3. Len(o) = Len(out) + Len(t) + Len(more)
      BY <3>1, Middle
    <3>4. \A i \in 1 .. Len(t) : o[Len(out) + i] = t[i]
      BY <3>1, Middle
    <3> QED
      BY <3>2, <3>3, <3>4
  <2> HIDE DEF o
  <2>2. Len(more) \in Nat
    OBVIOUS
  <2>3. d.in = Len(out) /\ d.out = p /\ d.ok
    BY AtFields
  <2>4. o[Len(out) + 1] = n - 1
    <3>1. 1 \in 1 .. Len(t) /\ 1 \in 1 .. 1 + n /\ 1 <= 1
      BY <1>1, <1>3
    <3>2. t[1] = n - 1
      BY <1>3, <3>1
    <3> QED
      BY <2>1, <3>1, <3>2
  <2>5. ~(d.in >= Len(o)) /\ o[d.in + 1] = n - 1 /\ n - 1 < MaxLit /\ n - 1 + 1 = n
    BY <1>1, <1>3, <2>1, <2>2, <2>3, <2>4
  <2>6. Decode(d, o, outLen) = Run(d, o, n, outLen)
    <3> HIDE DEF d
    <3> QED
      BY <2>3, <2>5, Zenon DEF Decode
  <2>7. ~(Len(d.out) + n > outLen \/ d.in + 1 + n > Len(o))
    <3>1. Len(p) + n <= outLen
      BY <1>1, <1>4, <1>6
    <3>2. Len(out) + 1 + n <= Len(o)
      BY <1>1, <1>3, <2>1, <2>2
    <3> QED
      BY <1>1, <1>4, <2>1, <2>3, <3>1, <3>2
  <2>8. SubSeq(o, d.in + 2, d.in + 1 + n) = lit
    <3> DEFINE u == SubSeq(o, Len(out) + 2, Len(out) + 1 + n)
    <3>1. \A i \in Len(out) + 2 .. Len(out) + 1 + n : o[i] \in LzfByte
      <4>1. \A i \in Len(out) + 2 .. Len(out) + 1 + n : i \in 1 .. Len(o)
        BY <1>1, <1>3, <2>1, <2>2
      <4> QED
        BY <2>1, <4>1, ElementOfSeq
    <3>2. Len(out) + 2 \in Int /\ Len(out) + 1 + n \in Int
      BY <1>1
    <3>3. /\ u \in Seq(LzfByte)
          /\ Len(u) = IF Len(out) + 2 <= Len(out) + 1 + n
                      THEN (Len(out) + 1 + n) - (Len(out) + 2) + 1 ELSE 0
          /\ \A i \in 1 .. (Len(out) + 1 + n) - (Len(out) + 2) + 1 :
                 u[i] = o[Len(out) + 2 + i - 1]
      BY <3>1, <3>2, SubSeqProperties
    <3> HIDE DEF u
    <3>4. Len(u) = n /\ (Len(out) + 1 + n) - (Len(out) + 2) + 1 = n
      BY <1>1, <3>3
    <3>5. ASSUME NEW i \in 1 .. n PROVE u[i] = lit[i]
      <4>1. u[i] = o[Len(out) + (i + 1)]
        <5>1. Len(out) + 2 + i - 1 = Len(out) + (i + 1)
          BY <1>1
        <5> QED
          BY <3>3, <3>4, <5>1
      <4>2. i + 1 \in 1 .. Len(t) /\ i + 1 \in 1 .. 1 + n /\ ~(i + 1 <= 1) /\ i + 1 - 1 = i
        BY <1>1, <1>3
      <4>3. t[i + 1] = lit[i]
        BY <1>3, <4>2
      <4> QED
        BY <2>1, <4>1, <4>2, <4>3
    <3>6. u = lit
      <4>1. Len(u) = Len(lit) /\ \A i \in 1 .. Len(u) : u[i] = lit[i]
        BY <3>4, <3>5 DEF n
      <4> QED
        BY <3>3, <4>1, SeqEqual
    <3> QED
      BY <2>3, <3>6, Zenon DEF u
  <2>9. Run(d, o, n, outLen) = [d EXCEPT !.in = @ + 1 + n, !.out = @ \o lit]
    <3> HIDE DEF d
    <3> QED
      BY <2>7, <2>8, Zenon DEF Run
  <2>10. [d EXCEPT !.in = @ + 1 + n, !.out = @ \o lit] = At(Len(out) + 1 + n, q)
    <3>1. [d EXCEPT !.in = @ + 1 + n, !.out = @ \o lit]
            = MoveTo(d, d.in + 1 + n, d.out \o lit)
      <4> HIDE DEF d
      <4> QED
        BY DEF MoveTo
    <3> QED
      BY <2>3, <3>1, Moved DEF q
  <2>11. Len(out) + 1 + n = Len(out) + Len(t)
    BY <1>1, <1>3
  <2> QED
    BY <2>6, <2>9, <2>10, <2>11, Zenon DEF o
<1>7. Len(q) \in Nat /\ Len(p) <= Len(q) /\ Len(t) > 0
  BY <1>1, <1>3, <1>4
<1> HIDE DEF t, q, n
<1>8. out \o t \in Seq(LzfByte) /\ Len(out \o t) = Len(out) + Len(t) /\ Decodes(out \o t, q)
  BY <1>1, <1>3, <1>6, <1>7, DecodesToken
<1>9. Len(out) + Len(t) = Len(out) + 1 + Len(lit)
  BY <1>1, <1>3 DEF n
<1> QED
  BY <1>5, <1>8, <1>9, Zenon DEF q

\* A sequence and one more element.
LEMMA AndLast ==
    ASSUME NEW S, NEW s \in Seq(S), NEW x \in S
    PROVE  /\ s \o <<x>> \in Seq(S) /\ Len(s \o <<x>>) = Len(s) + 1
           /\ \A i \in 1 .. Len(s) : (s \o <<x>>)[i] = s[i]
           /\ (s \o <<x>>)[Len(s) + 1] = x
<1>1. <<x>> \in Seq(S) /\ Len(<<x>>) = 1 /\ <<x>>[1] = x
  OBVIOUS
<1>2. /\ s \o <<x>> \in Seq(S) /\ Len(s \o <<x>>) = Len(s) + 1
      /\ \A i \in 1 .. Len(s) + 1 : (s \o <<x>>)[i] = IF i <= Len(s) THEN s[i] ELSE <<x>>[i - Len(s)]
  <2> DEFINE t == <<x>>
  <2>1. t \in Seq(S) /\ Len(t) = 1
    BY <1>1
  <2> HIDE DEF t
  <2>2. /\ s \o t \in Seq(S) /\ Len(s \o t) = Len(s) + 1
        /\ \A i \in 1 .. Len(s) + 1 : (s \o t)[i] = IF i <= Len(s) THEN s[i] ELSE t[i - Len(s)]
    <3>1. s \in Seq(S) /\ t \in Seq(S) /\ Len(t) = 1
      BY <2>1
    <3>2. /\ s \o t \in Seq(S) /\ Len(s \o t) = Len(s) + Len(t)
          /\ \A i \in 1 .. Len(s) + Len(t) :
                 (s \o t)[i] = IF i <= Len(s) THEN s[i] ELSE t[i - Len(s)]
      BY ONLY <3>1, ConcatProperties
    <3> QED
      BY ONLY <3>1, <3>2, Zenon
  <2> QED
    BY <2>2 DEF t
<1> QED
  BY <1>1, <1>2

\* The bytes of a reference, as Match writes them.
LzfCode(off, len) ==
    (IF len < LongMark
     THEN <<off \div ByteBase + len * MaxLit>>
     ELSE <<off \div ByteBase + LongMark * MaxLit, len - LongMark>>)
    \o <<off % ByteBase>>

LEMMA LzfCodeIs ==
    ASSUME NEW off \in Nat, off < MaxOff, NEW len \in Nat, 1 <= len, len < ByteBase + LongMark
    PROVE  LET t == LzfCode(off, len)
               m == IF len < LongMark THEN len ELSE LongMark
           IN /\ t \in Seq(LzfByte) /\ Len(t) = (IF len < LongMark THEN 2 ELSE 3)
              /\ t[1] = off \div ByteBase + m * MaxLit
              /\ ~(len < LongMark) => t[2] = len - LongMark
              /\ t[Len(t)] = off % ByteBase
<1> DEFINE m == IF len < LongMark THEN len ELSE LongMark
           c == off \div ByteBase + m * MaxLit
           lo == off % ByteBase
<1>1. LongMark \in Nat /\ LongMark >= 1 /\ ByteBase \in Nat
  BY LzfNumbers
<1>2. m \in Nat /\ 1 <= m /\ m <= LongMark
  BY <1>1
<1> HIDE DEF m
<1>3. c \in LzfByte /\ lo \in LzfByte
  BY <1>2, LzfControl
<1> HIDE DEF c, lo
<1>4. CASE len < LongMark
  <2>1. m = len
    BY <1>4 DEF m
  <2>2. LzfCode(off, len) = <<c>> \o <<lo>>
    BY <1>4, <2>1, Zenon DEF LzfCode, c, lo
  <2>3. <<c>> \in Seq(LzfByte) /\ Len(<<c>>) = 1 /\ <<c>>[1] = c
    BY <1>3
  <2>4. LzfCode(off, len) \in Seq(LzfByte) /\ Len(LzfCode(off, len)) = 2
        /\ LzfCode(off, len)[1] = c /\ LzfCode(off, len)[2] = lo
    BY <1>3, <2>2, <2>3, AndLast
  <2> QED
    BY <1>4, <2>1, <2>2, <2>3, <2>4, Zenon DEF m, c, lo
<1>5. CASE ~(len < LongMark)
  <2> DEFINE e == len - LongMark
  <2>1. m = LongMark /\ e \in LzfByte
    BY <1>1, <1>5 DEF m, LzfByte
  <2> HIDE DEF e
  <2>2. LzfCode(off, len) = <<c, e>> \o <<lo>>
    BY <1>5, <2>1, Zenon DEF LzfCode, c, lo, e
  <2>3. <<c, e>> \in Seq(LzfByte) /\ Len(<<c, e>>) = 2 /\ <<c, e>>[1] = c /\ <<c, e>>[2] = e
    BY <1>3, <2>1
  <2>4. /\ LzfCode(off, len) \in Seq(LzfByte) /\ Len(LzfCode(off, len)) = 3
        /\ LzfCode(off, len)[1] = c /\ LzfCode(off, len)[2] = e /\ LzfCode(off, len)[3] = lo
    BY <1>3, <2>2, <2>3, AndLast
  <2> QED
    BY <1>5, <2>1, <2>2, <2>3, <2>4, Zenon DEF m, c, lo, e
<1> QED
  BY <1>4, <1>5

\* A reference is read in one turn.
LEMMA MatchToken ==
    ASSUME NEW out \in Seq(LzfByte), NEW p \in Seq(LzfByte), NEW ref \in Nat, NEW n \in Nat,
           NEW q \in Seq(LzfByte),
           ref < Len(p), Len(p) - ref - 1 < MaxOff, 3 <= n, n <= MaxRef,
           Len(q) = Len(p) + n, q = CopyBack(p, ref, n), Decodes(out, p)
    PROVE  LET t == LzfCode(Len(p) - ref - 1, n - 2)
           IN /\ t \in Seq(LzfByte) /\ Len(t) \in 2 .. 3
              /\ out \o t \in Seq(LzfByte) /\ Len(out \o t) = Len(out) + Len(t)
              /\ Decodes(out \o t, q)
<1> DEFINE off == Len(p) - ref - 1
           len == n - 2
           t == LzfCode(off, len)
           long == ~(len < LongMark)
           m == IF len < LongMark THEN len ELSE LongMark
           hi == off \div ByteBase
           c == hi + m * MaxLit
           lo == off % ByteBase
<1>1. /\ MaxLit \in Nat /\ LongMark \in Nat /\ LongMark >= 1 /\ ByteBase \in Nat
      /\ MaxRef = ByteBase + LongMark + 1
  BY LzfNumbers
<1>2. Len(p) \in Nat /\ Len(out) \in Nat
  OBVIOUS
<1>3. off \in Nat /\ off < MaxOff /\ len \in Nat /\ 1 <= len /\ len < ByteBase + LongMark
  BY <1>1, <1>2
<1>4. m \in Nat /\ 1 <= m /\ m <= LongMark /\ (m = LongMark <=> long)
      /\ m + (IF long THEN len - LongMark ELSE 0) + 2 = n
  BY <1>1, <1>3
<1> HIDE DEF off, len, m
<1>5. /\ t \in Seq(LzfByte) /\ Len(t) = (IF long THEN 3 ELSE 2)
      /\ t[1] = c /\ (long => t[2] = len - LongMark) /\ t[Len(t)] = lo
  <2>1. t \in Seq(LzfByte) /\ Len(t) = (IF len < LongMark THEN 2 ELSE 3)
    BY <1>3, LzfCodeIs
  <2>2. t[1] = c
    BY <1>3, LzfCodeIs DEF m
  <2>3. long => t[2] = len - LongMark
    BY <1>3, LzfCodeIs
  <2>4. t[Len(t)] = lo
    BY <1>3, LzfCodeIs
  <2> QED
    BY <2>1, <2>2, <2>3, <2>4
<1>6. /\ hi \in Nat /\ lo \in LzfByte /\ hi * ByteBase + lo = off
      /\ ~(c < MaxLit) /\ c \div MaxLit = m /\ c % MaxLit = hi
  <2>1. hi \in Nat /\ lo \in LzfByte /\ hi * ByteBase + lo = off
    BY <1>3, <1>4, LzfControl
  <2>2. ~(c < MaxLit)
    BY <1>3, <1>4, LzfControl
  <2>3. c \div MaxLit = m /\ c % MaxLit = hi
    BY <1>3, <1>4, LzfControl
  <2> QED
    BY <2>1, <2>2, <2>3
<1> HIDE DEF t, long, hi, c, lo
<1>7. Len(t) \in 2 .. 3 /\ Len(t) > 0
  BY <1>5
<1>8. ASSUME NEW more \in Seq(LzfByte), NEW outLen \in Nat, outLen >= Len(q)
      PROVE  Decode(At(Len(out), p), (out \o t) \o more, outLen) = At(Len(out) + Len(t), q)
  <2> DEFINE o == (out \o t) \o more
             d == At(Len(out), p)
  <2>1. t \in Seq(LzfByte)
    BY <1>5
  <2>2. Len(o) = Len(out) + Len(t) + Len(more) /\ Len(more) \in Nat
    BY <2>1, Middle
  <2>3. \A i \in 1 .. Len(t) : o[Len(out) + i] = t[i]
    BY <2>1, Middle
  <2> HIDE DEF o
  <2>4. d.in = Len(out) /\ d.out = p /\ d.ok
    BY AtFields
  <2>5. d = At(Len(out), p)
    OBVIOUS
  <2> HIDE DEF d
  <2>6. 1 \in 1 .. Len(t) /\ 2 \in 1 .. Len(t) /\ Len(t) \in 1 .. Len(t)
    <3>1. CASE Len(t) = 2
      BY <3>1
    <3>2. CASE Len(t) = 3
      BY <3>2
    <3> QED
      BY <1>7, <3>1, <3>2
  <2>7. o[d.in + 1] = c /\ (long => o[d.in + 2] = len - LongMark) /\ o[Len(out) + Len(t)] = lo
    <3>1. o[Len(out) + 1] = t[1] /\ o[Len(out) + 2] = t[2] /\ o[Len(out) + Len(t)] = t[Len(t)]
      BY <2>3, <2>6
    <3> QED
      BY <1>5, <2>4, <3>1, Zenon
  <2>8. ~(d.in >= Len(o))
    BY <1>2, <1>7, <2>2, <2>4
  <2>9. Decode(d, o, outLen) = BackRef(d, o, c, outLen)
    BY <1>6, <2>4, <2>7, <2>8, Zenon DEF Decode
  <2>10. d.in + (IF c \div MaxLit = LongMark THEN 3 ELSE 2) = Len(out) + Len(t)
    BY <1>4, <1>5, <1>6, <2>4
  <2>11. c \div MaxLit + (IF c \div MaxLit = LongMark THEN o[d.in + 2] ELSE 0) + 2 = n
    BY <1>4, <1>6, <2>7
  <2>12. Len(d.out) - (c % MaxLit) * ByteBase - 1 - o[Len(out) + Len(t)] = ref
    <3>1. Len(d.out) = Len(p) /\ c % MaxLit = hi /\ o[Len(out) + Len(t)] = lo
      BY <1>6, <2>4, <2>7
    <3>2. hi * ByteBase \in Nat /\ lo \in Int
      BY <1>1, <1>6 DEF LzfByte
    <3>3. off = Len(p) - ref - 1
      BY DEF off
    <3>4. Len(p) - hi * ByteBase - 1 - lo = ref
      BY <1>2, <1>6, <3>2, <3>3
    <3> QED
      BY <3>1, <3>4, Zenon
  <2>13. ~(Len(out) + Len(t) > Len(o)) /\ ~(Len(d.out) + n > outLen \/ ref < 0)
    BY <1>2, <1>7, <1>8, <2>2, <2>4
  <2>14. BackRef(d, o, c, outLen)
           = [d EXCEPT !.in = Len(out) + Len(t), !.out = CopyBack(@, ref, n)]
    BY <2>10, <2>11, <2>12, <2>13, Zenon DEF BackRef
  <2>15. [d EXCEPT !.in = Len(out) + Len(t), !.out = CopyBack(@, ref, n)]
           = MoveTo(d, Len(out) + Len(t), CopyBack(d.out, ref, n))
    BY DEF MoveTo
  <2>16. MoveTo(d, Len(out) + Len(t), q) = At(Len(out) + Len(t), q)
    BY <2>5, Moved
  <2>17. CopyBack(d.out, ref, n) = q
    BY <2>4, Zenon
  <2>18. Decode(d, o, outLen) = At(Len(out) + Len(t), q)
    BY <2>9, <2>14, <2>15, <2>16, <2>17
  <2> QED
    BY <2>18, Zenon DEF d, o
<1>9. Len(q) \in Nat /\ Len(p) <= Len(q)
  BY <1>2
<1>10. Len(t) > 0 /\ t \in Seq(LzfByte)
  BY <1>5, <1>7
<1>11. \A more \in Seq(LzfByte), outLen \in Nat :
          outLen >= Len(q) =>
            Decode(At(Len(out), p), (out \o t) \o more, outLen) = At(Len(out) + Len(t), q)
  BY <1>8
<1>12. out \o t \in Seq(LzfByte) /\ Len(out \o t) = Len(out) + Len(t)
  BY <1>10, ConcatProperties
<1>13. Len(t) > 0
  BY <1>10
<1>14. t \in Seq(LzfByte)
  BY <1>10
<1>15. Len(q) \in Nat
  BY <1>9
<1>16. Len(p) <= Len(q)
  BY <1>9
<1>17. Len(p) \in Nat
  BY <1>2
<1>18. Decodes(out \o t, q)
  BY <1>11, <1>13, <1>14, <1>15, <1>16, <1>17, DecodesToken
<1> QED
  BY <1>7, <1>12, <1>14, <1>18, Zenon DEF t, off, len
-----------------------------------------------------------------------------
\* A sequence with one more element is the sequence and that element.
LEMMA AppendIs ==
    ASSUME NEW S, NEW s \in Seq(S), NEW x \in S
    PROVE  /\ Append(s, x) = s \o <<x>> /\ Append(s, x) \in Seq(S)
           /\ Len(Append(s, x)) = Len(s) + 1 /\ Append(s, x) # << >>
<1>1. /\ Append(s, x) \in Seq(S) /\ Len(Append(s, x)) = Len(s) + 1
      /\ \A i \in 1 .. Len(s) : Append(s, x)[i] = s[i]
      /\ Append(s, x)[Len(s) + 1] = x
  BY AppendProperties
<1>2. /\ s \o <<x>> \in Seq(S) /\ Len(s \o <<x>>) = Len(s) + 1
      /\ \A i \in 1 .. Len(s) : (s \o <<x>>)[i] = s[i]
      /\ (s \o <<x>>)[Len(s) + 1] = x
  BY AndLast
<1> DEFINE a == Append(s, x)
           c == s \o <<x>>
<1>3. a = c
  <2>1. a \in Seq(S) /\ c \in Seq(S) /\ Len(a) = Len(c) /\ Len(a) = Len(s) + 1 /\ Len(s) \in Nat
    BY <1>1, <1>2
  <2>2. ASSUME NEW i \in 1 .. Len(s) + 1 PROVE a[i] = c[i]
    <3>1. CASE i = Len(s) + 1
      BY <1>1, <1>2, <3>1
    <3>2. CASE i # Len(s) + 1
      <4>1. i \in 1 .. Len(s)
        BY <2>1, <3>2
      <4> QED
        BY <1>1, <1>2, <4>1
    <3> QED
      BY <3>1, <3>2
  <2> HIDE DEF a, c
  <2>3. \A i \in 1 .. Len(a) : a[i] = c[i]
    BY <2>1, <2>2
  <2> QED
    BY <2>1, <2>3, SeqEqual
<1>4. Append(s, x) # << >>
  <2>1. Len(<< >>) = 0 /\ Len(s) \in Nat
    OBVIOUS
  <2> HIDE DEF a
  <2>2. a = << >> => Len(a) = 0
    BY <2>1
  <2>3. Len(a) = Len(s) + 1
    BY <1>1, Zenon DEF a
  <2> QED
    BY <2>1, <2>2, <2>3 DEF a
<1> QED
  BY <1>1, <1>3, <1>4

\* What is written out and the open run of literals, between two turns of Compress:
\* what is written decodes to what was read before the open run.
Between(input, in, out, lit) ==
    /\ in \in 0 .. Len(input) /\ out \in Seq(LzfByte) /\ lit \in Seq(LzfByte)
    /\ Len(lit) < MaxLit
    /\ \E p \in Seq(LzfByte) : p \o lit = SubSeq(input, 1, in) /\ Decodes(out, p)

\* The length of the output once the open run is closed.
LzfSize(out, lit) == Len(out) + Len(lit) + (IF lit = << >> THEN 0 ELSE 1)

LEMMA OneLiteral ==
    ASSUME NEW input \in Seq(LzfByte), NEW in, NEW out, NEW lit, NEW x,
           Between(input, in, out, lit), in < Len(input), x = input[in + 1]
    PROVE  LET u == Append(lit, x)
               v == IF Len(u) = MaxLit THEN StopRun(out, u) ELSE out
               w == IF Len(u) = MaxLit THEN << >> ELSE u
           IN /\ Between(input, in + 1, v, w)
              /\ LzfSize(v, w) <= LzfSize(out, lit) + 2
              /\ lit # << >> => LzfSize(v, w) <= LzfSize(out, lit) + 1
<1> DEFINE u == Append(lit, x)
           v == IF Len(u) = MaxLit THEN StopRun(out, u) ELSE out
           w == IF Len(u) = MaxLit THEN << >> ELSE u
<1>1. /\ in \in Nat /\ out \in Seq(LzfByte) /\ lit \in Seq(LzfByte)
      /\ Len(lit) < MaxLit /\ Len(input) \in Nat /\ Len(lit) \in Nat /\ Len(out) \in Nat
  BY DEF Between
<1>2. PICK p \in Seq(LzfByte) : p \o lit = SubSeq(input, 1, in) /\ Decodes(out, p)
  BY DEF Between
<1>3. in + 1 \in 1 .. Len(input) /\ in + 1 - 1 = in
  BY <1>1
<1>4. x \in LzfByte
  BY <1>3, ElementOfSeq
<1>5. /\ u = lit \o <<x>> /\ u \in Seq(LzfByte) /\ Len(u) = Len(lit) + 1 /\ u # << >>
      /\ Len(u) \in Nat
  BY <1>1, <1>4, AppendIs
<1>6. p \o u = SubSeq(input, 1, in + 1)
  <2>1. SubSeq(input, 1, in + 1) = Append(SubSeq(input, 1, in), x)
    <3> DEFINE n == in + 1
    <3>1. n \in 1 .. Len(input) /\ n - 1 = in
      BY <1>1, <1>3
    <3> HIDE DEF n
    <3>2. SubSeq(input, 1, n) = Append(SubSeq(input, 1, n - 1), input[n])
      BY <3>1, OneMore
    <3>3. SubSeq(input, 1, n) = Append(SubSeq(input, 1, in), input[n])
      BY <3>1, <3>2, Zenon
    <3> QED
      BY <3>3, Zenon DEF n
  <2>2. <<x>> \in Seq(LzfByte)
    BY <1>4
  <2>3. (p \o lit) \o <<x>> = p \o (lit \o <<x>>)
    BY ONLY <1>1, <2>2, ConcatAssociative, SMTT(20)
  <2>4. p \o lit \in Seq(LzfByte)
    BY <1>1, ConcatProperties
  <2>5. Append(p \o lit, x) = (p \o lit) \o <<x>>
    BY <1>4, <2>4, AppendIs
  <2> QED
    BY <1>2, <1>5, <2>1, <2>3, <2>5, Zenon
<1>7. MaxLit \in Nat /\ MaxLit >= 1
  BY LzfNumbers
<1>8. lit = << >> => Len(lit) = 0
  OBVIOUS
<1> HIDE DEF u
<1>9. CASE Len(u) = MaxLit
  <2>1. v = StopRun(out, u) /\ w = << >>
    BY <1>9
  <2>2. Len(u) \in 1 .. MaxLit
    BY <1>7, <1>9
  <2>3. /\ v \in Seq(LzfByte) /\ Len(v) = Len(out) + 1 + Len(u)
    BY ONLY <1>1, <1>2, <1>5, <2>1, <2>2, RunToken, Zenon
  <2>4. Decodes(v, p \o u)
    BY <1>1, <1>2, <1>5, <2>1, <2>2, RunToken
  <2>5. p \o u \in Seq(LzfByte) /\ Len(<< >>) = 0 /\ << >> \in Seq(LzfByte)
    BY <1>5, ConcatProperties
  <2>6. (p \o u) \o << >> = p \o u
    BY <2>5
  <2> HIDE DEF v, w
  <2>7. Between(input, in + 1, v, w)
    <3>1. (p \o u) \o w = SubSeq(input, 1, in + 1)
      BY <1>6, <2>1, <2>6, Zenon
    <3>2. in + 1 \in 0 .. Len(input) /\ w \in Seq(LzfByte) /\ Len(w) < MaxLit
      BY <1>1, <1>3, <1>7, <2>1, <2>5
    <3> QED
      BY <2>3, <2>4, <2>5, <3>1, <3>2, Zenon DEF Between
  <2>8. LzfSize(v, w) = Len(out) + 1 + Len(u)
    BY <1>1, <1>5, <2>1, <2>3, <2>5 DEF LzfSize
  <2>9. LzfSize(out, lit) = Len(out) + Len(lit) + (IF lit = << >> THEN 0 ELSE 1)
    BY Zenon DEF LzfSize
  <2>10. LzfSize(v, w) <= LzfSize(out, lit) + 2
    BY <1>1, <1>5, <2>8, <2>9
  <2>11. lit # << >> => LzfSize(v, w) <= LzfSize(out, lit) + 1
    BY <1>1, <1>5, <2>8, <2>9
  <2> QED
    BY <2>7, <2>10, <2>11, Zenon DEF v, w, u
<1>10. CASE Len(u) # MaxLit
  <2>1. v = out /\ w = u
    BY <1>10
  <2> HIDE DEF v, w
  <2>2. Len(u) < MaxLit /\ in + 1 \in 0 .. Len(input)
    BY <1>1, <1>3, <1>5, <1>7, <1>10
  <2>3. Between(input, in + 1, v, w)
    BY <1>1, <1>2, <1>5, <1>6, <2>1, <2>2, Zenon DEF Between
  <2>4. LzfSize(v, w) = Len(out) + Len(u) + 1
    BY <1>5, <2>1, Zenon DEF LzfSize
  <2>5. LzfSize(out, lit) = Len(out) + Len(lit) + (IF lit = << >> THEN 0 ELSE 1)
    BY Zenon DEF LzfSize
  <2>6. LzfSize(v, w) <= LzfSize(out, lit) + 2
    BY <1>1, <1>5, <2>4, <2>5
  <2>7. lit # << >> => LzfSize(v, w) <= LzfSize(out, lit) + 1
    BY <1>1, <1>5, <2>4, <2>5
  <2> QED
    BY <2>3, <2>6, <2>7, Zenon DEF v, w, u
<1> QED
  BY <1>9, <1>10

-----------------------------------------------------------------------------
LEMMA MinIs ==
    ASSUME NEW T \in SUBSET Nat, T # {}
    PROVE  Min(T) \in T /\ \A y \in T : Min(T) <= y
<1>1. \E x \in T : \A y \in T : x <= y
  BY LeastNumber
<1> QED
  BY <1>1, Zenon DEF Min

\* A reference the code accepts, and the length it finds: within the input and what a
\* reference can say, and the bytes there are those that come next.
LEMMA MatchLenIs ==
    ASSUME NEW input \in Seq(LzfByte), NEW s, s.in \in Nat, s.in + 2 < Len(input),
           NEW ref \in Refs(s, input)
    PROVE  /\ ref \in Nat /\ ref < s.in /\ s.in - ref - 1 < MaxOff
           /\ MatchLen(s, input, ref) \in Nat /\ 3 <= MatchLen(s, input, ref)
           /\ MatchLen(s, input, ref) <= MaxRef /\ s.in + MatchLen(s, input, ref) <= Len(input)
           /\ \A k \in 1 .. MatchLen(s, input, ref) : input[ref + k] = input[s.in + k]
<1> DEFINE in == s.in
           L == Len(input)
           two == {Len(input) - s.in - 2, MaxRef}
           most == Min({Len(input) - s.in - 2, MaxRef})
           top == Max({3, most})
           T == {n \in 3 .. top : n >= most \/ input[ref + n + 1] # input[s.in + n + 1]}
           len == MatchLen(s, input, ref)
<1>1. ref \in 1 .. s.in - 1 /\ s.in - ref - 1 < MaxOff
      /\ \A k \in 1 .. 3 : input[ref + k] = input[s.in + k]
  BY DEF Refs
<1>2. in \in Nat /\ L \in Nat /\ in + 2 < L /\ ref \in Nat /\ ref < in
  <2>1. in \in Nat /\ in + 2 < L /\ ref \in 1 .. in - 1
    BY <1>1, Zenon
  <2>2. L \in Nat
    OBVIOUS
  <2> HIDE DEF in, L
  <2> QED
    BY ONLY <2>1, <2>2
<1>3. MaxRef \in Nat /\ MaxRef >= 3
  BY LzfNumbers
<1>4. most \in Nat /\ most <= L - in - 2 /\ most <= MaxRef
  <2>1. two \in SUBSET Nat /\ two # {} /\ Len(input) - s.in - 2 \in two /\ MaxRef \in two
    BY <1>2, <1>3
  <2> HIDE DEF two
  <2>2. Min(two) \in two /\ \A y \in two : Min(two) <= y
    BY <2>1, MinIs
  <2>3. Min(two) \in Nat /\ Min(two) <= Len(input) - s.in - 2 /\ Min(two) <= MaxRef
    BY <2>1, <2>2
  <2> QED
    BY <2>3 DEF two
<1> HIDE DEF most
<1>5. top \in Nat /\ top >= 3 /\ top >= most /\ (top = 3 \/ top = most)
  <2>1. \E x \in {3, most} : \A y \in {3, most} : x >= y
    BY <1>4
  <2>2. top \in {3, most} /\ \A y \in {3, most} : top >= y
    BY <2>1, Zenon DEF Max
  <2> HIDE DEF top
  <2> QED
    BY <1>4, <2>2
<1> HIDE DEF top
<1>6. len = Min(T)
  BY Zenon DEF MatchLen, most, top
<1>7. T \in SUBSET Nat /\ top \in T
  BY <1>5
<1>8. len \in T /\ \A y \in T : len <= y
  <2> HIDE DEF T, len
  <2>1. T # {}
    BY <1>7
  <2> QED
    BY <1>6, <1>7, <2>1, MinIs
<1>9. len \in 3 .. top
  BY <1>8, Zenon
<1>10. ASSUME NEW n \in 3 .. top, n < len
       PROVE  n < most /\ input[ref + n + 1] = input[s.in + n + 1]
  <2> HIDE DEF len
  <2>1. n \notin T
    <3> HIDE DEF T
    <3> QED
      BY <1>5, <1>8, <1>9, <1>10
  <2> QED
    BY <1>4, <2>1
<1> HIDE DEF len, T
<1>11. len <= MaxRef /\ in + len <= L
  BY <1>2, <1>3, <1>4, <1>5, <1>9
<1>12. ASSUME NEW k \in 1 .. len PROVE input[ref + k] = input[s.in + k]
  <2>1. CASE k \in 1 .. 3
    BY <1>1, <2>1
  <2>2. CASE k \notin 1 .. 3
    <3> DEFINE n == k - 1
    <3>1. n \in 3 .. top /\ n < len /\ n + 1 = k /\ ref + n + 1 = ref + k /\ in + n + 1 = in + k
      BY <1>2, <1>5, <1>9, <2>2
    <3> QED
      BY <1>10, <3>1
  <2> QED
    BY <2>1, <2>2
<1>13. len \in Nat /\ 3 <= len
  BY <1>5, <1>9
<1> QED
  BY <1>1, <1>2, <1>11, <1>12, <1>13 DEF len

\* A beginning of a sequence.
LEMMA Beginning ==
    ASSUME NEW S, NEW s \in Seq(S), NEW n \in 0 .. Len(s)
    PROVE  SubSeq(s, 1, n) \in Seq(S) /\ Len(SubSeq(s, 1, n)) = n
<1>1. \A i \in 1 .. n : s[i] \in S
  OBVIOUS
<1>2. 1 \in Int /\ n \in Int
  OBVIOUS
<1>3. /\ SubSeq(s, 1, n) \in Seq(S)
      /\ Len(SubSeq(s, 1, n)) = IF 1 <= n THEN n - 1 + 1 ELSE 0
  BY <1>1, <1>2, SubSeqProperties
<1> QED
  BY <1>3

\* The end of the open run, and a reference.
LEMMA OneMatch ==
    ASSUME NEW input \in Seq(LzfByte), NEW s, Between(input, s.in, s.out, s.lit),
           s.in + 2 < Len(input), NEW ref \in Refs(s, input), NEW n, n = MatchLen(s, input, ref)
    PROVE  LET v == StopRun(s.out, s.lit) \o LzfCode(s.in - ref - 1, n - 2)
           IN Between(input, s.in + n, v, << >>)
<1> DEFINE in == s.in
           out == s.out
           lit == s.lit
           a == StopRun(out, lit)
           b == LzfCode(in - ref - 1, n - 2)
           p == SubSeq(input, 1, in)
           q == SubSeq(input, 1, in + n)
<1>1. /\ in \in Nat /\ out \in Seq(LzfByte) /\ lit \in Seq(LzfByte)
      /\ Len(lit) < MaxLit /\ Len(input) \in Nat /\ Len(lit) \in Nat /\ Len(out) \in Nat
  BY DEF Between
<1>2. PICK r \in Seq(LzfByte) : r \o lit = p /\ Decodes(out, r)
  BY DEF Between
<1>3. /\ ref \in Nat /\ ref < in /\ in - ref - 1 < MaxOff
      /\ n \in Nat /\ 3 <= n /\ n <= MaxRef /\ in + n <= Len(input)
      /\ \A k \in 1 .. n : input[ref + k] = input[in + k]
  BY <1>1, MatchLenIs
<1>4. p \in Seq(LzfByte) /\ Len(p) = in /\ q \in Seq(LzfByte) /\ Len(q) = in + n
  <2>1. in \in 0 .. Len(input) /\ in + n \in 0 .. Len(input)
    BY ONLY <1>1, <1>3, SMTT(20)
  <2> QED
    BY <2>1, Beginning
<1>5. q = CopyBack(p, ref, n)
  <2> HIDE DEF in
  <2>1. in \in Nat
    BY <1>1
  <2>2. in + n <= Len(input)
    BY <1>3
  <2>3. \A k \in 1 .. n : input[ref + k] = input[in + k]
    BY <1>3
  <2>4. ref \in Nat /\ ref < in /\ n \in Nat
    BY <1>3
  <2>5. CopyBack(SubSeq(input, 1, in), ref, n) = SubSeq(input, 1, in + n)
    BY ONLY <2>1, <2>2, <2>3, <2>4, CopyBackIs, Zenon
  <2> QED
    BY <2>5, Zenon
<1> HIDE DEF in, out, lit, p, q
<1>6. a \in Seq(LzfByte) /\ Decodes(a, p)
  <2>1. CASE lit = << >>
    <3>1. a = out
      BY <2>1, Zenon DEF StopRun
    <3>2. r \o << >> = r
      OBVIOUS
    <3> QED
      BY <1>1, <1>2, <2>1, <3>1, <3>2, Zenon
  <2>2. CASE lit # << >>
    <3>1. Len(lit) \in 1 .. MaxLit
      BY <1>1, <2>2, LzfNumbers
    <3>2. a \in Seq(LzfByte)
      BY <1>1, <1>2, <3>1, RunToken
    <3>3. Decodes(a, r \o lit)
      BY <1>1, <1>2, <3>1, RunToken
    <3> QED
      BY <1>2, <3>2, <3>3, Zenon
  <2> QED
    BY <2>1, <2>2
<1> HIDE DEF a
<1>7. a \o b \in Seq(LzfByte) /\ Decodes(a \o b, q)
  <2>1. LzfCode(Len(p) - ref - 1, n - 2) = b
    BY <1>4, Zenon
  <2>2. ref < Len(p) /\ Len(p) - ref - 1 < MaxOff /\ Len(q) = Len(p) + n
    BY <1>3, <1>4
  <2> HIDE DEF b
  <2>3. a \o LzfCode(Len(p) - ref - 1, n - 2) \in Seq(LzfByte)
    BY <1>3, <1>4, <1>5, <1>6, <2>2, MatchToken
  <2>4. Decodes(a \o LzfCode(Len(p) - ref - 1, n - 2), q)
    BY <1>3, <1>4, <1>5, <1>6, <2>2, MatchToken
  <2> QED
    BY <2>1, <2>3, <2>4, Zenon
<1> HIDE DEF b
<1>8. << >> \in Seq(LzfByte) /\ Len(<< >>) < MaxLit /\ in + n \in 0 .. Len(input)
  BY <1>1, <1>3, LzfNumbers
<1>9. q \o << >> = q
  BY <1>4
<1>10. Between(input, in + n, a \o b, << >>)
  BY <1>4, <1>7, <1>8, <1>9, Zenon DEF Between, q
<1> QED
  BY <1>10, Zenon DEF a, b, in, out, lit

-----------------------------------------------------------------------------
LzfState == [in : Nat, out : Seq(LzfByte), lit : Seq(LzfByte), ok : BOOLEAN]
LzfInv(s, input) == s \in LzfState /\ (s.ok => Between(input, s.in, s.out, s.lit))

LzfWith(s, i, v, w) == [s EXCEPT !.in = i, !.out = v, !.lit = w]
LzfStopped(s) == [s EXCEPT !.ok = FALSE]

LzfAfter(s, i, v, w, t) ==
    t \in LzfState /\ t.in = i /\ t.out = v /\ t.lit = w /\ (t.ok <=> s.ok)

LEMMA LzfWithIs ==
    ASSUME NEW s \in LzfState, NEW i \in Nat, NEW v \in Seq(LzfByte), NEW w \in Seq(LzfByte)
    PROVE  LzfAfter(s, i, v, w, LzfWith(s, i, v, w))
<1> DEFINE t == LzfWith(s, i, v, w)
<1>1. \A x \in {"in", "out", "lit", "ok"} : x \in DOMAIN s
  BY DEF LzfState
<1>2. s.ok \in BOOLEAN
  BY DEF LzfState
<1>3. /\ DOMAIN t = {"in", "out", "lit", "ok"} /\ t.in = i /\ t.out = v /\ t.lit = w
      /\ t.ok = s.ok
  BY DEF LzfWith, LzfState
<1>4. t \in LzfState
  BY <1>2 DEF LzfWith, LzfState
<1> HIDE DEF t
<1> QED
  BY <1>3, <1>4, Zenon DEF LzfAfter, t

LEMMA LzfStoppedIs ==
    ASSUME NEW s \in LzfState PROVE LzfStopped(s) \in LzfState /\ ~LzfStopped(s).ok
<1>1. LzfStopped(s) \in LzfState
  BY DEF LzfStopped, LzfState
<1>2. "ok" \in DOMAIN s
  BY DEF LzfState
<1>3. LzfStopped(s).ok = FALSE
  BY <1>2 DEF LzfStopped
<1> QED
  BY <1>1, <1>3

\* A literal that is added to the open run.
LEMMA LiteralKeeps ==
    ASSUME NEW input \in Seq(LzfByte), NEW s, LzfInv(s, input), s.ok, s.in < Len(input),
           NEW t, t = AddLit(s, input[s.in + 1])
    PROVE  /\ LzfInv(t, input) /\ t.ok /\ t.in = s.in + 1
           /\ LzfSize(t.out, t.lit) <= LzfSize(s.out, s.lit) + 2
           /\ s.lit # << >> => LzfSize(t.out, t.lit) <= LzfSize(s.out, s.lit) + 1
<1> DEFINE x == input[s.in + 1]
           u == Append(s.lit, x)
           v == IF Len(u) = MaxLit THEN StopRun(s.out, u) ELSE s.out
           w == IF Len(u) = MaxLit THEN << >> ELSE u
<1>1. s \in LzfState /\ Between(input, s.in, s.out, s.lit)
  BY DEF LzfInv
<1>2. Between(input, s.in + 1, v, w)
  BY <1>1, OneLiteral
<1>3. LzfSize(v, w) <= LzfSize(s.out, s.lit) + 2
  BY <1>1, OneLiteral
<1>4. s.lit # << >> => LzfSize(v, w) <= LzfSize(s.out, s.lit) + 1
  BY <1>1, OneLiteral
<1>5. t = LzfWith(s, s.in + 1, v, w)
  BY Zenon DEF AddLit, LzfWith
<1> HIDE DEF v, w
<1>6. s.in + 1 \in Nat /\ v \in Seq(LzfByte) /\ w \in Seq(LzfByte)
  <2>1. s.in \in Nat
    BY <1>1 DEF LzfState
  <2> QED
    BY <1>2, <2>1 DEF Between
<1>7. t \in LzfState /\ t.in = s.in + 1 /\ t.out = v /\ t.lit = w /\ (t.ok <=> s.ok)
  <2>1. LzfAfter(s, s.in + 1, v, w, t)
    BY <1>1, <1>5, <1>6, LzfWithIs, Zenon
  <2> QED
    BY <2>1, Zenon DEF LzfAfter
<1>9. LzfInv(t, input)
  BY <1>2, <1>7, Zenon DEF LzfInv
<1> QED
  BY <1>3, <1>4, <1>7, <1>9, Zenon

\* The parts of what is written are numbers.
LEMMA StopRunIs ==
    ASSUME NEW out \in Seq(LzfByte), NEW lit \in Seq(LzfByte)
    PROVE  StopRun(out, lit) \in Seq(Int)
<1> DEFINE h == <<Len(lit) - 1>>
<1>1. h \in Seq(Int)
  OBVIOUS
<1>2. out \in Seq(Int) /\ lit \in Seq(Int)
  BY LzfNumbers DEF LzfByte
<1> HIDE DEF h
<1>3. out \o h \in Seq(Int)
  BY <1>1, <1>2, ConcatProperties
<1>4. (out \o h) \o lit \in Seq(Int)
  BY <1>2, <1>3, ConcatProperties
<1> QED
  BY <1>2, <1>4, Zenon DEF StopRun, h

LEMMA CodeIs ==
    ASSUME NEW off \in Nat, NEW k \in Nat
    PROVE  /\ (IF k < LongMark THEN <<off \div ByteBase + k * MaxLit>>
               ELSE <<off \div ByteBase + LongMark * MaxLit, k - LongMark>>) \in Seq(Int)
           /\ <<off % ByteBase>> \in Seq(Int)
<1>1. ByteBase \in Nat \ {0} /\ MaxLit \in Nat /\ LongMark \in Nat
  BY LzfNumbers
<1>2. off \div ByteBase \in Int /\ off % ByteBase \in Int
  BY <1>1, DividedInto
<1>3. k * MaxLit \in Int /\ LongMark * MaxLit \in Int
  BY <1>1
<1> DEFINE a == off \div ByteBase
           x == k * MaxLit
           y == LongMark * MaxLit
           z == off % ByteBase
<1> HIDE DEF a, x, y, z
<1>4. a \in Int /\ x \in Int /\ y \in Int /\ z \in Int
  BY <1>2, <1>3 DEF a, x, y, z
<1>5. <<a + x>> \in Seq(Int) /\ <<a + y, k - LongMark>> \in Seq(Int) /\ <<z>> \in Seq(Int)
  BY <1>1, <1>4
<1> QED
  BY <1>5, Zenon DEF a, x, y, z

\* A reference.
LEMMA MatchKeeps ==
    ASSUME NEW input \in Seq(LzfByte), NEW s, LzfInv(s, input), s.ok, s.in + 2 < Len(input),
           NEW ref \in Refs(s, input), NEW t, t = Match(s, input, ref), t.ok
    PROVE  LzfInv(t, input) /\ t.in > s.in
<1> DEFINE n == MatchLen(s, input, ref)
           off == s.in - ref - 1
           a == StopRun(s.out, s.lit)
           c == IF n - 2 < LongMark THEN <<off \div ByteBase + (n - 2) * MaxLit>>
                ELSE <<off \div ByteBase + LongMark * MaxLit, n - 2 - LongMark>>
           lo == <<off % ByteBase>>
           v == a \o LzfCode(off, n - 2)
           used == Len(s.out) + 1 + Len(s.lit)
           full == used - (IF s.lit = << >> THEN 1 ELSE 0) + 4 >= Len(input)
<1>1. s \in LzfState /\ Between(input, s.in, s.out, s.lit) /\ s.in \in Nat
  BY DEF LzfInv, LzfState
<1>2. n \in Nat /\ 3 <= n
  BY <1>1, MatchLenIs
<1>3. Between(input, s.in + n, v, << >>)
  <2> HIDE DEF v
  <2>1. \A k : k = MatchLen(s, input, ref) =>
            LET y == StopRun(s.out, s.lit) \o LzfCode(s.in - ref - 1, k - 2)
            IN Between(input, s.in + k, y, << >>)
    BY <1>1, OneMatch
  <2> QED
    BY <2>1, Zenon DEF v
<1>4. LzfStopped(s) \in LzfState /\ ~LzfStopped(s).ok
  BY <1>1, LzfStoppedIs
<1>5. ~full
  <2> HIDE DEF used, n, off, c, lo
  <2>1. full => t = LzfStopped(s)
    BY Zenon DEF Match, LzfStopped, used
  <2> QED
    BY <1>4, <2>1
<1>6. v = (a \o c) \o lo /\ v \in Seq(LzfByte)
  <2>1. LzfCode(off, n - 2) = c \o lo
    BY Zenon DEF LzfCode
  <2>2. a \in Seq(Int)
    BY <1>1, StopRunIs DEF LzfState
  <2>3. c \in Seq(Int) /\ lo \in Seq(Int)
    <3> HIDE DEF off, n
    <3>1. off \in Nat /\ n - 2 \in Nat
      <4>1. ref \in Nat /\ ref < s.in
        BY <1>1, MatchLenIs
      <4> QED
        BY <1>1, <1>2, <4>1 DEF off
    <3> DEFINE k == n - 2
    <3> HIDE DEF k
    <3>2. c \in Seq(Int)
      <4>1. k \in Nat
        BY <3>1 DEF k
      <4>2. (IF k < LongMark THEN <<off \div ByteBase + k * MaxLit>>
            ELSE <<off \div ByteBase + LongMark * MaxLit, k - LongMark>>) \in Seq(Int)
        BY <3>1, <4>1, CodeIs
      <4> QED
        BY <4>2, Zenon DEF k
    <3>3. lo \in Seq(Int)
      BY <3>1, CodeIs
    <3> QED
      BY <3>2, <3>3
  <2> HIDE DEF a, c, lo
  <2> DEFINE Z == Int
  <2>5. a \in Seq(Z) /\ c \in Seq(Z) /\ lo \in Seq(Z)
    BY <2>2, <2>3
  <2> HIDE DEF Z
  <2>4. (a \o c) \o lo = a \o (c \o lo)
    BY <2>5, ConcatAssociative
  <2> QED
    BY <1>3, <2>1, <2>4, Zenon DEF Between
<1>7. n - 2 + 2 = n /\ s.in + n \in Nat /\ s.in + n > s.in /\ s.in + (n - 2) + 2 = s.in + n
  BY <1>1, <1>2
<1> HIDE DEF n, off, v
<1>8. t = LzfWith(s, s.in + (n - 2) + 2, (a \o c) \o lo, << >>)
  <2> HIDE DEF full
  <2>1. Match(s, input, ref) =
          IF full THEN [s EXCEPT !.ok = FALSE]
          ELSE [s EXCEPT !.in = @ + (n - 2) + 2, !.out = StopRun(@, s.lit) \o c \o lo,
                         !.lit = << >>]
    BY Zenon DEF Match, n, off, full
  <2> HIDE DEF c, lo
  <2> QED
    BY <1>5, <2>1, Zenon DEF LzfWith
<1>9. t = LzfWith(s, s.in + n, v, << >>)
  BY <1>6, <1>7, <1>8, Zenon
<1>10. << >> \in Seq(LzfByte)
  OBVIOUS
<1>11. t \in LzfState /\ t.in = s.in + n /\ t.out = v /\ t.lit = << >>
  <2>1. LzfAfter(s, s.in + n, v, << >>, t)
    BY <1>1, <1>6, <1>7, <1>9, <1>10, LzfWithIs, Zenon
  <2> QED
    BY <2>1, Zenon DEF LzfAfter
<1>12. LzfInv(t, input)
  BY <1>3, <1>11, Zenon DEF LzfInv
<1> QED
  BY <1>7, <1>11, <1>12
-----------------------------------------------------------------------------
\* A turn of Compress keeps the invariant and moves on, or is past the loop.
LzfProgress(s, k, input) == s.ok => s.in >= k \/ s.in + 2 >= Len(input)

LEMMA TurnKeeps ==
    ASSUME NEW input \in Seq(LzfByte), NEW s, LzfInv(s, input), NEW k \in Nat,
           LzfProgress(s, k, input), NEW t \in Turn(s, input)
    PROVE  LzfInv(t, input) /\ LzfProgress(t, k + 1, input)
<1>1. s \in LzfState /\ s.in \in Nat /\ Len(input) \in Nat
  BY DEF LzfInv, LzfState
<1>2. CASE ~s.ok \/ s.in >= Len(input) - 2
  <2>1. t = s
    BY <1>2 DEF Turn
  <2>2. s.ok => s.in + 2 >= Len(input)
    BY <1>1, <1>2
  <2> QED
    BY <2>1, <2>2 DEF LzfProgress
<1>3. CASE ~(~s.ok \/ s.in >= Len(input) - 2)
  <2>0. s.ok /\ s.in + 2 < Len(input) /\ s.in < Len(input) /\ s.in >= k
    BY <1>1, <1>3 DEF LzfProgress
  <2>1. t \in {Literal(s, input)} \cup {Match(s, input, ref) : ref \in Refs(s, input)}
    BY <1>3, Zenon DEF Turn
  <2>2. ASSUME NEW u, u = LzfStopped(s) PROVE LzfInv(u, input) /\ LzfProgress(u, k + 1, input)
    <3>1. u \in LzfState /\ ~u.ok
      BY <1>1, <2>2, LzfStoppedIs, Zenon
    <3> QED
      BY <3>1, Zenon DEF LzfInv, LzfProgress
  <2>3. CASE t = Literal(s, input)
    <3> DEFINE full == Len(s.out) + 1 + Len(s.lit) >= Len(input)
    <3>1. CASE full
      <4>1. t = LzfStopped(s)
        BY <2>3, <3>1, Zenon DEF Literal, LzfStopped
      <4> QED
        BY <2>2, <4>1, Zenon
    <3>2. CASE ~full
      <4>1. t = AddLit(s, input[s.in + 1])
        BY <2>3, <3>2, Zenon DEF Literal
      <4>2. LzfInv(t, input) /\ t.in = s.in + 1
        BY <2>0, <4>1, LiteralKeeps
      <4>3. t.in >= k + 1
        BY <1>1, <2>0, <4>2
      <4> QED
        BY <4>2, <4>3, Zenon DEF LzfProgress
    <3> QED
      BY <3>1, <3>2
  <2>4. ASSUME NEW ref \in Refs(s, input), t = Match(s, input, ref)
        PROVE  LzfInv(t, input) /\ LzfProgress(t, k + 1, input)
    <3> DEFINE used == Len(s.out) + 1 + Len(s.lit)
               full == used - (IF s.lit = << >> THEN 1 ELSE 0) + 4 >= Len(input)
               n == MatchLen(s, input, ref)
               off == s.in - ref - 1
               c == IF n - 2 < LongMark THEN <<off \div ByteBase + (n - 2) * MaxLit>>
                    ELSE <<off \div ByteBase + LongMark * MaxLit, n - 2 - LongMark>>
               lo == <<off % ByteBase>>
    <3>0. Match(s, input, ref) =
            IF full THEN [s EXCEPT !.ok = FALSE]
            ELSE [s EXCEPT !.in = @ + (n - 2) + 2, !.out = StopRun(@, s.lit) \o c \o lo,
                           !.lit = << >>]
      <4> HIDE DEF full, n, off, c, lo
      <4> QED
        BY Zenon DEF Match, n, off, full, c, lo
    <3> HIDE DEF full, n, off, c, lo
    <3>1. CASE full
      <4>1. t = LzfStopped(s)
        BY <2>4, <3>0, <3>1, Zenon DEF LzfStopped
      <4> QED
        BY <2>2, <4>1, Zenon
    <3>2. CASE ~t.ok /\ ~full
      <4>1. FALSE
        <5> DEFINE i == s.in + (n - 2) + 2
        <5>1. \E v : t = LzfWith(s, i, v, << >>)
          BY <2>4, <3>0, <3>2, Zenon DEF LzfWith
        <5>2. t.ok <=> s.ok
          BY <1>1, <5>1 DEF LzfWith, LzfState
        <5> QED
          BY <2>0, <3>2, <5>2
      <4> QED
        BY <4>1
    <3>3. CASE t.ok
      <4>1. LzfInv(t, input) /\ t.in > s.in
        BY <2>0, <2>4, <3>3, MatchKeeps
      <4>2. t.in \in Nat
        BY <4>1 DEF LzfInv, LzfState
      <4>3. t.in >= k + 1
        BY <1>1, <2>0, <4>1, <4>2
      <4> QED
        BY <4>1, <4>3, Zenon DEF LzfProgress
    <3> QED
      BY <3>1, <3>2, <3>3
  <2> QED
    BY <2>1, <2>3, <2>4, Zenon
<1> QED
  BY <1>2, <1>3

\* The sets of states Compress can be in after 0, ..., n turns.
IsTurns(f, n, input) ==
    /\ DOMAIN f = 0 .. n /\ f[0] = {Start}
    /\ \A i \in 1 .. n : f[i] = UNION {Turn(s, input) : s \in f[i - 1]}

LEMMA TurnsExist ==
    ASSUME NEW n \in Nat, NEW input PROVE \E f : IsTurns(f, n, input)
<1> DEFINE P == {k \in 0 .. n : \E f : IsTurns(f, k, input)}
<1>1. 0 \in P
  <2> DEFINE f == [i \in 0 .. 0 |-> {Start}]
  <2>1. DOMAIN f = 0 .. 0 /\ f[0] = {Start}
    OBVIOUS
  <2> HIDE DEF f
  <2>2. IsTurns(f, 0, input)
    BY <2>1 DEF IsTurns
  <2> QED
    BY <2>2
<1>2. ASSUME NEW i \in 1 .. n, i - 1 \in P PROVE i \in P
  <2>1. PICK f : IsTurns(f, i - 1, input)
    BY <1>2
  <2> DEFINE new == UNION {Turn(s, input) : s \in f[i - 1]}
             g == [j \in 0 .. i |-> IF j <= i - 1 THEN f[j] ELSE new]
  <2>2. DOMAIN g = 0 .. i /\ g[0] = {Start} /\ g[i] = new /\ \A j \in 0 .. i - 1 : g[j] = f[j]
    BY <2>1 DEF IsTurns
  <2> HIDE DEF g
  <2>3. ASSUME NEW j \in 1 .. i PROVE g[j] = UNION {Turn(s, input) : s \in g[j - 1]}
    <3>1. j - 1 \in 0 .. i - 1 /\ g[j - 1] = f[j - 1]
      BY <2>2
    <3>2. CASE j = i
      BY <2>2, <3>1, <3>2, Zenon
    <3>3. CASE j # i
      <4>1. j \in 1 .. i - 1 /\ j \in 0 .. i - 1
        BY <3>3
      <4>2. f[j] = UNION {Turn(s, input) : s \in f[j - 1]}
        BY <2>1, <4>1 DEF IsTurns
      <4> QED
        BY <2>2, <3>1, <4>1, <4>2, Zenon
    <3> QED
      BY <3>2, <3>3
  <2>4. IsTurns(g, i, input)
    BY <2>2, <2>3, Zenon DEF IsTurns
  <2> QED
    BY <2>4
<1>3. n \in P
  <2> HIDE DEF P
  <2>1. \A i \in 0 .. n : i \in P
    BY <1>1, <1>2, TurnByTurn
  <2> QED
    BY <2>1
<1> QED
  BY <1>3

LEMMA LzfStarts == ASSUME NEW input \in Seq(LzfByte) PROVE LzfInv(Start, input)
<1>1. PICK c : c = TRUE
  OBVIOUS
<1>2. Start = [in |-> 0, out |-> << >>, lit |-> << >>, ok |-> c]
  BY <1>1, Zenon DEF Start
<1>3. << >> \in Seq(LzfByte) /\ Len(<< >>) = 0
  OBVIOUS
<1>4. Start \in LzfState /\ Start.in = 0 /\ Start.out = << >> /\ Start.lit = << >>
  BY <1>1, <1>2, <1>3 DEF LzfState
<1>5. << >> \o << >> = SubSeq(input, 1, 0)
  <2>1. 0 \in 0 .. Len(input)
    OBVIOUS
  <2>2. SubSeq(input, 1, 0) \in Seq(LzfByte) /\ Len(SubSeq(input, 1, 0)) = 0
    BY <2>1, Beginning
  <2> QED
    BY <2>2
<1>6. 0 \in 0 .. Len(input) /\ Len(<< >>) < MaxLit
  BY <1>3, LzfNumbers
<1>7. Between(input, 0, << >>, << >>)
  BY <1>3, <1>5, <1>6, DecodesNothing, Zenon DEF Between
<1> QED
  BY <1>4, <1>7, Zenon DEF LzfInv

\* After the loop.
LEMMA LzfLooped ==
    ASSUME NEW input \in Seq(LzfByte), NEW f, IsTurns(f, Len(input), input),
           NEW s \in f[Len(input)]
    PROVE  LzfInv(s, input) /\ (s.ok => s.in + 2 >= Len(input))
<1> DEFINE n == Len(input)
           P == {k \in 0 .. n : \A t \in f[k] : LzfInv(t, input) /\ LzfProgress(t, k, input)}
<1>1. 0 \in P
  <2>1. \A t \in f[0] : t = Start
    BY DEF IsTurns
  <2>2. LzfInv(Start, input)
    BY LzfStarts
  <2>3. Start.in >= 0
    BY <2>2 DEF LzfInv, LzfState
  <2>4. LzfProgress(Start, 0, input)
    BY <2>3, Zenon DEF LzfProgress
  <2> QED
    BY <2>1, <2>2, <2>4
<1>2. ASSUME NEW i \in 1 .. n, i - 1 \in P PROVE i \in P
  <2>1. ASSUME NEW t \in f[i] PROVE LzfInv(t, input) /\ LzfProgress(t, i, input)
    <3>1. f[i] = UNION {Turn(u, input) : u \in f[i - 1]}
      BY DEF IsTurns
    <3>2. PICK u \in f[i - 1] : t \in Turn(u, input)
      BY <2>1, <3>1
    <3>3. LzfInv(u, input) /\ LzfProgress(u, i - 1, input)
      BY <1>2
    <3>4. i - 1 \in Nat /\ (i - 1) + 1 = i
      OBVIOUS
    <3>5. LzfInv(t, input)
      BY <3>2, <3>3, <3>4, TurnKeeps
    <3>6. LzfProgress(t, (i - 1) + 1, input)
      BY <3>2, <3>3, <3>4, TurnKeeps
    <3> QED
      BY <3>4, <3>5, <3>6, Zenon
  <2> QED
    BY <2>1
<1>3. n \in P
  <2>1. n \in Nat
    OBVIOUS
  <2> HIDE DEF P, n
  <2>2. \A i \in 0 .. n : i \in P
    BY <1>1, <1>2, <2>1, TurnByTurn
  <2> QED
    BY <2>1, <2>2
<1>4. LzfInv(s, input) /\ LzfProgress(s, n, input)
  BY <1>3
<1>5. s.in \in Nat /\ Len(input) \in Nat
  BY <1>4 DEF LzfInv, LzfState
<1> QED
  BY <1>4, <1>5 DEF LzfProgress

\* The bytes after the loop, at most two, are added as literals.
LastOf(s, input) ==
    Iterate(Len(input) - s.in, s, LAMBDA x, k : AddLit(x, input[s.in + k]))

LEMMA LastIs ==
    ASSUME NEW input, NEW s, NEW n \in Nat, n = Len(input) - s.in, NEW h, h[0] = s,
           \A k \in 1 .. n : h[k] = AddLit(h[k - 1], input[s.in + k])
    PROVE  LastOf(s, input) = h[n]
<1> DEFINE IsAfter(f) == f = [k \in 0 .. Len(input) - s.in |->
                                 IF k = 0 THEN {s}
                                 ELSE {AddLit(x, input[s.in + k]) : x \in f[k - 1]}]
           after == CHOOSE f : IsAfter(f)
           f0 == [k \in 0 .. Len(input) - s.in |-> {h[k]}]
<1>1. LastOf(s, input) = CHOOSE x \in after[Len(input) - s.in] : TRUE
  BY Zenon DEF LastOf, Iterate
<1>2. IsAfter(f0)
  <2>1. ASSUME NEW k \in 0 .. n
        PROVE  f0[k] = IF k = 0 THEN {s} ELSE {AddLit(x, input[s.in + k]) : x \in f0[k - 1]}
    <3>1. CASE k = 0
      BY <3>1
    <3>2. CASE k # 0
      <4>1. k \in 1 .. n /\ k - 1 \in 0 .. n
        BY <3>2
      <4>2. f0[k - 1] = {h[k - 1]} /\ f0[k] = {h[k]}
        BY <4>1
      <4>3. {AddLit(x, input[s.in + k]) : x \in f0[k - 1]} = {h[k]}
        BY <4>1, <4>2, Zenon
      <4> QED
        BY <3>2, <4>2, <4>3
    <3> QED
      BY <3>1, <3>2
  <2>2. f0 = [k \in 0 .. Len(input) - s.in |-> f0[k]]
    BY Zenon DEF f0
  <2> HIDE DEF f0
  <2> QED
    BY <2>1, <2>2, Zenon
<1> HIDE DEF IsAfter
<1>3. IsAfter(after)
  BY <1>2, Zenon
<1> HIDE DEF after
<1>4. after = [k \in 0 .. n |-> IF k = 0 THEN {s}
                                ELSE {AddLit(x, input[s.in + k]) : x \in after[k - 1]}]
  BY <1>3, Zenon DEF IsAfter
<1>5. Loop(after, h, n)
  <2>1. DOMAIN after = 0 .. n /\ after[0] = {h[0]}
    BY <1>4
  <2>2. ASSUME NEW k \in 1 .. n, after[k - 1] = {h[k - 1]} PROVE after[k] = {h[k]}
    <3>1. k \in 0 .. n /\ k # 0
      OBVIOUS
    <3>2. after[k] = {AddLit(x, input[s.in + k]) : x \in after[k - 1]}
      BY <1>4, <3>1, Zenon
    <3> QED
      BY <2>2, <3>2, Zenon
  <2> QED
    BY <2>1, <2>2, Zenon DEF Loop
<1> QED
  BY <1>1, <1>5, LoopEnds

LEMMA LzfSizeIs ==
    ASSUME NEW out \in Seq(LzfByte), NEW lit \in Seq(LzfByte)
    PROVE  /\ LzfSize(out, lit) \in Nat /\ LzfSize(out, lit) <= Len(out) + Len(lit) + 1
           /\ lit = << >> => LzfSize(out, lit) = Len(out) + Len(lit)
           /\ lit # << >> => LzfSize(out, lit) = Len(out) + Len(lit) + 1
<1>1. Len(out) \in Nat /\ Len(lit) \in Nat
  OBVIOUS
<1>2. CASE lit = << >>
  <2>1. LzfSize(out, lit) = Len(out) + Len(lit) + 0
    BY <1>2, Zenon DEF LzfSize
  <2> QED
    BY <1>1, <1>2, <2>1
<1>3. CASE lit # << >>
  <2>1. LzfSize(out, lit) = Len(out) + Len(lit) + 1
    BY <1>3, Zenon DEF LzfSize
  <2> QED
    BY <1>1, <1>3, <2>1
<1> QED
  BY <1>2, <1>3

LEMMA LastKeeps ==
    ASSUME NEW input \in Seq(LzfByte), NEW s, LzfInv(s, input), s.ok, s.in + 2 >= Len(input)
    PROVE  /\ LzfInv(LastOf(s, input), input) /\ LastOf(s, input).ok
           /\ LastOf(s, input).in = Len(input)
           /\ LzfSize(LastOf(s, input).out, LastOf(s, input).lit) < Len(s.out) + 1 + Len(s.lit) + 4
<1> DEFINE n == Len(input) - s.in
           t == AddLit(s, input[s.in + 1])
           u == AddLit(t, input[t.in + 1])
           h == [k \in 0 .. n |-> IF k = 0 THEN s ELSE IF k = 1 THEN t ELSE u]
           last == LastOf(s, input)
<1>1. /\ s.in \in Nat /\ s.in <= Len(input) /\ Len(input) \in Nat
      /\ Len(s.out) \in Nat /\ Len(s.lit) \in Nat
  BY DEF LzfInv, LzfState, Between
<1>2. n \in 0 .. 2
  BY <1>1
<1>3. /\ LzfSize(s.out, s.lit) \in Nat /\ LzfSize(s.out, s.lit) <= Len(s.out) + Len(s.lit) + 1
      /\ s.lit = << >> => LzfSize(s.out, s.lit) = Len(s.out) + Len(s.lit)
  BY LzfSizeIs DEF LzfInv, LzfState
<1> DEFINE a == Len(s.out)
           b == Len(s.lit)
           z == LzfSize(s.out, s.lit)
<1>5a. a \in Nat /\ b \in Nat /\ z \in Nat /\ z <= a + b + 1 /\ (s.lit = << >> => z = a + b)
  BY <1>1, <1>3, Zenon
<1> HIDE DEF a, b, z
<1>4. CASE n = 0
  <2>1. last = s
    <3> DEFINE g == [k \in 0 .. 0 |-> s]
    <3>1. g[0] = s
      OBVIOUS
    <3> HIDE DEF g
    <3>2. \A k \in 1 .. n : g[k] = AddLit(g[k - 1], input[s.in + k])
      BY <1>4
    <3>3. n \in Nat
      BY <1>2
    <3> HIDE DEF last
    <3>4. last = g[n]
      BY <3>1, <3>2, <3>3, LastIs DEF last
    <3> QED
      BY <1>4, <3>1, <3>4
  <2>2. s.in = Len(input)
    BY <1>1, <1>4
  <2> HIDE DEF last
  <2>3. LzfSize(s.out, s.lit) < Len(s.out) + 1 + Len(s.lit) + 4
    <3>1. z < a + 1 + b + 4
      BY <1>5a
    <3> QED
      BY <3>1, Zenon DEF a, b, z
  <2> QED
    BY <2>1, <2>2, <2>3 DEF last
<1>5. CASE n # 0
  <2>1. s.in < Len(input)
    BY <1>1, <1>2, <1>5
  <2>2. /\ LzfInv(t, input) /\ t.ok /\ t.in = s.in + 1
        /\ LzfSize(t.out, t.lit) <= LzfSize(s.out, s.lit) + 2
        /\ s.lit # << >> => LzfSize(t.out, t.lit) <= LzfSize(s.out, s.lit) + 1
    <3> HIDE DEF t
    <3>1. t = AddLit(s, input[s.in + 1])
      BY Zenon DEF t
    <3>2. LzfInv(t, input) /\ t.ok /\ t.in = s.in + 1
      BY <2>1, <3>1, LiteralKeeps
    <3>3. LzfSize(t.out, t.lit) <= LzfSize(s.out, s.lit) + 2
      BY <2>1, <3>1, LiteralKeeps
    <3>4. s.lit # << >> => LzfSize(t.out, t.lit) <= LzfSize(s.out, s.lit) + 1
      BY <2>1, <3>1, LiteralKeeps
    <3> QED
      BY <3>2, <3>3, <3>4
  <2>3. LzfSize(t.out, t.lit) \in Nat
    <3>1. t.out \in Seq(LzfByte) /\ t.lit \in Seq(LzfByte)
      BY <2>2 DEF LzfInv, LzfState
    <3> QED
      BY <3>1, LzfSizeIs
  <2> HIDE DEF t
  <2> DEFINE y == LzfSize(t.out, t.lit)
  <2>3a. y \in Nat /\ y <= z + 2 /\ (s.lit # << >> => y <= z + 1)
    BY <2>2, <2>3, Zenon DEF z
  <2> HIDE DEF y
  <2>4. y <= a + 1 + b + 1
    <3>1. CASE s.lit = << >>
      BY <1>5a, <2>3a, <3>1
    <3>2. CASE s.lit # << >>
      BY <1>5a, <2>3a, <3>2
    <3> QED
      BY <3>1, <3>2
  <2>5. CASE n = 1
    <3>1. last = t
      <4> DEFINE g == [k \in 0 .. 1 |-> IF k = 0 THEN s ELSE t]
      <4>1. g[0] = s /\ g[1] = t
        OBVIOUS
      <4> HIDE DEF g
      <4>2. ASSUME NEW k \in 1 .. n PROVE g[k] = AddLit(g[k - 1], input[s.in + k])
        <5>1. k = 1 /\ k - 1 = 0
          BY <2>5
        <5>2. g[1] = AddLit(g[0], input[s.in + 1])
          BY <4>1, Zenon DEF t
        <5> QED
          BY <5>1, <5>2, Zenon
      <4>3. n \in Nat
        BY <1>2
      <4> HIDE DEF last
      <4>4. last = g[n]
        BY <4>1, <4>2, <4>3, LastIs DEF last
      <4> QED
        BY <2>5, <4>1, <4>4
    <3>2. s.in + 1 = Len(input)
      BY <1>1, <2>5
    <3> HIDE DEF last
    <3>3. LzfSize(t.out, t.lit) < Len(s.out) + 1 + Len(s.lit) + 4
      <4>1. y < a + 1 + b + 4
        BY <1>5a, <2>3a, <2>4
      <4> QED
        BY <4>1, Zenon DEF a, b, y
    <3> QED
      BY <2>2, <3>1, <3>2, <3>3 DEF last
  <2>6. CASE n = 2
    <3>1. t.in < Len(input) /\ t.in + 1 = s.in + 2
      BY <1>1, <2>2, <2>6
    <3>2. /\ LzfInv(u, input) /\ u.ok /\ u.in = t.in + 1
          /\ LzfSize(u.out, u.lit) <= LzfSize(t.out, t.lit) + 2
      <4> HIDE DEF u
      <4>1. u = AddLit(t, input[t.in + 1])
        BY Zenon DEF u
      <4>2. LzfInv(u, input) /\ u.ok /\ u.in = t.in + 1
        BY <2>2, <3>1, <4>1, LiteralKeeps
      <4>3. LzfSize(u.out, u.lit) <= LzfSize(t.out, t.lit) + 2
        BY <2>2, <3>1, <4>1, LiteralKeeps
      <4> QED
        BY <4>2, <4>3
    <3>3. LzfSize(u.out, u.lit) \in Nat
      <4>1. u.out \in Seq(LzfByte) /\ u.lit \in Seq(LzfByte)
        BY <3>2 DEF LzfInv, LzfState
      <4> QED
        BY <4>1, LzfSizeIs
    <3> HIDE DEF u
    <3>4. last = u
      <4> DEFINE g == [k \in 0 .. 2 |-> IF k = 0 THEN s ELSE IF k = 1 THEN t ELSE u]
      <4>1. g[0] = s /\ g[1] = t /\ g[2] = u
        OBVIOUS
      <4> HIDE DEF g
      <4>2. ASSUME NEW k \in 1 .. n PROVE g[k] = AddLit(g[k - 1], input[s.in + k])
        <5>1. (k = 1 /\ k - 1 = 0) \/ (k = 2 /\ k - 1 = 1)
          BY <2>6
        <5>2. g[1] = AddLit(g[0], input[s.in + 1])
          BY <4>1, Zenon DEF t
        <5>3. g[2] = AddLit(g[1], input[s.in + 2])
          BY <3>1, <4>1, Zenon DEF u
        <5> QED
          BY <5>1, <5>2, <5>3, Zenon
      <4>3. n \in Nat
        BY <1>2
      <4> HIDE DEF last
      <4>4. last = g[n]
        BY <4>1, <4>2, <4>3, LastIs DEF last
      <4> QED
        BY <2>6, <4>1, <4>4
    <3>5. u.in = Len(input)
      BY <1>1, <2>2, <2>6, <3>2
    <3> HIDE DEF last
    <3>6. LzfSize(u.out, u.lit) < Len(s.out) + 1 + Len(s.lit) + 4
      <4> DEFINE w == LzfSize(u.out, u.lit)
      <4>1. w \in Nat /\ w <= y + 2
        BY <3>2, <3>3, Zenon DEF y
      <4> HIDE DEF w
      <4>2. w < a + 1 + b + 4
        BY <1>5a, <2>3a, <2>4, <4>1
      <4> QED
        BY <4>2, Zenon DEF a, b, w
    <3> QED
      BY <3>2, <3>4, <3>5, <3>6 DEF last
  <2>7. n = 1 \/ n = 2
    <3> HIDE DEF n
    <3> QED
      BY <1>2, <1>5
  <2> QED
    BY <2>5, <2>6, <2>7
<1> QED
  BY <1>4, <1>5

\* What Compress returns if it does not give up: less than the input, and what Decompress
\* turns back into the input.
LzfGood(c, input) ==
    /\ c.out \in Seq(LzfByte) /\ Len(c.out) < Len(input) /\ Decodes(c.out, input)

LEMMA FinishGood ==
    ASSUME NEW input \in Seq(LzfByte), NEW s, LzfInv(s, input), s.ok, s.in + 2 >= Len(input),
           NEW c, c = Finish(s, input), c.ok
    PROVE  LzfGood(c, input)
<1> DEFINE last == LastOf(s, input)
           full == Len(s.out) + 1 + Len(s.lit) + 3 >= Len(input)
           v == StopRun(last.out, last.lit)
<1>1. /\ LzfInv(last, input) /\ last.ok /\ last.in = Len(input)
      /\ LzfSize(last.out, last.lit) < Len(s.out) + 1 + Len(s.lit) + 4
  BY LastKeeps
<1>2. Finish(s, input) = IF full THEN [s EXCEPT !.ok = FALSE]
                         ELSE [last EXCEPT !.out = StopRun(@, last.lit), !.lit = << >>]
  BY Zenon DEF Finish, LastOf
<1> HIDE DEF last, full
<1>3. s \in LzfState /\ last \in LzfState /\ Between(input, last.in, last.out, last.lit)
  BY <1>1 DEF LzfInv
<1>4. ~full
  <2>1. full => c = LzfStopped(s)
    BY <1>2, Zenon DEF LzfStopped
  <2> QED
    BY <1>3, <2>1, LzfStoppedIs
<1>5. c.out = v
  <2>1. c = [last EXCEPT !.out = v, !.lit = << >>]
    BY <1>2, <1>4, Zenon
  <2> HIDE DEF v
  <2> QED
    BY <1>3, <2>1 DEF LzfState
<1> DEFINE out == last.out
           lit == last.lit
<1>6. out \in Seq(LzfByte) /\ lit \in Seq(LzfByte) /\ Len(lit) < MaxLit
  BY <1>3 DEF Between
<1>7. PICK p \in Seq(LzfByte) : p \o lit = SubSeq(input, 1, Len(input)) /\ Decodes(out, p)
  BY <1>1, <1>3, Zenon DEF Between
<1>8. SubSeq(input, 1, Len(input)) = input
  OBVIOUS
<1>9. LzfSize(out, lit) < Len(input)
  <2>1. LzfSize(out, lit) \in Nat
    <3> HIDE DEF out, lit
    <3> QED
      BY <1>6, LzfSizeIs
  <2>2. Len(s.out) \in Nat /\ Len(s.lit) \in Nat /\ Len(input) \in Nat
    BY <1>3 DEF LzfState
  <2>3. LzfSize(out, lit) < Len(s.out) + 1 + Len(s.lit) + 4
    BY <1>1, Zenon
  <2>4. ~(Len(s.out) + 1 + Len(s.lit) + 3 >= Len(input))
    BY <1>4, Zenon DEF full
  <2> DEFINE a == Len(s.out)
             b == Len(s.lit)
             z == LzfSize(out, lit)
  <2>5. z \in Nat /\ a \in Nat /\ b \in Nat /\ z < a + 1 + b + 4
        /\ ~(a + 1 + b + 3 >= Len(input)) /\ Len(input) \in Nat
    BY <2>1, <2>2, <2>3, <2>4, Zenon
  <2> HIDE DEF a, b, z
  <2>6. z < Len(input)
    BY <2>5
  <2> QED
    BY <2>6, Zenon DEF z
<1> HIDE DEF out, lit
<1>10. CASE lit = << >>
  <2>1. v = out
    BY <1>10, Zenon DEF StopRun, out, lit
  <2>2. p \o << >> = p /\ Len(<< >>) = 0
    OBVIOUS
  <2>3. p = input
    BY <1>7, <1>8, <1>10, <2>2, Zenon
  <2>4. LzfSize(out, lit) = Len(out)
    BY <1>6, <1>10, <2>2 DEF LzfSize
  <2>5. Len(c.out) < Len(input)
    BY <1>5, <1>9, <2>1, <2>4, Zenon
  <2> QED
    BY <1>5, <1>6, <1>7, <2>1, <2>3, <2>5, Zenon DEF LzfGood
<1>11. CASE lit # << >>
  <2>1. Len(lit) \in 1 .. MaxLit
    BY <1>6, <1>11, LzfNumbers
  <2>2. StopRun(out, lit) = v
    BY Zenon DEF out, lit
  <2>3. StopRun(out, lit) \in Seq(LzfByte)
    BY <1>6, <1>7, <2>1, RunToken
  <2>4. Len(StopRun(out, lit)) = Len(out) + 1 + Len(lit)
    BY <1>6, <1>7, <2>1, RunToken
  <2>5. Decodes(StopRun(out, lit), p \o lit)
    BY <1>6, <1>7, <2>1, RunToken
  <2>6. LzfSize(out, lit) = Len(out) + 1 + Len(lit)
    BY <1>6, <1>11 DEF LzfSize
  <2>7. Len(c.out) < Len(input)
    BY <1>5, <1>9, <2>2, <2>4, <2>6, Zenon
  <2> QED
    BY <1>5, <1>7, <1>8, <2>2, <2>3, <2>5, <2>7, Zenon DEF LzfGood
<1> QED
  BY <1>10, <1>11

LEMMA CompressionsGood ==
    ASSUME NEW input \in Seq(LzfByte), NEW c \in Compressions(input), c.ok
    PROVE  LzfGood(c, input)
<1> DEFINE IsStates(f) ==
               f = [k \in 0 .. Len(input) |-> IF k = 0 THEN {Start}
                                              ELSE UNION {Turn(s, input) : s \in f[k - 1]}]
           states == CHOOSE f : IsStates(f)
<1>1. Compressions(input) = {IF s.ok THEN Finish(s, input) ELSE s : s \in states[Len(input)]}
  BY Zenon DEF Compressions
<1>2. PICK g : IsTurns(g, Len(input), input)
  <2>1. Len(input) \in Nat
    OBVIOUS
  <2> QED
    BY <2>1, TurnsExist
<1>3. \E f : IsStates(f)
  <2> DEFINE f == [k \in 0 .. Len(input) |-> g[k]]
  <2>1. ASSUME NEW k \in 0 .. Len(input)
        PROVE  f[k] = IF k = 0 THEN {Start} ELSE UNION {Turn(s, input) : s \in f[k - 1]}
    <3>1. CASE k = 0
      BY <1>2, <3>1 DEF IsTurns
    <3>2. CASE k # 0
      <4>1. k \in 1 .. Len(input) /\ k - 1 \in 0 .. Len(input)
        BY <3>2
      <4>2. g[k] = UNION {Turn(s, input) : s \in g[k - 1]}
        BY <1>2, <4>1, Zenon DEF IsTurns
      <4>3. f[k] = g[k] /\ f[k - 1] = g[k - 1]
        BY <4>1
      <4> QED
        BY <3>2, <4>2, <4>3, Zenon
    <3> QED
      BY <3>1, <3>2
  <2>2. f = [k \in 0 .. Len(input) |-> f[k]]
    BY Zenon DEF f
  <2> HIDE DEF f
  <2>3. IsStates(f)
    BY <2>1, <2>2, Zenon
  <2> QED
    BY <2>3, Zenon
<1> HIDE DEF IsStates
<1>4. IsStates(states)
  BY <1>3, Zenon
<1> HIDE DEF states
<1>5. IsTurns(states, Len(input), input)
  <2>1. states = [k \in 0 .. Len(input) |-> IF k = 0 THEN {Start}
                                         ELSE UNION {Turn(s, input) : s \in states[k - 1]}]
    BY <1>4, Zenon DEF IsStates
  <2>2. DOMAIN states = 0 .. Len(input) /\ states[0] = {Start}
    BY <2>1
  <2>3. ASSUME NEW i \in 1 .. Len(input)
        PROVE  states[i] = UNION {Turn(s, input) : s \in states[i - 1]}
    <3>1. i \in 0 .. Len(input) /\ i # 0
      OBVIOUS
    <3> QED
      BY <2>1, <3>1, Zenon
  <2> QED
    BY <2>2, <2>3, Zenon DEF IsTurns
<1>6. PICK s \in states[Len(input)] : c = IF s.ok THEN Finish(s, input) ELSE s
  BY <1>1, Zenon
<1>7. LzfInv(s, input) /\ (s.ok => s.in + 2 >= Len(input))
  BY <1>5, LzfLooped
<1>8. s.ok /\ c = Finish(s, input)
  BY <1>6, Zenon
<1> QED
  BY <1>7, <1>8, FinishGood

\* Decompress: a state at the end stays.
DecoderStart == [in |-> 0, out |-> << >>, ok |-> TRUE]

LEMMA DecodingExists ==
    ASSUME NEW n \in Nat, NEW o, NEW outLen PROVE \E f : IsDecoding(f, n, o, outLen)
<1> DEFINE P == {k \in 0 .. n : \E f : IsDecoding(f, k, o, outLen)}
<1>1. 0 \in P
  <2> DEFINE f == [i \in 0 .. 0 |-> At(0, << >>)]
  <2>1. DOMAIN f = 0 .. 0 /\ f[0] = At(0, << >>)
    OBVIOUS
  <2> HIDE DEF f
  <2>2. IsDecoding(f, 0, o, outLen)
    BY <2>1 DEF IsDecoding
  <2> QED
    BY <2>2
<1>2. ASSUME NEW i \in 1 .. n, i - 1 \in P PROVE i \in P
  <2>1. PICK f : IsDecoding(f, i - 1, o, outLen)
    BY <1>2
  <2>2. i - 1 \in Nat /\ (i - 1) + 1 = i
    OBVIOUS
  <2>3. \E g : IsDecoding(g, (i - 1) + 1, o, outLen)
    BY <2>1, <2>2, DecodeOnce
  <2> QED
    BY <2>2, <2>3
<1>3. n \in P
  <2> HIDE DEF P
  <2>1. \A i \in 0 .. n : i \in P
    BY <1>1, <1>2, TurnByTurn
  <2> QED
    BY <2>1
<1> QED
  BY <1>3

LEMMA DecompressIs ==
    ASSUME NEW o \in Seq(LzfByte), NEW outLen, NEW h, IsDecoding(h, Len(o), o, outLen)
    PROVE  Decompress(o, outLen) = h[Len(o)]
<1> DEFINE n == Len(o)
           IsAfter(f) == f = [k \in 0 .. Len(o) |-> IF k = 0 THEN {DecoderStart}
                                  ELSE {Decode(d, o, outLen) : d \in f[k - 1]}]
           after == CHOOSE f : IsAfter(f)
           f0 == [k \in 0 .. Len(o) |-> {h[k]}]
<1>1. Decompress(o, outLen) = CHOOSE x \in after[Len(o)] : TRUE
  BY Zenon DEF Decompress, Iterate, DecoderStart
<1>2. h[0] = DecoderStart /\ n \in Nat /\ \A k \in 1 .. n : h[k] = Decode(h[k - 1], o, outLen)
  <2>1. At(0, << >>) = DecoderStart
    BY Zenon DEF At, DecoderStart
  <2>2. n \in Nat
    OBVIOUS
  <2> QED
    BY <2>1, <2>2, Zenon DEF IsDecoding
<1>3. IsAfter(f0)
  <2>1. ASSUME NEW k \in 0 .. n
        PROVE  f0[k] = IF k = 0 THEN {DecoderStart} ELSE {Decode(d, o, outLen) : d \in f0[k - 1]}
    <3>1. CASE k = 0
      BY <1>2, <3>1
    <3>2. CASE k # 0
      <4>1. k \in 1 .. n /\ k - 1 \in 0 .. n
        BY <3>2
      <4>2. f0[k - 1] = {h[k - 1]} /\ f0[k] = {h[k]}
        BY <4>1
      <4>3. {Decode(d, o, outLen) : d \in f0[k - 1]} = {h[k]}
        BY <1>2, <4>1, <4>2, Zenon
      <4> QED
        BY <3>2, <4>2, <4>3
    <3> QED
      BY <3>1, <3>2
  <2>2. f0 = [k \in 0 .. Len(o) |-> f0[k]]
    BY Zenon DEF f0
  <2> HIDE DEF f0
  <2> QED
    BY <2>1, <2>2, Zenon
<1> HIDE DEF IsAfter
<1>4. IsAfter(after)
  BY <1>3, Zenon
<1> HIDE DEF after
<1>5. after = [k \in 0 .. n |-> IF k = 0 THEN {DecoderStart}
                                ELSE {Decode(d, o, outLen) : d \in after[k - 1]}]
  BY <1>4, Zenon DEF IsAfter
<1>6. Loop(after, h, n)
  <2>1. DOMAIN after = 0 .. n /\ after[0] = {h[0]}
    BY <1>2, <1>5
  <2>2. ASSUME NEW k \in 1 .. n, after[k - 1] = {h[k - 1]} PROVE after[k] = {h[k]}
    <3>1. k \in 0 .. n /\ k # 0
      OBVIOUS
    <3>2. after[k] = {Decode(d, o, outLen) : d \in after[k - 1]}
      BY <1>5, <3>1, Zenon
    <3> QED
      BY <1>2, <2>2, <3>2, Zenon
  <2> QED
    BY <2>1, <2>2, Zenon DEF Loop
<1> QED
  BY <1>1, <1>2, <1>6, LoopEnds

LEMMA DecompressGood ==
    ASSUME NEW o \in Seq(LzfByte), NEW p, NEW outLen \in Nat, outLen >= Len(p), Decodes(o, p)
    PROVE  Decompress(o, outLen) = At(Len(o), p)
<1> DEFINE n == Len(o)
<1>1. n \in Nat /\ << >> \in Seq(LzfByte) /\ o \o << >> = o
  OBVIOUS
<1>2. PICK k \in 0 .. n : \A more \in Seq(LzfByte), size \in Nat :
          size >= Len(p) =>
            \E f : IsDecoding(f, k, o \o more, size) /\ f[k] = At(Len(o), p)
  BY Zenon DEF Decodes
<1>3. PICK f : IsDecoding(f, k, o, outLen) /\ f[k] = At(n, p)
  BY <1>1, <1>2, Zenon
<1>4. PICK h : IsDecoding(h, n, o, outLen)
  BY <1>1, DecodingExists
<1>5. \A i \in 0 .. k : h[i] = f[i]
  <2> DEFINE P == {i \in 0 .. k : h[i] = f[i]}
  <2>1. 0 \in P
    BY <1>3, <1>4 DEF IsDecoding
  <2>2. ASSUME NEW i \in 1 .. k, i - 1 \in P PROVE i \in P
    <3>1. i \in 1 .. n
      BY <1>1
    <3>2. h[i] = Decode(h[i - 1], o, outLen)
      BY <1>4, <3>1, Zenon DEF IsDecoding
    <3>3. f[i] = Decode(f[i - 1], o, outLen)
      BY <1>3, Zenon DEF IsDecoding
    <3>4. h[i - 1] = f[i - 1]
      BY <2>2
    <3>5. h[i] = f[i]
      BY <3>2, <3>3, <3>4, Zenon
    <3> QED
      BY <3>5
  <2> HIDE DEF P
  <2>3. \A i \in 0 .. k : i \in P
    <3>1. k \in Nat
      BY <1>1
    <3> QED
      BY <2>1, <2>2, <3>1, TurnByTurn
  <2> QED
    BY <2>3 DEF P
<1>6. Decode(At(n, p), o, outLen) = At(n, p)
  <2>1. At(n, p).in = n
    BY AtFields
  <2>2. At(n, p).in >= Len(o)
    BY <1>1, <2>1
  <2> QED
    BY <2>2, Zenon DEF Decode
<1>7. \A j \in 0 .. n - k : h[k + j] = At(n, p)
  <2> DEFINE P == {j \in 0 .. n - k : h[k + j] = At(n, p)}
  <2>1. 0 \in P
    <3>1. k \in 0 .. k /\ k + 0 = k /\ 0 \in 0 .. n - k
      BY <1>1
    <3>2. h[k + 0] = At(n, p)
      BY <1>3, <1>5, <3>1, Zenon
    <3> QED
      BY <3>1, <3>2
  <2>2. ASSUME NEW i \in 1 .. n - k, i - 1 \in P PROVE i \in P
    <3>1. k + i \in 1 .. n /\ (k + i) - 1 = k + (i - 1) /\ i \in 0 .. n - k
      BY <1>1
    <3>2. h[k + i] = Decode(h[(k + i) - 1], o, outLen)
      BY <1>4, <3>1, Zenon DEF IsDecoding
    <3>3. h[k + (i - 1)] = At(n, p)
      BY <2>2
    <3>4. h[k + i] = At(n, p)
      BY <1>6, <3>1, <3>2, <3>3, Zenon
    <3> QED
      BY <3>1, <3>4
  <2> HIDE DEF P
  <2>3. \A j \in 0 .. n - k : j \in P
    <3>1. n - k \in Nat
      BY <1>1
    <3> QED
      BY <2>1, <2>2, <3>1, TurnByTurn
  <2> QED
    BY <2>3 DEF P
<1>8. h[n] = At(n, p)
  <2>1. n - k \in 0 .. n - k /\ k + (n - k) = n
    BY <1>1
  <2> QED
    BY <1>7, <2>1, Zenon
<1> QED
  BY <1>4, <1>8, DecompressIs

\* LZF (lzf.go): what Compress returns is shorter than its input, and Decompress makes the
\* input of it.
THEOREM LzfReadsBack ==
    ASSUME NEW input \in Seq(LzfByte), NEW c \in Compressions(input), c.ok
    PROVE  /\ c.out \in Seq(LzfByte) /\ Len(c.out) < Len(input)
           /\ Decompress(c.out, Len(input)) = At(Len(c.out), input)
<1>1. LzfGood(c, input)
  BY CompressionsGood
<1>2. c.out \in Seq(LzfByte) /\ Len(c.out) < Len(input) /\ Decodes(c.out, input)
  BY <1>1, Zenon DEF LzfGood
<1>3. Len(input) \in Nat /\ Len(input) >= Len(input)
  OBVIOUS
<1>4. Decompress(c.out, Len(input)) = At(Len(c.out), input)
  BY <1>2, <1>3, DecompressGood
<1> QED
  BY <1>2, <1>4

-----------------------------------------------------------------------------
(***************************************************************************)
(* A string that is written is read back.                                  *)
(***************************************************************************)
\* What IsInt64 says in eight bytes is an integer of this width.
LEMMA Int64Wide == ASSUME NEW v, IsInt64(v) PROVE v \in Int64s
<1>1. v \in Int /\ Fits(Upper(v), MaxInt32)
  BY DEF IsInt64
<1> DEFINE a == High(v)
           b == High(a)
           c == High(b)
           d == High(c)
<1>2. a \in Int /\ b \in Int /\ c \in Int /\ d \in Int
  BY <1>1, LowHigh
<1>3. \A m \in Nat : \A x \in Int : High(x) \in Wide(m) => x \in Wide(256 * m)
  BY DEF Wide, High
<1>4. Upper(v) = d
  BY Zenon DEF Upper
<1>5. d \in Wide(W4)
  BY <1>1, <1>2, <1>4, FitsWide
<1> HIDE DEF a, b, c, d
<1>6. c \in Wide(W5)
  BY <1>2, <1>3, <1>5, Widths, Zenon DEF W5, d
<1>7. b \in Wide(W6)
  BY <1>2, <1>3, <1>6, Widths, Zenon DEF W6, c
<1>8. a \in Wide(W7)
  BY <1>2, <1>3, <1>7, Widths, Zenon DEF W7, b
<1>9. v \in Wide(W8)
  BY <1>1, <1>2, <1>3, <1>8, Widths, Zenon DEF W8, a
<1> QED
  BY <1>9, Zenon DEF Int64s

\* Smaller than such a number.
LEMMA Int64Below ==
    ASSUME NEW v \in Int64s, NEW n \in Nat, n <= v PROVE n \in Int64s
BY Widths DEF Int64s, Wide, W8

\* Everything but the first item.
LEMMA TailIs ==
    ASSUME NEW S, NEW f \in Seq(S), Len(f) > 0
    PROVE  /\ Tail(f) \in Seq(S) /\ Len(Tail(f)) = Len(f) - 1
           /\ \A i \in 1 .. Len(f) - 1 : Tail(f)[i] = f[i + 1]
           /\ Len(f) = 1 => Tail(f) = << >>
<1>1. f # << >>
  OBVIOUS
<1>2. Tail(f) \in Seq(S) /\ Len(Tail(f)) = Len(f) - 1
      /\ \A i \in 1 .. Len(Tail(f)) : Tail(f)[i] = f[i + 1]
  BY <1>1, HeadTailProperties
<1> DEFINE t == Tail(f)
<1> HIDE DEF t
<1>3. t \in Seq(S) /\ Len(t) = Len(f) - 1
  BY <1>2 DEF t
<1>4. Len(f) = 1 => t = << >>
  BY <1>3
<1> QED
  BY <1>2, <1>4 DEF t

LEMMA ItemFields ==
    ASSUME NEW b, NEW s
    PROVE  /\ Hdr(b).p = "head" /\ Hdr(b).bytes = b /\ Body(s).p = "body" /\ Body(s).str = s
           /\ TornItem.p = "torn"
BY DEF Hdr, Body, TornItem

LEMMA ReadFields ==
    ASSUME NEW s, NEW r
    PROVE  /\ Got(s, r).is = "str" /\ Got(s, r).str = s /\ Got(s, r).rest = r
           /\ Failed.is = "lost"
BY DEF Got, Failed

\* The two top bits of the first byte.
LEMMA SpecialLength ==
    ASSUME NEW b, b[1] \in 192 .. 255
    PROVE  readLength(b).special /\ readLength(b).val = b[1] % 64
<1>1. ~(b[1] < 64) /\ ~(b[1] < 128) /\ b[1] # 128 /\ b[1] # 129
  OBVIOUS
<1>2. readLength(b) = [val |-> b[1] % 64, special |-> TRUE]
  BY <1>1, Zenon DEF readLength
<1> QED
  BY <1>2

LEMMA PlainLength ==
    ASSUME NEW v \in Int64s
    PROVE  ~readLength(writeLength(v)).special /\ readLength(writeLength(v)).val = v
<1>1. readLength(writeLength(v)) = [val |-> v, special |-> FALSE]
  BY LengthReadsBack
<1> QED
  BY <1>1

\* The body that is asked for.
LEMMA BodyReads ==
    ASSUME NEW S, NEW f \in Seq(S), NEW s, NEW n, Len(f) > 0, f[1] = Body(s), s.len = n
    PROVE  ReadBody(f, n) = Got(s, Tail(f))
<1>1. f # << >>
  OBVIOUS
<1>2. f[1].p = "body" /\ f[1].str = s
  BY ItemFields, Zenon
<1> QED
  BY <1>1, <1>2, Zenon DEF ReadBody

LEMMA NoBody ==
    ASSUME NEW f, NEW n, f = << >> \/ f[1].p # "body" \/ f[1].str.len # n
    PROVE  ReadBody(f, n) = Failed
BY Zenon DEF ReadBody

\* A string that begins with a length.
LEMMA SimpleReads ==
    ASSUME NEW S, NEW f \in Seq(S), NEW s, s.len \in Int64s, Len(f) >= 2,
           f[1] = Hdr(writeLength(s.len)), f[2] = Body(s)
    PROVE  readString(f) = Got(s, Tail(Tail(f)))
<1>1. IsHead(f, 1) /\ f[1].bytes = writeLength(s.len)
  BY ItemFields DEF IsHead
<1>2. ~readLength(f[1].bytes).special /\ readLength(f[1].bytes).val = s.len
  BY <1>1, PlainLength, Zenon
<1>3. readString(f) = ReadBody(Tail(f), s.len)
  BY <1>1, <1>2, Zenon DEF readString
<1> DEFINE g == Tail(f)
<1>4. g \in Seq(S) /\ Len(g) = Len(f) - 1 /\ g[1] = Body(s)
  <2>1. Len(f) > 0 /\ 1 \in 1 .. Len(f) - 1
    OBVIOUS
  <2>2. g \in Seq(S)
    BY <2>1, TailIs
  <2>3. Len(g) = Len(f) - 1
    BY <2>1, TailIs
  <2>4. g[1] = f[1 + 1]
    BY <2>1, TailIs
  <2> QED
    BY <2>1, <2>2, <2>3, <2>4
<1> HIDE DEF g
<1>5. Len(g) > 0
  BY <1>4
<1>6. ReadBody(g, s.len) = Got(s, Tail(g))
  BY <1>4, <1>5, BodyReads
<1> QED
  BY <1>3, <1>6, Zenon DEF g

LEMMA FitsUnsigned ==
    ASSUME NEW v \in Int, 0 <= v, v <= MaxInt32 PROVE Fits(v, MaxInt32)
BY SMT DEF Fits, MaxInt32

\* An integer in the place of a length.
LEMMA IntReads ==
    ASSUME NEW v \in 0 .. MaxInt32,
           NEW S, NEW f \in Seq(S), Len(f) > 0, f[1] = Hdr(IntString(v))
    PROVE  readString(f) = Got(Num(v), Tail(f))
<1> DEFINE b == IntString(v)
<1>1. f[1] = Hdr(b) /\ Len(f) >= 1
  OBVIOUS
<1>2. IsHead(f, 1) /\ f[1].bytes = b
  BY <1>1, ItemFields DEF IsHead
<1>3. v \in Int /\ 0 <= v /\ v <= MaxInt32
  OBVIOUS
<1>4. CASE Fits(v, MaxInt8)
  <2>1. b = <<192, v % 256>>
    BY <1>4, Zenon DEF IntString
  <2>2. b[1] = 192 /\ b[2] = v % 256
    BY <2>1
  <2> HIDE DEF b
  <2>3. b[1] \in 192 .. 255 /\ b[1] % 64 = 0
    BY <2>2
  <2>4. readLength(b).special /\ readLength(b).val = 0
    BY <2>3, SpecialLength
  <2>5. Signed(b[2]) = v
    BY <1>4, <2>2 DEF Signed, Fits, MaxInt8
  <2>6. readString(f) = Got(Num(Signed(b[2])), Tail(f))
    BY <1>2, <2>4, Zenon DEF readString
  <2> QED
    BY <2>5, <2>6, Zenon DEF b
<1>5. CASE ~Fits(v, MaxInt8) /\ Fits(v, MaxInt16)
  <2> DEFINE t == PutLE2(v)
             h == 193
  <2>0. h = 193 /\ h \in Byte
    BY DEF Byte
  <2> HIDE DEF h
  <2>1. b = <<h>> \o t
    BY <1>5, <2>0, Zenon DEF IntString
  <2>2. t \in Seq(Byte) /\ Len(t) = 2
    BY <1>3, PutTypes, Zenon
  <2>3. IntLE2(t) = v
    BY <1>3, <1>5, FitsWide, LE2, Zenon
  <2> HIDE DEF b, t
  <2>4. Len(t) > 0
    BY <2>2
  <2>5. b[1] = 193 /\ Tail(b) = t
    <3>0. h \in Byte /\ t \in Seq(Byte) /\ Len(t) > 0
      BY <2>0, <2>2, <2>4
    <3>1. (<<h>> \o t)[1] = h /\ Tail(<<h>> \o t) = t
      BY ONLY <3>0, Prepend, Zenon
    <3>2. b[1] = h /\ Tail(b) = t
      BY ONLY <2>1, <3>1, Zenon
    <3> QED
      BY <2>0, <3>2, Zenon
  <2>6. b[1] \in 192 .. 255 /\ b[1] % 64 = 1
    BY <2>5
  <2>7. readLength(b).special /\ readLength(b).val = 1 /\ readLength(b).val # 0
    BY <2>6, SpecialLength
  <2>8. readString(f) = Got(Num(IntLE2(Tail(b))), Tail(f))
    BY <1>2, <2>7, Zenon DEF readString
  <2> QED
    BY <2>3, <2>5, <2>8, Zenon DEF b
<1>6. CASE ~Fits(v, MaxInt8) /\ ~Fits(v, MaxInt16)
  <2> DEFINE t == PutLE4(v)
             h == 194
  <2>0. h = 194 /\ h \in Byte
    BY DEF Byte
  <2> HIDE DEF h
  <2>1. b = <<h>> \o t
    BY <1>6, <2>0, Zenon DEF IntString
  <2>2. t \in Seq(Byte) /\ Len(t) = 4
    BY <1>3, PutTypes, Zenon
  <2>3. IntLE4(t) = v
    <3>1. Fits(v, MaxInt32)
      BY <1>3, FitsUnsigned
    <3> QED
      BY <1>3, <3>1, FitsWide, LE4, Zenon
  <2> HIDE DEF b, t
  <2>4. Len(t) > 0
    BY <2>2
  <2>5. b[1] = 194 /\ Tail(b) = t
    <3>0. h \in Byte /\ t \in Seq(Byte) /\ Len(t) > 0
      BY <2>0, <2>2, <2>4
    <3>1. (<<h>> \o t)[1] = h /\ Tail(<<h>> \o t) = t
      BY ONLY <3>0, Prepend, Zenon
    <3>2. b[1] = h /\ Tail(b) = t
      BY ONLY <2>1, <3>1, Zenon
    <3> QED
      BY <2>0, <3>2, Zenon
  <2>6. b[1] \in 192 .. 255 /\ b[1] % 64 = 2
    BY <2>5
  <2>7. readLength(b).special /\ readLength(b).val = 2 /\ readLength(b).val # 0
        /\ readLength(b).val # 1
    BY <2>6, SpecialLength
  <2>8. readString(f) = Got(Num(IntLE4(Tail(b))), Tail(f))
    BY <1>2, <2>7, Zenon DEF readString
  <2> QED
    BY <2>3, <2>5, <2>8, Zenon DEF b
<1> QED
  BY <1>4, <1>5, <1>6

\* The third and the following items.
LEMMA FromThird ==
    ASSUME NEW S, NEW f \in Seq(S), Len(f) >= 2
    PROVE  LET t == SubSeq(f, 3, Len(f))
           IN /\ t \in Seq(S) /\ Len(t) = Len(f) - 2 /\ (Len(f) >= 3 => t[1] = f[3])
              /\ (Len(f) = 2 => t = << >>)
<1> DEFINE t == SubSeq(f, 3, Len(f))
           n == Len(f)
<1>1. n \in Nat /\ n >= 2 /\ 3 \in Int
  OBVIOUS
<1>2. \A i \in 3 .. n : f[i] \in S
  BY ElementOfSeq
<1> HIDE DEF n
<1>3. /\ SubSeq(f, 3, n) \in Seq(S)
      /\ Len(SubSeq(f, 3, n)) = IF 3 <= n THEN n - 3 + 1 ELSE 0
      /\ \A i \in 1 .. n - 3 + 1 : SubSeq(f, 3, n)[i] = f[3 + i - 1]
  BY <1>1, <1>2, SubSeqProperties
<1>4. SubSeq(f, 3, n) = t
  BY Zenon DEF n
<1> HIDE DEF t
<1>5. t \in Seq(S) /\ Len(t) = n - 2
  <2>1. t \in Seq(S)
    BY <1>3, <1>4, Zenon
  <2>2. Len(t) = IF 3 <= n THEN n - 3 + 1 ELSE 0
    BY <1>3, <1>4, Zenon
  <2> QED
    BY <1>1, <2>1, <2>2
<1>6. ASSUME n >= 3 PROVE t[1] = f[3]
  <2>1. 1 \in 1 .. n - 3 + 1 /\ 3 + 1 - 1 = 3
    BY <1>1, <1>6
  <2>2. t[1] = f[3 + 1 - 1]
    BY <1>3, <1>4, <2>1
  <2> QED
    BY <2>1, <2>2
<1>7. ASSUME n = 2 PROVE t = << >>
  BY <1>5, <1>7
<1> QED
  BY <1>5, <1>6, <1>7 DEF t, n

LEMMA LzfHead ==
    ASSUME NEW S, NEW f \in Seq(S), Len(f) > 0, f[1] = Hdr(<< 195 >>)
    PROVE  readString(f) = readLZF(Tail(f))
<1> DEFINE b == << 195 >>
<1>1. b[1] = 195
  OBVIOUS
<1>2. IsHead(f, 1) /\ f[1].bytes = b
  BY ItemFields DEF IsHead
<1> HIDE DEF b
<1>3. b[1] \in 192 .. 255 /\ b[1] % 64 = 3
  BY <1>1
<1>4. readLength(b).special /\ readLength(b).val = 3
  BY <1>3, SpecialLength
<1>5. readLength(b).val # 0 /\ readLength(b).val # 1 /\ readLength(b).val # 2
  BY <1>4
<1> QED
  BY <1>2, <1>4, <1>5, Zenon DEF readString

\* The four items of a compressed string.
LEMMA LzfItemsRead ==
    ASSUME NEW val \in Seq(LzfByte), NEW c \in Compressions(val), c.ok, Len(val) \in Int64s,
           NEW S, NEW f \in Seq(S), Len(f) = 4,
           f[1] = Hdr(<< 195 >>), f[2] = Hdr(writeLength(Len(c.out))),
           f[3] = Hdr(writeLength(Len(val))), f[4] = Body(Spelled(c.out))
    PROVE  readString(f) = Got(Spelled(val), << >>)
<1> DEFINE g == Tail(f)
           t == SubSeq(g, 3, Len(g))
           out == c.out
           body == ReadBody(t, readLength(g[1].bytes).val)
           d == Decompress(body.str.val, readLength(g[2].bytes).val)
<1>1. out \in Seq(LzfByte) /\ Len(out) < Len(val)
  BY LzfReadsBack
<1>2. Decompress(out, Len(val)) = At(Len(out), val)
  BY LzfReadsBack
<1> HIDE DEF out
<1>3. Len(out) \in Nat /\ Len(val) \in Nat /\ Len(out) <= Len(val)
  BY <1>1
<1>4. Len(out) \in Int64s
  BY <1>3, Int64Below
<1>5. readString(f) = readLZF(g)
  <2>1. Len(f) > 0
    OBVIOUS
  <2> QED
    BY <2>1, LzfHead
<1>6. /\ g \in Seq(S) /\ Len(g) = 3 /\ g[1] = Hdr(writeLength(Len(out)))
      /\ g[2] = Hdr(writeLength(Len(val))) /\ g[3] = Body(Spelled(out))
  <2>1. Len(f) > 0 /\ Len(f) - 1 = 3 /\ 1 \in 1 .. Len(f) - 1 /\ 2 \in 1 .. Len(f) - 1
        /\ 3 \in 1 .. Len(f) - 1 /\ 1 + 1 = 2 /\ 2 + 1 = 3 /\ 3 + 1 = 4
    OBVIOUS
  <2> HIDE DEF g
  <2>2. Tail(f) \in Seq(S)
    BY <2>1, TailIs
  <2>3. Len(Tail(f)) = Len(f) - 1
    BY <2>1, TailIs
  <2>4. \A i \in 1 .. Len(f) - 1 : Tail(f)[i] = f[i + 1]
    BY <2>1, TailIs
  <2> DEFINE u == Tail(f)
  <2>5. u \in Seq(S) /\ Len(u) = 3 /\ u[1] = f[2] /\ u[2] = f[3] /\ u[3] = f[4]
    BY <2>1, <2>2, <2>3, <2>4
  <2> HIDE DEF u
  <2> QED
    BY <2>5, Zenon DEF u, g, out
<1> HIDE DEF g
<1>7. /\ IsHead(g, 1) /\ IsHead(g, 2)
      /\ g[1].bytes = writeLength(Len(out)) /\ g[2].bytes = writeLength(Len(val))
  BY <1>6, ItemFields DEF IsHead
<1>8. readLength(g[1].bytes).val = Len(out) /\ readLength(g[2].bytes).val = Len(val)
  BY <1>4, <1>7, PlainLength, Zenon
<1>9. t \in Seq(S) /\ Len(t) = 1 /\ t[1] = Body(Spelled(out))
  <2>1. Len(g) >= 2 /\ Len(g) >= 3 /\ Len(g) - 2 = 1
    BY <1>6
  <2> HIDE DEF t
  <2>2. SubSeq(g, 3, Len(g)) \in Seq(S)
    BY <1>6, <2>1, FromThird
  <2>3. Len(SubSeq(g, 3, Len(g))) = Len(g) - 2
    BY <1>6, <2>1, FromThird
  <2>4. SubSeq(g, 3, Len(g))[1] = g[3]
    BY <1>6, <2>1, FromThird
  <2> QED
    BY <1>6, <2>1, <2>2, <2>3, <2>4, Zenon DEF t
<1> HIDE DEF t
<1>10. Spelled(out).len = Len(out) /\ Spelled(out).val = out
  BY DEF Spelled
<1>11. body = Got(Spelled(out), << >>)
  <2>1. Len(t) > 0 /\ Len(t) = 1
    BY <1>9
  <2>2. ReadBody(t, Len(out)) = Got(Spelled(out), Tail(t))
    BY <1>9, <1>10, <2>1, BodyReads
  <2>3. Tail(t) = << >>
    BY <1>9, <2>1, TailIs
  <2> QED
    BY <1>8, <2>2, <2>3, Zenon
<1> HIDE DEF body
<1>12. body.is = "str" /\ body.str = Spelled(out) /\ body.rest = << >>
  <2>1. /\ Got(Spelled(out), << >>).is = "str" /\ Got(Spelled(out), << >>).str = Spelled(out)
        /\ Got(Spelled(out), << >>).rest = << >>
    BY ReadFields
  <2> QED
    BY <1>11, <2>1, Zenon
<1>13. d = At(Len(out), val)
  BY <1>2, <1>8, <1>10, <1>12, Zenon
<1> HIDE DEF d
<1>14. d.ok /\ d.out = val
  <2>1. At(Len(out), val).ok /\ At(Len(out), val).out = val
    BY AtFields
  <2> QED
    BY <1>13, <2>1, Zenon
<1>15. readLZF(g) = Got(Spelled(d.out), body.rest)
  BY <1>7, <1>12, <1>14, Zenon DEF readLZF, d, body, t
<1> QED
  BY <1>5, <1>12, <1>14, <1>15, Zenon

\* A file that begins like a compressed string and goes on otherwise.
LEMMA LzfFails ==
    ASSUME NEW S, NEW f \in Seq(S), Len(f) >= 3, f[1] = Hdr(<< 195 >>),
           \/ f[2].p # "head"
           \/ f[3].p # "head"
           \/ Len(f) >= 4 /\ (f[4].p # "body" \/ f[4].str.len # readLength(f[2].bytes).val)
    PROVE  readString(f).is = "lost"
<1> DEFINE g == Tail(f)
           t == SubSeq(g, 3, Len(g))
           n == readLength(g[1].bytes).val
           body == ReadBody(t, n)
<1>1. readString(f) = readLZF(g)
  <2>1. Len(f) > 0
    OBVIOUS
  <2> QED
    BY <2>1, LzfHead
<1>2. g \in Seq(S) /\ Len(g) = Len(f) - 1 /\ g[1] = f[2] /\ g[2] = f[3]
      /\ (Len(f) >= 4 => g[3] = f[4])
  <2>1. Len(f) > 0 /\ 1 \in 1 .. Len(f) - 1 /\ 2 \in 1 .. Len(f) - 1
        /\ (Len(f) >= 4 => 3 \in 1 .. Len(f) - 1) /\ 1 + 1 = 2 /\ 2 + 1 = 3 /\ 3 + 1 = 4
    OBVIOUS
  <2> HIDE DEF g
  <2>2. Tail(f) \in Seq(S)
    BY <2>1, TailIs
  <2>3. Len(Tail(f)) = Len(f) - 1
    BY <2>1, TailIs
  <2>4. \A i \in 1 .. Len(f) - 1 : Tail(f)[i] = f[i + 1]
    BY <2>1, TailIs
  <2> DEFINE u == Tail(f)
  <2>5. u \in Seq(S) /\ Len(u) = Len(f) - 1 /\ u[1] = f[2] /\ u[2] = f[3]
        /\ (Len(f) >= 4 => u[3] = f[4])
    BY <2>1, <2>2, <2>3, <2>4
  <2> HIDE DEF u
  <2> QED
    BY <2>5, Zenon DEF u, g
<1> HIDE DEF g
<1>3. CASE f[2].p # "head" \/ f[3].p # "head"
  <2>1. ~IsHead(g, 1) \/ ~IsHead(g, 2)
    BY <1>2, <1>3 DEF IsHead
  <2>2. readLZF(g) = Failed
    BY <2>1, Zenon DEF readLZF
  <2> QED
    BY <1>1, <2>2, ReadFields, Zenon
<1>4. CASE Len(f) >= 4 /\ (f[4].p # "body" \/ f[4].str.len # readLength(f[2].bytes).val)
  <2>1. t[1] = g[3]
    <3>1. Len(g) >= 2 /\ Len(g) >= 3
      BY <1>2, <1>4
    <3> HIDE DEF t
    <3>2. SubSeq(g, 3, Len(g))[1] = g[3]
      BY <1>2, <3>1, FromThird
    <3> QED
      BY <3>2, Zenon DEF t
  <2> HIDE DEF t
  <2>2. body = Failed
    <3>1. t[1].p # "body" \/ t[1].str.len # n
      BY <1>2, <1>4, <2>1, Zenon
    <3> HIDE DEF n
    <3> QED
      BY <3>1, NoBody, Zenon
  <2>3. body.is # "str"
    <3>1. body.is = "lost"
      BY <2>2, ReadFields, Zenon
    <3> HIDE DEF body
    <3> QED
      BY <3>1
  <2>4. readLZF(g) = Failed
    <3> HIDE DEF body
    <3> QED
      BY <2>3, Zenon DEF readLZF, body, n, t
  <2> QED
    BY <1>1, <2>4, ReadFields, Zenon
<1> QED
  BY <1>3, <1>4

(***************************************************************************)
(* The files a failed write of a compressed string leaves, when the string *)
(* is then written as it is.  A begun one: nothing but a torn item, or the *)
(* first 1, 2 or 3 items, with or without a torn one.                      *)
(***************************************************************************)
TornFile(w, s, n) ==
    \/ Len(w) >= 1 /\ w[1] = TornItem
    \/ /\ Len(w) >= 3 /\ w[1] = Hdr(<< 195 >>)
       /\ \/ w[2] = TornItem
          \/ w[3] = TornItem
          \/ w[3] = Body(s)
          \/ /\ Len(w) >= 4 /\ w[2] = Hdr(writeLength(n))
             /\ \/ w[4] = TornItem
                \/ w[4] = Body(s)
                \/ w[4] = Hdr(writeLength(s.len))

\* None of them is a string again: the length in it is not that of the body.
LEMMA TornFails ==
    ASSUME NEW S, NEW w \in Seq(S), NEW s, NEW n \in Int64s, s.len # n, TornFile(w, s, n)
    PROVE  readString(w).is = "lost"
<1>1. CASE Len(w) >= 1 /\ w[1] = TornItem
  <2>1. ~IsHead(w, 1)
    BY <1>1, ItemFields DEF IsHead
  <2>2. readString(w) = Failed
    BY <2>1, Zenon DEF readString
  <2> QED
    BY <2>2, ReadFields, Zenon
<1>2. CASE Len(w) >= 3 /\ w[1] = Hdr(<< 195 >>) /\ w[2] = TornItem
  <2>1. w[2].p # "head"
    BY <1>2, ItemFields
  <2>2. Len(w) >= 3 /\ w[1] = Hdr(<< 195 >>)
    BY <1>2
  <2> QED
    BY <2>1, <2>2, LzfFails
<1>3. CASE Len(w) >= 3 /\ w[1] = Hdr(<< 195 >>) /\ (w[3] = TornItem \/ w[3] = Body(s))
  <2>1. w[3].p # "head"
    BY <1>3, ItemFields
  <2>2. Len(w) >= 3 /\ w[1] = Hdr(<< 195 >>)
    BY <1>3
  <2> QED
    BY <2>1, <2>2, LzfFails
<1>4. CASE /\ Len(w) >= 3 /\ w[1] = Hdr(<< 195 >>)
           /\ Len(w) >= 4 /\ w[2] = Hdr(writeLength(n))
           /\ w[4] = TornItem \/ w[4] = Body(s) \/ w[4] = Hdr(writeLength(s.len))
  <2>1. w[4].p # "body" \/ w[4].str.len # n
    BY <1>4, ItemFields
  <2>2. readLength(w[2].bytes).val = n
    <3>1. w[2].bytes = writeLength(n)
      BY <1>4, ItemFields
    <3> QED
      BY <3>1, PlainLength, Zenon
  <2>3. Len(w) >= 3 /\ w[1] = Hdr(<< 195 >>)
    BY <1>4
  <2>4. Len(w) >= 4 /\ (w[4].p # "body" \/ w[4].str.len # readLength(w[2].bytes).val)
    BY <1>4, <2>1, <2>2
  <2> QED
    BY <2>3, <2>4, LzfFails
<1> QED
  BY <1>1, <1>2, <1>3, <1>4 DEF TornFile

LEMMA LzfItems ==
    ASSUME NEW s, NEW out
    PROVE  LET w == writeLZFString(s, out)
           IN /\ Len(w) = 4 /\ w[1] = Hdr(<< 195 >>) /\ w[2] = Hdr(writeLength(Len(out)))
              /\ w[3] = Hdr(writeLength(s.len)) /\ w[4] = Body(Spelled(out))
BY DEF writeLZFString

LEMMA SimpleItems ==
    ASSUME NEW s
    PROVE  LET w == writeSimpleString(s)
           IN Len(w) = 2 /\ w[1] = Hdr(writeLength(s.len)) /\ w[2] = Body(s)
BY DEF writeSimpleString

LEMMA TornBegins ==
    ASSUME NEW S, NEW f \in Seq(S), NEW s, NEW out, NEW piece \in Seq(S),
           Len(f) <= 3, \A i \in 1 .. Len(f) : f[i] = writeLZFString(s, out)[i],
           piece = << >> \/ (Len(piece) = 1 /\ piece[1] = TornItem),
           Len(f) + Len(piece) > 0,
           writeSimpleString(s) \in Seq(S)
    PROVE  TornFile((f \o piece) \o writeSimpleString(s), s, Len(out))
<1> DEFINE p == writeSimpleString(s)
           n == Len(out)
           z == writeLZFString(s, out)
           u == f \o piece
           w == u \o p
<1>1. z[1] = Hdr(<< 195 >>) /\ z[2] = Hdr(writeLength(n)) /\ z[3] = Hdr(writeLength(s.len))
  BY LzfItems
<1>2. Len(p) = 2 /\ p[1] = Hdr(writeLength(s.len)) /\ p[2] = Body(s)
  BY SimpleItems
<1>3. p \in Seq(S) /\ Len(f) <= 3 /\ \A i \in 1 .. Len(f) : f[i] = z[i]
  OBVIOUS
<1> HIDE DEF p, z, n
<1>4. u \in Seq(S) /\ Len(u) = Len(f) + Len(piece)
      /\ \A i \in 1 .. Len(f) + Len(piece) : u[i] = IF i <= Len(f) THEN f[i] ELSE piece[i - Len(f)]
  BY ConcatProperties
<1> HIDE DEF u
<1>5. Len(w) = Len(u) + Len(p)
      /\ \A i \in 1 .. Len(u) + Len(p) : w[i] = IF i <= Len(u) THEN u[i] ELSE p[i - Len(u)]
  <2>1. Len(u \o p) = Len(u) + Len(p)
    BY <1>3, <1>4, ConcatProperties
  <2>2. \A i \in 1 .. Len(u) + Len(p) : (u \o p)[i] = IF i <= Len(u) THEN u[i] ELSE p[i - Len(u)]
    BY <1>3, <1>4, ConcatProperties
  <2> HIDE DEF w
  <2> QED
    BY <2>1, <2>2, Zenon DEF w
<1> HIDE DEF w
<1> DEFINE j == Len(f)
           k == Len(piece)
           H == Hdr(<< 195 >>)
           L == Hdr(writeLength(s.len))
           N == Hdr(writeLength(n))
           B == Body(s)
           T == TornItem
<1>6. j \in Nat /\ j <= 3 /\ k \in 0 .. 1 /\ j + k > 0 /\ (k = 1 => piece[1] = T)
  BY <1>3
<1>7. /\ Len(w) = j + k + 2 /\ (j >= 1 => w[1] = H) /\ (j >= 2 => w[2] = N)
      /\ (j >= 3 => w[3] = L) /\ (k = 1 => w[j + 1] = T)
      /\ w[j + k + 1] = L /\ w[j + k + 2] = B
  <2>1. Len(w) = j + k + 2 /\ Len(u) = j + k /\ Len(p) = 2
    BY <1>2, <1>4, <1>5
  <2>2. \A i \in 1 .. j : w[i] = z[i]
    BY ONLY <1>3, <1>4, <1>5, <1>6, <2>1
  <2>3. k = 1 => w[j + 1] = T
    BY <1>4, <1>5, <1>6, <2>1
  <2>4. w[j + k + 1] = p[1] /\ w[j + k + 2] = p[2]
    <3> DEFINE m == j + k
    <3>1. m \in Nat /\ Len(u) = m /\ m + 1 \in 1 .. m + 2 /\ m + 2 \in 1 .. m + 2
      BY <1>6, <2>1
    <3> HIDE DEF m
    <3>2. \A i \in 1 .. m + 2 : w[i] = IF i <= m THEN u[i] ELSE p[i - m]
      BY <1>5, <2>1, <3>1
    <3>3. ~(m + 1 <= m) /\ ~(m + 2 <= m) /\ (m + 1) - m = 1 /\ (m + 2) - m = 2
      BY <3>1
    <3>4. w[m + 1] = p[(m + 1) - m] /\ w[m + 2] = p[(m + 2) - m]
      BY <3>1, <3>2, <3>3
    <3>5. w[m + 1] = p[1] /\ w[m + 2] = p[2]
      BY <3>3, <3>4
    <3> QED
      BY <3>5, Zenon DEF m
  <2> QED
    BY <1>1, <1>2, <1>6, <2>1, <2>2, <2>3, <2>4
<1> HIDE DEF H, L, N, B, T, j, k
<1>8. TornFile(w, s, n) <=>
          \/ Len(w) >= 1 /\ w[1] = T
          \/ /\ Len(w) >= 3 /\ w[1] = H
             /\ \/ w[2] = T
                \/ w[3] = T
                \/ w[3] = B
                \/ /\ Len(w) >= 4 /\ w[2] = N
                   /\ \/ w[4] = T
                      \/ w[4] = B
                      \/ w[4] = L
  BY Zenon DEF TornFile, H, L, N, B, T
<1>9. TornFile(w, s, n)
  <2>1. CASE k = 0 /\ j = 1
    BY <1>6, <1>7, <1>8, <2>1
  <2>2. CASE k = 0 /\ j = 2
    BY <1>6, <1>7, <1>8, <2>2
  <2>3. CASE k = 0 /\ j = 3
    BY <1>6, <1>7, <1>8, <2>3
  <2>4. CASE k = 1
    BY <1>6, <1>7, <1>8, <2>4
  <2> QED
    BY <1>6, <2>1, <2>2, <2>3, <2>4
<1> QED
  BY <1>9, Zenon DEF w, u, n, p

=============================================================================
