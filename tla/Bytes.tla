------------------------------- MODULE Bytes -------------------------------
(***************************************************************************)
(* Fixed-width integers as the program puts them into buffers and takes    *)
(* them out again (encoding/binary), and the strings the values are made   *)
(* of.                                                                     *)
(*                                                                         *)
(* A uint64 stands for the int64 with the same bits, so every number is an *)
(* integer of the model and a conversion between the two does nothing; \div *)
(* rounds down, so byte k of v is (v \div 256^k) % 256 for negative v too  *)
(* (two's complement).  Upper(v) is what lies above the low 32 bits.       *)
(***************************************************************************)
EXTENDS Integers, Sequences, FiniteSets

\* What step(x, i) makes of start in the turns i = 1, ..., n.  The sets have
\* one element each: x is then a value, computed once.
Iterate(n, start, step(_, _)) ==
    LET after[i \in 0 .. n] ==
            IF i = 0 THEN {start} ELSE {step(x, i) : x \in after[i - 1]}
    IN CHOOSE x \in after[n] : TRUE

Byte == 0 .. 255

\* byte(v), v >> 8 and v >> 32
Low(v) == v % 256
High(v) == v \div 256
Upper(v) == High(High(High(High(v))))

MaxInt8 == 127
MaxInt12 == 4095
MaxInt13 == 8191
MaxInt16 == 32767
MaxInt24 == 8388607
MaxInt32 == 2147483647
MaxUint14 == 16383

\* A signed integer with this largest value; and one whose negation is, too.
Fits(v, max) == -max - 1 <= v /\ v <= max
FitsBothWays(v, max) == -max <= v /\ v <= max

\* binary.LittleEndian.PutUint16, PutUint32 (and its first 3 bytes), PutUint64
PutLE2(v) == <<Low(v), Low(High(v))>>
PutLE3(v) == <<Low(v), Low(High(v)), Low(High(High(v)))>>
PutLE4(v) == <<Low(v), Low(High(v)), Low(High(High(v))), Low(High(High(High(v))))>>
PutLE8(v) == <<PutLE4(v)[1], PutLE4(v)[2], PutLE4(v)[3], PutLE4(v)[4],
               PutLE4(Upper(v))[1], PutLE4(Upper(v))[2],
               PutLE4(Upper(v))[3], PutLE4(Upper(v))[4]>>

\* binary.BigEndian.PutUint32, PutUint64
PutBE4(v) == <<PutLE4(v)[4], PutLE4(v)[3], PutLE4(v)[2], PutLE4(v)[1]>>
PutBE8(v) == <<PutLE8(v)[8], PutLE8(v)[7], PutLE8(v)[6], PutLE8(v)[5],
               PutLE8(v)[4], PutLE8(v)[3], PutLE8(v)[2], PutLE8(v)[1]>>

\* int8(b): the byte as the top byte of a signed number.
Signed(b) == IF b >= 128 THEN b - 256 ELSE b

\* int64(intN(binary.LittleEndian.UintN(b)))
IntLE2(b) == b[1] + 256 * Signed(b[2])
IntLE3(b) == b[1] + 256 * (b[2] + 256 * Signed(b[3]))
IntLE4(b) == b[1] + 256 * (b[2] + 256 * (b[3] + 256 * Signed(b[4])))
IntLE8(b) == b[1] + 256 * (b[2] + 256 * (b[3] + 256 * (b[4] +
             256 * (b[5] + 256 * (b[6] + 256 * (b[7] + 256 * Signed(b[8])))))))
IntBE8(b) == IntLE8(<<b[8], b[7], b[6], b[5], b[4], b[3], b[2], b[1]>>)

\* int(binary.LittleEndian.Uint32(b)), int(binary.BigEndian.Uint32(b))
UintLE4(b) == b[1] + 256 * (b[2] + 256 * (b[3] + 256 * b[4]))
UintBE4(b) == b[4] + 256 * (b[3] + 256 * (b[2] + 256 * b[1]))

(***************************************************************************)
(* A string is the decimal form of an integer, without sign for a positive *)
(* one and without leading zeros, or another text.  A text is spelled out  *)
(* letter by letter where LZF looks into it, and otherwise is a name with  *)
(* a length.                                                               *)
(***************************************************************************)
Magnitude(v) == IF v < 0 THEN -v ELSE v
Digits(v) == (IF v < 0 THEN 2 ELSE 1)
             + Cardinality({k \in 1 .. 9 : Magnitude(v) >= 10 ^ k})

\* strconv.FormatInt(v, 10)
Num(v) == [kind |-> "num", val |-> <<v>>, len |-> Digits(v)]
Text(name, n) == [kind |-> "text", val |-> <<name>>, len |-> n]
Spelled(s) == [kind |-> "text", val |-> s, len |-> Len(s)]
Empty == Spelled(<< >>)

\* A number of 64 bits; and a string of this kind, whose length is one.
IsInt64(v) == v \in Int /\ Fits(Upper(v), MaxInt32)
IsText(s) ==
    /\ s.len \in Nat /\ IsInt64(s.len)
    /\ s.kind = "num" => IsInt64(s.val[1]) /\ s = Num(s.val[1])

(***************************************************************************)
(* isEncodableUint64 and isEncodableUint32: digits only, no leading zero,  *)
(* so no sign; what strconv.ParseInt refuses as too large is a Text here.  *)
(* ParseInt(s, 10, 32) takes what is below 2^31.                           *)
(***************************************************************************)
isEncodableUint64(s) == s.kind = "num" /\ s.val[1] >= 0
isEncodableUint32(s) == isEncodableUint64(s) /\ s.val[1] <= MaxInt32
=============================================================================
