---------------------------- MODULE StringCodec ----------------------------
(***************************************************************************)
(* Lengths and strings of the RDB format (string.go).  What is written is  *)
(* a sequence of items: the bytes of a length or of an integer ("head"),   *)
(* the bytes of a string ("body"), a ziplist, listpack or intset ("page"), *)
(* and what a failed write left of an item ("torn").  A reader that meets  *)
(* another item than it needs, or a body of another length, is not at the  *)
(* beginning of an item: what it reads is arbitrary.                       *)
(***************************************************************************)
EXTENDS Lzf

Hdr(b) == [p |-> "head", bytes |-> b, str |-> Empty, count |-> 0, cells |-> << >>]
Body(s) == [p |-> "body", bytes |-> << >>, str |-> s, count |-> 0, cells |-> << >>]
Page(n, cells) == [p |-> "page", bytes |-> << >>, str |-> Empty,
                   count |-> n, cells |-> cells]
TornItem == [p |-> "torn", bytes |-> << >>, str |-> Empty, count |-> 0,
             cells |-> << >>]

(***************************************************************************)
(* writeLength and readLength: 6, 14, 32 or 64 bits, big endian; the two   *)
(* top bits 11 mark a special encoding of a string.                        *)
(***************************************************************************)
writeLength(v) ==
    IF v \in 0 .. 63 THEN <<v>>
    ELSE IF v \in 0 .. MaxUint14 THEN <<v \div 256 + 64, v % 256>>
    ELSE IF Upper(v) = 0 THEN <<128>> \o PutBE4(v)
    ELSE <<129>> \o PutBE8(v)

readLength(b) ==
    IF b[1] < 64 THEN [val |-> b[1], special |-> FALSE]
    ELSE IF b[1] < 128
         THEN [val |-> (b[1] % 64) * 256 + b[2], special |-> FALSE]
    ELSE IF b[1] = 128 THEN [val |-> UintBE4(Tail(b)), special |-> FALSE]
    ELSE IF b[1] = 129 THEN [val |-> IntBE8(Tail(b)), special |-> FALSE]
    ELSE [val |-> b[1] % 64, special |-> TRUE]

\* Bug: what fits an unsigned byte is written in one.
IntString_Unsigned(v) ==
    IF v \in -128 .. 255 THEN <<192, v % 256>>
    ELSE IF Fits(v, MaxInt16) THEN <<193>> \o PutLE2(v)
    ELSE <<194>> \o PutLE4(v)

\* tryWriteIntString: the integer in 1, 2 or 4 bytes.
IntString(v) ==
    IF Fits(v, MaxInt8) THEN <<192, v % 256>>
    ELSE IF Fits(v, MaxInt16) THEN <<193>> \o PutLE2(v)
    ELSE <<194>> \o PutLE4(v)

\* The writes of writeSimpleString and of writeLZFString, in order.
writeSimpleString(s) == <<Hdr(writeLength(s.len)), Body(s)>>
writeLZFString(s, out) ==
    <<Hdr(<<195>>), Hdr(writeLength(Len(out))), Hdr(writeLength(s.len)),
      Body(Spelled(out))>>

\* writeString with compression off.
writeString(s) ==
    IF isEncodableUint32(s) THEN <<Hdr(IntString(s.val[1]))>>
    ELSE writeSimpleString(s)

(***************************************************************************)
(* readString, at the beginning of f: the string, and the items after it.  *)
(***************************************************************************)
Failed == [is |-> "lost", str |-> Empty, rest |-> << >>]
Got(s, rest) == [is |-> "str", str |-> s, rest |-> rest]

\* A body of n bytes at the beginning of f.
ReadBody(f, n) ==
    IF f # << >> /\ f[1].p = "body" /\ f[1].str.len = n
    THEN Got(f[1].str, Tail(f)) ELSE Failed

IsHead(f, i) == Len(f) >= i /\ f[i].p = "head"

readLZF(f) ==
    IF ~IsHead(f, 1) \/ ~IsHead(f, 2) THEN Failed
    ELSE LET body == ReadBody(SubSeq(f, 3, Len(f)), readLength(f[1].bytes).val)
             d == Decompress(body.str.val, readLength(f[2].bytes).val)
         IN IF body.is = "str" /\ d.ok THEN Got(Spelled(d.out), body.rest)
            ELSE Failed

readString(f) ==
    IF ~IsHead(f, 1) THEN Failed
    ELSE LET b == f[1].bytes
             n == readLength(b)
         IN IF ~n.special THEN ReadBody(Tail(f), n.val)
            ELSE IF n.val = 0 THEN Got(Num(Signed(b[2])), Tail(f))
            ELSE IF n.val = 1 THEN Got(Num(IntLE2(Tail(b))), Tail(f))
            ELSE IF n.val = 2 THEN Got(Num(IntLE4(Tail(b))), Tail(f))
            ELSE IF n.val = 3 THEN readLZF(Tail(f))
            ELSE Failed
=============================================================================
