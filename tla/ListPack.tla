----------------------------- MODULE ListPack ------------------------------
(***************************************************************************)
(* The entries of a listpack: the encoders of stream.go, which only a      *)
(* stream uses, and the reader of listpack.go, which also reads what Redis *)
(* wrote.                                                                  *)
(*                                                                         *)
(* An entry in the file is a cell: the bytes before the content, the       *)
(* content, and the number of bytes of the back length, whose value the    *)
(* reader skips without looking.  The reader finds the next entry by       *)
(* adding up what it took: when that is not the size of the cell, it goes  *)
(* on in the middle of an entry, and what it then reads is arbitrary       *)
(* ("lost").                                                               *)
(***************************************************************************)
EXTENDS Bytes

Cell(head, body, back) == [head |-> head, body |-> body, back |-> back]

\* What readListPackEntry returns.
IntEntry(v, took) == [is |-> "int", str |-> Num(v), took |-> took]
StrEntry(s, took) == [is |-> "str", str |-> s, took |-> took]
BadEntry == [is |-> "error", str |-> Empty, took |-> 0]
LostEntry == [is |-> "lost", str |-> Empty, took |-> 0]

\* Bug: one byte is taken to hold less than it does.
getBackLen_Short(n) ==
    IF n < 127 THEN 1
    ELSE IF n < 16383 THEN 2
    ELSE IF n < 2097151 THEN 3
    ELSE IF n < 268435455 THEN 4 ELSE 5

\* The bytes of a back length, as the reader and as the encoder count them.
getBackLen(n) ==
    IF n <= 127 THEN 1
    ELSE IF n < 16383 THEN 2
    ELSE IF n < 2097151 THEN 3
    ELSE IF n < 268435455 THEN 4 ELSE 5

encodeBacklen(n) ==
    IF n <= 127 THEN 1
    ELSE IF n < 16383 THEN 2
    ELSE IF n < 2097151 THEN 3
    ELSE IF n < 268435455 THEN 4 ELSE 5

(***************************************************************************)
(* encodeListPackInt: 1, 2, 3, 4, 5 or 9 bytes, the width by the value.    *)
(***************************************************************************)
Bits13(v) == IF v < 0 THEN 8191 + v + 1 ELSE v

encodeListPackInt(v) ==
    IF FitsBothWays(v, MaxInt8) THEN <<v % 256>>
    ELSE IF FitsBothWays(v, MaxInt13)
         THEN <<192 + Bits13(v) \div 256, Bits13(v) % 256>>
    ELSE IF FitsBothWays(v, MaxInt16) THEN <<241>> \o PutLE2(v)
    ELSE IF FitsBothWays(v, MaxInt24) THEN <<242>> \o PutLE3(v)
    ELSE IF FitsBothWays(v, MaxInt32) THEN <<243>> \o PutLE4(v)
    ELSE <<244>> \o PutLE8(v)

\* encodeListPackString: the bytes before the content.
encodeListPackString(n) ==
    IF n <= 63 THEN <<128 + n>>
    ELSE IF n <= MaxInt12 THEN <<224 + n \div 256, n % 256>>
    ELSE <<240>> \o PutLE4(n)

(***************************************************************************)
(* One entry as buildListpackWithBacklen puts it: a string that is not     *)
(* empty as a string, everything else as its integer, which for an empty   *)
(* string is zero.                                                         *)
(***************************************************************************)
IntCell(v) ==
    LET head == encodeListPackInt(v)
    IN Cell(head, Empty, encodeBacklen(Len(head)))

StrCell(s) ==
    IF s.len = 0 THEN IntCell(0)
    ELSE LET head == encodeListPackString(s.len)
         IN Cell(head, s, encodeBacklen(Len(head) + s.len))

Size(cell) == Len(cell.head) + cell.body.len + cell.back

(***************************************************************************)
(* readListPackEntry.  The first byte says how many bytes the entry has    *)
(* before its back length; header bytes that are not in the cell are taken *)
(* from whatever follows it.                                               *)
(***************************************************************************)
HeadLen(b) ==
    IF b < 192 THEN 1
    ELSE IF b < 240 THEN 2
    ELSE IF b \in 240 .. 244 THEN <<5, 3, 4, 5, 9>>[b - 239] ELSE 1

\* The length of the content, 0 for an integer.
StrLen(h) ==
    IF h[1] \in 128 .. 191 THEN h[1] % 64
    ELSE IF h[1] \in 224 .. 239 THEN (h[1] % 16) * 256 + h[2]
    ELSE IF h[1] = 240 THEN UintLE4(Tail(h))
    ELSE 0

\* Bug: the smallest number of 13 bits is not taken for a negative one.
Signed13_OffByOne(val) == IF val > 4096 THEN -(8191 - val) - 1 ELSE val

Signed13(val) == IF val >= 4096 THEN -(8191 - val) - 1 ELSE val

\* The integer in the header.
IntOf(h) ==
    IF h[1] < 128 THEN h[1]
    ELSE IF h[1] < 224 THEN Signed13((h[1] % 32) * 256 + h[2])
    ELSE IF h[1] = 241 THEN IntLE2(Tail(h))
    ELSE IF h[1] = 242 THEN IntLE3(Tail(h))
    ELSE IF h[1] = 243 THEN IntLE4(Tail(h))
    ELSE IntLE8(Tail(h))

readListPackEntry(cell) ==
    LET h == cell.head
        contentLen == HeadLen(h[1]) + StrLen(h)
        took == contentLen + getBackLen(contentLen)
    IN IF h[1] > 244 THEN BadEntry
       ELSE IF Len(h) < HeadLen(h[1]) \/ took # Size(cell) THEN LostEntry
       ELSE IF h[1] \in 128 .. 191 \/ h[1] \in 224 .. 240
            THEN StrEntry(cell.body, took)
       ELSE IntEntry(IntOf(h), took)

(***************************************************************************)
(* What Redis writes (external): lpEncodeGetType takes 7 bits for 0..127,  *)
(* 13 bits for -4096..4095, then 16, 24, 32 and 64 bits; an empty string   *)
(* is a string.                                                            *)
(***************************************************************************)
Low13(v) == v % 8192

RedisInt(v) ==
    LET head == IF v \in 0 .. 127 THEN <<v>>
                ELSE IF Fits(v, MaxInt12)
                     THEN <<192 + Low13(v) \div 256, Low13(v) % 256>>
                ELSE IF Fits(v, MaxInt16) THEN <<241>> \o PutLE2(v)
                ELSE IF Fits(v, MaxInt24) THEN <<242>> \o PutLE3(v)
                ELSE IF Fits(v, MaxInt32) THEN <<243>> \o PutLE4(v)
                ELSE <<244>> \o PutLE8(v)
    IN Cell(head, Empty, encodeBacklen(Len(head)))

RedisCell(s) ==
    IF s.kind = "num" THEN RedisInt(s.val[1])
    ELSE LET head == encodeListPackString(s.len)
         IN Cell(head, s, encodeBacklen(Len(head) + s.len))
=============================================================================
