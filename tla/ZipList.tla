------------------------------ MODULE ZipList ------------------------------
(***************************************************************************)
(* The entries of a ziplist (ziplist.go).  A cell holds the length of the  *)
(* entry before it in 1 or 5 bytes, the header, the content.  The reader   *)
(* adds up what it takes: when that is not the size of the cell it goes on *)
(* in the middle of an entry ("lost").                                     *)
(***************************************************************************)
EXTENDS Bytes

ZipCell(prev, head, body) == [prev |-> prev, head |-> head, body |-> body]
ZipSize(cell) == Len(cell.prev) + Len(cell.head) + cell.body.len

PrevLen(n) == IF n < 254 THEN <<n>> ELSE <<254>> \o PutLE4(n)

\* The integer of an entry: in the header byte, or in 1, 3, 4 or 8 bytes.
ZipIntHead(v) ==
    IF v \in 0 .. 12 THEN <<240 + v + 1>>
    ELSE IF Fits(v, MaxInt8) THEN <<254, v % 256>>
    ELSE IF Fits(v, MaxInt24) THEN <<240>> \o PutLE3(v)
    ELSE IF Fits(v, MaxInt32) THEN <<208>> \o PutLE4(v)
    ELSE <<224>> \o PutLE8(v)

\* The length of a string entry; the longest form is 0x80 and a buffer of 8
\* bytes of which 4 are filled.
ZipStrHead(n) ==
    IF n <= 63 THEN <<n>>
    ELSE IF n <= MaxUint14 THEN <<64 + n \div 256, n % 256>>
    ELSE <<128>> \o PutLE4(n) \o <<0, 0, 0, 0>>

encodeZipListEntry(prevLen, s) ==
    IF isEncodableUint64(s)
    THEN ZipCell(PrevLen(prevLen), ZipIntHead(s.val[1]), Empty)
    ELSE ZipCell(PrevLen(prevLen), ZipStrHead(s.len), s)

(***************************************************************************)
(* readZipListEntry: how many bytes it takes from the header on, and what  *)
(* it returns.                                                             *)
(***************************************************************************)
ZipTakes(h) ==
    IF h[1] < 64 THEN 1 + h[1]
    ELSE IF h[1] < 128 THEN 2 + (h[1] % 64) * 256 + h[2]
    ELSE IF h[1] < 192 THEN 5 + UintBE4(Tail(h))
    ELSE IF h[1] = 254 THEN 2 ELSE IF h[1] = 192 THEN 3
    ELSE IF h[1] = 240 THEN 4 ELSE IF h[1] = 208 THEN 5
    ELSE IF h[1] = 224 THEN 9 ELSE 1

ZipIntOf(h) ==
    IF h[1] = 254 THEN Signed(h[2])
    ELSE IF h[1] = 192 THEN IntLE2(Tail(h))
    ELSE IF h[1] = 240 THEN IntLE3(Tail(h))
    ELSE IF h[1] = 208 THEN IntLE4(Tail(h))
    ELSE IF h[1] = 224 THEN IntLE8(Tail(h))
    ELSE (h[1] % 16) - 1

readZipListEntry(cell) ==
    LET h == cell.head
        skipped == IF cell.prev[1] = 254 THEN 5 ELSE 1
    IN IF skipped + ZipTakes(h) # ZipSize(cell) THEN [is |-> "lost", str |-> Empty]
       ELSE IF h[1] < 192 THEN [is |-> "str", str |-> cell.body]
       ELSE IF h[1] \div 16 = 15 \/ h[1] \in {192, 208, 224}
            THEN [is |-> "str", str |-> Num(ZipIntOf(h))]
       ELSE [is |-> "error", str |-> Empty]
=============================================================================
