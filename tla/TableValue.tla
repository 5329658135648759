---------------------------- MODULE TableValue -----------------------------
(***************************************************************************)
(* Hashes, sets and sorted sets (hash.go, set.go, zset.go): a compact page *)
(* for small ones, else a count and the members one after another.  A hash *)
(* with field expirations writes them relative to the smallest one         *)
(* (Redis 7.4) or as they are (Valkey 9).                                  *)
(*                                                                         *)
(* A hash is a set of fields [f, v, e], expiration e in milliseconds and 0 *)
(* for none; Go visits a map in any order.  A sorted set is a sequence of  *)
(* [f, v], where the score v is its decimal form.                          *)
(***************************************************************************)
EXTENDS ListValue

CONSTANT ExpireMax      \* EB_EXPIRE_TIME_MAX: 2^48 - 1

Invalid == ExpireMax + 1    \* EB_EXPIRE_TIME_INVALID

Tables == {"hash", "hashEx", "set", "zset"}
IsTable == object.type \in Tables

(***************************************************************************)
(* What the encoder is given: numbers of members that have a length        *)
(* encoding, strings of 32 bits where they may go into a ziplist (a longer *)
(* one panics there), each member of a set once, and no expiration so      *)
(* close to an end of int64 that one more, or its distance to another, is  *)
(* beyond.                                                                 *)
(***************************************************************************)
ASSUME TableAssumption ==
    /\ ExpireMax \in Nat /\ IsInt64(ExpireMax + 1)
    /\ \A o \in Objects :
        /\ o.type \in {"hash", "hashEx"} =>
               /\ IsFiniteSet(o.hash) /\ IsInt64(Cardinality(o.hash))
               /\ \A x \in o.hash : IsText(x.f) /\ IsText(x.v)
        /\ o.type = "hash" => \A x \in o.hash : Upper(x.f.len) = 0 /\ Upper(x.v.len) = 0
        /\ o.type = "hashEx" =>
               /\ o.valkey \in BOOLEAN
               /\ \A x \in o.hash : x.e \in Int /\ IsInt64(x.e + 1) /\ IsInt64(x.e - ExpireMax)
        /\ o.type = "set" =>
               /\ IsSequence(o.values) /\ IsInt64(Len(o.values))
               /\ Cardinality(ToSet(o.values)) = Len(o.values)
               /\ \A i \in 1 .. Len(o.values) : IsText(o.values[i])
        /\ o.type = "zset" =>
               /\ IsSequence(o.entries) /\ IsInt64(Len(o.entries))
               /\ \A i \in 1 .. Len(o.entries) :
                     LET x == o.entries[i]
                     IN /\ IsText(x.f) /\ Upper(x.f.len) = 0
                        /\ IsText(x.v) /\ Upper(x.v.len) = 0

Orders(S) == SetToAllKPermutations(S) \cap [1 .. Cardinality(S) -> S]

\* A float64 in 8 bytes (external: math.Float64bits and back).
Float(score) == [Body(score) EXCEPT !.p = "float"]

\* The members written one after another, after their number.
Table(n, items) == <<Hdr(writeLength(n))>> \o Concat(items)

\* A field and its value; a member and its score.
writeField(x) == writeString(x.f) \o writeString(x.v)
writeScored(x) == writeString(x.f) \o <<Float(x.v)>>

(***************************************************************************)
(* Hashes without expirations.  tryWriteZipListHashMap looks at the length *)
(* of the values, not of the fields.                                       *)
(***************************************************************************)
FitsZipHash(hash) ==
    Cardinality(hash) <= MaxEntries /\ \A x \in hash : x.v.len <= MaxValue

Pairs(order) == Concat([i \in 1 .. Len(order) |-> <<order[i].f, order[i].v>>])

WriteHash ==
    /\ phase = "new" /\ object.type = "hash"
    /\ \E order \in Orders(object.hash) :
           IF FitsZipHash(object.hash)
           THEN Written(<<writeZipList(Pairs(order))>>, "ziplist")
           ELSE Written(Table(Len(order), [i \in 1 .. Len(order) |-> writeField(order[i])]),
                        "table")

(***************************************************************************)
(* Hashes with expirations: writeHashEncodingEx, writeHash2Encoding.  The  *)
(* difference is computed in uint64.                                       *)
(***************************************************************************)
MinExpire(hash) ==
    LET times == {x.e : x \in {y \in hash : y.e > 0 /\ y.e < Invalid}}
    IN IF times = {} THEN 0 ELSE Min(times)

\* Bug: the smallest expiration is written as none.
RelativeTTL_NoPlusOne(e, min) == IF e = 0 THEN 0 ELSE e - min

RelativeTTL(e, min) == IF e = 0 THEN 0 ELSE e - min + 1

writeHfe(x, min) == <<Hdr(writeLength(RelativeTTL(x.e, min)))>> \o writeField(x)
writeHash2(x) == writeField(x) \o <<Hdr(PutLE8(IF x.e = 0 THEN -1 ELSE x.e))>>

WriteHashEx ==
    /\ phase = "new" /\ object.type = "hashEx"
    /\ \E order \in Orders(object.hash) :
           LET min == MinExpire(object.hash)
               n == Len(order)
           IN IF object.valkey
              THEN Written(Table(n, [i \in 1 .. n |-> writeHash2(order[i])]), "hash2")
              ELSE Written(<<Hdr(PutLE8(min))>>
                           \o Table(n, [i \in 1 .. n |-> writeHfe(order[i], min)]), "hfe")

(***************************************************************************)
(* Sets: integers in ascending order, in 2, 4 or 8 bytes by the smallest   *)
(* and the largest; an intset is a page whose cells are bytes.             *)
(***************************************************************************)
IntSize_Unsigned(values) ==    \* bug: what fits two unsigned bytes takes two
    IF \A i \in 1 .. Len(values) : values[i].val[1] \in -32768 .. 65535 THEN 2
    ELSE IF \A i \in 1 .. Len(values) : Fits(values[i].val[1], MaxInt32) THEN 4 ELSE 8

IntSize(values) ==
    IF \A i \in 1 .. Len(values) : Fits(values[i].val[1], MaxInt16) THEN 2
    ELSE IF \A i \in 1 .. Len(values) : Fits(values[i].val[1], MaxInt32) THEN 4 ELSE 8

PutInt(size, v) ==
    IF size = 2 THEN PutLE2(v) ELSE IF size = 4 THEN PutLE4(v) ELSE PutLE8(v)

Ascending(s) == \A i, j \in 1 .. Len(s) : i < j => s[i].val[1] < s[j].val[1]

IntSet(sorted) ==
    Page(Len(sorted), [i \in 1 .. Len(sorted) |-> PutInt(IntSize(sorted), sorted[i].val[1])])

WriteSet ==
    /\ phase = "new" /\ object.type = "set"
    /\ LET values == object.values
       IN IF \A i \in 1 .. Len(values) : isEncodableUint64(values[i])
          THEN \E sorted \in Orders(ToSet(values)) :
                  Ascending(sorted) /\ Written(<<IntSet(sorted)>>, "intset")
          ELSE Written(Table(Len(values),
                             [i \in 1 .. Len(values) |-> writeString(values[i])]),
                       "set")

\* Sorted sets: members and the decimal forms of their scores, or floats.
WriteZSet ==
    /\ phase = "new" /\ object.type = "zset"
    /\ LET entries == object.entries
       IN IF /\ Len(entries) <= MaxEntries
             /\ \A i \in 1 .. Len(entries) : entries[i].f.len <= MaxValue
          THEN Written(<<writeZipList(Pairs(entries))>>, "ziplist")
          ELSE Written(Table(Len(entries),
                             [i \in 1 .. Len(entries) |-> writeScored(entries[i])]),
                       "zset2")

-----------------------------------------------------------------------------
(***************************************************************************)
(* The decoder.  A hash with expirations has its smallest one first, and   *)
(* must not be empty.                                                      *)
(***************************************************************************)
OpenTable ==
    \/ IsTable /\ reader.form \in {"ziplist", "intset"} /\ OnePage
    \/ reader.form \in {"table", "set", "zset2"} /\ ReadCount

OpenHashEx ==
    /\ phase = "open" /\ reader.form \in {"hfe", "hash2"}
    /\ LET f == IF reader.form = "hfe" THEN Tail(file) ELSE file
           min == IF reader.form = "hfe" THEN IntLE8(file[1].bytes) ELSE Invalid
           size == readLength(f[1].bytes).val
       IN IF (reader.form = "hfe" /\ min > Invalid) \/ size = 0
          THEN End("refused")
          ELSE /\ reader' = [reader EXCEPT !.todo = size, !.min = min]
               /\ file' = Tail(f)
               /\ phase' = "read"
               /\ UNCHANGED <<object, got>>

ReadTablePage == IsTable /\ OpenPage

\* An entry of an intset is as many bytes as the intset says.
readIntSetEntry(b) ==
    [is |-> "str",
     str |-> Num(IF Len(b) = 2 THEN IntLE2(b)
                 ELSE IF Len(b) = 4 THEN IntLE4(b) ELSE IntLE8(b))]

ReadTableEntry ==
    /\ phase = "read" /\ InPage /\ IsTable
    /\ IF reader.form = "intset"
       THEN TakeEntry(readIntSetEntry(reader.page[1]))
       ELSE TakeEntry(readZipListEntry(reader.page[1]))

\* One turn that leaves `rest' to read and appends `new' to the result.
Turned(new, rest) ==
    /\ got' = got \o new
    /\ file' = rest
    /\ reader' = [reader EXCEPT !.todo = @ - 1]
    /\ UNCHANGED <<object, phase>>

InTable(forms) == phase = "read" /\ reader.form \in forms /\ reader.todo > 0

ReadMember ==
    /\ InTable({"set"})
    /\ LET r == readString(file)
       IN IF r.is = "str" THEN Turned(<<r.str>>, r.rest) ELSE End("lost")

ReadField ==
    /\ InTable({"table"})
    /\ LET f == readString(file)
           v == readString(f.rest)
       IN IF f.is = "str" /\ v.is = "str"
          THEN Turned(<<f.str, v.str>>, v.rest) ELSE End("lost")

ReadScored ==
    /\ InTable({"zset2"})
    /\ LET f == readString(file)
       IN IF f.is = "str" /\ f.rest # << >> /\ f.rest[1].p = "float"
          THEN Turned(<<f.str, f.rest[1].str>>, Tail(f.rest)) ELSE End("lost")

Field(f, v, e) == [f |-> f, v |-> v, e |-> e]

\* readHashMapEx: 0 is none, everything else counts from the smallest one.
ReadHfe ==
    /\ InTable({"hfe"})
    /\ LET ttl == readLength(file[1].bytes).val
           expire == IF ttl = 0 THEN 0 ELSE ttl + reader.min - 1
           f == readString(Tail(file))
           v == readString(f.rest)
       IN IF expire > ExpireMax THEN End("refused")
          ELSE IF f.is = "str" /\ v.is = "str"
               THEN Turned(<<Field(f.str, v.str, expire)>>, v.rest) ELSE End("lost")

\* readHashMapExValkey: a negative expiration is none.
ReadHash2 ==
    /\ InTable({"hash2"})
    /\ LET f == readString(file)
           v == readString(f.rest)
           expire == IntLE8(v.rest[1].bytes)
       IN IF f.is = "str" /\ v.is = "str"
          THEN Turned(<<Field(f.str, v.str, IF expire < 0 THEN 0 ELSE expire)>>,
                      Tail(v.rest))
          ELSE End("lost")

TableNext ==
    \/ WriteHash \/ WriteHashEx \/ WriteSet \/ WriteZSet
    \/ OpenTable \/ OpenHashEx \/ ReadTablePage \/ ReadTableEntry
    \/ ReadMember \/ ReadField \/ ReadScored \/ ReadHfe \/ ReadHash2
    \/ IsTable /\ Done

-----------------------------------------------------------------------------
\* The pairs that were read one entry after another.
ReadPairs == {[f |-> got[2 * i - 1], v |-> got[2 * i]] : i \in 1 .. Len(got) \div 2}

(***************************************************************************)
(* Every hash, set and sorted set reads back, in any order of the map and  *)
(* in every encoding the options lead to: no member is lost, changed or    *)
(* paired with another's value.  A ziplist is lost exactly if something in *)
(* it is too long, for which the default options suffice: the choice of    *)
(* the encoding ignores the fields of a hash.  The one exception needs     *)
(* options of the caller, more entries than a ziplist can count.           *)
(***************************************************************************)
Zipped == IF object.type = "hash" THEN object.hash ELSE ToSet(object.entries)

ZipWraps ==
    /\ reader.form = "ziplist"
    /\ LET n == IF object.type = "hash" THEN Cardinality(object.hash) ELSE Len(object.entries)
       IN 2 * n >= CountMod

TableReadBack ==
    IsTable /\ ~ZipWraps =>
        /\ phase = "done" =>
             CASE object.type = "hash" ->
                      /\ ReadPairs = {[f |-> x.f, v |-> x.v] : x \in object.hash}
                      /\ Len(got) = 2 * Cardinality(object.hash)
               [] object.type = "set" ->
                      /\ ToSet(got) = ToSet(object.values)
                      /\ Len(got) = Len(object.values)
               [] object.type = "zset" -> got = Pairs(object.entries)
               [] OTHER -> TRUE
        /\ phase = "lost" <=>
               /\ phase \in Final /\ reader.form = "ziplist"
               /\ \E x \in Zipped : TooLong(x.f) \/ TooLong(x.v)

(***************************************************************************)
(* The expirations of fields: whatever the encoder accepts, the decoder    *)
(* gives every field its own expiration back, and refuses the value        *)
(* exactly if it is empty or one of them is out of range.  A negative      *)
(* expiration is none in Valkey; in Redis -1 is none if no field expires.  *)
(***************************************************************************)
OutOfRange(x) == x.e > ExpireMax

Kept(x) ==
    IF x.e < 0 /\ (object.valkey \/ (x.e = -1 /\ MinExpire(object.hash) = 0))
    THEN 0 ELSE x.e

FieldExpirationsKept ==
    object.type = "hashEx" =>
        /\ phase = "done" =>
               /\ ToSet(got) = {Field(x.f, x.v, Kept(x)) : x \in object.hash}
               /\ Len(got) = Cardinality(object.hash)
        /\ phase \in Final =>
               (phase = "refused" <=>
                    \/ object.hash = {}
                    \/ ~object.valkey /\ \E x \in object.hash : OutOfRange(x))
=============================================================================
