----------------------------- MODULE RedisValue -----------------------------
(***************************************************************************)
(* Values the encoder never writes and the decoder reads: hashes, sets and *)
(* sorted sets in a listpack (Redis 7), hashes in a zipmap (Redis before   *)
(* 2.6), and the values of modules, which are skipped when no handler is   *)
(* registered for them.                                                    *)
(*                                                                         *)
(* object.strings are the members, or fields and values in turn, or        *)
(* fields, values and expirations in turn; object.parts are the typed      *)
(* parts of a module value.  Read strings are appended to got.             *)
(***************************************************************************)
EXTENDS ValueFile, ListPack

CONSTANT ZipMapBig      \* what the count of a zipmap stops at: 254

\* How many entries make a member.
MemberSize(form) ==
    IF form = "set" THEN 1 ELSE IF form \in {"hash", "zset"} THEN 2 ELSE 3

(***************************************************************************)
(* Strings of 32 bits of length, in whole members; an expiration is an     *)
(* integer.  A module writes parts with opcodes from 1 on: 0 is the end.   *)
(***************************************************************************)
ASSUME RedisAssumption ==
    /\ ZipMapBig \in Nat
    /\ \A o \in Objects :
        /\ o.type \in {"listpack", "zipmap"} =>
              /\ IsSequence(o.strings)
              /\ \A i \in 1 .. Len(o.strings) :
                     IsText(o.strings[i]) /\ Upper(o.strings[i].len) = 0
        /\ o.type = "listpack" =>
              /\ o.form \in {"set", "hash", "zset", "hashEx"}
              /\ Len(o.strings) % MemberSize(o.form) = 0
              /\ o.form = "hashEx" =>
                    \A i \in 1 .. Len(o.strings) : i % 3 = 0 => o.strings[i].kind = "num"
        /\ o.type = "zipmap" => Len(o.strings) % 2 = 0
        /\ o.type = "module" =>
              /\ IsSequence(o.parts)
              /\ \A i \in 1 .. Len(o.parts) :
                    LET part == o.parts[i]
                    IN /\ part.op \in Nat \ {0} /\ IsInt64(part.op)
                       /\ part.op = 5 => IsText(part.val)

IsListpack == object.type = "listpack"
IsZipmap == object.type = "zipmap"
IsModule == object.type = "module"

(***************************************************************************)
(* What Redis writes (external).  The length of a zipmap's string takes    *)
(* one byte below 254; its free bytes are left out.  After a module value  *)
(* comes the rest of the file.                                             *)
(***************************************************************************)
ZipMapCell(s) ==
    [head |-> IF s.len < 254 THEN <<s.len>> ELSE <<254>> \o PutLE4(s.len), body |-> s]

RestOfFile == Hdr(<<255>>)

PartItems(part) ==
    <<Hdr(writeLength(part.op))>>
    \o (IF part.op \in {1, 2} THEN <<Hdr(writeLength(part.val))>>
        ELSE IF part.op = 3 THEN <<Hdr(PutLE4(part.val))>>
        ELSE IF part.op = 4 THEN <<Hdr(PutLE8(part.val))>>
        ELSE IF part.op = 5 THEN writeString(part.val)
        ELSE << >>)

RedisWrites ==
    /\ phase = "new"
    /\ LET n == Len(object.strings)
           cells(op(_)) == [i \in 1 .. n |-> op(object.strings[i])]
       IN \/ /\ IsListpack
             /\ Written((IF object.form = "hashEx" THEN <<Hdr(PutLE8(0))>> ELSE << >>)
                        \o <<Page(n, cells(RedisCell))>>, object.form)
          \/ /\ IsZipmap
             /\ LET count == IF n \div 2 < ZipMapBig THEN n \div 2 ELSE ZipMapBig
                IN Written(<<Page(count, cells(ZipMapCell))>>, "zipmap")
          \/ /\ IsModule
             /\ Written(<<Hdr(writeLength(object.id))>>
                        \o Concat([i \in 1 .. Len(object.parts) |-> PartItems(object.parts[i])])
                        \o <<Hdr(writeLength(0)), RestOfFile>>, "module")

-----------------------------------------------------------------------------
(***************************************************************************)
(* readListPackSet, readListPackHash, readListPackZSet and, after the      *)
(* smallest expiration, readListPackHashEx: the number of entries, and as  *)
(* many entries in a turn as make a member.                                *)
(***************************************************************************)
Width == MemberSize(object.form)

OpenListpack ==
    /\ phase = "open" /\ IsListpack
    /\ LET page == Last(file)
       IN IF object.form = "hashEx" /\ (page.count = 0 \/ page.count % 3 # 0)
          THEN End("refused")
          ELSE /\ reader' = [reader EXCEPT !.left = page.count, !.page = page.cells]
               /\ file' = << >>
               /\ phase' = "read"
               /\ UNCHANGED <<object, got>>

\* The third entry of a hash with expirations is read as an integer.
Accepts(i, entry) ==
    entry.is \in (IF i = 3 THEN {"int"} ELSE {"int", "str"})

ReadMembers ==
    /\ phase = "read" /\ InPage /\ IsListpack
    /\ LET read == [i \in 1 .. Width |-> readListPackEntry(reader.page[i])]
       IN IF \A i \in 1 .. Width : Accepts(i, read[i])
          THEN /\ got' = got \o [i \in 1 .. Width |-> read[i].str]
               /\ reader' = [reader EXCEPT !.left = @ - Width,
                                 !.page = SubSeq(@, Width + 1, Len(@))]
               /\ UNCHANGED <<object, phase, file>>
          ELSE End("lost")

(***************************************************************************)
(* readZipMapHash: a count of up to 254 is taken as it is, and only above  *)
(* that the entries are counted; readZipMapEntryLen: 253 is taken to begin *)
(* a length of 5 bytes, 254 is an error.                                   *)
(***************************************************************************)
OpenZipmap ==
    /\ phase = "open" /\ IsZipmap
    /\ LET page == file[1]
       IN reader' = [reader EXCEPT
                        !.left = IF page.count > ZipMapBig THEN Len(page.cells)
                                 ELSE 2 * page.count,
                        !.page = page.cells]
    /\ file' = << >>
    /\ phase' = "read"
    /\ UNCHANGED <<object, got>>

readZipMapEntry(cell) ==
    [is |-> IF cell.head[1] = 253 THEN "lost"
            ELSE IF cell.head[1] = 254 THEN "error" ELSE "str",
     str |-> cell.body]

ReadZipmapEntry ==
    /\ phase = "read" /\ InPage /\ IsZipmap
    /\ TakeEntry(readZipMapEntry(reader.page[1]))

(***************************************************************************)
(* readModuleType without a handler: the id, then skipModuleAuxData, one   *)
(* part a turn, up to the opcode 0.                                        *)
(***************************************************************************)
OpenModule ==
    /\ phase = "open" /\ IsModule
    /\ file' = Tail(file)
    /\ reader' = [reader EXCEPT !.todo = 1]
    /\ phase' = "read"
    /\ UNCHANGED <<object, got>>

\* What is left of f after the value of a part.
Skipped(op, f) ==
    IF op \in {1, 2} THEN (IF IsHead(f, 1) THEN Got(Empty, Tail(f)) ELSE Failed)
    ELSE IF op \in {3, 4}
         THEN (IF IsHead(f, 1) /\ Len(f[1].bytes) = (IF op = 3 THEN 4 ELSE 8)
               THEN Got(Empty, Tail(f)) ELSE Failed)
    ELSE readString(f)

\* Bug: a float is taken for a double.
SkipPart_FloatAsDouble ==
    /\ phase = "read" /\ IsModule /\ reader.todo > 0
    /\ LET op == readLength(file[1].bytes).val
           r == Skipped(IF op = 3 THEN 4 ELSE op, Tail(file))
       IN IF op > 5 THEN End("refused")
          ELSE IF op # 0 /\ r.is # "str" THEN End("lost")
          ELSE /\ file' = IF op = 0 THEN Tail(file) ELSE r.rest
               /\ reader' = [reader EXCEPT !.todo = IF op = 0 THEN 0 ELSE 1]
               /\ UNCHANGED <<object, phase, got>>

SkipPart ==
    /\ phase = "read" /\ IsModule /\ reader.todo > 0
    /\ LET op == readLength(file[1].bytes).val
           r == Skipped(op, Tail(file))
       IN IF op > 5 THEN End("refused")
          ELSE IF op # 0 /\ r.is # "str" THEN End("lost")
          ELSE /\ file' = IF op = 0 THEN Tail(file) ELSE r.rest
               /\ reader' = [reader EXCEPT !.todo = IF op = 0 THEN 0 ELSE 1]
               /\ UNCHANGED <<object, phase, got>>

RedisNext ==
    \/ RedisWrites
    \/ OpenListpack \/ ReadMembers
    \/ OpenZipmap \/ ReadZipmapEntry
    \/ OpenModule \/ SkipPart
    \/ (IsListpack \/ IsZipmap \/ IsModule) /\ Done

-----------------------------------------------------------------------------
(***************************************************************************)
(* What Redis wrote and the encoder never does reads back too: listpacks   *)
(* always (an empty hash with expirations is refused); a module value is   *)
(* skipped to its last byte, whatever is in it, and refused if it has an   *)
(* unknown opcode; a zipmap unless it has strings of 253 bytes or more,    *)
(* and only the fields its count can tell.                                 *)
(***************************************************************************)
LongIn(strings) == \E i \in 1 .. Len(strings) : strings[i].len >= 253

RedisValuesRead ==
    /\ IsListpack =>
        /\ phase = "done" => got = object.strings
        /\ phase # "lost"
        /\ phase = "refused" <=> (phase \in Final /\ object.form = "hashEx"
                                                  /\ object.strings = << >>)
    /\ IsZipmap =>
        LET n == IF Len(object.strings) < 2 * ZipMapBig
                 THEN Len(object.strings) ELSE 2 * ZipMapBig
        IN /\ phase = "done" => got = SubSeq(object.strings, 1, n)
           /\ phase \in Final =>
                  (phase # "done" <=> LongIn(SubSeq(object.strings, 1, n)))
    /\ IsModule =>
        /\ phase = "done" => file = <<RestOfFile>>
        /\ phase # "lost"
        /\ phase \in Final => (phase = "refused" <=>
                                  \E i \in 1 .. Len(object.parts) : object.parts[i].op > 5)
=============================================================================
