---------------------------- MODULE StreamValue ----------------------------
(***************************************************************************)
(* Streams (stream.go).  An entry holds many messages in one listpack,     *)
(* their ids as differences from the first one; consumer groups follow.    *)
(* Redis writes the same layout with its own listpack (object.redis).      *)
(*                                                                         *)
(* An id is [ms, seq]; a message has its fields as a set of pairs, since   *)
(* the program has them in a map.  The decoder's result is the sequence of *)
(* what it read: entries, messages, the meta data, groups, consumers.      *)
(***************************************************************************)
EXTENDS ValueFile, ListPack

IsStream == object.type = "stream"

\* The version the type byte stands for: unknown versions are written as 1.
TypeVersion(version) == IF version \in {2, 3} THEN version ELSE 1

Fact(what, val) == [what |-> what, val |-> val]
IdItem(id) == Hdr(PutBE8(id.ms) \o PutBE8(id.seq))
TimeItem(t) == Hdr(PutLE8(t))
LengthItem(n) == Hdr(writeLength(n))
writeStreamId(id) == <<LengthItem(id.ms), LengthItem(id.seq)>>

FlatMap(op(_), s) == Concat([i \in 1 .. Len(s) |-> op(s[i])])

(***************************************************************************)
(* writeStreamEntryContent.  Flag 1 is a deleted message; flag 2 says that *)
(* the fields are those of the entry, and only values are written.         *)
(***************************************************************************)
NumberCell(v) == IF object.redis THEN RedisInt(v) ELSE IntCell(v)
ContentCell(s) == IF object.redis THEN RedisCell(s) ELSE StrCell(s)

SameFields(entry, msg) ==
    /\ Cardinality(msg.fields) = Len(entry.fields)
    /\ ToSet(entry.fields) \subseteq {x.f : x \in msg.fields}

Flag(entry, msg) == (IF msg.deleted THEN 1 ELSE 0)
                    + (IF SameFields(entry, msg) THEN 2 ELSE 0)

ValueOf(msg, field) == (CHOOSE x \in msg.fields : x.f = field).v

MessageCells(entry, msg) ==
    LET pair(x) == <<ContentCell(x.f), ContentCell(x.v)>>
        value(f) == <<ContentCell(ValueOf(msg, f))>>
    IN <<NumberCell(Flag(entry, msg)),
         NumberCell(msg.id.ms - entry.first.ms),
         NumberCell(msg.id.seq - entry.first.seq)>>
       \o (IF SameFields(entry, msg) THEN FlatMap(value, entry.fields)
           ELSE <<NumberCell(Cardinality(msg.fields))>>
                \o FlatMap(pair, SetToSeq(msg.fields)))
       \o <<ContentCell(Num(Cardinality(msg.fields)))>>

EntryCells(entry) ==
    LET deleted == Cardinality({i \in 1 .. Len(entry.msgs) : entry.msgs[i].deleted})
        name(f) == <<ContentCell(f)>>
        message(msg) == MessageCells(entry, msg)
    IN <<NumberCell(Len(entry.msgs) - deleted), NumberCell(deleted),
         NumberCell(Len(entry.fields))>>
       \o FlatMap(name, entry.fields)
       \o <<ContentCell(Num(Len(entry.fields)))>>
       \o FlatMap(message, entry.msgs)

writeStreamEntries(entries) ==
    LET entry(e) == <<LengthItem(16), IdItem(e.first),
                      Page(Len(EntryCells(e)) % CountMod, EntryCells(e))>>
    IN <<LengthItem(Len(entries))>> \o FlatMap(entry, entries)

writeStreamGroups(groups, version) ==
    LET nack(p) == <<IdItem(p.id), TimeItem(p.time), LengthItem(p.count)>>
        id(i) == <<IdItem(i)>>
        consumer(c) ==
            writeString(c.name) \o <<TimeItem(c.seen)>>
            \o (IF version >= 3 THEN <<TimeItem(c.active)>> ELSE << >>)
            \o <<LengthItem(Len(c.pending))>> \o FlatMap(id, c.pending)
        group(g) ==
            writeString(g.name) \o writeStreamId(g.last)
            \o (IF version >= 2 THEN <<LengthItem(g.read)>> ELSE << >>)
            \o <<LengthItem(Len(g.pending))>> \o FlatMap(nack, g.pending)
            \o <<LengthItem(Len(g.consumers))>> \o FlatMap(consumer, g.consumers)
    IN <<LengthItem(Len(groups))>> \o FlatMap(group, groups)

WriteStream ==
    /\ phase = "new" /\ IsStream
    /\ LET s == object
       IN Written(writeStreamEntries(s.entries)
                  \o <<LengthItem(s.length)>> \o writeStreamId(s.last)
                  \o (IF s.version >= 2
                      THEN writeStreamId(s.firstId) \o writeStreamId(s.maxDeleted)
                           \o <<LengthItem(s.added)>>
                      ELSE << >>)
                  \o writeStreamGroups(s.groups, s.version),
                  "stream")

-----------------------------------------------------------------------------
(***************************************************************************)
(* The decoder.                                                            *)
(***************************************************************************)
Version == TypeVersion(object.version)

OpenStream == reader.form = "stream" /\ ReadCount

\* The cells of a page as integers or strings; none is read past an error.
Cells(page, i, j) == [k \in 1 .. j - i + 1 |-> readListPackEntry(page[i + k - 1])]
Ints(page, i, j) ==
    j <= Len(page) /\ \A k \in i .. j : readListPackEntry(page[k]).is = "int"
Readable(page, i, j) ==
    /\ j <= Len(page)
    /\ \A k \in i .. j : readListPackEntry(page[k]).is \in {"int", "str"}
IntAt(page, i) == readListPackEntry(page[i]).str.val[1]
StrAt(page, i) == readListPackEntry(page[i]).str

IdAt(f, i) == [ms |-> IntBE8(SubSeq(f[i].bytes, 1, 8)),
               seq |-> IntBE8(SubSeq(f[i].bytes, 9, 16))]
LengthAt(f, i) == readLength(f[i].bytes).val
StreamIdAt(f, i) == [ms |-> LengthAt(f, i), seq |-> LengthAt(f, i + 1)]
TimeAt(f, i) == IntLE8(f[i].bytes)

\* readStreamEntries, one turn, up to the first message: the id, the counts,
\* the names of the fields and the end flag.
ReadStreamEntry ==
    /\ phase = "read" /\ IsStream /\ ~InPage /\ reader.todo > 0
    /\ LET page == file[3].cells
           num == IntAt(page, 3)
           names == [i \in 1 .. num |-> StrAt(page, 3 + i)]
       IN IF Ints(page, 1, 3) /\ Readable(page, 4, 4 + num)
          THEN /\ got' = Append(got, Fact("entry", <<IdAt(file, 2), names>>))
               /\ reader' = [reader EXCEPT
                                !.todo = @ - 1, !.names = names,
                                !.left = IntAt(page, 1) + IntAt(page, 2),
                                !.page = SubSeq(page, 5 + num, Len(page)),
                                !.nodes = <<IdAt(file, 2)>>]
               /\ file' = SubSeq(file, 4, Len(file))
               /\ UNCHANGED <<object, phase>>
          ELSE End("lost")

(***************************************************************************)
(* readStreamEntryContent, one turn: flag, differences of the id, the      *)
(* number of fields unless they are those of the entry, the fields and the *)
(* end flag.                                                               *)
(***************************************************************************)
ReadMessage ==
    /\ phase = "read" /\ IsStream /\ InPage
    /\ LET page == reader.page
           flag == IntAt(page, 1)
           same == flag \div 2 = 1
           num == IF same THEN Len(reader.names) ELSE IntAt(page, 4)
           first == IF same THEN 4 ELSE 5
           size == first - 1 + (IF same THEN num ELSE 2 * num) + 1
           field(i) == IF same
                       THEN [f |-> reader.names[i], v |-> StrAt(page, 3 + i)]
                       ELSE [f |-> StrAt(page, 3 + 2 * i), v |-> StrAt(page, 4 + 2 * i)]
           id == [ms |-> IntAt(page, 2) + reader.nodes[1].ms,
                  seq |-> IntAt(page, 3) + reader.nodes[1].seq]
       IN IF Ints(page, 1, first - 1) /\ Readable(page, first, size)
          THEN /\ got' = Append(got, Fact("message",
                            <<id, {field(i) : i \in 1 .. num}, flag % 2 = 1>>))
               /\ reader' = [reader EXCEPT !.left = @ - 1,
                                           !.page = SubSeq(page, size + 1, Len(page))]
               /\ UNCHANGED <<object, phase, file>>
          ELSE End("lost")

\* The rest of readStreamListPacks up to the number of groups.
ReadStreamMeta ==
    /\ IsStream /\ AllRead
    /\ LET f == file
           meta == IF Version >= 2
                   THEN <<LengthAt(f, 1), StreamIdAt(f, 2), StreamIdAt(f, 4),
                          StreamIdAt(f, 6), LengthAt(f, 8)>>
                   ELSE <<LengthAt(f, 1), StreamIdAt(f, 2)>>
           at == IF Version >= 2 THEN 9 ELSE 4
       IN /\ got' = Append(got, Fact("meta", meta))
          /\ reader' = [reader EXCEPT !.todo = LengthAt(f, at)]
          /\ file' = SubSeq(f, at + 1, Len(f))
          /\ phase' = "groups"
          /\ UNCHANGED object

\* readStreamGroups, one turn, up to the number of consumers.
ReadGroup ==
    /\ phase = "groups" /\ ~InPage /\ reader.todo > 0
    /\ LET name == readString(file)
           f == name.rest
           at == IF Version >= 2 THEN 4 ELSE 3
           n == LengthAt(f, at)
           nack(i) == [id |-> IdAt(f, at + 3 * i - 2),
                       time |-> TimeAt(f, at + 3 * i - 1),
                       count |-> LengthAt(f, at + 3 * i)]
       IN /\ got' = Append(got, Fact("group",
                       <<name.str, StreamIdAt(f, 1),
                         IF Version >= 2 THEN LengthAt(f, 3) ELSE 0,
                         [i \in 1 .. n |-> nack(i)]>>))
          /\ reader' = [reader EXCEPT !.todo = @ - 1,
                                      !.left = LengthAt(f, at + 3 * n + 1)]
          /\ file' = SubSeq(f, at + 3 * n + 2, Len(f))
          /\ UNCHANGED <<object, phase>>

\* One consumer of the group; before version 3 it was active when it was seen.
ReadConsumer ==
    /\ phase = "groups" /\ InPage
    /\ LET name == readString(file)
           f == name.rest
           at == IF Version >= 3 THEN 3 ELSE 2
           n == LengthAt(f, at)
       IN /\ got' = Append(got, Fact("consumer",
                       <<name.str, TimeAt(f, 1),
                         IF Version >= 3 THEN TimeAt(f, 2) ELSE TimeAt(f, 1),
                         [i \in 1 .. n |-> IdAt(f, at + i)]>>))
          /\ reader' = [reader EXCEPT !.left = @ - 1]
          /\ file' = SubSeq(f, at + n + 1, Len(f))
          /\ UNCHANGED <<object, phase>>

StreamDone == phase = "groups" /\ ~InPage /\ reader.todo = 0 /\ End("done")

StreamNext ==
    \/ WriteStream \/ OpenStream \/ ReadStreamEntry \/ ReadMessage
    \/ ReadStreamMeta \/ ReadGroup \/ ReadConsumer \/ StreamDone

-----------------------------------------------------------------------------
(***************************************************************************)
(* What the decoder shall have read, if it reads the difference d of an id *)
(* as seen(d) and the string s of a field or value as text(s).             *)
(***************************************************************************)
Facts(s, seen(_), text(_)) ==
    LET message(e, m) ==
            Fact("message",
                 <<[ms |-> e.first.ms + seen(m.id.ms - e.first.ms),
                    seq |-> e.first.seq + seen(m.id.seq - e.first.seq)],
                   {[f |-> text(x.f), v |-> text(x.v)] : x \in m.fields},
                   m.deleted>>)
        entry(e) == <<Fact("entry", <<e.first, [i \in 1 .. Len(e.fields) |->
                                                   text(e.fields[i])]>>)>>
                    \o [i \in 1 .. Len(e.msgs) |-> message(e, e.msgs[i])]
        consumer(c) == <<Fact("consumer",
                              <<c.name, c.seen,
                                IF s.version = 3 THEN c.active ELSE c.seen,
                                c.pending>>)>>
        group(g) == <<Fact("group", <<g.name, g.last,
                                      IF s.version >= 2 THEN g.read ELSE 0,
                                      g.pending>>)>>
                    \o FlatMap(consumer, g.consumers)
        meta == IF s.version >= 2
                THEN <<s.length, s.last, s.firstId, s.maxDeleted, s.added>>
                ELSE <<s.length, s.last>>
    IN FlatMap(entry, s.entries) \o <<Fact("meta", meta)>> \o FlatMap(group, s.groups)

Same(x) == x

\* The two ranges whose 13 bits the decoder takes for the other sign.
SeenBack(d) == IF d \in 4096 .. 8191 THEN d - 8192
               ELSE IF d \in -8191 .. -4097 THEN d + 8192 ELSE d
EmptyAsZero(x) == IF x.len = 0 THEN Num(0) ELSE x

Diffs == UNION {UNION {{m.id.ms - e.first.ms, m.id.seq - e.first.seq} :
                           m \in ToSet(e.msgs)} : e \in ToSet(object.entries)}

(***************************************************************************)
(* Whatever Redis wrote is read as it is.  What the encoder wrote is read  *)
(* as it is (every version, deleted messages, foreign fields, groups with  *)
(* pending entries) but for three slips of its listpack: an empty field or *)
(* value comes back as "0"; differences of 13 bits beyond 4095 change      *)
(* their sign; and small negative ones make the stream unreadable.         *)
(***************************************************************************)
StreamReadBack ==
    IsStream =>
        /\ phase = "done" =>
               got = IF object.redis THEN Facts(object, Same, Same)
                     ELSE Facts(object, SeenBack, EmptyAsZero)
        /\ phase \in Final =>
               (phase = "lost" <=> ~object.redis /\ Diffs \cap -127 .. -1 # {})

\* stream.go:171, where the differences are read: "ms and seq may be
\* negative"; so the ids of a stream read back.
StreamIdsKept ==
    IsStream /\ phase \in Final =>
        phase = "done" /\ got = Facts(object, Same, EmptyAsZero)
=============================================================================
