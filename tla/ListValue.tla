----------------------------- MODULE ListValue -----------------------------
(***************************************************************************)
(* Lists (list.go): the encoder writes one ziplist, or a quicklist of      *)
(* ziplists; Redis writes quicklists of plain nodes and listpacks, whose   *)
(* memory memprofiler/list.go adds up.                                     *)
(***************************************************************************)
EXTENDS ValueFile, ListPack, ZipList

CONSTANTS
    MaxValue, MaxEntries,   \* zipListOpt: 64 and 512 unless set
    PageSize                \* Encoder.listZipListSize: 4096

(***************************************************************************)
(* A string of a list has a length of 32 bits.  A plain node of Redis is   *)
(* one value, a packed one a listpack of one value or more; the number of  *)
(* nodes has a length encoding.                                            *)
(***************************************************************************)
ASSUME ListAssumption ==
    /\ PageSize \in Nat \ {0}
    /\ \A o \in Objects :
        /\ o.type = "list" =>
               /\ IsSequence(o.values) /\ IsInt64(Len(o.values))
               /\ \A i \in 1 .. Len(o.values) :
                     IsText(o.values[i]) /\ Upper(o.values[i].len) = 0
        /\ o.type = "quicklist2" =>
               /\ IsSequence(o.nodes) /\ IsInt64(Len(o.nodes))
               /\ \A i \in 1 .. Len(o.nodes) :
                     LET n == o.nodes[i]
                     IN /\ n.plain \in BOOLEAN /\ IsSequence(n.values) /\ Len(n.values) > 0
                        /\ n.plain => Len(n.values) = 1
                        /\ \A j \in 1 .. Len(n.values) :
                              IsText(n.values[j]) /\ Upper(n.values[j].len) = 0

IsList == object.type = "list"
IsQuicklist2 == object.type = "quicklist2"

(***************************************************************************)
(* writeZipList: every entry says how long the one before it is; the count *)
(* has 16 bits.                                                            *)
(***************************************************************************)
ZipCells(values) ==
    LET add(cells, i) ==
            LET prevLen == IF cells = << >> THEN 0 ELSE ZipSize(Last(cells))
            IN Append(cells, encodeZipListEntry(prevLen, values[i]))
    IN Iterate(Len(values), << >>, add)

writeZipList(values) == Page(Len(values) % CountMod, ZipCells(values))

\* tryWriteListZipList takes the list.
FitsZipList(values) ==
    /\ Len(values) <= MaxEntries
    /\ \A i \in 1 .. Len(values) : values[i].len <= MaxValue

(***************************************************************************)
(* The pages of writeQuickList: a page ends with the value that brings it  *)
(* to PageSize bytes.                                                      *)
(***************************************************************************)
Cut(values) ==
    LET add(p, i) ==
            IF SumLen(p.open) + values[i].len >= PageSize
            THEN [done |-> Append(p.done, Append(p.open, values[i])), open |-> << >>]
            ELSE [p EXCEPT !.open = Append(@, values[i])]
    IN Iterate(Len(values), [done |-> << >>, open |-> << >>], add)

\* Bug: what is left for the last page is not written.
Pages_NoLast(values) == Cut(values).done

Pages(values) ==
    LET all == Cut(values)
    IN IF all.open = << >> THEN all.done ELSE Append(all.done, all.open)

WriteList ==
    /\ phase = "new" /\ IsList
    /\ LET values == object.values
           pages == Pages(values)
       IN IF FitsZipList(values)
          THEN Written(<<writeZipList(values)>>, "ziplist")
          ELSE Written(<<Hdr(writeLength(Len(pages)))>>
                       \o [i \in 1 .. Len(pages) |-> writeZipList(pages[i])],
                       "quicklist")

\* A quicklist of Redis (external): its nodes with their values.
RedisNode(n) ==
    IF n.plain THEN <<Hdr(<<1>>)>> \o writeSimpleString(n.values[1])
    ELSE <<Hdr(<<2>>), Page(Len(n.values),
                            [i \in 1 .. Len(n.values) |-> RedisCell(n.values[i])])>>

RedisQuicklist ==
    /\ phase = "new" /\ IsQuicklist2
    /\ Written(<<Hdr(writeLength(Len(object.nodes)))>>
               \o Concat([i \in 1 .. Len(object.nodes) |-> RedisNode(object.nodes[i])]),
               "quicklist2")

OpenList ==
    \/ reader.form \in {"quicklist", "quicklist2"} /\ ReadCount
    \/ IsList /\ reader.form = "ziplist" /\ OnePage

ReadPage == IsList /\ OpenPage

ReadEntry ==
    /\ phase = "read" /\ InPage /\ IsList
    /\ TakeEntry(readZipListEntry(reader.page[1]))

(***************************************************************************)
(* One turn of readQuickList2: a plain node is a string, a packed one a    *)
(* listpack, read to its end by readListPack, which also returns the sizes *)
(* of the entries.                                                         *)
(***************************************************************************)
ReadNode ==
    /\ phase = "read" /\ IsQuicklist2 /\ reader.todo > 0 /\ IsHead(file, 1)
    /\ LET plain == file[1].bytes = <<1>>
           r == readString(Tail(file))
           page == file[2].cells
           read == [i \in 1 .. file[2].count |-> readListPackEntry(page[i])]
           sound == IF plain THEN r.is = "str"
                    ELSE \A i \in DOMAIN read : read[i].is \in {"int", "str"}
       IN IF ~sound THEN End("lost")
          ELSE /\ got' = got \o (IF plain THEN <<r.str>>
                                 ELSE [i \in DOMAIN read |-> read[i].str])
               /\ file' = IF plain THEN r.rest ELSE SubSeq(file, 3, Len(file))
               /\ reader' = [reader EXCEPT
                       !.todo = @ - 1,
                       !.nodes = Append(@, IF plain THEN "plain" ELSE "packed"),
                       !.sizes = IF plain THEN @
                                 ELSE Append(@, [i \in DOMAIN read |-> read[i].took])]
               /\ UNCHANGED <<object, phase>>

(***************************************************************************)
(* sizeOfQuicklist2, called for every object the decoder delivers          *)
(* (decoder.go:577): node i takes value i if it is plain, and the sizes of *)
(* listpack i if it is packed.  A listpack has 7 bytes of its own; the     *)
(* overhead of nodes and the rounding of sizeOfString are left out.        *)
(***************************************************************************)
HasDetail(i) == IF reader.nodes[i] = "plain" THEN i <= Len(got)
                ELSE i <= Len(reader.sizes)

NodeSize(i) ==
    IF reader.nodes[i] = "plain" THEN got[i].len
    ELSE 7 + Total(reader.sizes[i])

SizeOfQuicklist2 ==
    /\ IsQuicklist2 /\ AllRead
    /\ IF \A i \in 1 .. Len(reader.nodes) : HasDetail(i)
       THEN /\ reader' = [reader EXCEPT
                   !.size = Total([i \in 1 .. Len(reader.nodes) |-> NodeSize(i)])]
            /\ phase' = "sized"
            /\ UNCHANGED <<object, file, got>>
       ELSE End("panicked")

ListNext ==
    \/ WriteList \/ RedisQuicklist
    \/ OpenList \/ ReadPage \/ ReadEntry \/ ReadNode \/ SizeOfQuicklist2
    \/ IsList /\ Done

-----------------------------------------------------------------------------
(***************************************************************************)
(* A list reads back in order, however it was cut into pages, with two     *)
(* exceptions: it is lost when an element is too long for the 14 bits of a *)
(* ziplist header, whatever the options, although ziplist.go:160 calls     *)
(* only one beyond 32 bits too large; and it is cut short when so many     *)
(* short elements come together that a page cannot count them, or the      *)
(* options put as many into a single ziplist.                              *)
(***************************************************************************)
TooLong(s) == s.len >= 16384

CountWraps ==
    IF FitsZipList(object.values) THEN Len(object.values) >= CountMod
    ELSE \E i \in 1 .. Len(object.values) - CountMod + 1 :
             SumLen(SubSeq(object.values, i, i + CountMod - 2)) < PageSize

ListReadBack ==
    IsList =>
        /\ phase = "done" /\ ~CountWraps => got = object.values
        /\ phase \in {"lost", "refused"} =>
               \E i \in 1 .. Len(object.values) : TooLong(object.values[i])
        /\ phase = "done" /\ got = object.values =>
               \A i \in 1 .. Len(got) : ~TooLong(got[i])

(***************************************************************************)
(* Every quicklist of Redis is read right, and its memory is added up      *)
(* right if all its nodes are of one kind; the profiler panics exactly     *)
(* when a plain node, one large element, comes before a packed one.  Parse *)
(* calls it for every object it delivers (decoder.go:577) and recovers     *)
(* (decoder.go:592-596): the file is then an error for every command.      *)
(***************************************************************************)
PlainBeforePacked ==
    \E i, j \in 1 .. Len(object.nodes) :
        i < j /\ object.nodes[i].plain /\ ~object.nodes[j].plain

AllValues == Concat([i \in 1 .. Len(object.nodes) |-> object.nodes[i].values])

\* The sizes of the nodes as Redis wrote them.
TrueSize ==
    LET node(n) == IF n.plain THEN n.values[1].len
                   ELSE 7 + Total([i \in 1 .. Len(n.values) |-> Size(RedisCell(n.values[i]))])
    IN Total([i \in 1 .. Len(object.nodes) |-> node(object.nodes[i])])

QuicklistSized ==
    IsQuicklist2 =>
        /\ phase # "lost"
        /\ phase \in {"sized", "panicked"} => got = AllValues
        /\ phase = "panicked" => PlainBeforePacked
        /\ phase = "sized" =>
              /\ ~PlainBeforePacked
              /\ (\/ \A i \in 1 .. Len(object.nodes) : object.nodes[i].plain
                  \/ \A i \in 1 .. Len(object.nodes) : ~object.nodes[i].plain)
                 => reader.size = TrueSize
=============================================================================
