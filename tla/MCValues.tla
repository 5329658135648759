------------------------------ MODULE MCValues ------------------------------
(***************************************************************************)
(* A small instance of Values.  The widths of integers, lengths and        *)
(* headers are the real ones, so the values lie on both sides of every     *)
(* boundary; the sizes of ziplists, pages and the LZF format are scaled    *)
(* down.                                                                   *)
(***************************************************************************)
EXTENDS Values

Integers == {0, 12, 13, 63, 127, 128, 255, 256, 4095, 4096, 8191, 8192, 32767,
             32768, 65536, 8388607, 8388608, 2147483647, -1, -128, -129}
Lengths == {1, 63, 64, 254, 4095, 4096, 16383, 16384, 65536}

\* Inputs for LZF: every short one over two letters, and runs with a period,
\* longer than a literal run, a reference and the window.
Letters == UNION {[1 .. n -> {1, 2}] : n \in 5 .. 6}
           \cup {[i \in 1 .. n |-> (i * i) % p] : n \in {9, 12, 15}, p \in {1, 2, 3, 5}}
           \cup {[i \in 1 .. 22 |-> IF i \in 1 .. 4 \cup 18 .. 21 THEN i % 17 ELSE i % 2]}

String(s, compress) == [type |-> "string", value |-> s, compress |-> compress]

StringObjects ==
    {String(Num(v), c) : v \in Integers, c \in BOOLEAN}
    \cup {String(Text(0, n), FALSE) : n \in Lengths}
    \cup {String(Empty, c) : c \in BOOLEAN}
    \cup {String(Spelled(s), TRUE) : s \in Letters}

\* Lists: elements that close a page at once, together, or never.
Elements == {Empty, Num(7), Num(-7), Num(70000), Text(1, 40), Text(2, 300)}
Repeat(s, n) == [i \in 1 .. n |-> s]

ListObjects ==
    {[type |-> "list", values |-> s] :
        s \in BoundedSeq(Elements, 4)
              \cup {<<Text(3, 16384)>>, <<Num(1), Text(3, 20000), Num(2)>>}
              \cup {Repeat(Empty, n) \o <<Num(9)>> : n \in 6 .. 10}
              \cup {<<Text(1, 40)>> \o Repeat(Num(5), n) \o <<Text(1, 40)>> : n \in 5 .. 9}}

Nodes == {[plain |-> TRUE, values |-> <<Text(1, 300)>>],
          [plain |-> TRUE, values |-> <<Num(128)>>],
          [plain |-> FALSE, values |-> <<Num(-5), Text(4, 125)>>],
          [plain |-> FALSE, values |-> <<Text(2, 70), Num(4096), Empty, Num(-4096)>>],
          [plain |-> FALSE, values |-> <<Num(8388608), Text(3, 5000), Num(-32769)>>]}
QuicklistObjects ==
    {[type |-> "quicklist2", nodes |-> n] : n \in BoundedSeq(Nodes, 3)}

Fields == {Num(1), Text(11, 2), Text(12, 70)}
HashObjects ==
    {[type |-> "hash", hash |-> {Field(f, v[f], 0) : f \in fs}] :
        fs \in (SUBSET Fields) \cup {{Text(13, 16384)}, {Num(1), Text(13, 16384)}},
        v \in [Fields \cup {Text(13, 16384)} -> {Num(40), Text(1, 40)}]}
    \cup {[type |-> "hash", hash |-> {Field(Num(i), Num(i), 0) : i \in 1 .. 4}]}

Expirations == {0, 1, 60, 300, ExpireMax, ExpireMax + 1, ExpireMax + 2, -1, -2}
HashExObjects ==
    {[type |-> "hashEx", valkey |-> b,
      hash |-> {Field(f, Num(40), e[f]) : f \in DOMAIN e}] :
        b \in BOOLEAN,
        e \in UNION {[fs -> Expirations] : fs \in {{}, {Num(1)}, {Num(1), Text(11, 2)}}}
              \cup [Fields -> {0, 60, 300}]}

SetObjects ==
    {[type |-> "set", values |-> s] :
        s \in UNION {SetToAllKPermutations(c) :
                     c \in {{Num(0), Num(128), Num(32767)},
                            {Num(5), Num(32768), Num(255)},
                            {Num(2147483647), Num(65535)},
                            {Num(3), Num(-3), Text(1, 3)}}}}

Entry(f, v) == [f |-> f, v |-> v]
ZSetObjects ==
    {[type |-> "zset", entries |-> s] :
        s \in {<<Entry(a, x), Entry(b, y)>> :
                a \in {Num(1), Text(1, 3)}, b \in {Text(2, 40), Text(2, 70)},
                x, y \in {Num(-3), Num(12), Text(50, 3)}}
              \cup {Repeat(Entry(Num(1), Num(2)), n) : n \in {0, 1, 4, 5}}}

\* Streams: one message at every distance from the first one, and one stream
\* with everything in it.
Id(ms, seq) == [ms |-> ms, seq |-> seq]
Base == Id(10000000, 10000000)
Pair(f, v) == [f |-> f, v |-> v]
a == Text(21, 1)
b == Text(22, 1)
Msg(dms, dseq, fields, deleted) ==
    [id |-> Id(Base.ms + dms, Base.seq + dseq), fields |-> fields, deleted |-> deleted]

Distances == {-8388608, -8388607, -32768, -32767, -8192, -8191, -4097, -4096, -128, -127,
              -32, -17, -16, -12, -5, -1, 0, 1, 127, 128, 4095, 4096, 8191, 8192,
              32767, 32768, 8388607, 8388608}

Stream(redis, version, entries, groups) ==
    [type |-> "stream", redis |-> redis, version |-> version, entries |-> entries,
     length |-> 3, last |-> Id(70000, 2), firstId |-> Id(64, 0),
     maxDeleted |-> Id(0, 0), added |-> 20000, groups |-> groups]

OneMessage(d, e) ==
    <<[first |-> Base, fields |-> <<a>>, msgs |-> <<Msg(d, e, {Pair(a, Num(3))}, FALSE)>>]>>

Entries ==
    {<< >>,
     <<[first |-> Base, fields |-> <<a, b>>,
        msgs |-> <<Msg(0, 0, {Pair(a, Num(3)), Pair(b, Empty)}, TRUE),
                   Msg(300, 2, {Pair(b, Text(1, 70))}, FALSE),
                   Msg(300, 3, {Pair(b, Num(-8)), Pair(a, Num(200))}, FALSE)>>],
       [first |-> Id(7, 8), fields |-> << >>,
        msgs |-> <<[id |-> Id(7, 8), fields |-> {Pair(a, Num(1)), Pair(Empty, a)},
                    deleted |-> FALSE],
                   [id |-> Id(7, 9), fields |-> {}, deleted |-> TRUE]>>]>>}

Consumer(name, n) ==
    [name |-> name, seen |-> 70000, active |-> 80000,
     pending |-> [i \in 1 .. n |-> Id(7, 7 + i)]]
Group(name, n, consumers) ==
    [name |-> name, last |-> Id(7, 9), read |-> 64, consumers |-> consumers,
     pending |-> [i \in 1 .. n |-> [id |-> Id(7, 7 + i), time |-> 70001, count |-> i]]]
GroupLists ==
    {<< >>, <<Group(Num(5), 0, << >>)>>,
     <<Group(a, 2, <<Consumer(b, 2), Consumer(Num(1), 0)>>), Group(b, 0, <<Consumer(a, 1)>>)>>}

StreamObjects ==
    {Stream(r, 1, OneMessage(d, 3), << >>) : r \in BOOLEAN, d \in Distances}
    \cup {Stream(r, 1, OneMessage(300, d), << >>) : r \in BOOLEAN, d \in Distances}
    \cup {Stream(r, v, e, g) : r \in BOOLEAN, v \in 1 .. 3, e \in Entries, g \in GroupLists}

\* What only Redis writes: listpacks, zipmaps, module values.
Members == {Num(0), Num(127), Num(-129), Num(4096), Num(-32769), Num(8388608), Empty,
            Text(1, 3), Text(2, 64), Text(3, 4096)}
Listpack(form, strings) == [type |-> "listpack", form |-> form, strings |-> strings]
Pad(s) == [i \in 1 .. 3 |-> IF i <= Len(s) THEN s[i] ELSE Num(60)]
RedisObjects ==
    {Listpack("set", s) : s \in BoundedSeq(Members, 2)}
    \cup {Listpack(f, s) : f \in {"hash", "zset"}, s \in {<< >>} \cup [1 .. 2 -> Members]}
    \cup {Listpack("hashEx", << >>)}
    \cup {Listpack("hashEx", <<x, y, Num(e)>>) : x, y \in Members, e \in {0, 60, 70000}}
    \cup {Listpack("hashEx", <<x, x, Num(0), y, x, Num(300)>>) : x, y \in Members}
    \cup {[type |-> "zipmap", strings |-> Repeat(Text(1, 3), 2 * n) \o s] :
            n \in {0, 1, 4, 5},
            s \in {<< >>} \cup [1 .. 2 -> {Empty, Text(4, 252), Text(5, 253), Text(6, 254)}]}
    \cup {[type |-> "module", id |-> i, strings |-> << >>, parts |-> s] :
            i \in {1, 100000},
            s \in BoundedSeq({[op |-> 1, val |-> -3], [op |-> 2, val |-> 300],
                              [op |-> 3, val |-> 1], [op |-> 4, val |-> 0],
                              [op |-> 5, val |-> Num(7)], [op |-> 5, val |-> Text(1, 64)],
                              [op |-> 6, val |-> 0]}, 3)}

MCObjects == RedisObjects \cup StringObjects \cup ListObjects \cup QuicklistObjects \cup HashObjects
             \cup HashExObjects \cup SetObjects \cup ZSetObjects \cup StreamObjects

\* The instances in which the two disagreements show.
MCLists == ListObjects
MCStreams == StreamObjects
=============================================================================
