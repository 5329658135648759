----------------------------- MODULE MCAnalyses -----------------------------
(***************************************************************************)
(* A small instance of Analyses: sizes that tie, keys without LFU          *)
(* information, keys that expire before, at and after Now and one whose    *)
(* expiration overflows; ":" and "." as separators.                        *)
(***************************************************************************)
EXTENDS Analyses

Colon == 20
Dot == 21
a == 11

Obj(key, size, freq, matches, ms) ==
    [db |-> 0, key |-> key, size |-> size, freq |-> freq, matches |-> matches, ms |-> ms]

MCFileObjects ==
    {Obj(<<a>>, 1, -1, TRUE, 0),
     Obj(<<a, Colon, a>>, 2, 0, TRUE, 4),
     Obj(<<a, Dot, Colon, a>>, 2, 1, FALSE, 5),
     Obj(<<a, Colon, a, Colon, a, Dot>>, 1, 1, TRUE, 7),
     [Obj(<<a, Colon>>, 3, -1, TRUE, 20) EXCEPT !.db = 1]}

Off == [kind |-> "off"]
AllSizes == [on |-> FALSE]
Filter(regex, noExpired, expire, size) ==
    [regex |-> regex, noExpired |-> noExpired, expire |-> expire, size |-> size]

MCOptionSets ==
    {Filter(FALSE, FALSE, Off, AllSizes),
     Filter(TRUE, TRUE, Off, AllSizes),
     Filter(FALSE, FALSE, [kind |-> "anyexpire"], AllSizes),
     Filter(FALSE, TRUE, [kind |-> "noexpire"], [on |-> TRUE, lo |-> 1, hi |-> 2]),
     Filter(TRUE, FALSE, [kind |-> "range", lo |-> 2, hi |-> 3], [on |-> TRUE, lo |-> 2, hi |-> 7]),
     Filter(FALSE, FALSE, [kind |-> "illegal"], AllSizes)}

MCWeights == -1 .. 3
MCTopNs == {-1, 1, 2}
MCSeparatorLists == {<< >>, <<Colon>>, <<Colon, Dot>>}
MCMaxDepths == {0, 1, 2}

\* For the flame graph: leaves and inner nodes, small and large, called
\* "others" and not.
O == 30
MCFlameObjects ==
    {Obj(<<a, Colon, a>>, 1, -1, TRUE, 0),
     Obj(<<a, Dot, O>>, 2, -1, TRUE, 0),
     Obj(<<a, Colon, O, Dot, a>>, 1, -1, FALSE, 4),
     Obj(<<O, Colon, a>>, 1, -1, TRUE, 0),
     Obj(<<a>>, 3, -1, TRUE, 7)}
OthersPart == <<O>>

\* For ToAOF: a value of each type; keys in two databases; a stream with a
\* deleted message, one without messages; a key that expires beyond 2262.
Typed(db, key, type, val, ms) ==
    [db |-> db, key |-> key, type |-> type, val |-> val, ms |-> ms, ex |-> FALSE,
     size |-> key % 4, matches |-> db = 0]
F(f, v, e) == [f |-> f, v |-> v, e |-> e]
Message(id, fields, deleted) == [id |-> id, fields |-> fields, deleted |-> deleted]
MCAofObjects ==
    {Typed(0, 1, "string", <<5>>, 4),
     Typed(1, 1, "string", <<6>>, 0),
     Typed(0, 2, "list", <<5, 5>>, 3),
     Typed(1, 2, "list", <<6>>, 0),
     Typed(1, 3, "set", {5, 6}, 20),
     Typed(0, 3, "hash", {F(1, 5, 0), F(2, 6, 0)}, 0),
     [Typed(0, 4, "hash", {F(1, 5, 4), F(2, 6, 0)}, 7) EXCEPT !.ex = TRUE],
     Typed(0, 5, "zset", {[m |-> 1, s |-> 1], [m |-> 2, s |-> 1]}, 0),
     Typed(0, 6, "stream", <<Message(1, {<<1, 5>>}, FALSE), Message(2, {<<1, 6>>}, TRUE),
                             Message(3, {}, TRUE)>>, 0),
     Typed(0, 7, "stream", << >>, 4),
     Typed(0, 8, "module", << >>, 4)}
=============================================================================
