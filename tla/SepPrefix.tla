----------------------------- MODULE SepPrefix ------------------------------
(***************************************************************************)
(* helper/prefix_stream.go: SepPrefixAnalyse.  Every key is split at its   *)
(* separators and counted under each prefix that ends in one, in a flat    *)
(* map; the entries are sorted once the file is read.                      *)
(*                                                                         *)
(* int is scaled to -MaxInt - 1 .. MaxInt: a depth without limit is        *)
(* MaxInt, and the maxDepth + 1 pieces asked of strings.SplitN overflow.   *)
(*                                                                         *)
(* Left out: the filters of wrapDecoder, files that do not open or parse,  *)
(* and rows that cannot be written.                                        *)
(***************************************************************************)
EXTENDS Strings

CONSTANTS
    Objects,        \* <<database, key>> of the objects an RDB file may hold
    Sizes,          \* the sizes GetSize may return
    MaxObjects,     \* bound: objects in the file
    SeparatorLists, \* the values of -prefix-sep tried, in order
    TopNs,          \* the values of -n tried
    MaxDepths,      \* the values of -max-depth tried
    MaxInt          \* the largest int

VARIABLES
    separators, topN, maxDepth, \* the options of the command
    phase,      \* "start", "parse", "done", or "refused"
    prefixes,   \* the map: <<db, prefix>> -> size and keyCount
    rows,       \* the rows printed
    offered     \* history: the objects of the file so far

vars == <<separators, topN, maxDepth, phase, prefixes, rows, offered>>

Init ==
    /\ separators \in SeparatorLists
    /\ topN \in TopNs /\ maxDepth \in MaxDepths
    /\ phase = "start"
    /\ prefixes = << >>
    /\ rows = << >> /\ offered = << >>

Unlimited(n) == IF n <= 0 THEN MaxInt ELSE n

Start ==
    /\ phase = "start"
    /\ phase' = IF separators = << >> THEN "refused" ELSE "parse"
    /\ topN' = Unlimited(topN)
    /\ maxDepth' = Unlimited(maxDepth)
    /\ UNCHANGED <<separators, prefixes, rows, offered>>

primarySep == separators[1]

normalized(key) == Replaced(key, separators)

WrapInt(n) == IF n > MaxInt THEN n - 2 * (MaxInt + 1) ELSE n

\* strings.Join(parts[:depth], primarySep) + primarySep, the trailing "*" left out.
Joined(parts, depth) ==
    LET joined[n \in 0 .. depth] ==
            IF n = 0 THEN << >> ELSE joined[n - 1] \o parts[n] \o <<primarySep>>
    IN joined[depth]

\* Bug: as many pieces as levels.
Grouping_Pieces(key) ==
    LET parts == SplitN(normalized(key), primarySep, maxDepth) IN
    {Joined(parts, depth) : depth \in 1 .. Len(parts) - 1}

\* The prefixes a key is counted under.
Grouping(key) ==
    LET parts == SplitN(normalized(key), primarySep, WrapInt(maxDepth + 1))
        limit == IF Len(parts) - 1 > maxDepth THEN maxDepth ELSE Len(parts) - 1
    IN  {Joined(parts, depth) : depth \in 1 .. limit}

Stats(e) == IF e \in DOMAIN prefixes THEN prefixes[e] ELSE [size |-> 0, keyCount |-> 0]

ParseObject(o, sz) ==
    /\ phase = "parse"
    /\ Len(offered) < MaxObjects
    /\ LET entries == {<<o[1], p>> : p \in Grouping(o[2])} IN
       prefixes' = [e \in DOMAIN prefixes \cup entries |->
                       IF e \in entries
                       THEN [size |-> Stats(e).size + sz, keyCount |-> Stats(e).keyCount + 1]
                       ELSE prefixes[e]]
    /\ offered' = Append(offered, [db |-> o[1], key |-> o[2], size |-> sz])
    /\ UNCHANGED <<separators, topN, maxDepth, phase, rows>>

(***************************************************************************)
(* The map is walked in any order and sort.Slice is not stable: entries of *)
(* one size come in any order.                                             *)
(***************************************************************************)
Sorted(s) == \A i, j \in DOMAIN s : i < j => prefixes[s[i]].size >= prefixes[s[j]].size

Listed(s) == [i \in 1 .. (IF topN > Len(s) THEN Len(s) ELSE topN) |->
                 [entry |-> s[i], stats |-> prefixes[s[i]]]]

\* Bug: cut before it is sorted.
Report_CutFirst ==
    /\ phase = "parse"
    /\ rows' \in {Listed(s) : s \in SetToSeqs(DOMAIN prefixes)}
    /\ phase' = "done"
    /\ UNCHANGED <<separators, topN, maxDepth, prefixes, offered>>

Report ==
    /\ phase = "parse"
    /\ rows' \in {Listed(s) : s \in {t \in SetToSeqs(DOMAIN prefixes) : Sorted(t)}}
    /\ phase' = "done"
    /\ UNCHANGED <<separators, topN, maxDepth, prefixes, offered>>

Next == Start \/ Report \/ \E o \in Objects, sz \in Sizes : ParseObject(o, sz)

Spec == Init /\ [][Next]_vars

-----------------------------------------------------------------------------
(***************************************************************************)
(* What a prefix is, without splitting: the beginning of a normalised key  *)
(* up to one of its first maxDepth separators.                             *)
(***************************************************************************)
SeparatorsIn(s) == Cardinality({i \in DOMAIN s : s[i] = primarySep})

IsGroup(e) ==
    /\ Last(e[2]) = primarySep
    /\ SeparatorsIn(e[2]) <= maxDepth

Members(e) ==
    {i \in DOMAIN offered : offered[i].db = e[1] /\ IsPrefix(e[2], normalized(offered[i].key))}

\* The bytes of some objects, as many as their sizes add up to.
BytesOf(objects, places) == UNION {{i} \X (1 .. objects[i].size) : i \in places}

Groups ==
    {e \in UNION {{<<offered[i].db, p>> : p \in Prefixes(normalized(offered[i].key)) \ {<< >>}} :
                      i \in DOMAIN offered} : IsGroup(e)}

(***************************************************************************)
(* The map (prefix_stream.go:56-90) counts under every prefix down to the  *)
(* depth asked for exactly the keys that begin with it, whatever separator *)
(* they use, also when maxDepth + 1 overflows (line 67).                   *)
(***************************************************************************)
GroupsCounted ==
    separators # << >> =>
        /\ DOMAIN prefixes = Groups
        /\ \A e \in Groups :
               /\ prefixes[e].keyCount = Cardinality(Members(e))
               /\ prefixes[e].size = Cardinality(BytesOf(offered, Members(e)))

(***************************************************************************)
(* The report (prefix_stream.go:95-140) has the topN largest entries, each *)
(* once, in whatever order the map is walked.                              *)
(***************************************************************************)
LargestReported ==
    phase = "done" =>
        LET reported == {rows[i].entry : i \in DOMAIN rows} IN
        /\ Cardinality(reported) = Len(rows)
        /\ \A i, j \in DOMAIN rows : i < j => rows[i].stats.size >= rows[j].stats.size
        /\ \A e \in DOMAIN prefixes \ reported :
               /\ Len(rows) = topN
               /\ \A i \in DOMAIN rows : rows[i].stats.size >= prefixes[e].size

=============================================================================
