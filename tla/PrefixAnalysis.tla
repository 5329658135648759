--------------------------- MODULE PrefixAnalysis ---------------------------
(***************************************************************************)
(* helper/prefix.go: PrefixAnalyse.  The objects of the file go into the   *)
(* radix tree; a breadth-first walk of it offers every node deep enough    *)
(* and not too deep to a top list, which is printed as one row per prefix. *)
(*                                                                         *)
(* Left out: the filters of wrapDecoder, a file that does not open or      *)
(* parse and rows that cannot be written, which only end the analysis.     *)
(***************************************************************************)
EXTENDS RadixTree, TopList

CONSTANTS
    TopNs,      \* the values of -n tried, 0 for all
    MaxDepths   \* the values of -max-depth tried, 0 for all

ASSUME PrefixAssumption == TopNs \subseteq Int /\ MaxDepths \subseteq Int

VARIABLES
    topN, maxDepth, \* the options of the command
    phase,      \* "start", "parse", "traverse", "print", "done", "refused", "panic"
    queue,      \* the queue of traverse: nodes with their depth, the root at 1
    toplist,    \* the nodes listed, with their totalSize
    rows        \* the rows printed

reportVars == <<phase, queue, toplist, rows>>
vars == <<treeVars, topN, maxDepth, reportVars>>

\* math.MaxInt: more than the nodes of any tree here.
Unlimited == 2 * MaxInserts + 2

Init ==
    /\ TreeInit
    /\ topN \in TopNs
    /\ maxDepth \in MaxDepths
    /\ phase = "start"
    /\ queue = << >> /\ toplist = << >> /\ rows = << >>

Start ==
    /\ phase = "start"
    /\ phase' = IF topN < 0 THEN "refused" ELSE "parse"
    /\ topN' = IF topN = 0 THEN Unlimited ELSE topN
    /\ maxDepth' = IF maxDepth = 0 THEN Unlimited ELSE maxDepth + 2
    /\ UNCHANGED <<treeVars, queue, toplist, rows>>

ParseObject(o, sz) ==
    /\ phase = "parse"
    /\ Insert(o[1], o[2], sz)
    /\ UNCHANGED <<topN, maxDepth, reportVars>>

InsertStep ==
    /\ Walk
    /\ UNCHANGED <<topN, maxDepth, reportVars>>

ParseReturns ==
    /\ phase = "parse"
    /\ pc = "idle"
    /\ phase' = "traverse"
    /\ queue' = <<[node |-> Root, depth |-> 1]>>
    /\ UNCHANGED <<treeVars, topN, maxDepth, toplist, rows>>

(***************************************************************************)
(* traverse calls back for the node at the head of the queue, and queues   *)
(* its children unless the callback is not interested any more.            *)
(***************************************************************************)
Visited == queue[1]

ChildrenOf(v) ==
    [c \in DOMAIN nodes[v.node].children |->
        [node |-> nodes[v.node].children[c], depth |-> v.depth + 1]]

\* Bug: children go in front of the queue.
Queued_Front == ChildrenOf(Visited) \o Tail(queue)

Queued == Tail(queue) \o ChildrenOf(Visited)
TooDeep == Visited.depth > maxDepth

StopTraversal ==
    /\ phase = "traverse"
    /\ queue # << >> /\ TooDeep
    /\ phase' = "print"
    /\ queue' = << >>
    /\ UNCHANGED <<treeVars, topN, maxDepth, toplist, rows>>

\* The root and what is taken for a database root.
SkipNode ==
    /\ phase = "traverse"
    /\ queue # << >> /\ ~TooDeep /\ Visited.depth <= 2
    /\ queue' = Queued
    /\ UNCHANGED <<treeVars, topN, maxDepth, phase, toplist, rows>>

ListNode ==
    /\ phase = "traverse"
    /\ queue # << >> /\ ~TooDeep /\ Visited.depth > 2
    /\ toplist' \in Add(toplist, [node |-> Visited.node,
                                  size |-> nodes[Visited.node].totalSize], topN)
    /\ queue' = Queued
    /\ UNCHANGED <<treeVars, topN, maxDepth, phase, rows>>

TraversalEnds ==
    /\ phase = "traverse"
    /\ queue = << >>
    /\ phase' = "print"
    /\ UNCHANGED <<treeVars, topN, maxDepth, queue, toplist, rows>>

(***************************************************************************)
(* printNode: parseNodeKey cuts the fullpath at its first space; without   *)
(* one, strings.Index returns -1 and the slice key[:-1] panics.            *)
(***************************************************************************)
HasDatabase(p) == Contains(p, Space)

\* strconv.Atoi
Atoi[digits \in Seq(Nat)] ==
    IF digits = << >> THEN 0 ELSE 10 * Atoi[Front(digits)] + Last(digits)

parseNodeKey(p) ==
    LET index == SelectInSeq(p, LAMBDA c : c = Space)
    IN  [db |-> Atoi[SubSeq(p, 1, index - 1)], key |-> SubSeq(p, index + 1, Len(p))]

Printed == nodes[toplist[Len(rows) + 1].node]

Row ==
    [db |-> parseNodeKey(Printed.fullpath).db,
     prefix |-> parseNodeKey(Printed.fullpath).key,
     size |-> Printed.totalSize, keyCount |-> Printed.keyCount]

PrintRow ==
    /\ phase = "print"
    /\ Len(rows) < Len(toplist)
    /\ HasDatabase(Printed.fullpath)
    /\ rows' = Append(rows, Row)
    /\ UNCHANGED <<treeVars, topN, maxDepth, phase, queue, toplist>>

Panic ==
    /\ phase = "print"
    /\ Len(rows) < Len(toplist)
    /\ ~HasDatabase(Printed.fullpath)
    /\ phase' = "panic"
    /\ UNCHANGED <<treeVars, topN, maxDepth, queue, toplist, rows>>

Finish ==
    /\ phase = "print"
    /\ Len(rows) = Len(toplist)
    /\ phase' = "done"
    /\ UNCHANGED <<treeVars, topN, maxDepth, queue, toplist, rows>>

Next ==
    \/ Start \/ InsertStep \/ ParseReturns
    \/ StopTraversal \/ SkipNode \/ ListNode \/ TraversalEnds
    \/ PrintRow \/ Panic \/ Finish
    \/ \E o \in Objects, sz \in Sizes : ParseObject(o, sz)

\* One goroutine, which runs until it is done.
Spec == Init /\ [][Next]_vars /\ WF_vars(Next)

-----------------------------------------------------------------------------
\* Type correctness.
TypeOK ==
    /\ TreeTypeOK
    /\ phase \in {"start", "parse", "traverse", "print", "done", "refused", "panic"}
    /\ topN \in Int /\ maxDepth \in Int
    /\ \A i \in DOMAIN queue : queue[i].node \in DOMAIN nodes /\ queue[i].depth \in Nat
    /\ \A i \in DOMAIN toplist : toplist[i].node \in DOMAIN nodes
    /\ toplist # << >> => Len(toplist) <= topN
    /\ Len(rows) <= Len(toplist)

\* The depth of a prefix in the tree, from the words alone: the root is at 1.
DepthOf(p) == Cardinality({q \in Prefixed : IsPrefix(q, p)})

Eligible == {p \in Prefixed : 2 < DepthOf(p) /\ DepthOf(p) <= maxDepth}

Reported == {genKey(rows[i].db, rows[i].prefix) : i \in DOMAIN rows}

(***************************************************************************)
(* The report (prefix.go:57-95), which stops the walk at the first node    *)
(* too deep and cuts the list as it grows: it names the topN largest of    *)
(* all prefixes at the depths asked for, each once, the largest first,     *)
(* with the keys of the file below it and their total size.                *)
(***************************************************************************)
ReportOfLargest ==
    phase = "done" =>
        /\ Reported \subseteq Eligible
        /\ Len(rows) = Cardinality(Reported)
        /\ \A i \in DOMAIN rows :
               LET p == genKey(rows[i].db, rows[i].prefix) IN
               rows[i].size = SizeOf(p) /\ rows[i].keyCount = Cardinality(Below(p))
        /\ \A i, j \in DOMAIN rows : i < j => rows[i].size >= rows[j].size
        /\ \A p \in Eligible \ Reported :
               Len(rows) = topN /\ \A i \in DOMAIN rows : rows[i].size >= SizeOf(p)

(***************************************************************************)
(* Both loops end: insert's, which has no condition (radix.go:41), and     *)
(* traverse's, which a cycle in the tree would keep going.                 *)
(***************************************************************************)
Terminates == <>(phase \in {"done", "refused", "panic"})

(***************************************************************************)
(* False of the code.  "if key is db root, index+1 == len(key)"            *)
(* (radix.go:130): every name to print holds at least a database.          *)
(***************************************************************************)
NamesHaveDatabase ==
    phase = "print" =>
        \A i \in DOMAIN toplist : HasDatabase(nodes[toplist[i].node].fullpath)

=============================================================================
