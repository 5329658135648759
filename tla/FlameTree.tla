----------------------------- MODULE FlameTree -----------------------------
(***************************************************************************)
(* The flamegraph command (helper/flamegraph.go): a tree of the parts of   *)
(* the keys, each node with the size of the keys below it, from which the  *)
(* small leaves of large files are trimmed.                                *)
(*                                                                         *)
(* A node is its path, the parts from the root on, of which the first is   *)
(* the database; the root is << >>.  The tree maps all other nodes to      *)
(* their values.  The web page is left out.                                *)
(***************************************************************************)
EXTENDS Strings

CONSTANTS
    DefaultSep,         \* ":"
    Others,             \* the part "others"
    TrimThreshold,      \* keys from which a tree is trimmed: 1000
    bigNodeThreshold    \* the size a leaf keeps its place with: 1 MB

VARIABLES
    tree,       \* the children of all nodes
    count,      \* the objects added
    queue       \* of trimData: the nodes to come

flameVars == <<tree, count, queue>>

FlameInit == tree = << >> /\ count = 0 /\ queue = << >>

split(key, separators) ==
    IF separators = << >> THEN Split(key, DefaultSep)
    ELSE Split(Replaced(key, separators), separators[1])

PathOf(o, separators) == <<<<o.db>>>> \o split(o.key, separators)

Value(node) == IF node \in DOMAIN tree THEN tree[node] ELSE 0

\* addObject: every node on the way to the last part grows by the size.
addObject(o, separators) ==
    LET way == Prefixes(PathOf(o, separators)) \ {<< >>}
    IN /\ tree' = [n \in DOMAIN tree \cup way |->
                      Value(n) + (IF n \in way THEN o.size ELSE 0)]
       /\ count' = count + 1
       /\ UNCHANGED queue

ChildrenOf(node) == {n \in DOMAIN tree : n # << >> /\ Front(n) = node}
ValuesOf(nodes) == MapThenSumSet(Value, nodes)

StartTrim ==
    /\ queue' = IF count >= TrimThreshold THEN <<<< >>>> ELSE << >>
    /\ UNCHANGED <<tree, count>>

\* Bug: whatever is small is a leaf.
SmallLeaves_Inner(node) == {n \in ChildrenOf(node) : tree[n] < bigNodeThreshold}

SmallLeaves(node) ==
    {n \in ChildrenOf(node) : ChildrenOf(n) = {} /\ tree[n] < bigNodeThreshold}

(***************************************************************************)
(* A turn of trimData: the small leaves below the first node of the queue  *)
(* become one leaf "others", and all children are queued, in the order of  *)
(* a map.  AddChild puts "others" in the place of a child of that name,    *)
(* with everything below it; that child is still queued, but what happens  *)
(* to it is not in the tree any more.                                      *)
(***************************************************************************)
Trim ==
    /\ queue # << >>
    /\ LET node == Head(queue)
           small == SmallLeaves(node)
           sum == ValuesOf(small)
           others == Append(node, Others)
           replaced == IF sum > 0 THEN {n \in DOMAIN tree : IsPrefix(others, n)} ELSE {}
           stay == DOMAIN tree \ (small \cup replaced)
       IN /\ \E order \in SetToSeqs(ChildrenOf(node)) : queue' = Tail(queue) \o order
          /\ tree' = [n \in stay \cup (IF sum > 0 THEN {others} ELSE {}) |->
                         IF n \in stay THEN tree[n] ELSE sum]
    /\ UNCHANGED count

-----------------------------------------------------------------------------
(***************************************************************************)
(* The nodes and values of the whole tree, from the objects alone.         *)
(***************************************************************************)
Whole(objects, separators) ==
    LET below(n) == {i \in DOMAIN objects : IsPrefix(n, PathOf(objects[i], separators))}
        nodes == UNION {Prefixes(PathOf(objects[i], separators)) : i \in DOMAIN objects}
    IN [n \in nodes \ {<< >>} |->
           MapThenSumSet(LAMBDA i : objects[i].size, below(n))]

\* In the whole tree: the children, the leaves that are trimmed, and whether
\* there is a child "others" that is none of them while some are.
KidsIn(whole, node) == {n \in DOMAIN whole : Front(n) = node}
TrimmedIn(whole, node) ==
    {n \in KidsIn(whole, node) : KidsIn(whole, n) = {} /\ whole[n] < bigNodeThreshold}
ClashIn(whole, node) ==
    /\ Append(node, Others) \in KidsIn(whole, node) \ TrimmedIn(whole, node)
    /\ \E n \in TrimmedIn(whole, node) : whole[n] > 0

Complete(objects, separators) == tree = Whole(objects, separators)

Trimmed(objects, separators) ==
    LET whole == Whole(objects, separators)
        \* nodes that went with a child "others" that was replaced
        gone == {n \in DOMAIN whole :
                    \E m \in 0 .. Len(n) - 1 :
                        ClashIn(whole, SubSeq(n, 1, m)) /\ n[m + 1] = Others}
        inner == {n \in DOMAIN whole \ gone : KidsIn(whole, n) # {}}
        sum(f, nodes) == MapThenSumSet(LAMBDA n : f[n], nodes)
    IN /\ \A n \in inner :
              /\ n \in DOMAIN tree
              /\ sum(tree, ChildrenOf(n)) =
                     sum(whole, KidsIn(whole, n))
                     - (IF ClashIn(whole, n) THEN whole[Append(n, Others)] ELSE 0)
       /\ \A n \in DOMAIN tree :
              Last(n) = Others \/ (n \in DOMAIN whole /\ tree[n] = whole[n])
=============================================================================
