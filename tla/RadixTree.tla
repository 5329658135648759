----------------------------- MODULE RadixTree -----------------------------
(***************************************************************************)
(* helper/radix.go: the tree in which the prefix analysis counts keys and  *)
(* bytes.  A character is a natural number: a digit is its value, Space is *)
(* the separator genKey puts after the database, the others stand for the  *)
(* bytes of keys.                                                          *)
(*                                                                         *)
(* insert() is one loop over the nodes on the way to the word; a step here *)
(* is one iteration of it, between them the tree is half updated.          *)
(***************************************************************************)
EXTENDS Integers, SequencesExt

CONSTANTS
    Objects,    \* <<database, key>> of the objects an RDB file may hold
    Sizes,      \* the sizes GetSize may return
    MaxInserts  \* bound: objects in the file

ASSUME RadixAssumption ==
    /\ Objects \subseteq Nat \X Seq(Nat)
    /\ Sizes \subseteq Nat
    /\ MaxInserts \in Nat

Space == 10

\* strconv.Itoa
Digits[n \in Nat] == IF n < 10 THEN <<n>> ELSE Append(Digits[n \div 10], n % 10)

genKey(db, key) == Digits[db] \o <<Space>> \o key

VARIABLES
    nodes,      \* the radixNodes; a child is the index of its node here
    pc,         \* "idle", or "walk" inside the loop of insert
    node,       \* the loop variables: the node reached,
    word,       \*   the part of the word still to be placed,
    fullword,   \*   the whole word
    size,       \*   and the size to add
    inserted    \* history: the words inserted with their sizes, in order

treeVars == <<nodes, pc, node, word, fullword, size, inserted>>

Root == 1

Leaf(path, fullpath, sz) ==
    [path |-> path, end |-> TRUE, children |-> << >>, totalSize |-> sz,
     keyCount |-> 1, fullpath |-> fullpath]

newRadixTree ==
    <<[path |-> << >>, end |-> FALSE, children |-> << >>, totalSize |-> 0,
       keyCount |-> 0, fullpath |-> << >>]>>

TreeInit ==
    /\ nodes = newRadixTree
    /\ pc = "idle"
    /\ node = Root
    /\ word = << >> /\ fullword = << >> /\ size = 0
    /\ inserted = << >>

commonPrefix(a, b) == LongestCommonPrefix({a, b})
commonPrefixLen(a, b) == Len(commonPrefix(a, b))

Insert(db, key, sz) ==
    /\ pc = "idle"
    /\ Len(inserted) < MaxInserts
    /\ pc' = "walk"
    /\ node' = Root
    /\ word' = genKey(db, key)
    /\ fullword' = genKey(db, key)
    /\ size' = sz
    /\ inserted' = Append(inserted, [word |-> genKey(db, key), size |-> sz])
    /\ UNCHANGED nodes

(***************************************************************************)
(* Splitting node n after i characters of its path: the new child takes    *)
(* the rest of the path, the children, the end mark and the counts.        *)
(***************************************************************************)
\* Bug: the old node keeps the fullpath of the new child.
Kept_Fullpath(nd, i, child) ==
    [nd EXCEPT !.path = SubSeq(nd.path, 1, i), !.children = <<child>>, !.end = FALSE]

Kept(nd, i, child) ==
    [nd EXCEPT !.path = SubSeq(nd.path, 1, i),
               !.fullpath = SubSeq(@, 1, Len(@) - (Len(nd.path) - i)),
               !.children = <<child>>,
               !.end = FALSE]

\* Bugs: the old node keeps its end mark; the children stay with it.
Split_KeepsEnd(ns, n, i) ==
    Append([ns EXCEPT ![n] = [Kept(ns[n], i, Len(ns) + 1) EXCEPT !.end = ns[n].end]],
           [ns[n] EXCEPT !.path = SubSeq(@, i + 1, Len(@))])
Split_LeavesChildren(ns, n, i) ==
    Append([ns EXCEPT ![n] = [Kept(ns[n], i, Len(ns) + 1)
                                 EXCEPT !.children = Append(ns[n].children, Len(ns) + 1)]],
           [ns[n] EXCEPT !.path = SubSeq(@, i + 1, Len(@)), !.children = << >>])

Split(ns, n, i) ==
    Append([ns EXCEPT ![n] = Kept(ns[n], i, Len(ns) + 1)],
           [ns[n] EXCEPT !.path = SubSeq(@, i + 1, Len(@))])

Matched == commonPrefixLen(word, nodes[node].path)

\* The tree after the split, if the word leaves the path of node before its end.
Opened == IF Matched < Len(nodes[node].path) THEN Split(nodes, node, Matched)
          ELSE nodes

Counted ==
    IF Matched > 0 \/ node = Root
    THEN [Opened EXCEPT ![node].totalSize = @ + size, ![node].keyCount = @ + 1]
    ELSE Opened

Rest == SubSeq(word, Matched + 1, Len(word))

\* The children that go on as the rest of the word does: child.path[0] == c.
Continuations ==
    {c \in DOMAIN Counted[node].children :
         Counted[Counted[node].children[c]].path[1] = Rest[1]}

\* Bug: the loop ends only where no word has ended before.
EndAtNode_New ==
    /\ pc = "walk"
    /\ Matched = Len(word) /\ ~Opened[node].end
    /\ nodes' = [Counted EXCEPT ![node].end = TRUE]
    /\ pc' = "idle"
    /\ UNCHANGED <<node, word, fullword, size, inserted>>

EndAtNode ==
    /\ pc = "walk"
    /\ Matched = Len(word)
    /\ nodes' = [Counted EXCEPT ![node].end = TRUE]
    /\ pc' = "idle"
    /\ UNCHANGED <<node, word, fullword, size, inserted>>

Descend ==
    /\ pc = "walk"
    /\ Matched < Len(word)
    /\ Continuations # {}
    /\ nodes' = Counted
    /\ word' = Rest
    /\ node' = Counted[node].children[CHOOSE c \in Continuations :
                                          \A d \in Continuations : c <= d]
    /\ UNCHANGED <<pc, fullword, size, inserted>>

AddChild ==
    /\ pc = "walk"
    /\ Matched < Len(word)
    /\ Continuations = {}
    /\ nodes' = Append([Counted EXCEPT ![node].children = Append(@, Len(Counted) + 1)],
                       Leaf(Rest, fullword, size))
    /\ word' = Rest
    /\ pc' = "idle"
    /\ UNCHANGED <<node, fullword, size, inserted>>

Walk == EndAtNode \/ Descend \/ AddChild


-----------------------------------------------------------------------------
(***************************************************************************)
(* What the tree must be, from the words alone.                            *)
(***************************************************************************)
Below(p) == {i \in DOMAIN inserted : IsPrefix(p, inserted[i].word)}

\* The bytes of the objects i of ins, each byte with its object.
BytesOf(ins, objs) == UNION {{i} \X (1 .. ins[i].size) : i \in objs}

SizeOf(p) == Cardinality(BytesOf(inserted, Below(p)))

Words == {inserted[i].word : i \in DOMAIN inserted}

\* A node stands for the empty prefix, a word, or a place where two words part.
Prefixed ==
    {<< >>} \cup Words \cup {commonPrefix(v, w) : v, w \in Words}

Children(n) == {nodes[n].children[c] : c \in DOMAIN nodes[n].children}

\* Type correctness of the tree.
TreeTypeOK ==
    /\ pc \in {"idle", "walk"}
    /\ node \in DOMAIN nodes
    /\ size \in Sizes \cup {0}
    /\ Len(inserted) <= MaxInserts
    /\ \A n \in DOMAIN nodes :
           /\ Children(n) \subseteq DOMAIN nodes
           /\ nodes[n].end \in BOOLEAN
           /\ nodes[n].totalSize \in Nat /\ nodes[n].keyCount \in Nat

(***************************************************************************)
(* insert (radix.go:36-91): whatever the order of the keys, once a word is *)
(* in, the tree has exactly one node for every word and every place where  *)
(* words part, and each counts the keys under it and their sizes, also     *)
(* after splits of nodes already counted and for a key that comes twice.   *)
(***************************************************************************)
CountsEveryPrefix ==
    pc = "idle" =>
        /\ {nodes[n].fullpath : n \in DOMAIN nodes} = Prefixed
        /\ Len(nodes) = Cardinality(Prefixed)
        /\ \A n \in DOMAIN nodes :
               LET p == nodes[n].fullpath IN
               /\ nodes[n].end = (p \in Words)
               /\ nodes[n].totalSize = SizeOf(p)
               /\ nodes[n].keyCount = Cardinality(Below(p))

(***************************************************************************)
(* The links of the tree hold even between two iterations: every node but  *)
(* the root has one parent, its path is not empty (child.path[0], line 74, *)
(* would panic), its fullpath continues its parent's, and no two siblings  *)
(* begin alike, so the first child that matches is the only one.           *)
(***************************************************************************)
WellLinked ==
    /\ nodes[Root].fullpath = << >> /\ nodes[Root].path = << >>
    /\ \A n \in DOMAIN nodes \ {Root} :
           \E m \in DOMAIN nodes :
               /\ {m} = {k \in DOMAIN nodes : n \in Children(k)}
               /\ nodes[n].path # << >>
               /\ nodes[n].fullpath = nodes[m].fullpath \o nodes[n].path
    /\ \A n \in DOMAIN nodes : \A c, d \in DOMAIN nodes[n].children :
           nodes[nodes[n].children[c]].path[1] = nodes[nodes[n].children[d]].path[1]
               => c = d

(***************************************************************************)
(* The assertions in the comments of insert: when a node must be split it  *)
(* is the root or the word shares a character with it (line 44), and where *)
(* the word ends the node's fullpath is the whole word (line 65).          *)
(***************************************************************************)
WalkAsserts ==
    pc = "walk" =>
        /\ Matched < Len(nodes[node].path) => node = Root \/ Matched > 0
        /\ Matched = Len(word) => Opened[node].fullpath = fullword
        /\ Matched = Len(nodes[node].path) => IsPrefix(nodes[node].fullpath, fullword)

=============================================================================
