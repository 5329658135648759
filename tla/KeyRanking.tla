---------------------------- MODULE KeyRanking -----------------------------
(***************************************************************************)
(* helper/bigkey.go and helper/hotkey.go: the N largest keys of a file by  *)
(* size, or the N hottest by LFU frequency.  The objects come in the order *)
(* of the file; each goes through a list of at most N entries, so what is  *)
(* printed at the end depends on what was dropped long before.             *)
(*                                                                         *)
(* Left out: the filters of wrapDecoder, files that do not open or parse,  *)
(* and rows that cannot be written, which only end the command.            *)
(***************************************************************************)
EXTENDS TopList

CONSTANTS
    Weights,    \* sizes, or frequencies: -1 without LFU information
    TopNs,      \* the values of -n tried
    MaxObjects  \* bound: objects in the file

ASSUME RankingAssumption ==
    /\ Weights \subseteq Int
    /\ TopNs \subseteq Int
    /\ MaxObjects \in Nat

VARIABLES
    hot,        \* the command: FindHotKeys, or FindBiggestKeys
    topN,       \* its -n
    state,      \* "start", "parse", "done", or "refused"
    list,       \* the list of topList or hotKeyList
    offered     \* history: the objects of the file so far

vars == <<hot, topN, state, list, offered>>

Init ==
    /\ hot \in BOOLEAN
    /\ topN \in TopNs
    /\ state = "start"
    /\ list = << >>
    /\ offered = << >>

Start ==
    /\ state = "start"
    /\ state' = IF topN <= 0 THEN "refused" ELSE "parse"
    /\ UNCHANGED <<hot, topN, list, offered>>

Object(w) == [id |-> Len(offered) + 1, size |-> w]

\* Keys without LFU information are skipped; a size is never negative.
Ranked(x) == hot => x.size >= 0

Rank(w) ==
    IF Ranked(Object(w)) THEN list' \in Add(list, Object(w), topN)
    ELSE UNCHANGED list

NextObject(w) ==
    /\ state = "parse"
    /\ Len(offered) < MaxObjects
    /\ hot \/ w >= 0
    /\ Rank(w)
    /\ offered' = Append(offered, Object(w))
    /\ UNCHANGED <<hot, topN, state>>

\* Parse returns; the list is printed from first to last.
Report ==
    /\ state = "parse"
    /\ state' = "done"
    /\ UNCHANGED <<hot, topN, list, offered>>

Next == Start \/ Report \/ \E w \in Weights : NextObject(w)

Spec == Init /\ [][Next]_vars

-----------------------------------------------------------------------------
\* Type correctness; the list never exceeds its capacity.
TypeOK ==
    /\ hot \in BOOLEAN
    /\ topN \in Int
    /\ state \in {"start", "parse", "done", "refused"}
    /\ list \in Seq([id : Nat, size : Int])
    /\ list # << >> => Len(list) <= topN
    /\ offered \in Seq([id : Nat, size : Int])

\* a comes before b: it is larger, or as large and later in the file.
Before(a, b) == a.size > b.size \/ (a.size = b.size /\ a.id > b.id)

Listed(x) == \E k \in 1 .. Len(list) : list[k] = x

(***************************************************************************)
(* topList.add (toplist.go:16-26) with its early cut: the list is exactly  *)
(* the first N of all ranked objects of the file, the largest first and of *)
(* equal ones the latest, though most objects are dropped as they come and *)
(* never compared with each other.  Nothing but ranked objects is in it.   *)
(***************************************************************************)
FirstN ==
    /\ \A j, k \in 1 .. Len(list) : j < k => Before(list[j], list[k])
    /\ \A k \in 1 .. Len(list) :
           Ranked(list[k]) /\ \E i \in 1 .. Len(offered) : list[k] = offered[i]
    /\ \A i \in 1 .. Len(offered) :
           \/ Listed(offered[i])
           \/ ~Ranked(offered[i])
           \/ /\ Len(list) = topN
              /\ \A k \in 1 .. Len(list) : Before(list[k], offered[i])

=============================================================================
