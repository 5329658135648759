------------------------------ MODULE TopList ------------------------------
(***************************************************************************)
(* helper/toplist.go and the same list in helper/hotkey.go: at most        *)
(* `capacity' entries in descending size.  An entry is a record with a     *)
(* size and whatever identifies what it is the size of.                    *)
(***************************************************************************)
EXTENDS Integers, Sequences

\* Bug: an entry goes behind those of its own size.
Positions_Behind(list, x) ==
    {i \in 1 .. Len(list) + 1 :
         /\ i > 1 => list[i - 1].size >= x.size
         /\ i <= Len(list) => list[i].size < x.size}

(***************************************************************************)
(* What sort.Search may return (plus one): it bisects, so it finds a place *)
(* where the test turns true, and any such place if there are several.     *)
(***************************************************************************)
Positions(list, x) ==
    {i \in 1 .. Len(list) + 1 :
         /\ i > 1 => list[i - 1].size > x.size
         /\ i <= Len(list) => list[i].size <= x.size}

\* Bug: the list is cut one entry late.
AddAt_Long(list, i, x, capacity) ==
    [k \in 1 .. (IF Len(list) <= capacity THEN Len(list) + 1 ELSE capacity + 1) |->
        CASE k < i -> list[k]
          [] k = i -> x
          [] k > i -> list[k - 1]]

\* append, copy and assignment at position i, then the cut to the capacity.
AddAt(list, i, x, capacity) ==
    [k \in 1 .. (IF Len(list) < capacity THEN Len(list) + 1 ELSE capacity) |->
        CASE k < i -> list[k]
          [] k = i -> x
          [] k > i -> list[k - 1]]

\* The lists that add(x) may leave.
Add(list, x, capacity) == {AddAt(list, i, x, capacity) : i \in Positions(list, x)}

=============================================================================
