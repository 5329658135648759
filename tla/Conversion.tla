---------------------------- MODULE Conversion -----------------------------
(***************************************************************************)
(* What a conversion of objects to an array promises: every object is      *)
(* written once or given up (it could not be marshalled or written), in    *)
(* any order, behind those already written, which stay as they are; only   *)
(* then the array is finished.  array has the objects by their places in   *)
(* the output, between which there are others, for the separators.         *)
(***************************************************************************)
EXTENDS Naturals

CONSTANTS
    AllObjects,
    Places      \* of the output

VARIABLES todo, array, lost, finished

vars == <<todo, array, lost, finished>>

Init ==
    /\ todo \in SUBSET AllObjects
    /\ array = << >>
    /\ lost = {}
    /\ finished = FALSE

PlacesBehind == {p \in Places : \A i \in DOMAIN array : i < p}

With(place, o) ==
    [i \in DOMAIN array \cup {place} |-> IF i = place THEN o ELSE array[i]]

Emit(o) ==
    /\ o \in todo
    /\ todo' = todo \ {o}
    /\ array' \in {With(place, o) : place \in PlacesBehind}
    /\ UNCHANGED <<lost, finished>>

Lose(o) ==
    /\ o \in todo
    /\ todo' = todo \ {o}
    /\ lost' = lost \cup {o}
    /\ UNCHANGED <<array, finished>>

Finish ==
    /\ todo = {}
    /\ ~finished
    /\ finished' = TRUE
    /\ UNCHANGED <<todo, array, lost>>

Next == Finish \/ \E o \in AllObjects : Emit(o) \/ Lose(o)

Spec == Init /\ [][Next]_vars /\ WF_vars(Next)
=============================================================================
