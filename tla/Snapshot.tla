----------------------------- MODULE Snapshot ------------------------------
(***************************************************************************)
(* What saving and loading a dataset promises, without a file: objects are *)
(* saved one after another, and a load returns saved objects from the      *)
(* first on, in that order, each in a form its value may be read back in   *)
(* (itself, for most values).  A load may give up early; it never invents, *)
(* skips or repeats an object.                                             *)
(***************************************************************************)
EXTENDS Sequences, Naturals

CONSTANTS
    Entries,    \* what an object is: database, key, value, expiration
    Forms       \* Forms[e]: what loading the entry e may return

VARIABLES saved, loaded

vars == <<saved, loaded>>

Init == saved = << >> /\ loaded = << >>

Save == \E e \in Entries : saved' = Append(saved, e) /\ UNCHANGED loaded

Load ==
    /\ Len(loaded) < Len(saved)
    /\ \E f \in Forms[saved[Len(loaded) + 1]] : loaded' = Append(loaded, f)
    /\ UNCHANGED saved

Next == Save \/ Load

Spec == Init /\ [][Next]_vars
=============================================================================
