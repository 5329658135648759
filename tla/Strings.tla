------------------------------ MODULE Strings ------------------------------
(***************************************************************************)
(* The functions of Go's package strings the analyses split keys with.     *)
(* Characters are natural numbers, a separator is one character, and       *)
(* `separators' is a sequence of which the first replaces the others.      *)
(***************************************************************************)
EXTENDS Integers, SequencesExt

\* The numbers of a finite set in ascending order: the j-th is the one with
\* j of them up to it.
Ascending(S) ==
    [j \in 1 .. Cardinality(S) |-> CHOOSE i \in S : Cardinality({k \in S : k <= i}) = j]

\* strings.ReplaceAll of every separator by the first one.
Replaced(s, separators) ==
    [i \in DOMAIN s |-> IF Contains(separators, s[i]) THEN separators[1] ELSE s[i]]

(***************************************************************************)
(* strings.SplitN: the pieces between the separators; the last of n keeps  *)
(* what is left, and a negative n asks for all.                            *)
(***************************************************************************)
Cuts(s, sep) == Ascending({i \in DOMAIN s : s[i] = sep})

SplitN(s, sep, n) ==
    LET cut == Cuts(s, sep)
        count == IF n < 0 \/ Len(cut) < n THEN Len(cut) + 1 ELSE n
        from(j) == IF j = 1 THEN 1 ELSE cut[j - 1] + 1
        to(j) == IF j = count THEN Len(s) ELSE cut[j] - 1
    IN  [j \in 1 .. count |-> SubSeq(s, from(j), to(j))]

Split(s, sep) == SplitN(s, sep, -1)
=============================================================================
