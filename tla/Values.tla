------------------------------- MODULE Values -------------------------------
(***************************************************************************)
(* A value of any type from the encoder's methods through the file to the  *)
(* decoder's result: the composition of the codecs.                        *)
(***************************************************************************)
EXTENDS StringValue, TableValue, StreamValue, RedisValue

Next == StringNext \/ ListNext \/ TableNext \/ StreamNext \/ RedisNext

Spec == Init /\ [][Next]_vars /\ WF_vars(Next)

(***************************************************************************)
(* The loops of the decoder end: every value is read, refused or lost, and *)
(* the counts they run by were written for them.                           *)
(***************************************************************************)
ReadEnds == <>(phase \in Final \cup {"sized", "panicked", "failed"})
=============================================================================
