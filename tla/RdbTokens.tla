----------------------------- MODULE RdbTokens -----------------------------
(***************************************************************************)
(* The vocabulary the encoder and the decoder share: an RDB file as a      *)
(* sequence of tokens, one token per operand the encoder writes or the     *)
(* decoder reads in one piece (an opcode byte, a length, a string, a       *)
(* timestamp, a whole value).  Bytes inside a token are abstracted away;   *)
(* "torn" is the piece of a token a failed write left behind, and "bad" an *)
(* operand whose length or string encoding does not parse.                 *)
(***************************************************************************)
EXTENDS Integers, Sequences

Tok(kind, val) == [kind |-> kind, val |-> val]

Torn == Tok("torn", 0)

OpKinds == {"auxOp", "dbOp", "resizeOp", "msOp", "secOp", "freqOp", "idleOp",
            "moduleAuxOp", "functionOp", "slotInfoOp", "slotImportOp", "type",
            "eofOp"}

OperandKinds == {"auxKey", "auxVal", "dbNum", "keyCount", "ttlCount", "ms",
                 "sec", "freq", "idle", "moduleAux", "function", "slotInfo",
                 "slotImport", "key", "value"}

Kinds == OpKinds \cup OperandKinds \cup {"magic", "crc", "torn", "bad"}

Token == [kind : Kinds, val : Nat]

(***************************************************************************)
(* The grammar of the format as a relation between neighbouring tokens.    *)
(* Starters are the tokens an item ends with: a new opcode or type byte    *)
(* may follow them.                                                        *)
(***************************************************************************)
Starters == {"magic", "auxVal", "dbNum", "ttlCount", "ms", "sec", "freq",
             "idle", "moduleAux", "function", "slotInfo", "slotImport",
             "value"}

\* The operand expected after a token of kind k, if k is inside an item.
OperandAfter == [auxOp |-> "auxKey", auxKey |-> "auxVal", dbOp |-> "dbNum",
                 resizeOp |-> "keyCount", keyCount |-> "ttlCount",
                 msOp |-> "ms", secOp |-> "sec", freqOp |-> "freq",
                 idleOp |-> "idle", moduleAuxOp |-> "moduleAux",
                 functionOp |-> "function", slotInfoOp |-> "slotInfo",
                 slotImportOp |-> "slotImport", type |-> "key",
                 key |-> "value"]

Follows(k, l) ==
    \/ k \in Starters /\ l \in OpKinds
    \/ k \in DOMAIN OperandAfter /\ l = OperandAfter[k]
    \/ k = "eofOp" /\ l = "crc"

\* s is the beginning of a file in the format.
WellFormed(s) ==
    /\ s # << >> => s[1].kind = "magic"
    /\ \A i \in 1 .. Len(s) - 1 : Follows(s[i].kind, s[i + 1].kind)

\* The same, where operands may be damaged and the last token torn; what follows
\* such a token is arbitrary.
Spoilt == {"bad", "torn"}

Readable(s) ==
    /\ s # << >> => s[1].kind \in {"magic"} \cup Spoilt
    /\ \A i \in 1 .. Len(s) - 1 :
           \/ Follows(s[i].kind, s[i + 1].kind)
           \/ {s[i].kind, s[i + 1].kind} \cap Spoilt # {}

(***************************************************************************)
(* What a file says, defined on the file alone: the value in force at a    *)
(* position is the one of the last token of the given kinds before it,     *)
(* looking back no further than position `from'.                           *)
(***************************************************************************)
None == -1

InForce(s, from, i, kinds, default) ==
    LET js == {j \in from + 1 .. i - 1 : s[j].kind \in kinds}
    IN IF js = {} THEN default
       ELSE s[CHOOSE j \in js : \A m \in js : m <= j].val

\* The end of the object before position i, 0 if i is in the first object.
ObjectBefore(s, i) ==
    LET js == {j \in 1 .. i - 1 : s[j].kind = "value"}
    IN IF js = {} THEN 0 ELSE CHOOSE j \in js : \A m \in js : m <= j
=============================================================================
