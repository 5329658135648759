--------------------------- MODULE EncoderProofs ---------------------------
(***************************************************************************)
(* Proofs about Encoder: its type invariant, that no database is selected  *)
(* twice, that no database is left empty and that the checksum covers the  *)
(* file, for every choice of databases, keys, values and expirations and   *)
(* any number of failing writes.                                           *)
(***************************************************************************)
EXTENDS Encoder, SequenceTheorems, TLAPS

(***************************************************************************)
(* The tokens the calls write.                                             *)
(***************************************************************************)
LEMMA TokenType ==
    ASSUME NEW k \in Kinds, NEW v \in Nat
    PROVE  Tok(k, v) \in Token
BY DEF Tok, Token

LEMMA TornType == Torn \in Token /\ Torn.kind = "torn"
BY DEF Torn, Tok, Token, Kinds

LEMMA CallTokensType ==
    /\ HeaderTokens \in Seq(Token)
    /\ \A k, v \in Nat : AuxTokens(k, v) \in Seq(Token)
    /\ \A db \in Nat : DBHeaderTokens(db) \in Seq(Token)
    /\ \A ttl \in Nat : TTLTokens(ttl) \in Seq(Token)
    /\ \A flag, k, v \in Nat : ObjectTokens(flag, k, v) \in Seq(Token)
    /\ <<Tok("eofOp", 0)>> \in Seq(Token)
    /\ <<Tok("crc", 0)>> \in Seq(Token)
    /\ <<Tok("eofOp", 0), Tok("crc", 0)>> \in Seq(Token)
<1>1. {"magic", "auxOp", "auxKey", "auxVal", "dbOp", "dbNum", "resizeOp",
       "keyCount", "ttlCount", "msOp", "ms", "type", "key", "value", "eofOp",
       "crc"} \subseteq Kinds
  BY DEF Kinds, OpKinds, OperandKinds
<1> QED
  BY <1>1 DEF HeaderTokens, AuxTokens, DBHeaderTokens, TTLTokens, ObjectTokens,
              Tok, Token

(***************************************************************************)
(* What WriteAll and FailAfter do to the file and the checksum.            *)
(***************************************************************************)
LEMMA WriteAllType ==
    ASSUME TypeOK, NEW toks \in Seq(Token), WriteAll(toks)
    PROVE  /\ out' \in Seq(Token) /\ crc' \in Seq(Token)
           /\ dirty' \in BOOLEAN /\ faults' \in 0 .. MaxFaults
BY DEF TypeOK, WriteAll

LEMMA FailAfterType ==
    ASSUME TypeOK, NEW toks \in Seq(Token), NEW n \in 0 .. Len(toks) - 1,
           FailAfter(toks, n)
    PROVE  /\ out' \in Seq(Token) /\ crc' \in Seq(Token)
           /\ dirty' \in BOOLEAN /\ faults' \in 0 .. MaxFaults
<1>1. SubSeq(toks, 1, n) \in Seq(Token)
  OBVIOUS
<1>2. <<Torn>> \in Seq(Token) /\ << >> \in Seq(Token)
  BY TornType
<1>3. out' \in Seq(Token)
  <2>1. PICK piece \in {<< >>, <<Torn>>} : out' = out \o SubSeq(toks, 1, n) \o piece
    BY DEF FailAfter
  <2>2. piece \in Seq(Token)
    BY <1>2, <2>1
  <2>3. out \o SubSeq(toks, 1, n) \in Seq(Token)
    BY <1>1 DEF TypeOK
  <2> QED BY <2>1, <2>2, <2>3
<1>4. crc' \in Seq(Token)
  BY <1>1 DEF FailAfter, Summed, TypeOK
<1>5. faults' \in 0 .. MaxFaults
  BY EncoderAssumption DEF FailAfter, TypeOK
<1> QED BY <1>3, <1>4, <1>5 DEF FailAfter

LEMMA WriteFailsType ==
    ASSUME TypeOK, NEW toks \in Seq(Token), WriteFails(toks)
    PROVE  /\ out' \in Seq(Token) /\ crc' \in Seq(Token)
           /\ dirty' \in BOOLEAN /\ faults' \in 0 .. MaxFaults
BY FailAfterType DEF WriteFails

(***************************************************************************)
(* Type correctness.                                                       *)
(***************************************************************************)
LEMMA OptionsType ==
    ASSUME NEW opts \in Options
    PROVE  opts \in Seq(TTLs) /\ opts \in Seq(Nat) /\ Len(opts) <= MaxTTLs
<1>1. PICK n \in 0 .. MaxTTLs : opts \in [1 .. n -> TTLs]
  BY DEF Options
<1>2. n \in Nat
  BY <1>1, EncoderAssumption
<1>3. opts \in Seq(TTLs) /\ Len(opts) = n
  BY <1>1, <1>2
<1>4. opts \in Seq(Nat)
  <2>1. opts \in [1 .. n -> Nat]
    BY <1>1, EncoderAssumption
  <2> QED BY <1>2, <2>1
<1> QED BY <1>1, <1>3, <1>4, EncoderAssumption

LEMMA EncodingsType ==
    ASSUME NEW t \in DOMAIN Encodings, NEW flag \in Encodings[t]
    PROVE  flag \in Nat
BY DEF Encodings, StringEncodings, ListEncodings, SetEncodings, ZSetEncodings,
       HashEncodings, HashExEncodings, StreamEncodings

LEMMA TypeWriteObject ==
    ASSUME TypeOK, NEW t \in ObjTypes, NEW flag \in Encodings[t],
           NEW k \in Keys, NEW v \in Values, NEW opts \in Options,
           WriteObject(t, flag, k, v, opts)
    PROVE  TypeOK'
<1> DEFINE ttl == IF opts = << >> THEN << >> ELSE TTLTokens(opts[1])
           toks == ttl \o ObjectTokens(flag, k, v)
           call == [at |-> Len(out'), type |-> t, db |-> callerDB, key |-> k,
                    value |-> v, ms |-> IF opts = << >> THEN None ELSE opts[1]]
<1>1. flag \in Nat /\ k \in Nat /\ v \in Nat /\ t \in DOMAIN Encodings
  BY EncodingsType, EncoderAssumption
<1>2. opts # << >> => opts[1] \in Nat
  BY OptionsType
<1>3. ttl \in Seq(Token)
  <2>1. CASE opts = << >>
    BY <2>1
  <2>2. CASE opts # << >>
    BY <1>2, <2>2, CallTokensType
  <2> QED BY <2>1, <2>2
<1>4. ObjectTokens(flag, k, v) \in Seq(Token)
  BY <1>1, CallTokensType
<1>5. toks \in Seq(Token)
  BY <1>3, <1>4
<1>6. existDB' \subseteq DBs /\ callerDB' \in Nat
  BY DEF WriteObject, TypeOK
<1>7. CASE WriteAll(toks) /\ state' = "Object" /\ acked' = Append(acked, call)
  <2>1. out' \in Seq(Token) /\ crc' \in Seq(Token) /\ dirty' \in BOOLEAN
            /\ faults' \in 0 .. MaxFaults
    BY <1>5, <1>7, WriteAllType
  <2>2. call \in AckedCall
    BY <1>1, <1>2, <2>1 DEF AckedCall, TypeOK
  <2> QED BY <1>6, <1>7, <2>1, <2>2 DEF TypeOK, States
<1>8. CASE \E n \in 0 .. Len(toks) - 1 :
              /\ FailAfter(toks, n)
              /\ state' = IF opts # << >> /\ n >= Len(ttl) THEN "TTL" ELSE state
              /\ UNCHANGED acked
  <2>1. PICK n \in 0 .. Len(toks) - 1 :
              /\ FailAfter(toks, n)
              /\ state' = IF opts # << >> /\ n >= Len(ttl) THEN "TTL" ELSE state
              /\ UNCHANGED acked
    BY <1>8
  <2>2. out' \in Seq(Token) /\ crc' \in Seq(Token) /\ dirty' \in BOOLEAN
            /\ faults' \in 0 .. MaxFaults
    BY <1>5, <2>1, FailAfterType
  <2>3. state' \in States
    BY <2>1 DEF TypeOK, States
  <2> QED BY <1>6, <2>1, <2>2, <2>3 DEF TypeOK
<1> QED BY <1>7, <1>8 DEF WriteObject

LEMMA TypeWriteObjectRefused ==
    ASSUME TypeOK, NEW opts \in Options, WriteObjectRefused(opts)
    PROVE  TypeOK'
<1>1. opts[1] \in Nat
  BY OptionsType DEF WriteObjectRefused
<1>2. TTLTokens(opts[1]) \in Seq(Token)
  BY <1>1, CallTokensType
<1>3. existDB' \subseteq DBs /\ callerDB' \in Nat /\ acked' \in Seq(AckedCall)
  BY DEF WriteObjectRefused, TypeOK
<1>4. CASE WriteFails(TTLTokens(opts[1])) /\ UNCHANGED state
  BY <1>2, <1>3, <1>4, WriteFailsType DEF TypeOK
<1>5. CASE /\ out' = out \o TTLTokens(opts[1])
           /\ crc' = crc \o TTLTokens(opts[1])
           /\ state' = "TTL"
           /\ dirty' = TRUE
           /\ UNCHANGED faults
  BY <1>2, <1>3, <1>5 DEF TypeOK, States
<1> QED BY <1>4, <1>5 DEF WriteObjectRefused

LEMMA TypeWriteEnd ==
    ASSUME TypeOK, WriteEnd
    PROVE  TypeOK'
<1>1. existDB' \subseteq DBs /\ callerDB' \in Nat /\ acked' \in Seq(AckedCall)
  BY DEF WriteEnd, TypeOK
<1>2. CASE /\ out' = out \o <<Tok("eofOp", 0), Tok("crc", 0)>>
           /\ crc' = Append(crc, Tok("eofOp", 0))
           /\ state' = "End"
           /\ UNCHANGED <<dirty, faults>>
  <2>1. Tok("eofOp", 0) \in Token
    BY TokenType DEF Kinds, OpKinds
  <2> QED BY <1>1, <1>2, <2>1, CallTokensType DEF TypeOK, States
<1>3. CASE WriteFails(<<Tok("eofOp", 0)>>) /\ UNCHANGED state
  BY <1>1, <1>3, CallTokensType, WriteFailsType DEF TypeOK
<1>4. CASE /\ faults < MaxFaults
           /\ \E piece \in {<< >>, <<Torn>>} :
                 out' = Append(out, Tok("eofOp", 0)) \o piece
           /\ crc' = Append(crc, Tok("eofOp", 0))
           /\ dirty' = TRUE
           /\ faults' = faults + 1
           /\ UNCHANGED state
  <2>1. Tok("eofOp", 0) \in Token
    BY TokenType DEF Kinds, OpKinds
  <2>2. PICK piece \in {<< >>, <<Torn>>} :
            out' = Append(out, Tok("eofOp", 0)) \o piece
    BY <1>4
  <2>3. piece \in Seq(Token)
    <3>1. <<Torn>> \in Seq(Token) /\ << >> \in Seq(Token)
      BY TornType
    <3> QED BY <2>2, <3>1
  <2>4. Append(out, Tok("eofOp", 0)) \in Seq(Token)
    BY <2>1 DEF TypeOK
  <2>5. out' \in Seq(Token)
    BY <2>2, <2>3, <2>4
  <2>6. faults' \in 0 .. MaxFaults
    BY <1>4, EncoderAssumption DEF TypeOK
  <2> QED BY <1>1, <1>4, <2>1, <2>5, <2>6 DEF TypeOK
<1> QED BY <1>2, <1>3, <1>4 DEF WriteEnd

LEMMA TypeInit == Init => TypeOK
<1>1. Init => 0 \in 0 .. MaxFaults /\ existDB \subseteq DBs
  BY EncoderAssumption DEF Init
<1>2. << >> \in Seq(Token) /\ << >> \in Seq(AckedCall)
  OBVIOUS
<1>3. Init => state \in States /\ callerDB \in Nat
  BY DEF Init, States
<1>4. Init => dirty \in BOOLEAN
  BY Zenon DEF Init
<1>5. Init => out \in Seq(Token) /\ crc \in Seq(Token) /\ acked \in Seq(AckedCall)
  BY <1>2 DEF Init
<1>6. Init => faults \in 0 .. MaxFaults
  BY <1>1 DEF Init
<1> QED BY <1>1, <1>3, <1>4, <1>5, <1>6 DEF TypeOK

LEMMA TypeStep == TypeOK /\ [Next]_vars => TypeOK'
<1> SUFFICES ASSUME TypeOK, [Next]_vars
             PROVE  TypeOK'
  OBVIOUS
<1>1. CASE WriteHeader
  <2>1. out' \in Seq(Token) /\ crc' \in Seq(Token) /\ dirty' \in BOOLEAN
            /\ faults' \in 0 .. MaxFaults
    BY <1>1, CallTokensType, WriteAllType, WriteFailsType DEF WriteHeader
  <2> QED BY <1>1, <2>1 DEF WriteHeader, TypeOK, States
<1>2. ASSUME NEW k \in Keys, NEW v \in Values, WriteAux(k, v)
      PROVE  TypeOK'
  <2>1. AuxTokens(k, v) \in Seq(Token)
    BY EncoderAssumption, CallTokensType
  <2>2. out' \in Seq(Token) /\ crc' \in Seq(Token) /\ dirty' \in BOOLEAN
            /\ faults' \in 0 .. MaxFaults
    BY <1>2, <2>1, WriteAllType, WriteFailsType DEF WriteAux
  <2> QED BY <1>2, <2>2 DEF WriteAux, TypeOK, States
<1>3. ASSUME NEW db \in DBs, WriteDBHeader(db)
      PROVE  TypeOK'
  <2>1. DBHeaderTokens(db) \in Seq(Token) /\ db \in Nat
    BY EncoderAssumption, CallTokensType
  <2>2. out' \in Seq(Token) /\ crc' \in Seq(Token) /\ dirty' \in BOOLEAN
            /\ faults' \in 0 .. MaxFaults
    BY <1>3, <2>1, WriteAllType, WriteFailsType DEF WriteDBHeader
  <2> QED BY <1>3, <2>1, <2>2 DEF WriteDBHeader, TypeOK, States
<1>4. ASSUME NEW t \in ObjTypes, NEW k \in Keys, NEW v \in Values,
             NEW opts \in Options, NEW flag \in Encodings[t],
             WriteObject(t, flag, k, v, opts)
      PROVE  TypeOK'
  BY <1>4, TypeWriteObject
<1>5. ASSUME NEW opts \in Options, WriteObjectRefused(opts)
      PROVE  TypeOK'
  BY <1>5, TypeWriteObjectRefused
<1>6. CASE WriteEnd
  BY <1>6, TypeWriteEnd
<1>7. CASE UNCHANGED vars
  BY <1>7 DEF vars, TypeOK
<1> QED BY <1>1, <1>2, <1>3, <1>4, <1>5, <1>6, <1>7 DEF Next

(***************************************************************************)
(* The encoder's fields keep their types, whichever writes fail.           *)
(***************************************************************************)
THEOREM TypeCorrect == Spec => []TypeOK
BY TypeInit, TypeStep, PTL DEF Spec

(***************************************************************************)
(* What a call appends to the file.  Cut is a call's tokens interrupted    *)
(* before the last one was written; Appended gathers what the invariants   *)
(* below need to know of the appended piece p.                             *)
(***************************************************************************)
Whole(p) == \A i \in 1 .. Len(p) : p[i].kind # "torn"

Cut(toks, p) ==
    /\ Len(p) <= Len(toks)
    /\ \A i \in 1 .. Len(p) : p[i] = Torn \/ (i < Len(toks) /\ p[i] = toks[i])

Appended(p) ==
    /\ out' = out \o p
    /\ existDB \subseteq existDB'
    /\ p = << >> => state' = state
    /\ \A i \in 1 .. Len(p) :
           /\ p[i].kind = "dbNum" => i = 2 /\ p[i].val \in existDB' \ existDB
           /\ p[i].kind = "ttlCount" => i = Len(p) /\ state' = "DBHeader"
    /\ state = "DBHeader" /\ p # << >> => p[1].kind \in {"msOp", "type", "torn"}
    /\ state # "End"
    /\ Whole(p) => \/ state' # "End" /\ crc' = crc \o p
                   \/ /\ state' = "End"
                      /\ p = <<Tok("eofOp", 0), Tok("crc", 0)>>
                      /\ crc' = Append(crc, Tok("eofOp", 0))

LEMMA FailAfterAppends ==
    ASSUME TypeOK, NEW toks \in Seq(Token), NEW n \in 0 .. Len(toks) - 1,
           FailAfter(toks, n)
    PROVE  \E p \in Seq(Token) :
               /\ out' = out \o p
               /\ Cut(toks, p)
               /\ Whole(p) => crc' = crc \o p
               /\ Len(p) >= n
<1> DEFINE q == SubSeq(toks, 1, n)
<1>1. /\ q \in Seq(Token) /\ Len(q) = n
      /\ \A i \in 1 .. n : q[i] = toks[i]
      /\ out \o q \in Seq(Token)
  BY DEF TypeOK
<1>2. crc' = crc \o q
  BY DEF FailAfter, Summed
<1>3. PICK piece \in {<< >>, <<Torn>>} : out' = out \o q \o piece
  BY DEF FailAfter
<1> HIDE DEF q
<1>4. CASE piece = << >>
  <2>1. out' = out \o q
    BY <1>1, <1>3, <1>4, ConcatEmptySeq
  <2>2. Cut(toks, q)
    BY <1>1 DEF Cut
  <2>3. Len(q) >= n /\ q \in Seq(Token)
    BY <1>1
  <2> QED BY <1>2, <2>1, <2>2, <2>3
<1>5. CASE piece = <<Torn>>
  <2> DEFINE p == q \o <<Torn>>
  <2>1. <<Torn>> \in Seq(Token)
    BY TornType
  <2>2. p \in Seq(Token)
    BY <1>1, <2>1, ConcatProperties
  <2>3. Len(p) = n + 1 /\ p[n + 1] = Torn /\ \A i \in 1 .. n : p[i] = toks[i]
    <3>1. n \in Nat /\ Len(<<Torn>>) = 1 /\ <<Torn>>[1] = Torn
      OBVIOUS
    <3>2. /\ Len(p) = n + 1
          /\ \A i \in 1 .. n + 1 : p[i] = IF i <= n THEN q[i] ELSE <<Torn>>[i - n]
      BY <1>1, <2>1, <3>1, ConcatProperties
    <3> HIDE DEF p
    <3> QED BY <1>1, <3>1, <3>2
  <2>4. out' = out \o p
    <3>1. out \in Seq(Token)
      BY DEF TypeOK
    <3>2. (out \o q) \o <<Torn>> = out \o (q \o <<Torn>>)
      BY <1>1, <2>1, <3>1, ConcatAssociative, SMTT(20)
    <3> QED BY <1>3, <1>5, <3>2
  <2>5. Cut(toks, p)
    <3> HIDE DEF p
    <3> QED BY <2>3 DEF Cut
  <2>6. ~Whole(p)
    <3>1. p[n + 1].kind = "torn" /\ n + 1 \in 1 .. Len(p)
      BY <2>3, TornType
    <3> HIDE DEF p
    <3> QED BY <3>1 DEF Whole
  <2>7. Len(p) >= n
    BY <2>3
  <2> HIDE DEF p
  <2> QED BY <2>2, <2>4, <2>5, <2>6, <2>7
<1> QED BY <1>3, <1>4, <1>5

LEMMA WriteFailsAppends ==
    ASSUME TypeOK, NEW toks \in Seq(Token), WriteFails(toks)
    PROVE  \E p \in Seq(Token) :
               /\ out' = out \o p
               /\ Cut(toks, p)
               /\ Whole(p) => crc' = crc \o p
BY FailAfterAppends DEF WriteFails

(***************************************************************************)
(* Suitable(toks) holds of the tokens of every call but WriteEnd; then the *)
(* tokens, or a cut of them, may be appended.                              *)
(***************************************************************************)
Suitable(toks) ==
    /\ \A i \in 1 .. Len(toks) :
           /\ toks[i].kind = "dbNum" => i = 2 /\ toks[i].val \in existDB' \ existDB
           /\ toks[i].kind = "ttlCount" => i = Len(toks)
    /\ toks # << >>
    /\ state = "DBHeader" => toks[1].kind \in {"msOp", "type"}
    /\ existDB \subseteq existDB'
    /\ state # "End" /\ state' # "End"

LEMMA CutAppended ==
    ASSUME NEW toks \in Seq(Token), NEW p \in Seq(Token),
           out' = out \o p, Cut(toks, p), Whole(p) => crc' = crc \o p,
           Suitable(toks), p = << >> => state' = state
    PROVE  Appended(p)
<1>1. ASSUME NEW i \in 1 .. Len(p)
      PROVE  /\ p[i].kind = "dbNum" => i = 2 /\ p[i].val \in existDB' \ existDB
             /\ p[i].kind # "ttlCount"
  <2>1. i \in 1 .. Len(toks)
    BY DEF Cut
  <2>2. CASE p[i] = Torn
    BY <2>2, TornType
  <2>3. CASE i < Len(toks) /\ p[i] = toks[i]
    BY <2>1, <2>3 DEF Suitable
  <2> QED BY <2>2, <2>3 DEF Cut
<1>2. ASSUME state = "DBHeader", p # << >>
      PROVE  p[1].kind \in {"msOp", "type", "torn"}
  <2>1. 1 \in 1 .. Len(p)
    BY <1>2
  <2>2. p[1] = Torn \/ p[1] = toks[1]
    BY <2>1 DEF Cut
  <2> QED BY <1>2, <2>2, TornType DEF Suitable
<1> QED BY <1>1, <1>2 DEF Appended, Suitable

LEMMA AllAppended ==
    ASSUME NEW toks \in Seq(Token), WriteAll(toks), Suitable(toks),
           \A i \in 1 .. Len(toks) : toks[i].kind = "ttlCount" => state' = "DBHeader"
    PROVE  Appended(toks)
BY DEF Appended, Suitable, WriteAll

\* A call that writes toks, in which a failure leaves the state alone.
LEMMA CallAppends ==
    ASSUME TypeOK, NEW toks \in Seq(Token), Suitable(toks),
           \/ /\ WriteAll(toks)
              /\ \A i \in 1 .. Len(toks) :
                     toks[i].kind = "ttlCount" => state' = "DBHeader"
           \/ WriteFails(toks) /\ UNCHANGED state
    PROVE  \E p \in Seq(Token) : Appended(p)
<1>1. CASE WriteAll(toks) /\ \A i \in 1 .. Len(toks) :
                     toks[i].kind = "ttlCount" => state' = "DBHeader"
  BY <1>1, AllAppended
<1>2. CASE WriteFails(toks) /\ UNCHANGED state
  <2>1. PICK p \in Seq(Token) : /\ out' = out \o p
                                /\ Cut(toks, p)
                                /\ Whole(p) => crc' = crc \o p
    BY <1>2, WriteFailsAppends
  <2>2. Appended(p)
    BY <1>2, <2>1, CutAppended
  <2> QED BY <2>2
<1> QED BY <1>1, <1>2

LEMMA HeaderAppends ==
    ASSUME TypeOK, WriteHeader
    PROVE  \E p \in Seq(Token) : Appended(p)
<1>1. Len(HeaderTokens) = 1 /\ HeaderTokens[1].kind = "magic"
  BY DEF HeaderTokens, Tok
<1>2. state = "Start" /\ state' \in {"Start", "Header"} /\ existDB' = existDB
  BY DEF WriteHeader, Allowed, StateChanges, TypeOK, States
<1>3. Suitable(HeaderTokens)
  BY <1>1, <1>2 DEF Suitable
<1>4. \A i \in 1 .. Len(HeaderTokens) : HeaderTokens[i].kind # "ttlCount"
  BY <1>1
<1>5. \/ WriteAll(HeaderTokens)
      \/ WriteFails(HeaderTokens) /\ UNCHANGED state
  BY DEF WriteHeader
<1>6. HeaderTokens \in Seq(Token)
  BY CallTokensType
<1> QED BY <1>3, <1>4, <1>5, <1>6, CallAppends

LEMMA AuxAppends ==
    ASSUME TypeOK, NEW k \in Keys, NEW v \in Values, WriteAux(k, v)
    PROVE  \E p \in Seq(Token) : Appended(p)
<1> DEFINE toks == AuxTokens(k, v)
<1>1. Len(toks) = 3 /\ toks[1].kind = "auxOp" /\ toks[2].kind = "auxKey"
          /\ toks[3].kind = "auxVal"
  BY DEF AuxTokens, Tok
<1>2. state \in {"Header", "Aux"} /\ state' \in {"Header", "Aux"} /\ existDB' = existDB
  BY DEF WriteAux, Allowed, StateChanges, TypeOK, States
<1>3. toks \in Seq(Token)
  BY CallTokensType, EncoderAssumption
<1>4. \/ WriteAll(toks)
      \/ WriteFails(toks) /\ UNCHANGED state
  BY DEF WriteAux
<1> HIDE DEF toks
<1>5. Suitable(toks)
  BY <1>1, <1>2 DEF Suitable
<1>6. \A i \in 1 .. Len(toks) : toks[i].kind # "ttlCount"
  BY <1>1
<1> QED BY <1>3, <1>4, <1>5, <1>6, CallAppends

LEMMA DBHeaderAppends ==
    ASSUME TypeOK, NEW db \in DBs, WriteDBHeader(db)
    PROVE  \E p \in Seq(Token) : Appended(p)
<1> DEFINE toks == DBHeaderTokens(db)
<1>1. /\ Len(toks) = 5 /\ toks[1].kind = "dbOp" /\ toks[2].kind = "dbNum"
      /\ toks[2].val = db /\ toks[3].kind = "resizeOp"
      /\ toks[4].kind = "keyCount" /\ toks[5].kind = "ttlCount"
  BY DEF DBHeaderTokens, Tok
<1>2. /\ state \in {"Header", "Aux", "Object"} /\ state' # "End"
      /\ db \in existDB' \ existDB /\ existDB \subseteq existDB'
  BY DEF WriteDBHeader, Allowed, StateChanges, TypeOK, States
<1>3. toks \in Seq(Token)
  BY CallTokensType, EncoderAssumption
<1>4. \/ WriteAll(toks) /\ state' = "DBHeader"
      \/ WriteFails(toks) /\ UNCHANGED state
  BY DEF WriteDBHeader
<1> HIDE DEF toks
<1>5. Suitable(toks)
  BY <1>1, <1>2 DEF Suitable
<1> QED BY <1>3, <1>4, <1>5, CallAppends

LEMMA OptionAndObject ==
    ASSUME NEW s \in Seq(Token), NEW t \in Seq(Token), Len(s) = 2, Len(t) = 3
    PROVE  /\ s \o t \in Seq(Token) /\ Len(s \o t) = 5
           /\ (s \o t)[1] = s[1] /\ (s \o t)[2] = s[2] /\ (s \o t)[3] = t[1]
           /\ (s \o t)[4] = t[2] /\ (s \o t)[5] = t[3]
<1> DEFINE st == s \o t
<1>1. /\ st \in Seq(Token) /\ Len(st) = 5
      /\ \A i \in 1 .. 5 : st[i] = IF i <= 2 THEN s[i] ELSE t[i - 2]
  <2>1. /\ st \in Seq(Token) /\ Len(st) = Len(s) + Len(t)
        /\ \A i \in 1 .. Len(s) + Len(t) : st[i] =
               IF i <= Len(s) THEN s[i] ELSE t[i - Len(s)]
    BY ConcatProperties, Zenon
  <2> QED BY <2>1
<1> HIDE DEF st
<1>2. st[1] = s[1] /\ st[2] = s[2] /\ st[3] = t[1] /\ st[4] = t[2] /\ st[5] = t[3]
  BY <1>1
<1> QED BY <1>1, <1>2 DEF st

LEMMA ObjectAppends ==
    ASSUME TypeOK, NEW t \in ObjTypes, NEW flag \in Encodings[t],
           NEW k \in Keys, NEW v \in Values, NEW opts \in Options,
           WriteObject(t, flag, k, v, opts)
    PROVE  \E p \in Seq(Token) : Appended(p)
<1> DEFINE ttl == IF opts = << >> THEN << >> ELSE TTLTokens(opts[1])
           obj == ObjectTokens(flag, k, v)
           toks == ttl \o obj
<1>1. flag \in Nat /\ k \in Nat /\ v \in Nat
  BY EncodingsType, EncoderAssumption
<1>2. opts # << >> => opts[1] \in Nat
  BY OptionsType
<1>3. /\ obj \in Seq(Token) /\ Len(obj) = 3 /\ obj[1].kind = "type"
      /\ obj[2].kind = "key" /\ obj[3].kind = "value"
  BY <1>1, CallTokensType DEF ObjectTokens, Tok
<1>4. opts = << >> => ttl = << >>
  OBVIOUS
<1>5. opts # << >> => /\ ttl \in Seq(Token) /\ Len(ttl) = 2
                      /\ ttl[1].kind = "msOp" /\ ttl[2].kind = "ms"
  BY <1>2, CallTokensType DEF TTLTokens, Tok
<1> HIDE DEF obj
<1>6. /\ toks \in Seq(Token) /\ Len(toks) \in {3, 5}
      /\ toks[1].kind \in {"type", "msOp"}
      /\ \A i \in 1 .. Len(toks) : toks[i].kind \notin {"dbNum", "ttlCount"}
  <2>1. CASE opts = << >>
    <3>1. toks = obj
      BY <1>3, <1>4, <2>1, ConcatEmptySeq
    <3> HIDE DEF toks
    <3>2. Len(toks) = 3 /\ toks[1].kind = "type"
              /\ toks[2].kind = "key" /\ toks[3].kind = "value"
      BY <1>3, <3>1
    <3>3. \A i \in 1 .. Len(toks) : i = 1 \/ i = 2 \/ i = 3
      BY <3>2
    <3>4. toks \in Seq(Token)
      BY <1>3, <3>1
    <3> QED BY <3>2, <3>3, <3>4
  <2>2. CASE opts # << >>
    <3> HIDE DEF ttl
    <3>1. /\ toks \in Seq(Token) /\ Len(toks) = 5
          /\ toks[1] = ttl[1] /\ toks[2] = ttl[2]
          /\ toks[3] = obj[1] /\ toks[4] = obj[2] /\ toks[5] = obj[3]
      BY <1>3, <1>5, <2>2, OptionAndObject
    <3>2. toks[1].kind = "msOp" /\ toks[2].kind = "ms" /\ toks[3].kind = "type"
              /\ toks[4].kind = "key" /\ toks[5].kind = "value"
      BY <1>3, <1>5, <2>2, <3>1
    <3> HIDE DEF toks
    <3>3. \A i \in 1 .. Len(toks) : i = 1 \/ i = 2 \/ i = 3 \/ i = 4 \/ i = 5
      BY <3>1
    <3> QED BY <3>1, <3>2, <3>3
  <2> QED BY <2>1, <2>2
<1>7. state \in {"DBHeader", "TTL", "Object"} /\ existDB' = existDB
  <2>1. Allowed("Object") /\ existDB' = existDB
    BY DEF WriteObject
  <2> QED BY <2>1 DEF Allowed, StateChanges, TypeOK, States
<1>8. CASE WriteAll(toks) /\ state' = "Object"
  <2>1. Suitable(toks)
    BY <1>6, <1>7, <1>8 DEF Suitable
  <2> QED BY <1>6, <1>8, <2>1, AllAppended
<1>9. CASE \E n \in 0 .. Len(toks) - 1 :
              /\ FailAfter(toks, n)
              /\ state' = IF opts # << >> /\ n >= Len(ttl) THEN "TTL" ELSE state
  <2>1. PICK n \in 0 .. Len(toks) - 1 :
              /\ FailAfter(toks, n)
              /\ state' = IF opts # << >> /\ n >= Len(ttl) THEN "TTL" ELSE state
    BY <1>9
  <2>2. PICK p \in Seq(Token) : /\ out' = out \o p
                                /\ Cut(toks, p)
                                /\ Whole(p) => crc' = crc \o p
                                /\ Len(p) >= n
    BY <1>6, <2>1, FailAfterAppends
  <2>3. p = << >> => state' = state
    BY <1>5, <1>6, <2>1, <2>2
  <2>4. state' # "End"
    BY <1>7, <2>1
  <2>5. Suitable(toks)
    BY <1>6, <1>7, <2>4 DEF Suitable
  <2> QED BY <1>6, <2>2, <2>3, <2>5, CutAppended
<1>10. \/ WriteAll(toks) /\ state' = "Object"
       \/ \E n \in 0 .. Len(toks) - 1 :
              /\ FailAfter(toks, n)
              /\ state' = IF opts # << >> /\ n >= Len(ttl) THEN "TTL" ELSE state
  BY DEF WriteObject, obj
<1> QED BY <1>8, <1>9, <1>10

LEMMA RefusedAppends ==
    ASSUME TypeOK, NEW opts \in Options, WriteObjectRefused(opts)
    PROVE  \E p \in Seq(Token) : Appended(p)
<1> DEFINE toks == TTLTokens(opts[1])
<1>1. opts[1] \in Nat
  BY OptionsType DEF WriteObjectRefused
<1>2. Len(toks) = 2 /\ toks[1].kind = "msOp" /\ toks[2].kind = "ms"
          /\ toks \in Seq(Token)
  BY <1>1, CallTokensType DEF TTLTokens, Tok
<1>3. state \in {"DBHeader", "Object"} /\ existDB' = existDB
  <2>1. Allowed("TTL") /\ existDB' = existDB
    BY DEF WriteObjectRefused
  <2> QED BY <2>1 DEF Allowed, StateChanges, TypeOK, States
<1>4. \/ out' = out \o toks /\ crc' = crc \o toks /\ state' = "TTL"
      \/ WriteFails(toks) /\ UNCHANGED state
  BY DEF WriteObjectRefused
<1> HIDE DEF toks
<1>5. \A i \in 1 .. Len(toks) : toks[i].kind \notin {"dbNum", "ttlCount"}
  BY <1>2
<1>6. Suitable(toks)
  <2>1. state' = "TTL" \/ state' = state
    BY <1>4
  <2>2. state # "End" /\ state' # "End"
    BY <1>3, <2>1
  <2>3. Len(toks) # 0
    BY <1>2
  <2>4. toks # << >>
    BY <2>3
  <2> QED BY <1>2, <1>3, <1>5, <2>2, <2>4 DEF Suitable
<1>7. CASE out' = out \o toks /\ crc' = crc \o toks /\ state' = "TTL"
  <2>1. Appended(toks)
    BY <1>2, <1>5, <1>6, <1>7 DEF Appended, Suitable
  <2> QED BY <1>2, <2>1
<1>8. CASE WriteFails(toks) /\ UNCHANGED state
  BY <1>2, <1>6, <1>8, CallAppends
<1> QED BY <1>4, <1>7, <1>8

LEMMA EndAppends ==
    ASSUME TypeOK, WriteEnd
    PROVE  \E p \in Seq(Token) : Appended(p)
<1> DEFINE eof == <<Tok("eofOp", 0)>>
<1>1. state \in {"Header", "Aux", "Object"} /\ existDB' = existDB
  <2>1. Allowed("End") /\ existDB' = existDB
    BY DEF WriteEnd
  <2> QED BY <2>1 DEF Allowed, StateChanges, TypeOK, States
<1>2. /\ eof \in Seq(Token) /\ Len(eof) = 1 /\ eof[1] = Tok("eofOp", 0)
      /\ Tok("eofOp", 0).kind = "eofOp" /\ Tok("eofOp", 0) \in Token
  BY CallTokensType, TokenType DEF Tok, Kinds, OpKinds
<1>3. CASE /\ out' = out \o <<Tok("eofOp", 0), Tok("crc", 0)>>
           /\ crc' = Append(crc, Tok("eofOp", 0))
           /\ state' = "End"
  <2> DEFINE p == <<Tok("eofOp", 0), Tok("crc", 0)>>
  <2>1. p \in Seq(Token) /\ Len(p) = 2 /\ p[1].kind = "eofOp" /\ p[2].kind = "crc"
    BY CallTokensType DEF Tok
  <2>2. Appended(p)
    <3> HIDE DEF p
    <3>1. \A i \in 1 .. Len(p) : p[i].kind \notin {"dbNum", "ttlCount"}
      BY <2>1
    <3>2. out' = out \o p /\ p = <<Tok("eofOp", 0), Tok("crc", 0)>>
      BY <1>3 DEF p
    <3> QED BY <1>1, <1>3, <2>1, <3>1, <3>2 DEF Appended
  <2> QED BY <2>1, <2>2
<1>4. CASE WriteFails(eof) /\ UNCHANGED state
  <2> HIDE DEF eof
  <2>1. Suitable(eof)
    BY <1>1, <1>2, <1>4 DEF Suitable
  <2> QED BY <1>2, <1>4, <2>1, CallAppends
<1>5. CASE /\ \E piece \in {<< >>, <<Torn>>} :
                 out' = Append(out, Tok("eofOp", 0)) \o piece
           /\ crc' = Append(crc, Tok("eofOp", 0))
           /\ UNCHANGED state
  <2>1. PICK piece \in {<< >>, <<Torn>>} :
            out' = Append(out, Tok("eofOp", 0)) \o piece
    BY <1>5
  <2>2. out \in Seq(Token) /\ crc \in Seq(Token)
    BY DEF TypeOK
  <2>3. Append(out, Tok("eofOp", 0)) = out \o eof /\ out \o eof \in Seq(Token)
    BY <1>2, <2>2, AppendIsConcat, ConcatProperties
  <2>4. crc' = crc \o eof
    BY <1>2, <1>5, <2>2, AppendIsConcat
  <2> HIDE DEF eof
  <2>5. CASE piece = << >>
    <3>1. out' = out \o eof
      BY <2>1, <2>3, <2>5, ConcatEmptySeq
    <3>2. Appended(eof)
      BY <1>1, <1>2, <1>5, <2>4, <3>1 DEF Appended
    <3> QED BY <1>2, <3>2
  <2>6. CASE piece = <<Torn>>
    <3> DEFINE p == eof \o <<Torn>>
    <3>1. <<Torn>> \in Seq(Token) /\ Len(<<Torn>>) = 1 /\ <<Torn>>[1] = Torn
      BY TornType
    <3>2. out' = out \o p
      <4>1. (out \o eof) \o <<Torn>> = out \o (eof \o <<Torn>>)
        BY <1>2, <2>2, <3>1, ConcatAssociative
      <4> QED BY <2>1, <2>3, <2>6, <4>1
    <3>3. p \in Seq(Token) /\ Len(p) = 2 /\ p[1] = eof[1] /\ p[2] = Torn
      <4>0. eof \in Seq(Token) /\ Len(eof) = 1
        BY <1>2
      <4>1. /\ eof \o <<Torn>> \in Seq(Token)
            /\ Len(eof \o <<Torn>>) = Len(eof) + Len(<<Torn>>)
            /\ \A i \in 1 .. Len(eof) + Len(<<Torn>>) :
                 (eof \o <<Torn>>)[i] = IF i <= Len(eof) THEN eof[i]
                                         ELSE <<Torn>>[i - Len(eof)]
        <5> HIDE DEF eof
        <5>1. <<Torn>> \in Seq(Token)
          BY <3>1
        <5> QED BY ONLY <4>0, <5>1, ConcatProperties
      <4>2. p = eof \o <<Torn>>
        OBVIOUS
      <4> HIDE DEF p
      <4> QED BY <3>1, <4>0, <4>1, <4>2
    <3> HIDE DEF p
    <3>4. p[1].kind = "eofOp" /\ p[2].kind = "torn"
      BY <1>2, <3>3, TornType
    <3>5. ~Whole(p)
      BY <3>3, <3>4 DEF Whole
    <3>6. \A i \in 1 .. Len(p) : p[i].kind \notin {"dbNum", "ttlCount"}
      BY <3>3, <3>4
    <3>7. Appended(p)
      BY <1>1, <1>5, <3>2, <3>3, <3>5, <3>6 DEF Appended
    <3> QED BY <3>3, <3>7
  <2> QED BY <2>1, <2>5, <2>6
<1> QED BY <1>3, <1>4, <1>5 DEF WriteEnd

LEMMA StepAppends ==
    ASSUME TypeOK, Next
    PROVE  \E p \in Seq(Token) : Appended(p)
BY HeaderAppends, AuxAppends, DBHeaderAppends, ObjectAppends, RefusedAppends,
   EndAppends DEF Next

LEMMA FileAfterStep ==
    ASSUME TypeOK, NEW p \in Seq(Token), Appended(p)
    PROVE  /\ Len(out') = Len(out) + Len(p)
           /\ Len(out) \in Nat /\ Len(p) \in Nat
           /\ \A i \in 1 .. Len(out') : out'[i] = IF i <= Len(out) THEN out[i]
                                                 ELSE p[i - Len(out)]
<1>1. out \in Seq(Token)
  BY DEF TypeOK
<1> QED BY <1>1, ConcatProperties DEF Appended

(***************************************************************************)
(* No database is selected twice: every number in the file is reserved in  *)
(* existDB, and a header is written for a number that is not.              *)
(***************************************************************************)
DbReserved ==
    \A i \in 1 .. Len(out) : out[i].kind = "dbNum" => out[i].val \in existDB

LEMMA DbStep ==
    ASSUME TypeOK, DbReserved, DbSelectedOnce, Next
    PROVE  DbReserved' /\ DbSelectedOnce'
<1>1. PICK p \in Seq(Token) : Appended(p)
  BY StepAppends
<1>2. /\ Len(out') = Len(out) + Len(p)
      /\ Len(out) \in Nat /\ Len(p) \in Nat
      /\ \A i \in 1 .. Len(out') : out'[i] = IF i <= Len(out) THEN out[i]
                                            ELSE p[i - Len(out)]
  BY <1>1, FileAfterStep
<1>3. \A i \in 1 .. Len(p) :
          p[i].kind = "dbNum" => i = 2 /\ p[i].val \in existDB' \ existDB
  BY <1>1 DEF Appended
<1>4. existDB \subseteq existDB'
  BY <1>1 DEF Appended
<1>5. ASSUME NEW i \in 1 .. Len(out'), out'[i].kind = "dbNum"
      PROVE  \/ i <= Len(out) /\ out'[i] = out[i] /\ out[i].val \in existDB
             \/ i = Len(out) + 2 /\ out'[i].val \in existDB' \ existDB
  <2>1. CASE i <= Len(out)
    BY <1>2, <1>5, <2>1 DEF DbReserved
  <2>2. CASE i > Len(out)
    <3>1. i - Len(out) \in 1 .. Len(p) /\ out'[i] = p[i - Len(out)]
      BY <1>2, <2>2
    <3>2. i - Len(out) = 2 /\ p[i - Len(out)].val \in existDB' \ existDB
      BY <1>3, <1>5, <3>1
    <3> QED BY <1>2, <3>1, <3>2
  <2> QED BY <1>2, <2>1, <2>2
<1>6. DbReserved'
  BY <1>4, <1>5 DEF DbReserved
<1>7. ASSUME NEW i \in 1 .. Len(out'), NEW j \in 1 .. Len(out'),
             out'[i].kind = "dbNum", out'[j] = out'[i]
      PROVE  i = j
  <2>1. out'[j].kind = "dbNum" /\ out'[j].val = out'[i].val
    BY <1>7
  <2>2. CASE i <= Len(out) /\ j <= Len(out)
    <3>1. i \in 1 .. Len(out) /\ j \in 1 .. Len(out)
      BY <1>2, <2>2
    <3>2. out[i].kind = "dbNum" /\ out[j] = out[i]
      BY <1>2, <1>7, <2>2
    <3> QED BY <3>1, <3>2 DEF DbSelectedOnce
  <2>3. CASE ~(i <= Len(out) /\ j <= Len(out))
    BY <1>2, <1>5, <1>7, <2>1, <2>3
  <2> QED BY <2>2, <2>3
<1> QED BY <1>6, <1>7 DEF DbSelectedOnce

\* existDB is what makes WriteDBHeader refuse a database already in the file,
\* also after a header that failed half-way (encoder.go:205-235).
THEOREM EachDbSelectedOnce == Spec => []DbSelectedOnce
<1>1. Init => DbReserved /\ DbSelectedOnce
  BY DEF Init, DbReserved, DbSelectedOnce
<1>2. TypeOK /\ DbReserved /\ DbSelectedOnce /\ [Next]_vars
          => DbReserved' /\ DbSelectedOnce'
  <2>1. UNCHANGED vars /\ DbReserved /\ DbSelectedOnce => DbReserved' /\ DbSelectedOnce'
    BY DEF vars, DbReserved, DbSelectedOnce
  <2> QED BY <2>1, DbStep
<1> QED BY <1>1, <1>2, TypeCorrect, PTL DEF Spec

(***************************************************************************)
(* No database is left empty: outside the state DBHeader the file does not *)
(* end with a database header, and in it only an object, an expiration or  *)
(* a piece of one is written.                                              *)
(***************************************************************************)
HeaderLeft ==
    state # "DBHeader" => (out = << >> \/ out[Len(out)].kind # "ttlCount")

LEMMA EmptyDBStep ==
    ASSUME TypeOK, HeaderLeft, NoEmptyDB, Next
    PROVE  HeaderLeft' /\ NoEmptyDB'
<1>1. PICK p \in Seq(Token) : Appended(p)
  BY StepAppends
<1>2. /\ Len(out') = Len(out) + Len(p)
      /\ Len(out) \in Nat /\ Len(p) \in Nat
      /\ \A i \in 1 .. Len(out') : out'[i] = IF i <= Len(out) THEN out[i]
                                            ELSE p[i - Len(out)]
  BY <1>1, FileAfterStep
<1>3. \A i \in 1 .. Len(p) :
          p[i].kind = "ttlCount" => i = Len(p) /\ state' = "DBHeader"
  BY <1>1 DEF Appended
<1>4. CASE p = << >>
  <2>1. out \in Seq(Token)
    BY DEF TypeOK
  <2>2. out' = out /\ state' = state
    BY <1>1, <1>4, <2>1, ConcatEmptySeq DEF Appended
  <2> QED BY <2>2 DEF HeaderLeft, NoEmptyDB
<1>5. CASE p # << >>
  <2>1. Len(p) >= 1
    BY <1>2, <1>5
  <2>2. HeaderLeft'
    <3>1. out'[Len(out')] = p[Len(p)]
      BY <1>2, <2>1
    <3>2. state' # "DBHeader" => p[Len(p)].kind # "ttlCount"
      BY <1>2, <1>3, <2>1
    <3> QED BY <3>1, <3>2 DEF HeaderLeft
  <2>3. ASSUME NEW i \in 1 .. Len(out') - 1, out'[i].kind = "ttlCount"
        PROVE  out'[i + 1].kind \in {"msOp", "type", "torn"}
    <3>1. CASE i < Len(out)
      <4>1. out'[i] = out[i] /\ out'[i + 1] = out[i + 1] /\ i \in 1 .. Len(out) - 1
        BY <1>2, <3>1
      <4> QED BY <2>3, <4>1 DEF NoEmptyDB
    <3>2. CASE i = Len(out)
      <4>1. out'[i] = out[Len(out)] /\ out'[i + 1] = p[1] /\ out # << >>
        BY <1>2, <2>1, <3>2
      <4>2. state = "DBHeader"
        BY <2>3, <4>1 DEF HeaderLeft
      <4>3. p[1].kind \in {"msOp", "type", "torn"}
        BY <1>1, <1>5, <4>2 DEF Appended
      <4> QED BY <4>1, <4>3
    <3>3. CASE i > Len(out)
      <4>1. i - Len(out) \in 1 .. Len(p) - 1 /\ out'[i] = p[i - Len(out)]
        BY <1>2, <3>3
      <4>2. p[i - Len(out)].kind # "ttlCount"
        BY <1>2, <1>3, <4>1
      <4> QED BY <2>3, <4>1, <4>2
    <3> QED BY <1>2, <3>1, <3>2, <3>3
  <2> QED BY <2>2, <2>3 DEF NoEmptyDB
<1> QED BY <1>4, <1>5

\* "Do not allow empty db": stateChanges lets only an object or its expiration
\* follow a database header (encoder.go:65-93), also after failed calls.
THEOREM EmptyDBNeverWritten == Spec => []NoEmptyDB
<1>1. Init => HeaderLeft /\ NoEmptyDB
  BY DEF Init, HeaderLeft, NoEmptyDB
<1>2. TypeOK /\ HeaderLeft /\ NoEmptyDB /\ [Next]_vars => HeaderLeft' /\ NoEmptyDB'
  <2>1. UNCHANGED vars /\ HeaderLeft /\ NoEmptyDB => HeaderLeft' /\ NoEmptyDB'
    BY DEF vars, HeaderLeft, NoEmptyDB
  <2> QED BY <2>1, EmptyDBStep
<1> QED BY <1>1, <1>2, TypeCorrect, PTL DEF Spec

(***************************************************************************)
(* The checksum: as long as no torn token is in the file, what it has seen *)
(* is the file; a finished file is that and the checksum itself.           *)
(***************************************************************************)
SumOfFile ==
    Whole(out) =>
        IF state # "End" THEN crc = out
        ELSE /\ out = Append(crc, Tok("crc", 0))
             /\ Len(crc) > 0 /\ crc[Len(crc)] = Tok("eofOp", 0)

LEMMA SumStep ==
    ASSUME TypeOK, SumOfFile, Next
    PROVE  SumOfFile'
<1>1. PICK p \in Seq(Token) : Appended(p)
  BY StepAppends
<1>2. /\ Len(out') = Len(out) + Len(p)
      /\ Len(out) \in Nat /\ Len(p) \in Nat
      /\ \A i \in 1 .. Len(out') : out'[i] = IF i <= Len(out) THEN out[i]
                                            ELSE p[i - Len(out)]
  BY <1>1, FileAfterStep
<1>3. Whole(out)' => Whole(out) /\ Whole(p)
  <2> SUFFICES ASSUME Whole(out)'
               PROVE  Whole(out) /\ Whole(p)
    OBVIOUS
  <2>1. ASSUME NEW i \in 1 .. Len(out)
        PROVE  out[i].kind # "torn"
    <3>1. i \in 1 .. Len(out') /\ out'[i] = out[i]
      BY <1>2
    <3> QED BY <3>1 DEF Whole
  <2>2. ASSUME NEW i \in 1 .. Len(p)
        PROVE  p[i].kind # "torn"
    <3>1. Len(out) + i \in 1 .. Len(out') /\ out'[Len(out) + i] = p[i]
      BY <1>2
    <3> QED BY <3>1 DEF Whole
  <2> QED BY <2>1, <2>2 DEF Whole
<1>4. SUFFICES ASSUME Whole(out)'
               PROVE  IF state' # "End" THEN crc' = out'
                      ELSE /\ out' = Append(crc', Tok("crc", 0))
                           /\ Len(crc') > 0 /\ crc'[Len(crc')] = Tok("eofOp", 0)
  BY DEF SumOfFile
<1>5. crc = out /\ out \in Seq(Token) /\ out' = out \o p
  BY <1>1, <1>3, <1>4 DEF SumOfFile, Appended, TypeOK
<1>6. CASE state' # "End" /\ crc' = crc \o p
  BY <1>5, <1>6
<1>7. CASE /\ state' = "End"
           /\ p = <<Tok("eofOp", 0), Tok("crc", 0)>>
           /\ crc' = Append(crc, Tok("eofOp", 0))
  <2>1. Tok("eofOp", 0) \in Token /\ Tok("crc", 0) \in Token
    BY TokenType DEF Kinds, OpKinds
  <2> DEFINE e == Tok("eofOp", 0)
             c == Tok("crc", 0)
  <2> HIDE DEF e, c
  <2>2. /\ e \in Token /\ c \in Token /\ p = <<e, c>>
        /\ crc' = Append(out, e) /\ out' = out \o <<e, c>>
    BY <1>5, <1>7, <2>1 DEF e, c
  <2>3. out' = Append(crc', c)
    BY <1>5, <2>2
  <2>4. Len(crc') > 0 /\ crc'[Len(crc')] = e
    BY <1>5, <2>2, AppendProperties
  <2> QED BY <1>7, <2>3, <2>4 DEF e, c
<1> QED BY <1>1, <1>3, <1>4, <1>6, <1>7 DEF Appended

\* enc.write updates the checksum after the writer took the bytes, and WriteEnd
\* writes it past the sum (encoder.go:147-157, 238-253): calls that failed before
\* anything of the token was written leave file and checksum in step.
THEOREM ChecksumCoversFile == Spec => []ChecksumValid
<1>1. Init => SumOfFile
  BY DEF Init, SumOfFile
<1>2. TypeOK /\ SumOfFile /\ [Next]_vars => SumOfFile'
  <2>1. UNCHANGED vars /\ SumOfFile => SumOfFile'
    BY DEF vars, SumOfFile, Whole
  <2> QED BY <2>1, SumStep
<1>3. SumOfFile => ChecksumValid
  BY DEF SumOfFile, ChecksumValid, Whole, Tok
<1> QED BY <1>1, <1>2, <1>3, TypeCorrect, PTL DEF Spec

(***************************************************************************)
(* The grammar.  Item(p): what a call writes when no write fails is a      *)
(* whole item of the format, or the header, or the end.                    *)
(***************************************************************************)
Item(p) ==
    /\ Len(p) > 0
    /\ \A i \in 1 .. Len(p) - 1 : Follows(p[i].kind, p[i + 1].kind)
    /\ IF state = "Start" THEN p[1].kind = "magic" ELSE p[1].kind \in OpKinds
    /\ state # "End" /\ state' # "Start"
    /\ state' # "End" => p[Len(p)].kind \in Starters

LEMMA NoFault ==
    ASSUME TypeOK, faults' = 0
    PROVE  \A toks : ~WriteFails(toks) /\ \A n : ~FailAfter(toks, n)
BY DEF TypeOK, WriteFails, FailAfter

LEMMA StepFaults ==
    ASSUME TypeOK, Next, faults' = 0
    PROVE  faults = 0
<1>1. \A toks : WriteAll(toks) => faults' = faults
  BY DEF WriteAll
<1>2. CASE WriteHeader
  BY <1>1, <1>2, NoFault DEF WriteHeader
<1>3. CASE WriteEnd
  BY <1>3, NoFault DEF WriteEnd, TypeOK
<1>4. ASSUME NEW k \in Keys, NEW v \in Values, WriteAux(k, v)
      PROVE  faults = 0
  BY <1>1, <1>4, NoFault DEF WriteAux
<1>5. ASSUME NEW db \in DBs, WriteDBHeader(db)
      PROVE  faults = 0
  BY <1>1, <1>5, NoFault DEF WriteDBHeader
<1>6. ASSUME NEW opts \in Options, WriteObjectRefused(opts)
      PROVE  faults = 0
  BY <1>6, NoFault DEF WriteObjectRefused
<1>7. ASSUME NEW t, NEW flag, NEW k, NEW v, NEW opts,
             WriteObject(t, flag, k, v, opts)
      PROVE  faults = 0
  BY <1>1, <1>7, NoFault DEF WriteObject
<1> QED BY <1>2, <1>3, <1>4, <1>5, <1>6, <1>7 DEF Next

LEMMA FollowsTable ==
    /\ Follows("auxOp", "auxKey") /\ Follows("auxKey", "auxVal")
    /\ Follows("dbOp", "dbNum") /\ Follows("dbNum", "resizeOp")
    /\ Follows("resizeOp", "keyCount") /\ Follows("keyCount", "ttlCount")
    /\ Follows("msOp", "ms") /\ Follows("ms", "type") /\ Follows("type", "key")
    /\ Follows("key", "value") /\ Follows("eofOp", "crc")
BY DEF Follows, OperandAfter, Starters, OpKinds

LEMMA KindsOfEnds ==
    /\ {"auxOp", "dbOp", "msOp", "type", "eofOp"} \subseteq OpKinds
    /\ {"magic", "auxVal", "ttlCount", "ms", "value"} \subseteq Starters
BY DEF OpKinds, Starters

LEMMA ObjectItem ==
    ASSUME TypeOK, NEW t \in ObjTypes, NEW flag \in Encodings[t],
           NEW k \in Keys, NEW v \in Values, NEW opts \in Options,
           WriteObject(t, flag, k, v, opts), faults' = 0
    PROVE  \E p \in Seq(Token) : out' = out \o p /\ Item(p)
<1> DEFINE ttl == IF opts = << >> THEN << >> ELSE TTLTokens(opts[1])
           obj == ObjectTokens(flag, k, v)
           toks == ttl \o obj
<1>1. out' = out \o toks /\ state' = "Object"
  <2>1. \/ WriteAll(toks) /\ state' = "Object"
        \/ \E n \in 0 .. Len(toks) - 1 : FailAfter(toks, n)
    BY DEF WriteObject
  <2> HIDE DEF toks
  <2> QED BY <2>1, NoFault DEF WriteAll
<1>2. state # "Start" /\ state # "End"
  <2>1. Allowed("Object")
    BY DEF WriteObject
  <2> QED BY <2>1 DEF Allowed, StateChanges, TypeOK, States
<1>3. flag \in Nat /\ k \in Nat /\ v \in Nat
  BY EncodingsType, EncoderAssumption
<1>4. /\ obj \in Seq(Token) /\ Len(obj) = 3 /\ obj[1].kind = "type"
      /\ obj[2].kind = "key" /\ obj[3].kind = "value"
  BY <1>3, CallTokensType DEF ObjectTokens, Tok
<1> HIDE DEF obj
<1>5. CASE opts = << >>
  <2>1. toks = obj
    BY <1>4, <1>5, ConcatEmptySeq
  <2>2. \A i \in 1 .. Len(obj) - 1 : i = 1 \/ i = 2
    BY <1>4
  <2>3. \A i \in 1 .. Len(obj) - 1 : Follows(obj[i].kind, obj[i + 1].kind)
    BY <1>4, <2>2, FollowsTable
  <2> HIDE DEF toks
  <2>4. Item(obj)
    BY <1>1, <1>2, <1>4, <2>3, KindsOfEnds DEF Item
  <2> QED BY <1>1, <1>4, <2>1, <2>4
<1>6. CASE opts # << >>
  <2>1. opts[1] \in Nat
    BY <1>6, OptionsType
  <2>2. ttl \in Seq(Token) /\ Len(ttl) = 2 /\ ttl[1].kind = "msOp" /\ ttl[2].kind = "ms"
    BY <1>6, <2>1, CallTokensType DEF TTLTokens, Tok
  <2> HIDE DEF ttl
  <2>3. /\ toks \in Seq(Token) /\ Len(toks) = 5
        /\ toks[1] = ttl[1] /\ toks[2] = ttl[2]
        /\ toks[3] = obj[1] /\ toks[4] = obj[2] /\ toks[5] = obj[3]
    BY <1>4, <2>2, OptionAndObject
  <2>4. toks[1].kind = "msOp" /\ toks[2].kind = "ms" /\ toks[3].kind = "type"
            /\ toks[4].kind = "key" /\ toks[5].kind = "value"
    BY <1>4, <2>2, <2>3
  <2> HIDE DEF toks
  <2>5. \A i \in 1 .. Len(toks) - 1 : i = 1 \/ i = 2 \/ i = 3 \/ i = 4
    BY <2>3
  <2>6. \A i \in 1 .. Len(toks) - 1 : Follows(toks[i].kind, toks[i + 1].kind)
    BY <2>4, <2>5, FollowsTable
  <2>7. Item(toks)
    BY <1>1, <1>2, <2>3, <2>4, <2>6, KindsOfEnds DEF Item
  <2> QED BY <1>1, <2>3, <2>7
<1> QED BY <1>5, <1>6

LEMMA CallItem ==
    ASSUME TypeOK, Next, faults' = 0
    PROVE  \E p \in Seq(Token) : out' = out \o p /\ Item(p)
<1>1. CASE WriteHeader
  <2>1. out' = out \o HeaderTokens /\ state = "Start" /\ state' = "Header"
    <3>1. out' = out \o HeaderTokens /\ state' = "Header" /\ Allowed("Header")
      BY <1>1, NoFault DEF WriteHeader, WriteAll
    <3>2. "Header" \in StateChanges[state]
      BY <3>1 DEF Allowed
    <3>3. state = "Start"
      BY <3>2 DEF StateChanges, TypeOK, States
    <3> QED BY <3>1, <3>3
  <2>2. Len(HeaderTokens) = 1 /\ HeaderTokens[1].kind = "magic"
    BY DEF HeaderTokens, Tok
  <2>3. Item(HeaderTokens)
    BY <2>1, <2>2, KindsOfEnds DEF Item
  <2> QED BY <2>1, <2>3, CallTokensType
<1>2. ASSUME NEW k \in Keys, NEW v \in Values, WriteAux(k, v)
      PROVE  \E p \in Seq(Token) : out' = out \o p /\ Item(p)
  <2> DEFINE toks == AuxTokens(k, v)
  <2>1. /\ toks \in Seq(Token) /\ Len(toks) = 3 /\ toks[1].kind = "auxOp"
        /\ toks[2].kind = "auxKey" /\ toks[3].kind = "auxVal"
    BY CallTokensType, EncoderAssumption DEF AuxTokens, Tok
  <2>2. out' = out \o toks /\ state' = "Aux"
    BY <1>2, NoFault DEF WriteAux, WriteAll
  <2>3. state # "Start" /\ state # "End"
    BY <1>2 DEF WriteAux, Allowed, StateChanges, TypeOK, States
  <2> HIDE DEF toks
  <2>4. \A i \in 1 .. Len(toks) - 1 : i = 1 \/ i = 2
    BY <2>1
  <2>5. \A i \in 1 .. Len(toks) - 1 : Follows(toks[i].kind, toks[i + 1].kind)
    BY <2>1, <2>4, FollowsTable
  <2>6. Item(toks)
    BY <2>1, <2>2, <2>3, <2>5, KindsOfEnds DEF Item
  <2> QED BY <2>1, <2>2, <2>6
<1>3. ASSUME NEW db \in DBs, WriteDBHeader(db)
      PROVE  \E p \in Seq(Token) : out' = out \o p /\ Item(p)
  <2> DEFINE toks == DBHeaderTokens(db)
  <2>1. /\ toks \in Seq(Token) /\ Len(toks) = 5 /\ toks[1].kind = "dbOp"
        /\ toks[2].kind = "dbNum" /\ toks[3].kind = "resizeOp"
        /\ toks[4].kind = "keyCount" /\ toks[5].kind = "ttlCount"
    BY CallTokensType, EncoderAssumption DEF DBHeaderTokens, Tok
  <2>2. out' = out \o toks /\ state' = "DBHeader"
    BY <1>3, NoFault DEF WriteDBHeader, WriteAll
  <2>3. state # "Start" /\ state # "End"
    BY <1>3 DEF WriteDBHeader, Allowed, StateChanges, TypeOK, States
  <2> HIDE DEF toks
  <2>4. \A i \in 1 .. Len(toks) - 1 : i = 1 \/ i = 2 \/ i = 3 \/ i = 4
    BY <2>1
  <2>5. \A i \in 1 .. Len(toks) - 1 : Follows(toks[i].kind, toks[i + 1].kind)
    BY <2>1, <2>4, FollowsTable
  <2>6. Item(toks)
    BY <2>1, <2>2, <2>3, <2>5, KindsOfEnds DEF Item
  <2> QED BY <2>1, <2>2, <2>6
<1>4. ASSUME NEW opts \in Options, WriteObjectRefused(opts)
      PROVE  \E p \in Seq(Token) : out' = out \o p /\ Item(p)
  <2> DEFINE toks == TTLTokens(opts[1])
  <2>1. opts[1] \in Nat
    BY <1>4, OptionsType DEF WriteObjectRefused
  <2>2. /\ toks \in Seq(Token) /\ Len(toks) = 2
        /\ toks[1].kind = "msOp" /\ toks[2].kind = "ms"
    BY <2>1, CallTokensType DEF TTLTokens, Tok
  <2>3. out' = out \o toks /\ state' = "TTL" /\ Allowed("TTL")
    BY <1>4, NoFault DEF WriteObjectRefused
  <2>4. state # "Start" /\ state # "End"
    BY <2>3 DEF Allowed, StateChanges, TypeOK, States
  <2> HIDE DEF toks
  <2>5. \A i \in 1 .. Len(toks) - 1 : i = 1
    BY <2>2
  <2>6. \A i \in 1 .. Len(toks) - 1 : Follows(toks[i].kind, toks[i + 1].kind)
    BY <2>2, <2>5, FollowsTable
  <2>7. Item(toks)
    BY <2>2, <2>3, <2>4, <2>6, KindsOfEnds DEF Item
  <2> QED BY <2>2, <2>3, <2>7
<1>5. CASE WriteEnd
  <2> DEFINE toks == <<Tok("eofOp", 0), Tok("crc", 0)>>
  <2>1. /\ toks \in Seq(Token) /\ Len(toks) = 2
        /\ toks[1].kind = "eofOp" /\ toks[2].kind = "crc"
    BY CallTokensType DEF Tok
  <2>2. out' = out \o toks /\ state' = "End"
    BY <1>5, NoFault DEF WriteEnd, TypeOK
  <2>3. Allowed("End")
    BY <1>5 DEF WriteEnd
  <2>4. state # "Start" /\ state # "End"
    BY <2>3 DEF Allowed, StateChanges, TypeOK, States
  <2> HIDE DEF toks
  <2>5. \A i \in 1 .. Len(toks) - 1 : i = 1
    BY <2>1
  <2>6. \A i \in 1 .. Len(toks) - 1 : Follows(toks[i].kind, toks[i + 1].kind)
    BY <2>1, <2>5, FollowsTable
  <2>7. Item(toks)
    BY <2>1, <2>2, <2>4, <2>6, KindsOfEnds DEF Item
  <2> QED BY <2>1, <2>2, <2>7
<1> QED BY <1>1, <1>2, <1>3, <1>4, <1>5, ObjectItem DEF Next

(***************************************************************************)
(* Between calls the file is empty or ends with a whole item.              *)
(***************************************************************************)
Boundary ==
    faults = 0 => /\ WellFormed(out)
                  /\ state = "Start" <=> out = << >>
                  /\ state \notin {"Start", "End"} => out[Len(out)].kind \in Starters

LEMMA GrammarStep ==
    ASSUME TypeOK, Boundary, Next
    PROVE  Boundary'
<1>1. SUFFICES ASSUME faults' = 0
               PROVE  Boundary'
  BY DEF Boundary
<1>2. faults = 0
  BY <1>1, StepFaults
<1>3. PICK p \in Seq(Token) : out' = out \o p /\ Item(p)
  BY <1>1, CallItem
<1>4. out \in Seq(Token)
  BY DEF TypeOK
<1>5. /\ Len(out') = Len(out) + Len(p) /\ Len(out) \in Nat /\ Len(p) \in Nat
      /\ \A i \in 1 .. Len(out') : out'[i] = IF i <= Len(out) THEN out[i]
                                            ELSE p[i - Len(out)]
  BY <1>3, <1>4, ConcatProperties
<1>6. Len(p) > 0
  BY <1>3 DEF Item
<1>7. out' # << >> /\ out'[Len(out')] = p[Len(p)]
  BY <1>5, <1>6
<1>8. out'[1].kind = "magic"
  <2>1. CASE out = << >>
    BY <1>2, <1>3, <1>5, <1>6, <2>1 DEF Boundary, Item
  <2>2. CASE out # << >>
    <3>1. out'[1] = out[1]
      BY <1>5, <1>6, <2>2
    <3> QED BY <1>2, <2>2, <3>1 DEF Boundary, WellFormed
  <2> QED BY <2>1, <2>2
<1>9. ASSUME NEW i \in 1 .. Len(out') - 1
      PROVE  Follows(out'[i].kind, out'[i + 1].kind)
  <2>1. CASE i < Len(out)
    <3>1. out'[i] = out[i] /\ out'[i + 1] = out[i + 1] /\ i \in 1 .. Len(out) - 1
      BY <1>5, <2>1
    <3> QED BY <1>2, <3>1 DEF Boundary, WellFormed
  <2>2. CASE i = Len(out)
    <3>1. out'[i] = out[Len(out)] /\ out'[i + 1] = p[1] /\ out # << >>
      BY <1>5, <1>6, <2>2
    <3>2. out[Len(out)].kind \in Starters /\ p[1].kind \in OpKinds
      BY <1>2, <1>3, <3>1 DEF Boundary, Item
    <3> QED BY <3>1, <3>2 DEF Follows
  <2>3. CASE i > Len(out)
    <3>1. /\ i - Len(out) \in 1 .. Len(p) - 1
          /\ out'[i] = p[i - Len(out)] /\ out'[i + 1] = p[i - Len(out) + 1]
      BY <1>5, <2>3
    <3> QED BY <1>3, <3>1 DEF Item
  <2> QED BY <1>5, <2>1, <2>2, <2>3
<1>10. state' # "Start"
  BY <1>3 DEF Item
<1>11. state' # "End" => p[Len(p)].kind \in Starters
  BY <1>3 DEF Item
<1> QED BY <1>7, <1>8, <1>9, <1>10, <1>11 DEF Boundary, WellFormed

\* As long as no write fails the file is at every moment the beginning of a
\* file in the format, in whatever order the caller calls the encoder
\* (encoder.go:65-93, 162-294).
THEOREM FileInGrammar == Spec => []GrammarKept
<1>1. Init => Boundary
  BY DEF Init, Boundary, WellFormed
<1>2. TypeOK /\ Boundary /\ [Next]_vars => Boundary'
  <2>1. UNCHANGED vars /\ Boundary => Boundary'
    BY DEF vars, Boundary, WellFormed
  <2> QED BY <2>1, GrammarStep
<1>3. Boundary => GrammarKept
  BY DEF Boundary, GrammarKept
<1> QED BY <1>1, <1>2, <1>3, TypeCorrect, PTL DEF Spec

-----------------------------------------------------------------------------
(***************************************************************************)
(* What a reader finds in a file is what the acknowledged calls passed     *)
(* (FileAsAcked).  What is in force at a place is a CHOOSE; the invariant  *)
(* names the token that gives it instead (Says), which more tokens at the  *)
(* end cannot change.                                                      *)
(***************************************************************************)
(***************************************************************************)
(* v is what s says at place i through the tokens of the given kinds       *)
(* behind `from'; o is the last value before place i.                      *)
(***************************************************************************)
Silent(s, from, i, kinds) == \A j \in from + 1 .. i - 1 : s[j].kind \notin kinds

Says(s, from, i, kinds, default, v) ==
    \/ Silent(s, from, i, kinds) /\ v = default
    \/ \E j \in from + 1 .. i - 1 :
           /\ s[j].kind \in kinds /\ s[j].val = v
           /\ Silent(s, j, i, kinds)

LastObject(s, i, o) ==
    /\ o \in Nat /\ Silent(s, o, i, {"value"})
    /\ o = 0 \/ (o < i /\ s[o].kind = "value")

LEMMA GreatestIs ==
    ASSUME NEW js, NEW j \in js, js \subseteq Int, \A m \in js : m <= j
    PROVE  (CHOOSE x \in js : \A m \in js : m <= x) = j
<1>1. \A x \in js : (\A m \in js : m <= x) => x = j
  OBVIOUS
<1> QED
  BY <1>1, Zenon

LEMMA SaysInForce ==
    ASSUME NEW s, NEW from \in Nat, NEW i \in Nat, NEW kinds, NEW default, NEW v,
           Says(s, from, i, kinds, default, v)
    PROVE  InForce(s, from, i, kinds, default) = v
<1> DEFINE js == {j \in from + 1 .. i - 1 : s[j].kind \in kinds}
<1>1. CASE Silent(s, from, i, kinds) /\ v = default
  <2>1. js = {}
    BY <1>1 DEF Silent
  <2> QED
    BY <1>1, <2>1, Zenon DEF InForce
<1>2. CASE \E j \in from + 1 .. i - 1 :
               s[j].kind \in kinds /\ s[j].val = v /\ Silent(s, j, i, kinds)
  <2>1. PICK j \in from + 1 .. i - 1 :
               s[j].kind \in kinds /\ s[j].val = v /\ Silent(s, j, i, kinds)
    BY <1>2
  <2>2. j \in js /\ js \subseteq Int
    BY <2>1
  <2>3. \A m \in js : m <= j
    BY <2>1 DEF Silent
  <2>4. InForce(s, from, i, kinds, default)
            = IF js = {} THEN default ELSE s[CHOOSE x \in js : \A m \in js : m <= x].val
    BY Zenon DEF InForce
  <2> HIDE DEF js
  <2>5. (CHOOSE x \in js : \A m \in js : m <= x) = j
    BY <2>2, <2>3, GreatestIs
  <2> QED
    BY <2>1, <2>2, <2>4, <2>5, Zenon
<1> QED
  BY <1>1, <1>2 DEF Says

LEMMA LastObjectBefore ==
    ASSUME NEW s, NEW i \in Nat, NEW o, LastObject(s, i, o)
    PROVE  ObjectBefore(s, i) = o
<1> DEFINE js == {j \in 1 .. i - 1 : s[j].kind = "value"}
<1>1. ObjectBefore(s, i)
          = IF js = {} THEN 0 ELSE CHOOSE x \in js : \A m \in js : m <= x
  BY Zenon DEF ObjectBefore
<1>2. CASE o = 0
  <2>1. js = {}
    BY <1>2 DEF LastObject, Silent
  <2> QED
    BY <1>1, <1>2, <2>1, Zenon
<1>3. CASE o # 0
  <2>1. o \in js /\ js \subseteq Int /\ \A m \in js : m <= o
    BY <1>3 DEF LastObject, Silent
  <2> HIDE DEF js
  <2>2. (CHOOSE x \in js : \A m \in js : m <= x) = o
    BY <2>1, GreatestIs
  <2> QED
    BY <1>1, <2>1, <2>2, Zenon
<1> QED
  BY <1>2, <1>3

(***************************************************************************)
(* More tokens at the end change nothing before them, and silent ones      *)
(* nothing behind them either.                                             *)
(***************************************************************************)
Begins(s, t) == Len(s) <= Len(t) /\ \A j \in 1 .. Len(s) : t[j] = s[j]

LEMMA SilentKept ==
    ASSUME NEW s \in Seq(Token), NEW t \in Seq(Token), Begins(s, t),
           NEW from \in Nat, NEW i \in 0 .. Len(s) + 1, NEW kinds,
           Silent(s, from, i, kinds)
    PROVE  Silent(t, from, i, kinds)
BY DEF Silent, Begins

LEMMA SaysKept ==
    ASSUME NEW s \in Seq(Token), NEW t \in Seq(Token), Begins(s, t),
           NEW from \in Nat, NEW i \in 0 .. Len(s) + 1, NEW kinds, NEW default, NEW v,
           Says(s, from, i, kinds, default, v)
    PROVE  Says(t, from, i, kinds, default, v)
<1>1. CASE Silent(s, from, i, kinds) /\ v = default
  BY <1>1, SilentKept DEF Says
<1>2. CASE \E j \in from + 1 .. i - 1 :
               s[j].kind \in kinds /\ s[j].val = v /\ Silent(s, j, i, kinds)
  <2>1. PICK j \in from + 1 .. i - 1 :
               s[j].kind \in kinds /\ s[j].val = v /\ Silent(s, j, i, kinds)
    BY <1>2
  <2>2. j \in Nat /\ j \in 1 .. Len(s)
    OBVIOUS
  <2>3. Silent(t, j, i, kinds)
    BY <2>1, <2>2, SilentKept
  <2>4. t[j] = s[j]
    BY <2>2 DEF Begins
  <2> QED
    BY <2>1, <2>3, <2>4, Zenon DEF Says
<1> QED
  BY <1>1, <1>2 DEF Says

LEMMA LastObjectKept ==
    ASSUME NEW s \in Seq(Token), NEW t \in Seq(Token), Begins(s, t),
           NEW i \in 0 .. Len(s) + 1, NEW o, LastObject(s, i, o)
    PROVE  LastObject(t, i, o)
<1>1. Silent(t, o, i, {"value"})
  BY SilentKept DEF LastObject
<1>2. o # 0 => o \in 1 .. Len(s)
  BY DEF LastObject
<1>3. o # 0 => t[o] = s[o]
  BY <1>2 DEF Begins
<1> QED
  BY <1>1, <1>3 DEF LastObject

\* None of the kinds in the places from i to before k.
Quiet(t, i, k, kinds) == \A j \in i .. k - 1 : t[j].kind \notin kinds

LEMMA SilentOn ==
    ASSUME NEW t, NEW from \in Nat, NEW i \in Nat, NEW k \in Nat, NEW kinds,
           Silent(t, from, i, kinds), Quiet(t, i, k, kinds)
    PROVE  Silent(t, from, k, kinds)
BY DEF Silent, Quiet

LEMMA SaysOn ==
    ASSUME NEW t, NEW from \in Nat, NEW i \in Nat, NEW k \in Nat, i <= k,
           NEW kinds, NEW default, NEW v,
           Says(t, from, i, kinds, default, v), Quiet(t, i, k, kinds)
    PROVE  Says(t, from, k, kinds, default, v)
<1>1. CASE Silent(t, from, i, kinds) /\ v = default
  BY <1>1, SilentOn DEF Says
<1>2. CASE \E j \in from + 1 .. i - 1 :
               t[j].kind \in kinds /\ t[j].val = v /\ Silent(t, j, i, kinds)
  <2>1. PICK j \in from + 1 .. i - 1 :
               t[j].kind \in kinds /\ t[j].val = v /\ Silent(t, j, i, kinds)
    BY <1>2
  <2>2. j \in Nat /\ j \in from + 1 .. k - 1
    OBVIOUS
  <2>3. Silent(t, j, k, kinds)
    BY <2>1, <2>2, SilentOn
  <2> QED
    BY <2>1, <2>2, <2>3, Zenon DEF Says
<1> QED
  BY <1>1, <1>2 DEF Says

LEMMA LastObjectOn ==
    ASSUME NEW t, NEW i \in Nat, NEW k \in Nat, i <= k, NEW o,
           LastObject(t, i, o), Quiet(t, i, k, {"value"})
    PROVE  LastObject(t, k, o)
<1>1. Silent(t, o, k, {"value"})
  BY SilentOn DEF LastObject
<1> QED
  BY <1>1 DEF LastObject

-----------------------------------------------------------------------------
(***************************************************************************)
(* The inductive invariant.  As long as no call failed half-way, the end   *)
(* of the file is in the caller's database and has no expiration pending,  *)
(* the value of each acknowledged call is where its record says, under the *)
(* call's own database and expiration, and there are no other values.      *)
(***************************************************************************)
Carried(s, r) ==
    /\ r.at > 2 /\ r.at <= Len(s)
    /\ s[r.at] = Tok("value", r.value)
    /\ s[r.at - 1] = Tok("key", r.key)
    /\ s[r.at - 2] \in {Tok("type", f) : f \in Encodings[r.type]}
    /\ Says(s, 0, r.at, {"dbNum"}, 0, r.db)
    /\ \E o \in Nat : /\ LastObject(s, r.at, o)
                      /\ Says(s, o, r.at, {"ms"}, None, r.ms)

EndInDb == Says(out, 0, Len(out) + 1, {"dbNum"}, 0, callerDB)

NothingPending ==
    \E o \in Nat : /\ LastObject(out, Len(out) + 1, o)
                   /\ Silent(out, o, Len(out) + 1, {"ms"})

AllCarried == \A n \in 1 .. Len(acked) : Carried(out, acked[n])

NoOther == \A i \in 1 .. Len(out) :
               out[i].kind = "value" => \E n \in 1 .. Len(acked) : acked[n].at = i

InOrder == \A m, n \in 1 .. Len(acked) : m < n => acked[m].at < acked[n].at

FileSays == EndInDb /\ NothingPending /\ AllCarried /\ NoOther /\ InOrder

AckInv == ~dirty => FileSays

LEMMA CarriedKept ==
    ASSUME NEW s \in Seq(Token), NEW t \in Seq(Token), Begins(s, t),
           NEW r \in AckedCall, Carried(s, r)
    PROVE  Carried(t, r)
<1>1. r.at \in Nat /\ r.at \in 0 .. Len(s) + 1 /\ r.at > 2 /\ r.at <= Len(s)
  BY DEF Carried, AckedCall
<1>2. t[r.at] = s[r.at] /\ t[r.at - 1] = s[r.at - 1] /\ t[r.at - 2] = s[r.at - 2]
  BY <1>1 DEF Begins
<1>3. Says(t, 0, r.at, {"dbNum"}, 0, r.db)
  BY <1>1, SaysKept DEF Carried
<1>4. PICK o \in Nat : LastObject(s, r.at, o) /\ Says(s, o, r.at, {"ms"}, None, r.ms)
  BY DEF Carried
<1>5. LastObject(t, r.at, o) /\ Says(t, o, r.at, {"ms"}, None, r.ms)
  BY <1>1, <1>4, SaysKept, LastObjectKept
<1>6. r.at <= Len(t)
  BY <1>1 DEF Begins
<1> QED
  BY <1>1, <1>2, <1>3, <1>5, <1>6 DEF Carried

LEMMA Longer ==
    ASSUME NEW s \in Seq(Token), NEW p \in Seq(Token)
    PROVE  /\ s \o p \in Seq(Token)
           /\ Begins(s, s \o p)
           /\ Len(s \o p) = Len(s) + Len(p)
           /\ \A i \in 1 .. Len(p) : (s \o p)[Len(s) + i] = p[i]
<1> DEFINE t == s \o p
<1>1. /\ t \in Seq(Token) /\ Len(t) = Len(s) + Len(p)
      /\ \A i \in 1 .. Len(s) + Len(p) :
             t[i] = IF i <= Len(s) THEN s[i] ELSE p[i - Len(s)]
  BY ConcatProperties, Zenon
<1> HIDE DEF t
<1>2. \A i \in 1 .. Len(p) : t[Len(s) + i] = p[i]
  BY <1>1, SMTT(20)
<1>3. Begins(s, t)
  BY <1>1 DEF Begins
<1> QED
  BY <1>1, <1>2, <1>3 DEF t

(***************************************************************************)
(* A call that writes no object.                                           *)
(***************************************************************************)
LEMMA OtherCall ==
    ASSUME TypeOK, FileSays, NEW p \in Seq(Token), out' = out \o p, acked' = acked,
           \A i \in 1 .. Len(p) : p[i].kind \notin {"ms", "value"},
           EndInDb'
    PROVE  FileSays'
<1>1. /\ out \in Seq(Token) /\ out' \in Seq(Token) /\ Begins(out, out')
      /\ Len(out') = Len(out) + Len(p)
      /\ \A i \in 1 .. Len(p) : out'[Len(out) + i] = p[i]
  BY Longer DEF TypeOK
<1>2. Quiet(out', Len(out) + 1, Len(out') + 1, {"ms", "value"})
  <2> SUFFICES ASSUME NEW j \in Len(out) + 1 .. (Len(out') + 1) - 1
               PROVE  out'[j].kind \notin {"ms", "value"}
    BY DEF Quiet
  <2>1. j - Len(out) \in 1 .. Len(p) /\ j = Len(out) + (j - Len(out))
    BY <1>1
  <2> QED
    BY <1>1, <2>1
<1>3. NothingPending'
  <2>1. PICK o \in Nat : /\ LastObject(out, Len(out) + 1, o)
                         /\ Silent(out, o, Len(out) + 1, {"ms"})
    BY DEF FileSays, NothingPending
  <2>2. /\ LastObject(out', Len(out) + 1, o)
        /\ Silent(out', o, Len(out) + 1, {"ms"})
    <3>1. Len(out) + 1 \in 0 .. Len(out) + 1
      BY <1>1
    <3> QED
      BY <1>1, <2>1, <3>1, LastObjectKept, SilentKept
  <2>3. /\ Quiet(out', Len(out) + 1, Len(out') + 1, {"ms"})
        /\ Quiet(out', Len(out) + 1, Len(out') + 1, {"value"})
    BY <1>2 DEF Quiet
  <2>4. Len(out) + 1 \in Nat /\ Len(out') + 1 \in Nat /\ Len(out) + 1 <= Len(out') + 1
    BY <1>1
  <2>5. /\ LastObject(out', Len(out') + 1, o)
        /\ Silent(out', o, Len(out') + 1, {"ms"})
    BY <2>2, <2>3, <2>4, LastObjectOn, SilentOn
  <2> QED
    BY <2>5 DEF NothingPending
<1>4. AllCarried'
  <2>1. \A n \in 1 .. Len(acked) : acked[n] \in AckedCall
    BY DEF TypeOK
  <2>2. \A n \in 1 .. Len(acked) : Carried(out', acked[n])
    BY <1>1, <2>1, CarriedKept DEF FileSays, AllCarried
  <2> QED
    BY <2>2 DEF AllCarried
<1>5. NoOther'
  <2> SUFFICES ASSUME NEW i \in 1 .. Len(out'), out'[i].kind = "value"
               PROVE  \E n \in 1 .. Len(acked) : acked[n].at = i
    BY DEF NoOther
  <2>1. i \in 1 .. Len(out)
    BY <1>1, <1>2 DEF Quiet
  <2>2. out[i].kind = "value"
    BY <1>1, <2>1 DEF Begins
  <2> QED
    BY <2>1, <2>2 DEF FileSays, NoOther
<1>6. InOrder'
  BY DEF FileSays, InOrder
<1> QED
  BY <1>3, <1>4, <1>5, <1>6 DEF FileSays

LEMMA SameDb ==
    ASSUME TypeOK, FileSays, NEW p \in Seq(Token), out' = out \o p,
           callerDB' = callerDB, \A i \in 1 .. Len(p) : p[i].kind # "dbNum"
    PROVE  EndInDb'
<1>1. /\ out \in Seq(Token) /\ out' \in Seq(Token) /\ Begins(out, out')
      /\ Len(out') = Len(out) + Len(p)
      /\ \A i \in 1 .. Len(p) : out'[Len(out) + i] = p[i]
  BY Longer DEF TypeOK
<1>2. Quiet(out', Len(out) + 1, Len(out') + 1, {"dbNum"})
  <2> SUFFICES ASSUME NEW j \in Len(out) + 1 .. (Len(out') + 1) - 1
               PROVE  out'[j].kind # "dbNum"
    BY DEF Quiet
  <2>1. j - Len(out) \in 1 .. Len(p) /\ j = Len(out) + (j - Len(out))
    BY <1>1
  <2> QED
    BY <1>1, <2>1
<1>3. Says(out', 0, Len(out) + 1, {"dbNum"}, 0, callerDB)
  <2>1. Len(out) + 1 \in 0 .. Len(out) + 1 /\ 0 \in Nat
    BY <1>1
  <2>2. Says(out, 0, Len(out) + 1, {"dbNum"}, 0, callerDB)
    BY DEF FileSays, EndInDb
  <2> QED
    BY <1>1, <2>1, <2>2, SaysKept
<1>4. Len(out) + 1 \in Nat /\ Len(out') + 1 \in Nat /\ Len(out) + 1 <= Len(out') + 1
  BY <1>1
<1>5. Says(out', 0, Len(out') + 1, {"dbNum"}, 0, callerDB)
  BY <1>2, <1>3, <1>4, SaysOn
<1> QED
  BY <1>5 DEF EndInDb

LEMMA NewDb ==
    ASSUME TypeOK, NEW db \in Nat, out' = out \o DBHeaderTokens(db), callerDB' = db
    PROVE  EndInDb'
<1> DEFINE p == DBHeaderTokens(db)
<1>1. p \in Seq(Token) /\ Len(p) = 5
  BY CallTokensType DEF DBHeaderTokens
<1>2. /\ p[1].kind = "dbOp" /\ p[2].kind = "dbNum" /\ p[2].val = db
      /\ p[3].kind = "resizeOp" /\ p[4].kind = "keyCount" /\ p[5].kind = "ttlCount"
  BY DEF DBHeaderTokens, Tok
<1> HIDE DEF p
<1>3. /\ out \in Seq(Token) /\ out' \in Seq(Token)
      /\ Len(out') = Len(out) + 5
      /\ \A i \in 1 .. 5 : out'[Len(out) + i] = p[i]
  <2>1. out' = out \o p /\ out \in Seq(Token)
    BY DEF p, TypeOK
  <2>2. /\ out' \in Seq(Token) /\ Len(out') = Len(out) + Len(p)
        /\ \A i \in 1 .. Len(p) : out'[Len(out) + i] = p[i]
    <3>1. /\ out \o p \in Seq(Token) /\ Len(out \o p) = Len(out) + Len(p)
          /\ \A i \in 1 .. Len(p) : (out \o p)[Len(out) + i] = p[i]
      BY ONLY <1>1, <2>1, Longer
    <3> QED
      BY <2>1, <3>1, Zenon
  <2> QED
    BY <1>1, <2>1, <2>2
<1>4. LET j == Len(out) + 2
      IN /\ j \in 1 .. (Len(out') + 1) - 1
         /\ out'[j].kind = "dbNum" /\ out'[j].val = db
         /\ Silent(out', j, Len(out') + 1, {"dbNum"})
  <2>1. \A m \in (Len(out) + 2) + 1 .. (Len(out') + 1) - 1 :
            m = Len(out) + 3 \/ m = Len(out) + 4 \/ m = Len(out) + 5
    BY <1>3
  <2>2. /\ out'[Len(out) + 3].kind = "resizeOp"
        /\ out'[Len(out) + 4].kind = "keyCount"
        /\ out'[Len(out) + 5].kind = "ttlCount"
    BY <1>2, <1>3
  <2>3. Silent(out', Len(out) + 2, Len(out') + 1, {"dbNum"})
    BY <2>1, <2>2 DEF Silent
  <2> QED
    BY <1>2, <1>3, <2>3
<1>5. Says(out', 0, Len(out') + 1, {"dbNum"}, 0, db)
  BY <1>4 DEF Says
<1> QED
  BY <1>5 DEF EndInDb

(***************************************************************************)
(* A successful object call: d tokens of an expiration m, or none, then    *)
(* the type, the key and the value, and the record r of it.                *)
(***************************************************************************)
LEMMA ObjectCall ==
    ASSUME TypeOK, FileSays, NEW d \in {0, 2}, NEW m, NEW r,
           out' \in Seq(Token), Begins(out, out'), Len(out') = Len(out) + d + 3,
           d = 2 => /\ out'[Len(out) + 1].kind = "msOp"
                    /\ out'[Len(out) + 2].kind = "ms" /\ out'[Len(out) + 2].val = m,
           out'[Len(out) + d + 1] \in {Tok("type", f) : f \in Encodings[r.type]},
           out'[Len(out) + d + 2] = Tok("key", r.key),
           out'[Len(out) + d + 3] = Tok("value", r.value),
           r.at = Len(out'), r.db = callerDB, r.ms = IF d = 0 THEN None ELSE m,
           acked' = Append(acked, r), callerDB' = callerDB
    PROVE  FileSays'
<1> DEFINE L == Len(out)
           at == Len(out')
<1>1. /\ L \in Nat /\ at = L + d + 3 /\ at \in Nat /\ out \in Seq(Token)
      /\ L + 1 \in 0 .. Len(out) + 1
  BY DEF TypeOK
<1>2. /\ out'[at].kind = "value" /\ out'[at - 1].kind = "key"
      /\ out'[at - 2].kind = "type"
  <2>1. \A k, v : Tok(k, v).kind = k
    BY DEF Tok
  <2>2. at - 1 = L + d + 2 /\ at - 2 = L + d + 1
    BY <1>1
  <2>3. /\ out'[at] = Tok("value", r.value) /\ out'[at - 1] = Tok("key", r.key)
        /\ \E f \in Encodings[r.type] : out'[at - 2] = Tok("type", f)
    BY <1>1, <2>2
  <2> HIDE DEF at
  <2> QED
    BY <2>1, <2>3, ZenonT(60)
<1>3. \A j \in L + 1 .. at - 1 : out'[j].kind \in {"msOp", "ms", "type", "key"}
  <2>1. CASE d = 0
    <3>1. \A j \in L + 1 .. at - 1 : j = at - 2 \/ j = at - 1
      BY <1>1, <2>1
    <3> QED
      BY <1>2, <3>1
  <2>2. CASE d = 2
    <3>1. \A j \in L + 1 .. at - 1 : j = L + 1 \/ j = L + 2 \/ j = at - 2 \/ j = at - 1
      BY <1>1, <2>2
    <3> QED
      BY <1>2, <2>2, <3>1
  <2> QED
    BY <2>1, <2>2
<1>4. /\ Quiet(out', L + 1, at, {"dbNum"}) /\ Quiet(out', L + 1, at, {"value"})
      /\ Quiet(out', at, at + 1, {"dbNum"})
  <2>1. \A j \in at .. (at + 1) - 1 : j = at
    BY <1>1
  <2> HIDE DEF L, at
  <2> QED
    BY <1>2, <1>3, <2>1 DEF Quiet
<1>5. Says(out', 0, at, {"dbNum"}, 0, callerDB)
  <2>1. Says(out, 0, L + 1, {"dbNum"}, 0, callerDB) /\ 0 \in Nat
    BY DEF FileSays, EndInDb
  <2>2. Says(out', 0, L + 1, {"dbNum"}, 0, callerDB)
    BY <1>1, <2>1, SaysKept
  <2>3. L + 1 \in Nat /\ L + 1 <= at
    BY <1>1
  <2> HIDE DEF L, at
  <2> QED
    BY <1>1, <1>4, <2>1, <2>2, <2>3, SaysOn
<1>6. EndInDb'
  <2>1. at + 1 \in Nat /\ at <= at + 1 /\ 0 \in Nat
    BY <1>1
  <2> HIDE DEF at
  <2>2. Says(out', 0, at + 1, {"dbNum"}, 0, callerDB)
    BY <1>1, <1>4, <1>5, <2>1, SaysOn
  <2> QED
    BY <2>2 DEF EndInDb, at
<1>7. NothingPending'
  <2>1. LastObject(out', at + 1, at) /\ Silent(out', at, at + 1, {"ms"})
    BY <1>1, <1>2 DEF LastObject, Silent
  <2> QED
    BY <1>1, <2>1 DEF NothingPending
<1>8. PICK o \in Nat : LastObject(out, L + 1, o) /\ Silent(out, o, L + 1, {"ms"})
  BY DEF FileSays, NothingPending
<1>9. LastObject(out', at, o)
  <2>1. LastObject(out', L + 1, o)
    BY <1>1, <1>8, LastObjectKept
  <2>2. L + 1 \in Nat /\ L + 1 <= at
    BY <1>1
  <2> HIDE DEF L, at
  <2> QED
    BY <1>1, <1>4, <2>1, <2>2, LastObjectOn
<1>10. Says(out', o, at, {"ms"}, None, r.ms)
  <2>1. CASE d = 0
    <3>1. Silent(out', o, L + 1, {"ms"})
      BY <1>1, <1>8, SilentKept
    <3>2. Quiet(out', L + 1, at, {"ms"})
      <4>1. \A j \in L + 1 .. at - 1 : j = at - 2 \/ j = at - 1
        BY <1>1, <2>1
      <4> QED
        BY <1>2, <4>1 DEF Quiet
    <3>3. L + 1 \in Nat
      BY <1>1
    <3>4. r.ms = None
      BY <2>1
    <3> HIDE DEF L, at
    <3>5. Silent(out', o, at, {"ms"})
      BY <1>1, <3>1, <3>2, <3>3, SilentOn
    <3> QED
      BY <3>4, <3>5 DEF Says
  <2>2. CASE d = 2
    <3>1. o <= L
      BY <1>1, <1>8 DEF LastObject
    <3>2. L + 2 \in o + 1 .. at - 1
      BY <1>1, <2>2, <3>1
    <3>3. \A j \in (L + 2) + 1 .. at - 1 : j = at - 2 \/ j = at - 1
      <4>1. at = L + 5 /\ L \in Nat
        BY <1>1, <2>2
      <4> HIDE DEF L, at
      <4> QED
        BY <4>1
    <3>4. Silent(out', L + 2, at, {"ms"})
      BY <1>2, <3>3 DEF Silent
    <3>5. out'[L + 2].kind = "ms" /\ out'[L + 2].val = r.ms
      BY <2>2
    <3> HIDE DEF L, at
    <3> QED
      BY <3>2, <3>4, <3>5 DEF Says
  <2> QED
    BY <2>1, <2>2
<1>11. Carried(out', r)
  <2>1. r.at > 2 /\ r.at <= Len(out') /\ r.at = at
    BY <1>1
  <2>2. /\ out'[r.at] = Tok("value", r.value)
        /\ out'[r.at - 1] = Tok("key", r.key)
        /\ out'[r.at - 2] \in {Tok("type", f) : f \in Encodings[r.type]}
    <3>1. r.at = L + d + 3 /\ r.at - 1 = L + d + 2 /\ r.at - 2 = L + d + 1
      BY <1>1
    <3> QED
      BY <3>1
  <2>3. Says(out', 0, r.at, {"dbNum"}, 0, r.db)
    BY <1>5
  <2>4. LastObject(out', r.at, o) /\ Says(out', o, r.at, {"ms"}, None, r.ms)
    BY <1>9, <1>10
  <2> HIDE DEF at
  <2> QED
    BY <2>1, <2>2, <2>3, <2>4 DEF Carried
<1>12. /\ Len(acked') = Len(acked) + 1 /\ acked'[Len(acked) + 1] = r
       /\ \A n \in 1 .. Len(acked) : acked'[n] = acked[n]
       /\ \A n \in 1 .. Len(acked) : acked[n] \in AckedCall
       /\ Len(acked) \in Nat
  BY DEF TypeOK
<1>13. AllCarried'
  <2>1. \A n \in 1 .. Len(acked) : Carried(out', acked[n])
    BY <1>1, <1>12, CarriedKept DEF FileSays, AllCarried
  <2>2. \A n \in 1 .. Len(acked') : n \in 1 .. Len(acked) \/ n = Len(acked) + 1
    BY <1>12
  <2>3. \A n \in 1 .. Len(acked') : Carried(out', acked'[n])
    BY <1>11, <1>12, <2>1, <2>2
  <2> QED
    BY <2>3 DEF AllCarried
<1>14. NoOther'
  <2> SUFFICES ASSUME NEW i \in 1 .. Len(out'), out'[i].kind = "value"
               PROVE  \E n \in 1 .. Len(acked') : acked'[n].at = i
    BY DEF NoOther
  <2>1. CASE i \in 1 .. Len(out)
    <3>1. out[i].kind = "value"
      BY <2>1 DEF Begins
    <3>2. PICK n \in 1 .. Len(acked) : acked[n].at = i
      BY <2>1, <3>1 DEF FileSays, NoOther
    <3> QED
      BY <1>12, <3>2
  <2>2. CASE i \notin 1 .. Len(out)
    <3>1. i = at
      <4>1. i \in L + 1 .. at - 1 \/ i = at
        BY <1>1, <2>2
      <4> QED
        BY <1>3, <4>1
    <3>2. Len(acked) + 1 \in 1 .. Len(acked')
      BY <1>12
    <3> QED
      BY <1>12, <3>1, <3>2
  <2> QED
    BY <2>1, <2>2
<1>15. InOrder'
  <2>1. \A n \in 1 .. Len(acked) : acked[n].at \in Nat /\ acked[n].at < r.at
    <3>1. \A n \in 1 .. Len(acked) : acked[n].at \in Nat /\ acked[n].at <= L
      BY <1>12 DEF FileSays, AllCarried, Carried, AckedCall
    <3> QED
      BY <1>1, <3>1
  <2> SUFFICES ASSUME NEW i \in 1 .. Len(acked'), NEW n \in 1 .. Len(acked'), i < n
               PROVE  acked'[i].at < acked'[n].at
    BY DEF InOrder
  <2>2. i \in 1 .. Len(acked)
    BY <1>12
  <2>3. CASE n \in 1 .. Len(acked)
    BY <1>12, <2>2, <2>3 DEF FileSays, InOrder
  <2>4. CASE n \notin 1 .. Len(acked)
    <3>1. n = Len(acked) + 1
      BY <1>12, <2>4
    <3> QED
      BY <1>12, <2>1, <2>2, <3>1
  <2> QED
    BY <2>3, <2>4
<1> QED
  BY <1>6, <1>7, <1>13, <1>14, <1>15 DEF FileSays

-----------------------------------------------------------------------------
(***************************************************************************)
(* The calls.  A call after which dirty is still FALSE had no failure.     *)
(***************************************************************************)
NoObjectNoDb ==
    \E p \in Seq(Token) :
        /\ out' = out \o p /\ acked' = acked /\ callerDB' = callerDB
        /\ \A i \in 1 .. Len(p) : p[i].kind \notin {"ms", "value", "dbNum"}

LEMMA QuietCalls ==
    ASSUME TypeOK, FileSays, ~dirty',
           \/ WriteHeader
           \/ \E k \in Keys, v \in Values : WriteAux(k, v)
           \/ WriteEnd
    PROVE  FileSays'
<1>1. NoObjectNoDb
  <2>1. CASE WriteHeader
    <3>1. /\ HeaderTokens \in Seq(Token) /\ Len(HeaderTokens) = 1
          /\ HeaderTokens[1].kind = "magic"
      BY CallTokensType DEF HeaderTokens, Tok
    <3>2. out' = out \o HeaderTokens /\ acked' = acked /\ callerDB' = callerDB
      BY <2>1 DEF WriteHeader, WriteAll, WriteFails, FailAfter
    <3> QED
      BY <3>1, <3>2 DEF NoObjectNoDb
  <2>2. ASSUME NEW k \in Keys, NEW v \in Values, WriteAux(k, v)
        PROVE  NoObjectNoDb
    <3> DEFINE p == AuxTokens(k, v)
    <3>1. p \in Seq(Token)
      BY CallTokensType, EncoderAssumption
    <3>2. /\ Len(p) = 3 /\ p[1].kind = "auxOp" /\ p[2].kind = "auxKey"
          /\ p[3].kind = "auxVal"
      BY DEF AuxTokens, Tok
    <3>3. out' = out \o p /\ acked' = acked /\ callerDB' = callerDB
      BY <2>2 DEF WriteAux, WriteAll, WriteFails, FailAfter
    <3> HIDE DEF p
    <3>4. \A i \in 1 .. Len(p) : p[i].kind \notin {"ms", "value", "dbNum"}
      BY <3>2
    <3> QED
      BY <3>1, <3>3, <3>4 DEF NoObjectNoDb
  <2>3. CASE WriteEnd
    <3> DEFINE p == <<Tok("eofOp", 0), Tok("crc", 0)>>
    <3>1. p \in Seq(Token)
      BY CallTokensType
    <3>2. Len(p) = 2 /\ p[1].kind = "eofOp" /\ p[2].kind = "crc"
      BY DEF Tok
    <3>3. out' = out \o p /\ acked' = acked /\ callerDB' = callerDB
      BY <2>3 DEF WriteEnd, WriteFails, FailAfter
    <3> HIDE DEF p
    <3>4. \A i \in 1 .. Len(p) : p[i].kind \notin {"ms", "value", "dbNum"}
      BY <3>2
    <3> QED
      BY <3>1, <3>3, <3>4 DEF NoObjectNoDb
  <2> QED
    BY <2>1, <2>2, <2>3
<1>2. PICK p \in Seq(Token) :
          /\ out' = out \o p /\ acked' = acked /\ callerDB' = callerDB
          /\ \A i \in 1 .. Len(p) : p[i].kind \notin {"ms", "value", "dbNum"}
  BY <1>1 DEF NoObjectNoDb
<1>3. EndInDb'
  BY <1>2, SameDb
<1> QED
  BY <1>2, <1>3, OtherCall

LEMMA DBHeaderCall ==
    ASSUME TypeOK, FileSays, ~dirty', NEW db \in DBs, WriteDBHeader(db)
    PROVE  FileSays'
<1> DEFINE p == DBHeaderTokens(db)
<1>1. db \in Nat
  BY EncoderAssumption
<1>2. p \in Seq(Token)
  BY <1>1, CallTokensType
<1>3. /\ Len(p) = 5 /\ p[1].kind = "dbOp" /\ p[2].kind = "dbNum"
      /\ p[3].kind = "resizeOp" /\ p[4].kind = "keyCount" /\ p[5].kind = "ttlCount"
  BY DEF DBHeaderTokens, Tok
<1>4. out' = out \o p /\ acked' = acked /\ callerDB' = db
  BY DEF WriteDBHeader, WriteAll, WriteFails, FailAfter
<1>5. EndInDb'
  BY <1>1, <1>4, NewDb
<1> HIDE DEF p
<1>6. \A i \in 1 .. Len(p) : p[i].kind \notin {"ms", "value"}
  BY <1>3
<1> QED
  BY <1>2, <1>4, <1>5, <1>6, OtherCall

LEMMA RefusedCall == ASSUME NEW opts \in Options, WriteObjectRefused(opts) PROVE dirty'
BY DEF WriteObjectRefused, WriteFails, FailAfter

LEMMA ObjectCalls ==
    ASSUME TypeOK, FileSays, ~dirty', NEW t \in ObjTypes, NEW flag \in Encodings[t],
           NEW k \in Keys, NEW v \in Values, NEW opts \in Options,
           WriteObject(t, flag, k, v, opts)
    PROVE  FileSays'
<1> DEFINE ttl == IF opts = << >> THEN << >> ELSE TTLTokens(opts[1])
           obj == ObjectTokens(flag, k, v)
           r == [at |-> Len(out'), type |-> t, db |-> callerDB, key |-> k,
                 value |-> v, ms |-> IF opts = << >> THEN None ELSE opts[1]]
<1>1. /\ out' = out \o (ttl \o obj) /\ acked' = Append(acked, r)
      /\ callerDB' = callerDB
  BY DEF WriteObject, WriteAll, FailAfter
<1>2. flag \in Nat /\ k \in Nat /\ v \in Nat
  BY EncodingsType, EncoderAssumption
<1>3. /\ obj \in Seq(Token) /\ Len(obj) = 3 /\ obj[1] = Tok("type", flag)
      /\ obj[2] = Tok("key", k) /\ obj[3] = Tok("value", v)
  BY <1>2, CallTokensType DEF ObjectTokens
<1>4. /\ r.at = Len(out') /\ r.type = t /\ r.db = callerDB /\ r.key = k
      /\ r.value = v /\ r.ms = IF opts = << >> THEN None ELSE opts[1]
  OBVIOUS
<1>5. Tok("type", flag) \in {Tok("type", f) : f \in Encodings[r.type]}
  BY <1>4
<1> HIDE DEF obj, r
<1>6. CASE opts = << >>
  <2>1. ttl \o obj = obj
    BY <1>3, <1>6, ConcatEmptySeq
  <2>2. out' = out \o obj
    BY <1>1, <2>1
  <2>3. /\ out \o obj \in Seq(Token) /\ Begins(out, out \o obj)
        /\ Len(out \o obj) = Len(out) + Len(obj)
        /\ \A i \in 1 .. Len(obj) : (out \o obj)[Len(out) + i] = obj[i]
    BY <1>3, Longer DEF TypeOK
  <2>4. /\ out' \in Seq(Token) /\ Begins(out, out') /\ Len(out') = Len(out) + 0 + 3
        /\ out'[Len(out) + 0 + 1] = Tok("type", flag)
        /\ out'[Len(out) + 0 + 2] = Tok("key", r.key)
        /\ out'[Len(out) + 0 + 3] = Tok("value", r.value)
    <3>1. Len(out) \in Nat
      BY DEF TypeOK
    <3>2. 1 \in 1 .. Len(obj) /\ 2 \in 1 .. Len(obj) /\ 3 \in 1 .. Len(obj)
      BY <1>3
    <3>3. /\ out' \in Seq(Token) /\ Begins(out, out') /\ Len(out') = Len(out) + 3
          /\ out'[Len(out) + 1] = obj[1] /\ out'[Len(out) + 2] = obj[2]
          /\ out'[Len(out) + 3] = obj[3]
      BY <1>3, <2>2, <2>3, <3>2
    <3>4. Len(out) + 0 + 1 = Len(out) + 1 /\ Len(out) + 0 + 2 = Len(out) + 2
              /\ Len(out) + 0 + 3 = Len(out) + 3
      BY <3>1
    <3> QED
      BY <1>3, <1>4, <3>3, <3>4, Zenon
  <2>5. r.ms = None /\ 0 \in {0, 2} /\ 0 # 2
    BY <1>4, <1>6
  <2> QED
    BY <1>1, <1>4, <1>5, <2>4, <2>5, ObjectCall
<1>7. CASE opts # << >>
  <2> DEFINE p == ttl \o obj
  <2>1. opts[1] \in Nat
    BY <1>7, OptionsType
  <2>2. /\ ttl \in Seq(Token) /\ Len(ttl) = 2 /\ ttl[1].kind = "msOp"
        /\ ttl[2].kind = "ms" /\ ttl[2].val = opts[1]
    BY <1>7, <2>1, CallTokensType DEF TTLTokens, Tok
  <2> HIDE DEF ttl
  <2>3. /\ p \in Seq(Token) /\ Len(p) = 5 /\ p[1] = ttl[1] /\ p[2] = ttl[2]
        /\ p[3] = obj[1] /\ p[4] = obj[2] /\ p[5] = obj[3]
    BY <1>3, <2>2, OptionAndObject
  <2>4. out' = out \o p
    BY <1>1
  <2> HIDE DEF p
  <2>5. /\ out \o p \in Seq(Token) /\ Begins(out, out \o p)
        /\ Len(out \o p) = Len(out) + Len(p)
        /\ \A i \in 1 .. Len(p) : (out \o p)[Len(out) + i] = p[i]
    BY <2>3, Longer DEF TypeOK
  <2>6. /\ out' \in Seq(Token) /\ Begins(out, out') /\ Len(out') = Len(out) + 2 + 3
        /\ out'[Len(out) + 1].kind = "msOp" /\ out'[Len(out) + 2].kind = "ms"
        /\ out'[Len(out) + 2].val = opts[1]
        /\ out'[Len(out) + 2 + 1] = Tok("type", flag)
        /\ out'[Len(out) + 2 + 2] = Tok("key", r.key)
        /\ out'[Len(out) + 2 + 3] = Tok("value", r.value)
    <3>1. Len(out) \in Nat
      BY DEF TypeOK
    <3>2. \A i \in 1 .. 5 : i \in 1 .. Len(p)
      BY <2>3
    <3>3. /\ out' \in Seq(Token) /\ Begins(out, out') /\ Len(out') = Len(out) + 5
          /\ out'[Len(out) + 1] = p[1] /\ out'[Len(out) + 2] = p[2]
          /\ out'[Len(out) + 3] = p[3] /\ out'[Len(out) + 4] = p[4]
          /\ out'[Len(out) + 5] = p[5]
      BY <2>3, <2>4, <2>5, <3>2
    <3>4. Len(out) + 2 + 1 = Len(out) + 3 /\ Len(out) + 2 + 2 = Len(out) + 4
              /\ Len(out) + 2 + 3 = Len(out) + 5
      BY <3>1
    <3> QED
      BY <1>3, <1>4, <2>2, <2>3, <3>3, <3>4, Zenon
  <2>7. r.ms = opts[1] /\ 2 \in {0, 2} /\ 2 # 0
    BY <1>4, <1>7
  <2> QED
    BY <1>1, <1>4, <1>5, <2>6, <2>7, ObjectCall
<1> QED
  BY <1>6, <1>7

LEMMA AckStep == TypeOK /\ AckInv /\ [Next]_vars => AckInv'
<1> SUFFICES ASSUME TypeOK, AckInv, [Next]_vars, ~dirty'
             PROVE  FileSays'
  BY Zenon DEF AckInv
<1>1. ~dirty
  <2>1. CASE UNCHANGED vars
    BY Zenon, <2>1 DEF vars
  <2>2. CASE Next
    <3>1. ASSUME NEW toks, WriteFails(toks) PROVE FALSE
      BY <3>1, Zenon DEF WriteFails, FailAfter
    <3>2. ASSUME NEW toks, WriteAll(toks) PROVE dirty' = dirty
      BY <3>2, Zenon DEF WriteAll
    <3>3. CASE WriteHeader
      BY <3>1, <3>2, <3>3, Zenon DEF WriteHeader
    <3>4. ASSUME NEW k \in Keys, NEW v \in Values, WriteAux(k, v) PROVE ~dirty
      BY <3>1, <3>2, <3>4, Zenon DEF WriteAux
    <3>5. ASSUME NEW db \in DBs, WriteDBHeader(db) PROVE ~dirty
      BY <3>1, <3>2, <3>5, Zenon DEF WriteDBHeader
    <3>6. ASSUME NEW t, NEW k, NEW v, NEW opts, NEW flag,
                 WriteObject(t, flag, k, v, opts)
          PROVE  ~dirty
      BY <3>2, <3>6, Zenon DEF WriteObject, FailAfter
    <3>7. ASSUME NEW opts \in Options, WriteObjectRefused(opts) PROVE ~dirty
      BY <3>7, RefusedCall, Zenon
    <3>8. CASE WriteEnd
      BY <3>1, <3>8, Zenon DEF WriteEnd
    <3> QED
      BY <2>2, <3>3, <3>4, <3>5, <3>6, <3>7, <3>8, Zenon DEF Next
  <2> QED
    BY <2>1, <2>2
<1>2. FileSays
  BY <1>1, Zenon DEF AckInv
<1>3. CASE WriteHeader
  BY <1>2, <1>3, QuietCalls
<1>4. ASSUME NEW k \in Keys, NEW v \in Values, WriteAux(k, v) PROVE FileSays'
  BY <1>2, <1>4, QuietCalls
<1>5. ASSUME NEW db \in DBs, WriteDBHeader(db) PROVE FileSays'
  BY <1>2, <1>5, DBHeaderCall
<1>6. ASSUME NEW t \in ObjTypes, NEW k \in Keys, NEW v \in Values, NEW opts \in Options,
             NEW flag \in Encodings[t], WriteObject(t, flag, k, v, opts)
      PROVE  FileSays'
  BY <1>2, <1>6, ObjectCalls
<1>7. ASSUME NEW opts \in Options, WriteObjectRefused(opts) PROVE FileSays'
  BY <1>7, RefusedCall
<1>8. CASE WriteEnd
  BY <1>2, <1>8, QuietCalls
<1>9. CASE UNCHANGED vars
  <2>1. out' = out /\ acked' = acked /\ callerDB' = callerDB
    BY <1>9 DEF vars
  <2> QED
    BY <1>2, <2>1 DEF FileSays, EndInDb, NothingPending, AllCarried, NoOther, InOrder
<1> QED
  BY <1>3, <1>4, <1>5, <1>6, <1>7, <1>8, <1>9 DEF Next

LEMMA AckInit == Init => AckInv
<1> SUFFICES ASSUME Init PROVE FileSays
  BY Zenon DEF AckInv
<1>1. out = << >> /\ acked = << >> /\ callerDB = 0
  BY DEF Init
<1>2. Len(out) = 0 /\ Len(acked) = 0
  BY <1>1
<1>3. EndInDb
  BY <1>1, <1>2 DEF EndInDb, Says, Silent
<1>4. NothingPending
  <2>1. LastObject(out, 1, 0) /\ Silent(out, 0, 1, {"ms"})
    BY DEF LastObject, Silent
  <2> QED
    BY <1>2, <2>1 DEF NothingPending
<1> QED
  BY <1>2, <1>3, <1>4 DEF FileSays, AllCarried, NoOther, InOrder

(***************************************************************************)
(* What the invariant says is what a reader finds.                         *)
(***************************************************************************)
LEMMA AckRead == TypeOK /\ AckInv => FileAsAcked
<1> SUFFICES ASSUME TypeOK, FileSays
             PROVE  DbAsSelected /\ ExpirationAsPassed /\ ObjectsAsAcked
  BY Zenon DEF AckInv, FileAsAcked
<1>1. \A n \in 1 .. Len(acked) : acked[n].at \in Nat /\ Carried(out, acked[n])
  <2>1. \A n \in 1 .. Len(acked) : acked[n] \in AckedCall
    BY DEF TypeOK
  <2>2. \A r \in AckedCall : r.at \in Nat
    BY DEF AckedCall
  <2> QED
    BY <2>1, <2>2 DEF FileSays, AllCarried
<1>2. DbAsSelected
  <2> SUFFICES ASSUME NEW n \in 1 .. Len(acked)
               PROVE  acked[n].db = InForce(out, 0, acked[n].at, {"dbNum"}, 0)
    BY DEF DbAsSelected
  <2>1. acked[n].at \in Nat /\ Says(out, 0, acked[n].at, {"dbNum"}, 0, acked[n].db)
    BY <1>1 DEF Carried
  <2>2. 0 \in Nat
    OBVIOUS
  <2> QED
    BY <2>1, <2>2, SaysInForce
<1>3. ExpirationAsPassed
  <2> SUFFICES ASSUME NEW n \in 1 .. Len(acked)
               PROVE  acked[n].ms = InForce(out, ObjectBefore(out, acked[n].at),
                                            acked[n].at, {"ms"}, None)
    BY DEF ExpirationAsPassed
  <2>1. acked[n].at \in Nat
    BY <1>1
  <2>2. PICK o \in Nat : /\ LastObject(out, acked[n].at, o)
                         /\ Says(out, o, acked[n].at, {"ms"}, None, acked[n].ms)
    BY <1>1 DEF Carried
  <2>3. ObjectBefore(out, acked[n].at) = o
    BY <2>1, <2>2, LastObjectBefore
  <2>4. InForce(out, o, acked[n].at, {"ms"}, None) = acked[n].ms
    BY <2>1, <2>2, SaysInForce
  <2> QED
    BY <2>3, <2>4
<1>4. ObjectsAsAcked
  BY <1>1 DEF ObjectsAsAcked, Carried, FileSays, NoOther, InOrder
<1> QED
  BY <1>2, <1>3, <1>4

(***************************************************************************)
(* As long as no call failed half-way, a reader of the file finds the      *)
(* objects of the acknowledged calls in their order, each in the database  *)
(* the caller selected and with the expiration of its own call, for any    *)
(* databases, keys, values, expirations and number of calls (encoder.go).  *)
(***************************************************************************)
THEOREM ReaderFindsAcked == Spec => []FileAsAcked
<1>1. Init => AckInv
  BY AckInit
<1>2. TypeOK /\ AckInv /\ [Next]_vars => AckInv'
  BY AckStep
<1>3. TypeOK /\ AckInv => FileAsAcked
  BY AckRead
<1> QED
  BY <1>1, <1>2, <1>3, TypeCorrect, PTL DEF Spec

-----------------------------------------------------------------------------
(***************************************************************************)
(* A program that stops at the first error (RoundTrip).  Until then the    *)
(* file is as above; the call that fails leaves a piece of its tokens,     *)
(* without a value, so that the file still holds the objects of the        *)
(* acknowledged calls and no others.                                       *)
(***************************************************************************)
WrittenKinds == {"magic", "auxOp", "auxKey", "auxVal", "dbOp", "dbNum", "resizeOp",
                 "keyCount", "ttlCount", "msOp", "ms", "type", "key", "value",
                 "eofOp", "crc"}

\* A token that a call writes, or a torn one.
Plain(t) ==
    /\ t.kind \in WrittenKinds \cup {"torn"}
    /\ t.kind = "magic" => t.val \in {0, 1}
    /\ t.kind = "type" => \E type \in DOMAIN Encodings : t.val \in Encodings[type]

\* The tokens of a call: an item of the format, whose value comes last.
Call(toks) ==
    /\ Len(toks) > 0
    /\ \A i \in 1 .. Len(toks) : Plain(toks[i]) /\ toks[i].kind # "torn"
    /\ \A i \in 1 .. Len(toks) - 1 :
           Follows(toks[i].kind, toks[i + 1].kind) /\ toks[i].kind # "value"
    /\ IF state = "Start" THEN toks[1].kind = "magic" ELSE toks[1].kind \in OpKinds

LEMMA OtherToken ==
    ASSUME NEW t, t.kind \in WrittenKinds \ {"magic", "type"} PROVE Plain(t)
BY DEF Plain

LEMMA HeaderIsCall == ASSUME TypeOK, Allowed("Header") PROVE Call(HeaderTokens)
<1>1. state = "Start"
  BY DEF Allowed, StateChanges, TypeOK, States
<1>2. /\ Len(HeaderTokens) = 1 /\ HeaderTokens[1].kind = "magic"
      /\ HeaderTokens[1].val \in {0, 1}
  BY DEF HeaderTokens, Tok
<1>3. Plain(HeaderTokens[1])
  BY <1>2 DEF Plain, WrittenKinds
<1>4. \A i \in 1 .. Len(HeaderTokens) : i = 1
  BY <1>2
<1> QED
  BY <1>1, <1>2, <1>3, <1>4 DEF Call

LEMMA AuxIsCall ==
    ASSUME TypeOK, Allowed("Aux"), NEW k, NEW v PROVE Call(AuxTokens(k, v))
<1> DEFINE toks == AuxTokens(k, v)
<1>1. state # "Start"
  BY DEF Allowed, StateChanges, TypeOK, States
<1>2. /\ Len(toks) = 3 /\ toks[1].kind = "auxOp" /\ toks[2].kind = "auxKey"
      /\ toks[3].kind = "auxVal"
  BY DEF AuxTokens, Tok
<1> HIDE DEF toks
<1>3. /\ \A i \in 1 .. Len(toks) : i \in {1, 2, 3}
      /\ \A i \in 1 .. Len(toks) - 1 : i \in {1, 2}
  BY <1>2
<1>4. \A i \in 1 .. Len(toks) : Plain(toks[i]) /\ toks[i].kind # "torn"
  <2>1. \A i \in 1 .. Len(toks) : toks[i].kind \in {"auxOp", "auxKey", "auxVal"}
    BY <1>2, <1>3
  <2> QED
    BY <2>1, OtherToken DEF WrittenKinds
<1>5. \A i \in 1 .. Len(toks) - 1 :
          Follows(toks[i].kind, toks[i + 1].kind) /\ toks[i].kind # "value"
  BY <1>2, <1>3, FollowsTable
<1> QED
  BY <1>1, <1>2, <1>4, <1>5, KindsOfEnds DEF Call, toks

LEMMA DBHeaderIsCall ==
    ASSUME TypeOK, Allowed("DBHeader"), NEW db PROVE Call(DBHeaderTokens(db))
<1> DEFINE toks == DBHeaderTokens(db)
<1>1. state # "Start"
  BY DEF Allowed, StateChanges, TypeOK, States
<1>2. /\ Len(toks) = 5 /\ toks[1].kind = "dbOp" /\ toks[2].kind = "dbNum"
      /\ toks[3].kind = "resizeOp" /\ toks[4].kind = "keyCount"
      /\ toks[5].kind = "ttlCount"
  BY DEF DBHeaderTokens, Tok
<1> HIDE DEF toks
<1>3. /\ \A i \in 1 .. Len(toks) : i \in {1, 2, 3, 4, 5}
      /\ \A i \in 1 .. Len(toks) - 1 : i \in {1, 2, 3, 4}
  BY <1>2
<1>4. \A i \in 1 .. Len(toks) : Plain(toks[i]) /\ toks[i].kind # "torn"
  <2>1. \A i \in 1 .. Len(toks) :
            toks[i].kind \in {"dbOp", "dbNum", "resizeOp", "keyCount", "ttlCount"}
    BY <1>2, <1>3
  <2> QED
    BY <2>1, OtherToken DEF WrittenKinds
<1>5. \A i \in 1 .. Len(toks) - 1 :
          Follows(toks[i].kind, toks[i + 1].kind) /\ toks[i].kind # "value"
  BY <1>2, <1>3, FollowsTable
<1> QED
  BY <1>1, <1>2, <1>4, <1>5, KindsOfEnds DEF Call, toks

LEMMA TripleIsCall ==
    ASSUME state # "Start", NEW obj \in Seq(Token), Len(obj) = 3,
           obj[1].kind = "type", obj[2].kind = "key", obj[3].kind = "value", Plain(obj[1])
    PROVE  /\ Call(obj)
           /\ \A ttl \in Seq(Token) :
                  Len(ttl) = 2 /\ ttl[1].kind = "msOp" /\ ttl[2].kind = "ms"
                      => ttl \o obj \in Seq(Token) /\ Call(ttl \o obj)
<1>1. Plain(obj[2]) /\ Plain(obj[3])
  BY OtherToken DEF WrittenKinds
<1>2. Call(obj)
  <2>1. /\ \A i \in 1 .. Len(obj) : i \in {1, 2, 3}
        /\ \A i \in 1 .. Len(obj) - 1 : i \in {1, 2}
    OBVIOUS
  <2>2. \A i \in 1 .. Len(obj) : Plain(obj[i]) /\ obj[i].kind # "torn"
    BY <1>1, <2>1
  <2>3. \A i \in 1 .. Len(obj) - 1 :
            Follows(obj[i].kind, obj[i + 1].kind) /\ obj[i].kind # "value"
    BY <2>1, FollowsTable
  <2> QED
    BY <2>2, <2>3, KindsOfEnds DEF Call
<1>3. ASSUME NEW ttl \in Seq(Token), Len(ttl) = 2, ttl[1].kind = "msOp", ttl[2].kind = "ms"
      PROVE  ttl \o obj \in Seq(Token) /\ Call(ttl \o obj)
  <2> DEFINE toks == ttl \o obj
  <2>1. /\ toks \in Seq(Token) /\ Len(toks) = 5 /\ toks[1] = ttl[1] /\ toks[2] = ttl[2]
        /\ toks[3] = obj[1] /\ toks[4] = obj[2] /\ toks[5] = obj[3]
    BY <1>3, OptionAndObject
  <2>2. Plain(ttl[1]) /\ Plain(ttl[2])
    BY <1>3, OtherToken DEF WrittenKinds
  <2> HIDE DEF toks
  <2>3. /\ \A i \in 1 .. Len(toks) : i \in {1, 2, 3, 4, 5}
        /\ \A i \in 1 .. Len(toks) - 1 : i \in {1, 2, 3, 4}
    BY <2>1
  <2>4. \A i \in 1 .. Len(toks) : Plain(toks[i]) /\ toks[i].kind # "torn"
    BY <1>1, <1>3, <2>1, <2>2, <2>3
  <2>5. \A i \in 1 .. Len(toks) - 1 :
            Follows(toks[i].kind, toks[i + 1].kind) /\ toks[i].kind # "value"
    BY <1>3, <2>1, <2>3, FollowsTable
  <2>6. Call(toks)
    BY <1>3, <2>1, <2>4, <2>5, KindsOfEnds DEF Call
  <2> QED
    BY <2>1, <2>6 DEF toks
<1> QED
  BY <1>2, <1>3

LEMMA ObjectIsCall ==
    ASSUME TypeOK, Allowed("Object"), NEW t \in ObjTypes, NEW flag \in Encodings[t],
           NEW k \in Keys, NEW v \in Values, NEW opts \in Options,
           NEW ttl, ttl = IF opts = << >> THEN << >> ELSE TTLTokens(opts[1])
    PROVE  /\ ttl \o ObjectTokens(flag, k, v) \in Seq(Token)
           /\ Call(ttl \o ObjectTokens(flag, k, v))
<1> DEFINE obj == ObjectTokens(flag, k, v)
<1>1. state # "Start"
  BY DEF Allowed, StateChanges, TypeOK, States
<1>2. flag \in Nat /\ k \in Nat /\ v \in Nat /\ t \in DOMAIN Encodings
  BY EncodingsType, EncoderAssumption
<1>3. /\ obj \in Seq(Token) /\ Len(obj) = 3 /\ obj[1] = Tok("type", flag)
      /\ obj[2].kind = "key" /\ obj[3].kind = "value"
  BY <1>2, CallTokensType DEF ObjectTokens, Tok
<1>4. obj[1].kind = "type" /\ obj[1].val = flag
  BY <1>3 DEF Tok
<1>5. Plain(obj[1])
  BY <1>2, <1>4 DEF Plain, WrittenKinds
<1> HIDE DEF obj
<1>6. CASE opts = << >>
  <2>1. ttl \o obj = obj
    BY <1>3, <1>6, ConcatEmptySeq
  <2>2. Call(obj)
    BY <1>1, <1>3, <1>4, <1>5, TripleIsCall
  <2> QED
    BY <1>3, <2>1, <2>2 DEF obj
<1>7. CASE opts # << >>
  <2>1. opts[1] \in Nat /\ ttl = TTLTokens(opts[1])
    BY <1>7, OptionsType
  <2>2. ttl \in Seq(Token) /\ Len(ttl) = 2 /\ ttl[1].kind = "msOp" /\ ttl[2].kind = "ms"
    <3> DEFINE option == TTLTokens(opts[1])
    <3>1. /\ option \in Seq(Token) /\ Len(option) = 2
          /\ option[1].kind = "msOp" /\ option[2].kind = "ms"
      BY ONLY <2>1, CallTokensType DEF TTLTokens, Tok
    <3> QED
      BY <2>1, <3>1, Zenon
  <2>3. ttl \o obj \in Seq(Token) /\ Call(ttl \o obj)
    BY <1>1, <1>3, <1>4, <1>5, <2>2, TripleIsCall
  <2> QED
    BY <2>3 DEF obj
<1> QED
  BY <1>6, <1>7

LEMMA OptionIsCall ==
    ASSUME TypeOK, Allowed("TTL"), NEW ttl PROVE Call(TTLTokens(ttl))
<1> DEFINE toks == TTLTokens(ttl)
<1>1. state # "Start"
  BY DEF Allowed, StateChanges, TypeOK, States
<1>2. Len(toks) = 2 /\ toks[1].kind = "msOp" /\ toks[2].kind = "ms"
  BY DEF TTLTokens, Tok
<1> HIDE DEF toks
<1>3. /\ \A i \in 1 .. Len(toks) : i \in {1, 2}
      /\ \A i \in 1 .. Len(toks) - 1 : i = 1
  BY <1>2
<1>4. \A i \in 1 .. Len(toks) : Plain(toks[i]) /\ toks[i].kind # "torn"
  <2>1. \A i \in 1 .. Len(toks) : toks[i].kind \in {"msOp", "ms"}
    BY <1>2, <1>3
  <2> QED
    BY <2>1, OtherToken DEF WrittenKinds
<1>5. \A i \in 1 .. Len(toks) - 1 :
          Follows(toks[i].kind, toks[i + 1].kind) /\ toks[i].kind # "value"
  BY <1>2, <1>3, FollowsTable
<1> QED
  BY <1>1, <1>2, <1>4, <1>5, KindsOfEnds DEF Call, toks

EndTokens == <<Tok("eofOp", 0), Tok("crc", 0)>>

LEMMA EndIsCall ==
    ASSUME TypeOK, Allowed("End") PROVE Call(EndTokens) /\ Call(<<Tok("eofOp", 0)>>)
<1> DEFINE eof == <<Tok("eofOp", 0)>>
<1>1. state # "Start"
  BY DEF Allowed, StateChanges, TypeOK, States
<1>2. /\ Len(EndTokens) = 2 /\ EndTokens[1].kind = "eofOp" /\ EndTokens[2].kind = "crc"
      /\ Len(eof) = 1 /\ eof[1].kind = "eofOp"
  BY DEF Tok, EndTokens
<1> HIDE DEF eof
<1>3. /\ \A i \in 1 .. Len(EndTokens) : i \in {1, 2}
      /\ \A i \in 1 .. Len(EndTokens) - 1 : i = 1
      /\ \A i \in 1 .. Len(eof) : i = 1
  BY <1>2
<1>4. Plain(EndTokens[1]) /\ Plain(EndTokens[2]) /\ Plain(eof[1])
  BY <1>2, OtherToken DEF WrittenKinds
<1>5. Call(EndTokens)
  BY <1>1, <1>2, <1>3, <1>4, FollowsTable, KindsOfEnds DEF Call
<1>6. Call(eof)
  BY <1>1, <1>2, <1>3, <1>4, KindsOfEnds DEF Call
<1> QED
  BY <1>5, <1>6 DEF eof

(***************************************************************************)
(* A call appends its tokens p: all of them, or what was written of them.  *)
(***************************************************************************)
Wrote(p) ==
    /\ out' = out \o p
    /\ \A i \in 1 .. Len(p) : Plain(p[i])
    /\ \A i \in 1 .. Len(p) - 1 :
           Follows(p[i].kind, p[i + 1].kind) \/ "torn" \in {p[i].kind, p[i + 1].kind}
    /\ Len(p) > 0 => \/ p[1].kind = "torn"
                      \/ IF state = "Start" THEN p[1].kind = "magic"
                         ELSE p[1].kind \in OpKinds
    /\ dirty' => /\ acked' = acked
                 /\ \A i \in 1 .. Len(p) : p[i].kind # "value"

LEMMA CallWrote ==
    ASSUME NEW toks \in Seq(Token), Call(toks), out' = out \o toks,
           dirty' => /\ acked' = acked
                     /\ \A i \in 1 .. Len(toks) : toks[i].kind # "value"
    PROVE  Wrote(toks)
BY DEF Call, Wrote

LEMMA CutWrote ==
    ASSUME NEW toks \in Seq(Token), NEW p \in Seq(Token), Call(toks), Cut(toks, p),
           out' = out \o p, acked' = acked
    PROVE  Wrote(p)
<1>1. \A i \in 1 .. Len(p) :
          /\ i \in 1 .. Len(toks)
          /\ p[i].kind = "torn" \/ (i \in 1 .. Len(toks) - 1 /\ p[i] = toks[i])
  BY TornType DEF Cut
<1>2. \A i \in 1 .. Len(p) : Plain(p[i]) /\ p[i].kind # "value"
  <2>1. \A i \in 1 .. Len(p) : p[i].kind = "torn" => Plain(p[i])
    BY DEF Plain
  <2> QED
    BY <1>1, <2>1 DEF Call
<1>3. ASSUME NEW i \in 1 .. Len(p) - 1
      PROVE  Follows(p[i].kind, p[i + 1].kind) \/ "torn" \in {p[i].kind, p[i + 1].kind}
  <2>1. i \in 1 .. Len(p) /\ i + 1 \in 1 .. Len(p)
    OBVIOUS
  <2> QED
    BY <1>1, <2>1 DEF Call
<1>4. Len(p) > 0 => \/ p[1].kind = "torn"
                    \/ IF state = "Start" THEN p[1].kind = "magic"
                       ELSE p[1].kind \in OpKinds
  BY <1>1 DEF Call
<1> QED
  BY <1>2, <1>3, <1>4 DEF Wrote

\* A call, but for an object, whose writes succeed or fail.
LEMMA WritesWrote ==
    ASSUME TypeOK, ~dirty, NEW toks \in Seq(Token), Call(toks), acked' = acked,
           WriteAll(toks) \/ WriteFails(toks)
    PROVE  \E p \in Seq(Token) : Wrote(p)
<1>1. CASE WriteAll(toks)
  BY <1>1, CallWrote DEF WriteAll
<1>2. CASE WriteFails(toks)
  BY <1>2, WriteFailsAppends, CutWrote
<1> QED
  BY <1>1, <1>2

LEMMA ObjectWrote ==
    ASSUME TypeOK, ~dirty, NEW t \in ObjTypes, NEW flag \in Encodings[t],
           NEW k \in Keys, NEW v \in Values, NEW opts \in Options,
           WriteObject(t, flag, k, v, opts)
    PROVE  \E p \in Seq(Token) : Wrote(p)
<1> DEFINE ttl == IF opts = << >> THEN << >> ELSE TTLTokens(opts[1])
           toks == ttl \o ObjectTokens(flag, k, v)
<1>1. Allowed("Object")
  BY Zenon DEF WriteObject
<1>2. toks \in Seq(Token) /\ Call(toks)
  BY <1>1, ObjectIsCall
<1>3. \/ WriteAll(toks)
      \/ /\ acked' = acked
         /\ \E n \in 0 .. Len(toks) - 1 : FailAfter(toks, n)
  BY Zenon DEF WriteObject
<1> HIDE DEF toks
<1>4. CASE WriteAll(toks)
  BY <1>2, <1>4, CallWrote DEF WriteAll
<1>5. CASE acked' = acked /\ \E n \in 0 .. Len(toks) - 1 : FailAfter(toks, n)
  BY <1>2, <1>5, FailAfterAppends, CutWrote
<1> QED
  BY <1>3, <1>4, <1>5

LEMMA RefusedWrote ==
    ASSUME TypeOK, ~dirty, NEW opts \in Options, WriteObjectRefused(opts)
    PROVE  \E p \in Seq(Token) : Wrote(p)
<1> DEFINE toks == TTLTokens(opts[1])
<1>1. Allowed("TTL") /\ acked' = acked /\ (out' = out \o toks \/ WriteFails(toks))
  BY Zenon DEF WriteObjectRefused
<1>2. Len(opts) > 1
  BY Zenon DEF WriteObjectRefused
<1>3. opts[1] \in Nat
  BY <1>2, OptionsType
<1>4. toks \in Seq(Token) /\ Call(toks)
  BY <1>1, <1>3, CallTokensType, OptionIsCall
<1>5. \A i \in 1 .. Len(toks) : toks[i].kind # "value"
  <2>1. Len(toks) = 2 /\ toks[1].kind = "msOp" /\ toks[2].kind = "ms"
    BY DEF TTLTokens, Tok
  <2> HIDE DEF toks
  <2>2. \A i \in 1 .. Len(toks) : i \in {1, 2}
    BY <2>1
  <2> QED
    BY <2>1, <2>2
<1> HIDE DEF toks
<1>6. CASE out' = out \o toks
  BY <1>1, <1>4, <1>5, <1>6, CallWrote
<1>7. CASE WriteFails(toks)
  BY <1>1, <1>4, <1>7, WriteFailsAppends, CutWrote
<1> QED
  BY <1>1, <1>6, <1>7

LEMMA EndWrote ==
    ASSUME TypeOK, ~dirty, WriteEnd
    PROVE  \E p \in Seq(Token) : Wrote(p)
<1> DEFINE eof == <<Tok("eofOp", 0)>>
<1>1. /\ Allowed("End") /\ acked' = acked
      /\ \/ out' = out \o EndTokens
         \/ WriteFails(eof)
         \/ \E piece \in {<< >>, <<Torn>>} : out' = Append(out, Tok("eofOp", 0)) \o piece
  BY Zenon DEF WriteEnd, EndTokens
<1>2. EndTokens \in Seq(Token) /\ eof \in Seq(Token) /\ Call(EndTokens) /\ Call(eof)
  BY <1>1, CallTokensType, EndIsCall DEF EndTokens
<1>3. /\ EndTokens[1] = Tok("eofOp", 0) /\ Len(EndTokens) = 2
      /\ EndTokens[1].kind = "eofOp" /\ EndTokens[2].kind = "crc"
      /\ Len(eof) = 1 /\ eof[1] = Tok("eofOp", 0)
  BY DEF EndTokens, Tok
<1> HIDE DEF eof
<1>4. CASE out' = out \o EndTokens
  <2>1. \A i \in 1 .. Len(EndTokens) : i \in {1, 2}
    BY <1>3
  <2>2. \A i \in 1 .. Len(EndTokens) : EndTokens[i].kind # "value"
    BY <1>3, <2>1
  <2> QED
    BY <1>1, <1>2, <1>4, <2>2, CallWrote
<1>5. CASE WriteFails(eof)
  BY <1>1, <1>2, <1>5, WriteFailsAppends, CutWrote
<1>6. CASE \E piece \in {<< >>, <<Torn>>} : out' = Append(out, Tok("eofOp", 0)) \o piece
  <2>1. PICK piece \in {<< >>, <<Torn>>} : out' = Append(out, Tok("eofOp", 0)) \o piece
    BY <1>6
  <2> DEFINE p == eof \o piece
  <2>2. /\ piece \in Seq(Token) /\ Len(piece) \in {0, 1}
        /\ \A i \in 1 .. Len(piece) : piece[i] = Torn
    <3>1. CASE piece = << >>
      BY <3>1
    <3>2. CASE piece = <<Torn>>
      BY <3>2, TornType
    <3> QED
      BY <3>1, <3>2
  <2>3. out \in Seq(Token) /\ Tok("eofOp", 0) \in Token
    BY TokenType DEF TypeOK, Kinds, OpKinds
  <2>4. out' = out \o p
    <3>1. Append(out, Tok("eofOp", 0)) = out \o eof
      BY <2>3, AppendIsConcat DEF eof
    <3>2. (out \o eof) \o piece = out \o p
      BY <1>2, <2>2, <2>3, ConcatAssociative
    <3> QED
      BY <2>1, <3>1, <3>2
  <2>5. /\ p \in Seq(Token) /\ Len(p) = 1 + Len(piece)
        /\ \A i \in 1 .. Len(p) : p[i] = IF i <= 1 THEN eof[i] ELSE piece[i - 1]
    <3>1. /\ p \in Seq(Token) /\ Len(p) = Len(eof) + Len(piece)
          /\ \A i \in 1 .. Len(eof) + Len(piece) :
                 p[i] = IF i <= Len(eof) THEN eof[i] ELSE piece[i - Len(eof)]
      BY ONLY <1>2, <2>2, ConcatProperties DEF p
    <3> HIDE DEF p
    <3>2. Len(piece) \in Nat
      BY <2>2
    <3> QED
      BY <1>3, <3>1, <3>2
  <2> HIDE DEF p
  <2>6. Cut(EndTokens, p)
    <3>1. \A i \in 1 .. Len(p) : p[i] = Torn \/ (i < 2 /\ p[i] = EndTokens[i])
      BY <1>3, <2>2, <2>5
    <3> QED
      BY <1>3, <2>2, <2>5, <3>1 DEF Cut
  <2> QED
    BY <1>1, <1>2, <2>4, <2>5, <2>6, CutWrote
<1> QED
  BY <1>1, <1>4, <1>5, <1>6

LEMMA StepWrote ==
    ASSUME TypeOK, ~dirty, Next
    PROVE  \E p \in Seq(Token) : Wrote(p)
<1>1. CASE WriteHeader
  <2>1. Allowed("Header") /\ acked' = acked
            /\ (WriteAll(HeaderTokens) \/ WriteFails(HeaderTokens))
    BY <1>1, Zenon DEF WriteHeader
  <2> QED
    BY <2>1, HeaderIsCall, CallTokensType, WritesWrote
<1>2. ASSUME NEW k \in Keys, NEW v \in Values, WriteAux(k, v)
      PROVE  \E p \in Seq(Token) : Wrote(p)
  <2>1. Allowed("Aux") /\ acked' = acked
            /\ (WriteAll(AuxTokens(k, v)) \/ WriteFails(AuxTokens(k, v)))
    BY <1>2, Zenon DEF WriteAux
  <2> QED
    BY <2>1, AuxIsCall, CallTokensType, EncoderAssumption, WritesWrote
<1>3. ASSUME NEW db \in DBs, WriteDBHeader(db)
      PROVE  \E p \in Seq(Token) : Wrote(p)
  <2>1. Allowed("DBHeader") /\ acked' = acked
            /\ (WriteAll(DBHeaderTokens(db)) \/ WriteFails(DBHeaderTokens(db)))
    BY <1>3, Zenon DEF WriteDBHeader
  <2> QED
    BY <2>1, DBHeaderIsCall, CallTokensType, EncoderAssumption, WritesWrote
<1> QED
  BY <1>1, <1>2, <1>3, ObjectWrote, RefusedWrote, EndWrote DEF Next

(***************************************************************************)
(* The invariant of such a program, a dirty encoder being left alone.      *)
(***************************************************************************)
FaultIsDirty == ~dirty => faults = 0

PlainFile == \A i \in 1 .. Len(out) : Plain(out[i])

EndWritten == state = "End" => ~dirty /\ out # << >> /\ out[Len(out)].kind = "crc"

DbChosen == state \in {"DBHeader", "TTL", "Object"} => callerDB \in DBs

SaveInv ==
    /\ TypeOK /\ AckInv /\ Boundary /\ FaultIsDirty
    /\ AllCarried /\ NoOther /\ InOrder
    /\ Readable(out) /\ PlainFile /\ EndWritten /\ DbChosen

LEMMA SaveInit == Init => SaveInv
<1> SUFFICES ASSUME Init PROVE SaveInv
  OBVIOUS
<1>1. TypeOK
  BY TypeInit
<1>2. FileSays
  BY AckInit DEF Init, AckInv
<1>3. Boundary
  BY DEF Init, Boundary, WellFormed
<1>4. out = << >> /\ state = "Start" /\ faults = 0
  BY DEF Init
<1>5. FaultIsDirty /\ EndWritten /\ DbChosen
  BY <1>4 DEF FaultIsDirty, EndWritten, DbChosen
<1>6. Readable(out) /\ PlainFile
  BY <1>4 DEF Readable, PlainFile
<1> QED
  BY <1>1, <1>2, <1>3, <1>5, <1>6 DEF SaveInv, FileSays, AckInv

LEMMA EndStep ==
    ASSUME Next, state' = "End", state # "End", TypeOK
    PROVE  out' = out \o EndTokens /\ UNCHANGED <<dirty, faults>>
<1>1. ~WriteHeader
  BY DEF WriteHeader
<1>2. ASSUME NEW k \in Keys, NEW v \in Values, WriteAux(k, v) PROVE FALSE
  BY <1>2 DEF WriteAux
<1>3. ASSUME NEW db \in DBs, WriteDBHeader(db) PROVE FALSE
  BY <1>3 DEF WriteDBHeader
<1>4. ASSUME NEW t, NEW flag, NEW k, NEW v, NEW opts, WriteObject(t, flag, k, v, opts)
      PROVE  FALSE
  BY <1>4 DEF WriteObject
<1>5. ASSUME NEW opts, WriteObjectRefused(opts) PROVE FALSE
  BY <1>5 DEF WriteObjectRefused
<1>6. WriteEnd
  BY <1>1, <1>2, <1>3, <1>4, <1>5, Zenon DEF Next
<1> QED
  BY <1>6, Zenon DEF WriteEnd, EndTokens

LEMMA DirtyFault == ASSUME Next, ~dirty, ~dirty', faults = 0 PROVE faults' = 0
<1>1. ASSUME NEW toks, WriteFails(toks) PROVE FALSE
  BY <1>1, Zenon DEF WriteFails, FailAfter
<1>2. ASSUME NEW toks, WriteAll(toks) PROVE faults' = faults
  BY <1>2, Zenon DEF WriteAll
<1>3. CASE WriteHeader
  BY <1>1, <1>2, <1>3, Zenon DEF WriteHeader
<1>4. ASSUME NEW k \in Keys, NEW v \in Values, WriteAux(k, v) PROVE faults' = 0
  BY <1>1, <1>2, <1>4, Zenon DEF WriteAux
<1>5. ASSUME NEW db \in DBs, WriteDBHeader(db) PROVE faults' = 0
  BY <1>1, <1>2, <1>5, Zenon DEF WriteDBHeader
<1>6. ASSUME NEW t, NEW k, NEW v, NEW opts, NEW flag, WriteObject(t, flag, k, v, opts)
      PROVE  faults' = 0
  BY <1>2, <1>6, Zenon DEF WriteObject, FailAfter
<1>7. ASSUME NEW opts \in Options, WriteObjectRefused(opts) PROVE faults' = 0
  BY <1>7, RefusedCall, Zenon
<1>8. CASE WriteEnd
  BY <1>1, <1>8, Zenon DEF WriteEnd
<1> QED
  BY <1>3, <1>4, <1>5, <1>6, <1>7, <1>8, Zenon DEF Next

\* What a call acknowledges, if it does.
Acknowledged(r) ==
    /\ r.type \in ObjTypes /\ r.db = callerDB /\ r.db \in DBs
    /\ r.key \in Keys /\ r.value \in Values /\ r.ms \in TTLs \cup {None}

LEMMA StepAcks ==
    ASSUME TypeOK, DbChosen, Next
    PROVE  \/ acked' = acked
           \/ \E r : acked' = Append(acked, r) /\ Acknowledged(r)
<1>1. ASSUME NEW t \in ObjTypes, NEW flag \in Encodings[t], NEW k \in Keys,
             NEW v \in Values, NEW opts \in Options,
             WriteObject(t, flag, k, v, opts)
      PROVE  \/ acked' = acked
             \/ \E r : acked' = Append(acked, r) /\ Acknowledged(r)
  <2> DEFINE r == [at |-> Len(out'), type |-> t, db |-> callerDB, key |-> k,
                   value |-> v, ms |-> IF opts = << >> THEN None ELSE opts[1]]
  <2>1. Allowed("Object") /\ (acked' = acked \/ acked' = Append(acked, r))
    BY <1>1, Zenon DEF WriteObject
  <2>2. callerDB \in DBs
    BY <2>1 DEF DbChosen, Allowed, StateChanges, TypeOK, States
  <2>3. /\ r.type = t /\ r.db = callerDB /\ r.key = k /\ r.value = v
        /\ r.ms = IF opts = << >> THEN None ELSE opts[1]
    OBVIOUS
  <2>4. opts # << >> => opts[1] \in TTLs
    BY OptionsType
  <2> HIDE DEF r
  <2>5. Acknowledged(r)
    BY <2>2, <2>3, <2>4 DEF Acknowledged
  <2> QED
    BY <2>1, <2>5
<1>2. CASE WriteHeader
  BY <1>2, Zenon DEF WriteHeader
<1>3. ASSUME NEW k, NEW v, WriteAux(k, v) PROVE acked' = acked
  BY <1>3, Zenon DEF WriteAux
<1>4. ASSUME NEW db, WriteDBHeader(db) PROVE acked' = acked
  BY <1>4, Zenon DEF WriteDBHeader
<1>5. ASSUME NEW opts, WriteObjectRefused(opts) PROVE acked' = acked
  BY <1>5, Zenon DEF WriteObjectRefused
<1>6. CASE WriteEnd
  BY <1>6, Zenon DEF WriteEnd
<1> QED
  BY <1>1, <1>2, <1>3, <1>4, <1>5, <1>6, Zenon DEF Next

LEMMA DbChosenStep == ASSUME TypeOK, DbChosen, Next PROVE DbChosen'
<1>1. CASE WriteHeader
  BY <1>1, Zenon DEF WriteHeader, DbChosen
<1>2. ASSUME NEW k \in Keys, NEW v \in Values, WriteAux(k, v) PROVE DbChosen'
  <2>1. state' \in {"Aux", state} /\ callerDB' = callerDB
    BY <1>2 DEF WriteAux
  <2> QED
    BY <2>1 DEF DbChosen
<1>3. ASSUME NEW db \in DBs, WriteDBHeader(db) PROVE DbChosen'
  <2>1. callerDB' = db \/ (callerDB' = callerDB /\ state' = state)
    BY <1>3, Zenon DEF WriteDBHeader
  <2> QED
    BY <2>1 DEF DbChosen
<1>4. ASSUME NEW t \in ObjTypes, NEW flag \in Encodings[t], NEW k \in Keys,
             NEW v \in Values, NEW opts \in Options, WriteObject(t, flag, k, v, opts)
      PROVE  DbChosen'
  <2>1. Allowed("Object") /\ callerDB' = callerDB
    BY <1>4, Zenon DEF WriteObject
  <2> QED
    BY <2>1 DEF DbChosen, Allowed, StateChanges, TypeOK, States
<1>5. ASSUME NEW opts \in Options, WriteObjectRefused(opts) PROVE DbChosen'
  <2>1. Allowed("TTL") /\ callerDB' = callerDB
    BY <1>5, Zenon DEF WriteObjectRefused
  <2> QED
    BY <2>1 DEF DbChosen, Allowed, StateChanges, TypeOK, States
<1>6. CASE WriteEnd
  <2>1. Allowed("End") /\ state' \in {"End", state} /\ callerDB' = callerDB
    BY <1>6 DEF WriteEnd
  <2> QED
    BY <2>1 DEF DbChosen
<1> QED
  BY <1>1, <1>2, <1>3, <1>4, <1>5, <1>6 DEF Next

\* The tokens of a call behind a file that ends with a whole item.
LEMMA StillReadable ==
    ASSUME TypeOK, Boundary, faults = 0, state # "End", Readable(out), PlainFile,
           NEW p \in Seq(Token), Wrote(p)
    PROVE  Readable(out') /\ PlainFile'
<1>1. /\ Len(out') = Len(out) + Len(p) /\ Len(out) \in Nat /\ Len(p) \in Nat
      /\ \A i \in 1 .. Len(out') : out'[i] = IF i <= Len(out) THEN out[i]
                                            ELSE p[i - Len(out)]
  BY ConcatProperties DEF Wrote, TypeOK
<1>2. PlainFile'
  <2> SUFFICES ASSUME NEW i \in 1 .. Len(out') PROVE Plain(out'[i])
    BY DEF PlainFile, Plain
  <2>1. CASE i <= Len(out)
    BY <1>1, <2>1 DEF PlainFile
  <2>2. CASE i > Len(out)
    <3>1. i - Len(out) \in 1 .. Len(p) /\ out'[i] = p[i - Len(out)]
      BY <1>1, <2>2
    <3> QED
      BY <3>1 DEF Wrote
  <2> QED
    BY <1>1, <2>1, <2>2
<1>3. out' # << >> => out'[1].kind \in {"magic"} \cup Spoilt
  <2>1. CASE out = << >>
    <3>1. state = "Start" /\ Len(out) = 0
      BY <2>1 DEF Boundary
    <3>2. out' # << >> => Len(p) > 0 /\ out'[1] = p[1]
      BY <1>1, <3>1
    <3> QED
      BY <3>1, <3>2 DEF Wrote, Spoilt
  <2>2. CASE out # << >>
    <3>1. out'[1] = out[1]
      BY <1>1, <2>2
    <3> QED
      BY <2>2, <3>1 DEF Readable
  <2> QED
    BY <2>1, <2>2
<1>4. ASSUME NEW i \in 1 .. Len(out') - 1
      PROVE  \/ Follows(out'[i].kind, out'[i + 1].kind)
             \/ {out'[i].kind, out'[i + 1].kind} \cap Spoilt # {}
  <2>1. CASE i < Len(out)
    <3>1. out'[i] = out[i] /\ out'[i + 1] = out[i + 1] /\ i \in 1 .. Len(out) - 1
      BY <1>1, <2>1
    <3> QED
      BY <3>1 DEF Readable
  <2>2. CASE i = Len(out)
    <3>1. out'[i] = out[Len(out)] /\ out'[i + 1] = p[1] /\ Len(p) > 0 /\ out # << >>
      BY <1>1, <2>2
    <3>2. state # "Start" /\ out[Len(out)].kind \in Starters
      BY <3>1 DEF Boundary
    <3>3. p[1].kind = "torn" \/ p[1].kind \in OpKinds
      BY <3>1, <3>2 DEF Wrote
    <3> QED
      BY <3>1, <3>2, <3>3 DEF Follows, Spoilt
  <2>3. CASE i > Len(out)
    <3>1. /\ i - Len(out) \in 1 .. Len(p) - 1
          /\ out'[i] = p[i - Len(out)] /\ out'[i + 1] = p[i - Len(out) + 1]
      BY <1>1, <2>3
    <3>2. \/ Follows(out'[i].kind, out'[i + 1].kind)
          \/ "torn" \in {out'[i].kind, out'[i + 1].kind}
      BY <3>1 DEF Wrote
    <3> QED
      BY <3>2 DEF Spoilt
  <2> QED
    BY <1>1, <2>1, <2>2, <2>3
<1> QED
  BY <1>2, <1>3, <1>4 DEF Readable

\* The call that fails: what was acknowledged is still there, and no more.
LEMMA FailedCall ==
    ASSUME TypeOK, AllCarried, NoOther, InOrder, dirty', NEW p \in Seq(Token), Wrote(p)
    PROVE  AllCarried' /\ NoOther' /\ InOrder'
<1>1. /\ acked' = acked /\ out' = out \o p
      /\ \A i \in 1 .. Len(p) : p[i].kind # "value"
  BY DEF Wrote
<1>2. /\ out \in Seq(Token) /\ out' \in Seq(Token) /\ Begins(out, out')
      /\ Len(out') = Len(out) + Len(p)
      /\ \A i \in 1 .. Len(p) : out'[Len(out) + i] = p[i]
  BY <1>1, Longer DEF TypeOK
<1>3. AllCarried'
  <2>1. \A n \in 1 .. Len(acked) : acked[n] \in AckedCall
    BY DEF TypeOK
  <2>2. \A n \in 1 .. Len(acked) : Carried(out', acked[n])
    BY <1>2, <2>1, CarriedKept DEF AllCarried
  <2> QED
    BY <1>1, <2>2 DEF AllCarried
<1>4. NoOther'
  <2> SUFFICES ASSUME NEW i \in 1 .. Len(out'), out'[i].kind = "value"
               PROVE  \E n \in 1 .. Len(acked) : acked[n].at = i
    BY <1>1 DEF NoOther
  <2>1. i \in 1 .. Len(out)
    <3>1. CASE i > Len(out)
      <4>1. i - Len(out) \in 1 .. Len(p) /\ i = Len(out) + (i - Len(out))
        BY <1>2, <3>1
      <4> QED
        BY <1>1, <1>2, <4>1
    <3> QED
      BY <1>2, <3>1
  <2>2. out[i].kind = "value"
    BY <1>2, <2>1 DEF Begins
  <2> QED
    BY <2>1, <2>2 DEF NoOther
<1>5. InOrder'
  BY <1>1 DEF InOrder
<1> QED
  BY <1>3, <1>4, <1>5

LEMMA SaveStep == ASSUME SaveInv, ~dirty, Next PROVE SaveInv'
<1>1. /\ TypeOK /\ AckInv /\ Boundary /\ FaultIsDirty /\ AllCarried /\ NoOther /\ InOrder
      /\ Readable(out) /\ PlainFile /\ EndWritten /\ DbChosen /\ faults = 0
  BY Zenon DEF SaveInv, FaultIsDirty
<1>2. TypeOK' /\ AckInv' /\ Boundary' /\ DbChosen'
  BY <1>1, TypeStep, AckStep, GrammarStep, DbChosenStep, Zenon
<1>3. FaultIsDirty'
  BY <1>1, DirtyFault, Zenon DEF FaultIsDirty
<1>4. PICK p \in Seq(Token) : Wrote(p)
  BY <1>1, StepWrote
<1>5. state # "End"
  <2>1. PICK q \in Seq(Token) : Appended(q)
    BY <1>1, StepAppends
  <2> QED
    BY <2>1, Zenon DEF Appended
<1>6. Readable(out)' /\ PlainFile'
  <2>1. Readable(out') /\ PlainFile'
    BY <1>1, <1>4, <1>5, StillReadable
  <2> QED
    BY <2>1 DEF Readable
<1>7. AllCarried' /\ NoOther' /\ InOrder'
  <2>1. CASE dirty'
    BY <1>1, <1>4, <2>1, FailedCall
  <2>2. CASE ~dirty'
    BY <1>2, <2>2, Zenon DEF AckInv, FileSays
  <2> QED
    BY <2>1, <2>2
<1>8. EndWritten'
  <2> SUFFICES ASSUME state' = "End"
               PROVE  ~dirty' /\ out' # << >> /\ out'[Len(out')].kind = "crc"
    BY DEF EndWritten
  <2>1. out' = out \o EndTokens /\ dirty' = dirty
    BY <1>1, <1>5, EndStep
  <2>2. EndTokens \in Seq(Token) /\ Len(EndTokens) = 2 /\ EndTokens[2].kind = "crc"
    BY CallTokensType DEF EndTokens, Tok
  <2>3. /\ Len(out \o EndTokens) = Len(out) + Len(EndTokens)
        /\ (out \o EndTokens)[Len(out) + 2] = EndTokens[2] /\ Len(out) \in Nat
    <3>1. out \in Seq(Token) /\ Len(out) \in Nat /\ 2 \in 1 .. Len(EndTokens)
      BY <1>1, <2>2 DEF TypeOK
    <3> QED
      BY <2>2, <3>1, Longer
  <2> QED
    BY <2>1, <2>2, <2>3
<1> QED
  BY <1>2, <1>3, <1>6, <1>7, <1>8 DEF SaveInv

LEMMA SaveIdle == ASSUME SaveInv, UNCHANGED vars PROVE SaveInv'
<1>1. /\ UNCHANGED <<state, existDB, out, crc>>
      /\ UNCHANGED <<callerDB, acked, dirty, faults>>
  BY DEF vars
<1>2. TypeOK'
  BY <1>1 DEF SaveInv, TypeOK
<1>3. AckInv'
  <2>1. EndInDb => EndInDb'
    BY <1>1 DEF EndInDb, Says, Silent
  <2>2. NothingPending => NothingPending'
    BY <1>1 DEF NothingPending, Silent, LastObject
  <2>3. (AllCarried => AllCarried') /\ (NoOther => NoOther') /\ (InOrder => InOrder')
    BY ONLY <1>1 DEF AllCarried, Carried, NoOther, InOrder, Says, Silent, LastObject
  <2> QED
    BY <1>1, <2>1, <2>2, <2>3 DEF SaveInv, AckInv, FileSays
<1>4. AllCarried' /\ NoOther' /\ InOrder'
  BY <1>1 DEF SaveInv, AllCarried, Carried, NoOther, InOrder, Says, Silent, LastObject
<1>5. Boundary' /\ FaultIsDirty' /\ PlainFile' /\ EndWritten' /\ DbChosen'
  BY <1>1 DEF SaveInv, Boundary, WellFormed, FaultIsDirty, PlainFile, Plain, EndWritten,
              DbChosen
<1>6. Readable(out)'
  BY <1>1 DEF SaveInv, Readable
<1> QED
  BY <1>2, <1>3, <1>4, <1>5, <1>6 DEF SaveInv

(***************************************************************************)
(* What is left when the end of the file is lost: any beginning of it can  *)
(* be read, and carries the objects whose value it still holds.            *)
(***************************************************************************)
LEMMA CutReadable ==
    ASSUME NEW t \in Seq(Token), Readable(t), NEW s \in Seq(Token), Begins(s, t)
    PROVE  Readable(s)
<1>1. s # << >> => t # << >> /\ s[1] = t[1]
  BY DEF Begins
<1>2. \A i \in 1 .. Len(s) - 1 : /\ i \in 1 .. Len(t) - 1
                                 /\ s[i] = t[i] /\ s[i + 1] = t[i + 1]
  BY DEF Begins
<1> QED
  BY <1>1, <1>2 DEF Readable

LEMMA SilentCut ==
    ASSUME NEW s \in Seq(Token), NEW t \in Seq(Token), Begins(s, t),
           NEW from \in Nat, NEW i \in 0 .. Len(s) + 1, NEW kinds,
           Silent(t, from, i, kinds)
    PROVE  Silent(s, from, i, kinds)
BY DEF Silent, Begins

LEMMA SaysCut ==
    ASSUME NEW s \in Seq(Token), NEW t \in Seq(Token), Begins(s, t),
           NEW from \in Nat, NEW i \in 0 .. Len(s) + 1, NEW kinds, NEW default, NEW v,
           Says(t, from, i, kinds, default, v)
    PROVE  Says(s, from, i, kinds, default, v)
<1>1. CASE Silent(t, from, i, kinds) /\ v = default
  BY <1>1, SilentCut DEF Says
<1>2. CASE \E j \in from + 1 .. i - 1 :
               t[j].kind \in kinds /\ t[j].val = v /\ Silent(t, j, i, kinds)
  <2>1. PICK j \in from + 1 .. i - 1 :
               t[j].kind \in kinds /\ t[j].val = v /\ Silent(t, j, i, kinds)
    BY <1>2
  <2>2. j \in Nat /\ j \in 1 .. Len(s)
    OBVIOUS
  <2>3. Silent(s, j, i, kinds)
    BY <2>1, <2>2, SilentCut
  <2>4. t[j] = s[j]
    BY <2>2 DEF Begins
  <2> QED
    BY <2>1, <2>3, <2>4, Zenon DEF Says
<1> QED
  BY <1>1, <1>2 DEF Says

LEMMA CarriedCut ==
    ASSUME NEW s \in Seq(Token), NEW t \in Seq(Token), Begins(s, t),
           NEW r \in AckedCall, Carried(t, r), r.at <= Len(s)
    PROVE  Carried(s, r)
<1>1. r.at \in 0 .. Len(s) + 1 /\ r.at > 2 /\ r.at \in Nat
  BY DEF AckedCall, Carried
<1>2. s[r.at] = t[r.at] /\ s[r.at - 1] = t[r.at - 1] /\ s[r.at - 2] = t[r.at - 2]
  <2>1. r.at \in 1 .. Len(s) /\ r.at - 1 \in 1 .. Len(s) /\ r.at - 2 \in 1 .. Len(s)
    BY <1>1
  <2> QED
    BY <2>1 DEF Begins
<1>3. Says(s, 0, r.at, {"dbNum"}, 0, r.db)
  BY <1>1, SaysCut DEF Carried
<1>4. PICK o \in Nat : LastObject(t, r.at, o) /\ Says(t, o, r.at, {"ms"}, None, r.ms)
  BY DEF Carried
<1>5. LastObject(s, r.at, o)
  <2>1. Silent(s, o, r.at, {"value"})
    BY <1>1, <1>4, SilentCut DEF LastObject
  <2>2. o # 0 => o \in 1 .. Len(s) /\ s[o] = t[o] /\ o < r.at /\ t[o].kind = "value"
    BY <1>1, <1>4 DEF LastObject, Begins
  <2> QED
    BY <2>1, <2>2 DEF LastObject
<1>6. Says(s, o, r.at, {"ms"}, None, r.ms)
  BY <1>1, <1>4, SaysCut
<1> QED
  BY <1>1, <1>2, <1>3, <1>5, <1>6 DEF Carried
=============================================================================
