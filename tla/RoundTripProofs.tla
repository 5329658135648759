-------------------------- MODULE RoundTripProofs --------------------------
(***************************************************************************)
(* Proofs about RoundTrip: whatever the order of calls, the write that     *)
(* failed and the place where the file was cut, loading what is left of a  *)
(* saved file implements Snapshot; and a finished file gives back all of   *)
(* it.  The invariants of the encoder and of the decoder are instantiated; *)
(* what is new here is that they meet at the file.                         *)
(***************************************************************************)
EXTENDS RoundTrip, SequenceTheorems, TLAPS

E == INSTANCE EncoderProofs

\* The decoder's theorems hold for any set of readable inputs.
D == INSTANCE DecoderProofs WITH Files <- {f \in Seq(Dec!Token) : Dec!Readable(f)}

LEMMA EncoderHolds == E!EncoderAssumption
BY RoundTripAssumption DEF E!EncoderAssumption, E!Encodings, Enc!Encodings

(***************************************************************************)
(* The two instances of the token format, and of the encoder and decoder   *)
(* with and without their proofs, are the same.                            *)
(***************************************************************************)
LEMMA SameFormat ==
    /\ D!Token = E!Token /\ Dec!Token = E!Token
    /\ \A s : D!Readable(s) <=> E!Readable(s)
    /\ \A s : Dec!Readable(s) <=> E!Readable(s)
    /\ \A s : D!WellFormed(s) <=> E!WellFormed(s)
    /\ D!OpKinds = E!OpKinds
<1>1. /\ D!Kinds = E!Kinds /\ Dec!Kinds = E!Kinds /\ D!OpKinds = E!OpKinds
  BY DEF D!Kinds, Dec!Kinds, E!Kinds, D!OpKinds, Dec!OpKinds, E!OpKinds,
         D!OperandKinds, Dec!OperandKinds, E!OperandKinds
<1>2. /\ D!Starters = E!Starters /\ Dec!Starters = E!Starters
      /\ D!OperandAfter = E!OperandAfter /\ Dec!OperandAfter = E!OperandAfter
      /\ D!Spoilt = E!Spoilt /\ Dec!Spoilt = E!Spoilt
      /\ Dec!OpKinds = E!OpKinds
  BY DEF D!Starters, Dec!Starters, E!Starters, D!OperandAfter, Dec!OperandAfter,
         E!OperandAfter, D!Spoilt, Dec!Spoilt, E!Spoilt, Dec!OpKinds, E!OpKinds
<1>3. \A k, l : /\ D!Follows(k, l) <=> E!Follows(k, l)
                /\ Dec!Follows(k, l) <=> E!Follows(k, l)
  BY <1>1, <1>2, Zenon DEF D!Follows, Dec!Follows, E!Follows
<1> QED
  BY <1>1, <1>2, <1>3, Zenon DEF D!Token, Dec!Token, E!Token, D!Readable,
         Dec!Readable, E!Readable,
         D!WellFormed, E!WellFormed

LEMMA DecoderHolds == D!DecoderAssumption
BY RoundTripAssumption, SameFormat DEF D!DecoderAssumption, D!None

LEMMA EncoderStep == Enc!Next <=> E!Next
BY Zenon DEF
   Enc!Tok, Enc!Torn, Enc!Allowed, Enc!Summed, Enc!WriteAll, Enc!FailAfter, Enc!WriteFails,
   Enc!HeaderTokens, Enc!WriteHeader, Enc!AuxTokens, Enc!WriteAux, Enc!DBHeaderTokens,
   Enc!WriteDBHeader, Enc!TTLTokens, Enc!ObjectTokens, Enc!OptionsAccepted, Enc!WriteObject,
   Enc!WriteObjectRefused, Enc!WriteEnd, Enc!Options, Enc!Next, Enc!StateChanges, Enc!None,
   Enc!Encodings, Enc!StringEncodings, Enc!ListEncodings, Enc!SetEncodings, Enc!ZSetEncodings,
   Enc!HashEncodings, Enc!HashExEncodings, Enc!StreamEncodings,
   E!Tok, E!Torn, E!Allowed, E!Summed, E!WriteAll, E!FailAfter, E!WriteFails, E!HeaderTokens,
   E!WriteHeader, E!AuxTokens, E!WriteAux, E!DBHeaderTokens, E!WriteDBHeader, E!TTLTokens,
   E!ObjectTokens, E!OptionsAccepted, E!WriteObject, E!WriteObjectRefused, E!WriteEnd,
   E!Options, E!Next, E!StateChanges, E!None, E!Encodings, E!StringEncodings,
   E!ListEncodings, E!SetEncodings, E!ZSetEncodings, E!HashEncodings, E!HashExEncodings,
   E!StreamEncodings

LEMMA DecoderStep == Dec!Next <=> D!Next
BY Zenon DEF
   Dec!Tok, Dec!OpKinds, Dec!ObjectType, Dec!KnownType, Dec!TypeOfFlag, Dec!ToInt64,
   Dec!Expiration, Dec!Has, Dec!Readable1, Dec!Spoilt, Dec!AtOp, Dec!Fail, Dec!Constant,
   Dec!locals, Dec!Deliver, Dec!CheckHeader, Dec!NoOpCode, Dec!ReadEOF, Dec!OneOperand,
   Dec!Operand, Dec!SelectDB, Dec!ExpireTime, Dec!ExpireTimeMs, Dec!Freq, Dec!Idle,
   Dec!ModuleAux, Dec!SlotMetadata, Dec!SlotInfo, Dec!SlotImport, Dec!Object,
   Dec!DeliverSpecial, Dec!Function, Dec!TwoOperands, Dec!Aux, Dec!ResizeDB,
   Dec!ResetAttributes, Dec!Outcomes, Dec!ValueRead, Dec!ReadObject, Dec!ReadChecksum,
   Dec!Next, Dec!vars, Dec!None, Dec!Nil,
   D!Tok, D!OpKinds, D!ObjectType, D!KnownType, D!TypeOfFlag, D!ToInt64, D!Expiration,
   D!Has, D!Readable1, D!Spoilt, D!AtOp, D!Fail, D!Constant, D!locals, D!Deliver,
   D!CheckHeader, D!NoOpCode, D!ReadEOF, D!OneOperand, D!Operand, D!SelectDB, D!ExpireTime,
   D!ExpireTimeMs, D!Freq, D!Idle, D!ModuleAux, D!SlotMetadata, D!SlotInfo, D!SlotImport,
   D!Object, D!DeliverSpecial, D!Function, D!TwoOperands, D!Aux, D!ResizeDB,
   D!ResetAttributes, D!Outcomes, D!ValueRead, D!ReadObject, D!ReadChecksum, D!Next,
   D!vars, D!None, D!Nil

LEMMA EncoderInit == Enc!Init <=> E!Init
BY Zenon DEF Enc!Init, E!Init

-----------------------------------------------------------------------------
(***************************************************************************)
(* The inductive invariant: the encoder's, and once the file is closed the *)
(* decoder's, of a beginning of what the encoder wrote; the n-th delivered *)
(* object is the n-th acknowledged one.                                    *)
(***************************************************************************)
AckedPassed ==
    \A n \in 1 .. Len(acked) :
        /\ acked[n].type \in ObjTypes /\ acked[n].db \in DBs /\ acked[n].key \in Keys
        /\ acked[n].value \in Values /\ acked[n].ms \in TTLs \cup {-1}

Matched ==
    \A n \in 1 .. Len(delivered) : n <= Len(acked) /\ delivered[n].at = acked[n].at

NotLoading == D!Init /\ file = << >>

Loading ==
    /\ D!Inv /\ D!WholeRead /\ D!OnlyKeys
    /\ E!Begins(file, out) /\ Matched

Inv == /\ phase \in {"save", "load"} /\ withSpecialOpCode = FALSE
       /\ E!SaveInv /\ AckedPassed
       /\ phase = "save" => NotLoading
       /\ phase = "load" => Loading

LEMMA InitInv == Init => Inv
<1> SUFFICES ASSUME Init PROVE Inv
  OBVIOUS
<1>1. E!SaveInv
  BY EncoderHolds, EncoderInit, E!SaveInit DEF Init
<1>2. AckedPassed
  BY DEF Init, Enc!Init, AckedPassed
<1>3. file = << >>
  BY DEF Init, Dec!Init
<1>4. << >> \in {f \in Seq(Dec!Token) : Dec!Readable(f)}
  BY DEF Dec!Readable
<1>5. D!Init
  BY <1>3, <1>4, Zenon DEF Init, Dec!Init, D!Init, Dec!Nil, D!Nil
<1> QED
  BY <1>1, <1>2, <1>3, <1>5 DEF Init, Inv, NotLoading

LEMMA OutType ==
    Inv => out \in Seq(E!Token) /\ acked \in Seq(E!AckedCall) /\ E!Readable(out)
BY DEF Inv, E!SaveInv, E!TypeOK

LEMMA SavingInv == ASSUME Inv, SaveStep PROVE Inv'
<1>1. /\ phase = "save" /\ phase' = phase /\ ~dirty /\ E!Next
      /\ UNCHANGED <<file, withSpecialOpCode, pos, dbIndex, expireMs, lru, lfu,
                     delivered, stopped, status>>
  BY EncoderStep DEF SaveStep, decVars
<1>2. E!SaveInv'
  BY <1>1, EncoderHolds, E!SaveStep DEF Inv
<1>3. NotLoading'
  BY <1>1 DEF Inv, NotLoading, D!Init
<1>4. AckedPassed'
  <2>1. /\ E!TypeOK /\ E!DbChosen /\ acked \in Seq(E!AckedCall)
    BY DEF Inv, E!SaveInv, E!TypeOK
  <2>2. \/ acked' = acked
        \/ \E r : acked' = Append(acked, r) /\ E!Acknowledged(r)
    BY <1>1, <2>1, EncoderHolds, E!StepAcks
  <2>3. CASE acked' = acked
    BY <2>3 DEF Inv, AckedPassed
  <2>4. CASE \E r : acked' = Append(acked, r) /\ E!Acknowledged(r)
    <3>1. PICK r : acked' = Append(acked, r) /\ E!Acknowledged(r)
      BY <2>4
    <3>2. /\ Len(acked') = Len(acked) + 1 /\ acked'[Len(acked) + 1] = r
          /\ \A n \in 1 .. Len(acked) : acked'[n] = acked[n]
          /\ Len(acked) \in Nat
      BY <2>1, <3>1
    <3>3. \A n \in 1 .. Len(acked') : n \in 1 .. Len(acked) \/ n = Len(acked) + 1
      BY <3>2
    <3>4. /\ r.type \in ObjTypes /\ r.db \in DBs /\ r.key \in Keys
          /\ r.value \in Values /\ r.ms \in TTLs \cup {-1}
      BY <3>1 DEF E!Acknowledged, E!None
    <3> QED
      BY <3>2, <3>3, <3>4 DEF Inv, AckedPassed
  <2> QED
    BY <2>2, <2>3, <2>4
<1> QED
  BY <1>1, <1>2, <1>3, <1>4 DEF Inv

LEMMA DecoderBegins == D!Init' => D!Inv' /\ D!WholeRead'
<1>1. D!Init => D!Inv /\ D!WholeRead
  BY DecoderHolds, D!InitInv, D!WholeInit
<1> QED
  BY <1>1, PTL

LEMMA CloseInv == ASSUME Inv, Close PROVE Inv'
<1>1. /\ phase' = "load" /\ UNCHANGED encVars
      /\ UNCHANGED <<withSpecialOpCode, pos, dbIndex, expireMs, lru, lfu, delivered,
                     stopped, status>>
      /\ phase = "save"
  BY DEF Close
<1>2. PICK n \in 0 .. Len(out) : file' = SubSeq(out, 1, n)
  BY DEF Close
<1>3. E!SaveInv' /\ AckedPassed'
  <2>1. UNCHANGED E!vars
    BY <1>1 DEF encVars, E!vars
  <2> QED
    BY <1>1, <2>1, EncoderHolds, E!SaveIdle DEF Inv, AckedPassed, encVars
<1>4. /\ file' \in Seq(E!Token) /\ E!Begins(file', out) /\ E!Readable(file')
  <2>1. out \in Seq(E!Token) /\ E!Readable(out)
    BY OutType
  <2>2. file' \in Seq(E!Token) /\ E!Begins(file', out)
    BY <1>2, <2>1 DEF E!Begins
  <2> QED
    BY <2>1, <2>2, EncoderHolds, E!CutReadable
<1>5. file' \in {f \in Seq(Dec!Token) : Dec!Readable(f)}
  BY <1>4, SameFormat
<1>6. D!Init'
  BY <1>1, <1>5 DEF Inv, NotLoading, D!Init
<1>7. D!Inv' /\ D!WholeRead'
  BY <1>6, DecoderBegins
<1>8. D!OnlyKeys' /\ Matched' /\ E!Begins(file, out)'
  <2>1. delivered' = << >> /\ out' = out
    BY <1>1, <1>6 DEF D!Init, encVars
  <2>2. E!Begins(file', out')
    BY <1>4, <2>1
  <2> QED
    BY <2>1, <2>2 DEF D!OnlyKeys, Matched, E!Begins
<1> QED
  BY <1>1, <1>3, <1>7, <1>8 DEF Inv, Loading

(***************************************************************************)
(* The decoder reads a key: it is the next one that was acknowledged.      *)
(***************************************************************************)
LEMMA NextAcked ==
    ASSUME Inv, phase = "load", NEW p \in Nat, pos < p, p <= Len(file),
           status = "loop", file[p].kind = "value",
           \A i \in pos + 1 .. p - 1 : file[i].kind # "value"
    PROVE  Len(delivered) + 1 <= Len(acked) /\ acked[Len(delivered) + 1].at = p
<1> DEFINE k == Len(delivered)
<1>1. /\ k \in Nat /\ pos \in Nat /\ Len(file) \in Nat /\ Len(out) \in Nat
      /\ Len(acked) \in Nat /\ Len(file) <= Len(out)
      /\ \A j \in 1 .. Len(file) : out[j] = file[j]
      /\ \A n \in 1 .. Len(acked) : acked[n].at \in Nat /\ acked[n].at > 2
                                   /\ out[acked[n].at].kind = "value"
  <2>1. /\ delivered \in Seq(D!Delivery) /\ pos \in Nat /\ file \in Seq(D!Token)
        /\ E!Begins(file, out) /\ out \in Seq(E!Token) /\ acked \in Seq(E!AckedCall)
    BY OutType DEF Inv, Loading, D!Inv, D!TypeOK
  <2>2. \A n \in 1 .. Len(acked) : acked[n] \in E!AckedCall /\ E!Carried(out, acked[n])
    BY <2>1 DEF Inv, E!SaveInv, E!AllCarried
  <2>3. \A r \in E!AckedCall : E!Carried(out, r) =>
            r.at \in Nat /\ r.at > 2 /\ out[r.at].kind = "value"
    BY DEF E!AckedCall, E!Carried, E!Tok
  <2> QED
    BY <2>1, <2>2, <2>3 DEF E!Begins
<1>2. /\ \A n \in 1 .. k : n <= Len(acked) /\ delivered[n].at = acked[n].at
      /\ \A n \in 1 .. k : delivered[n].at <= pos
      /\ \A i \in 1 .. pos : file[i].kind = "value" =>
             \E n \in 1 .. k : delivered[n].at = i
  BY DEF Inv, Loading, Matched, D!Inv, D!Arrived, D!ObjectsComplete
<1>3. /\ \A m, n \in 1 .. Len(acked) : m < n => acked[m].at < acked[n].at
      /\ \A i \in 1 .. Len(out) :
             out[i].kind = "value" => \E n \in 1 .. Len(acked) : acked[n].at = i
  BY DEF Inv, E!SaveInv, E!InOrder, E!NoOther
<1> HIDE DEF k
<1>4. PICK n \in 1 .. Len(acked) : acked[n].at = p
  <2>1. p \in 1 .. Len(file) /\ p \in 1 .. Len(out)
    BY <1>1
  <2> QED
    BY <1>1, <1>3, <2>1
<1>5. n > k
  <2>1. ASSUME n \in 1 .. k PROVE FALSE
    <3>1. delivered[n].at = p /\ delivered[n].at <= pos
      BY <1>2, <1>4, <2>1
    <3> QED
      BY <1>1, <3>1
  <2> QED
    BY <1>1, <1>4, <2>1
<1>6. ASSUME n > k + 1 PROVE FALSE
  <2>1. k + 1 \in 1 .. Len(acked) /\ acked[k + 1].at < p
    BY <1>1, <1>3, <1>4, <1>6
  <2> DEFINE i == acked[k + 1].at
  <2>2. i \in Nat /\ i > 2 /\ i < p /\ i \in 1 .. Len(file) /\ out[i].kind = "value"
    BY <1>1, <2>1
  <2> HIDE DEF i
  <2>3. file[i].kind = "value"
    BY <1>1, <2>2
  <2>4. i \in 1 .. pos
    BY <1>1, <2>2, <2>3
  <2>5. PICK m \in 1 .. k : delivered[m].at = i
    BY <1>2, <2>3, <2>4
  <2>6. m \in 1 .. Len(acked) /\ m < k + 1 /\ acked[m].at = i
    BY <1>1, <1>2, <2>5
  <2>7. acked[m].at < acked[k + 1].at
    BY <1>3, <2>1, <2>6
  <2> QED
    BY <2>2, <2>6, <2>7 DEF i
<1>7. n = k + 1
  BY <1>1, <1>4, <1>5, <1>6
<1> QED
  BY <1>1, <1>4, <1>7 DEF k

LEMMA LoadingInv == ASSUME Inv, LoadStep PROVE Inv'
<1>1. phase = "load" /\ phase' = phase /\ UNCHANGED encVars /\ D!Next
  BY DecoderStep DEF LoadStep
<1>2. E!SaveInv' /\ AckedPassed'
  <2>1. UNCHANGED E!vars
    BY <1>1 DEF encVars, E!vars
  <2> QED
    BY <1>1, <2>1, EncoderHolds, E!SaveIdle DEF Inv, AckedPassed, encVars
<1>3. D!Inv /\ D!WholeRead /\ D!OnlyKeys /\ Matched /\ E!Begins(file, out)
  BY <1>1 DEF Inv, Loading
<1>4. D!Inv' /\ D!WholeRead' /\ D!OnlyKeys'
  BY <1>1, <1>3, DecoderHolds, D!StepInv, D!WholeStep, D!OnlyKeysStep
<1>5. file' = file /\ withSpecialOpCode' = withSpecialOpCode
  BY <1>1, DecoderHolds, D!FileKept
<1>6. E!Begins(file, out)'
  BY <1>1, <1>3, <1>5 DEF E!Begins, encVars
<1>7. Matched'
  <2>0. acked' = acked
    BY <1>1 DEF encVars
  <2>1. CASE delivered' = delivered
    BY <1>3, <2>0, <2>1 DEF Matched
  <2>2. CASE delivered' # delivered
    <3>1. PICK obj :
             /\ status = "loop" /\ delivered' = Append(delivered, obj)
             /\ obj.at = pos' /\ obj.type \notin D!SpecialTypes
             /\ pos' \in pos + 1 .. Len(file) /\ file[pos'].kind = "value"
             /\ \A i \in pos + 1 .. pos' - 1 : file[i].kind # "value"
      BY <1>1, <1>3, <2>2, DecoderHolds, D!ReadKey DEF Inv
    <3>2. pos \in Nat /\ Len(file) \in Nat /\ delivered \in Seq(D!Delivery)
      BY <1>3 DEF D!Inv, D!TypeOK
    <3>3. pos' \in Nat /\ pos < pos' /\ pos' <= Len(file)
      BY <3>1, <3>2
    <3>4. Len(delivered) + 1 <= Len(acked) /\ acked[Len(delivered) + 1].at = pos'
      BY <1>1, <3>1, <3>3, NextAcked
    <3>5. /\ Len(delivered') = Len(delivered) + 1 /\ Len(delivered) \in Nat
          /\ delivered'[Len(delivered) + 1] = obj
          /\ \A n \in 1 .. Len(delivered) : delivered'[n] = delivered[n]
      BY <3>1, <3>2
    <3>6. \A n \in 1 .. Len(delivered') : n \in 1 .. Len(delivered) \/ n = Len(delivered) + 1
      BY <3>5
    <3> QED
      BY <1>3, <2>0, <3>1, <3>4, <3>5, <3>6 DEF Matched
  <2> QED
    BY <2>1, <2>2
<1> QED
  BY <1>1, <1>2, <1>4, <1>5, <1>6, <1>7 DEF Inv, Loading

LEMMA StepInv == Inv /\ [Next]_vars => Inv'
<1> SUFFICES ASSUME Inv, [Next]_vars PROVE Inv'
  OBVIOUS
<1>1. CASE UNCHANGED vars
  <2>1. UNCHANGED E!vars /\ UNCHANGED D!vars /\ UNCHANGED <<phase, out, acked>>
        /\ UNCHANGED <<file, withSpecialOpCode, pos, dbIndex, expireMs, lru, lfu,
                       delivered, stopped, status>>
    BY <1>1 DEF vars, encVars, decVars, E!vars, D!vars
  <2>2. E!SaveInv'
    BY <2>1, EncoderHolds, E!SaveIdle DEF Inv
  <2>3. D!Inv => D!Inv'
    BY <2>1, DecoderHolds, D!StepInv
  <2>4. D!Inv /\ D!WholeRead => D!WholeRead'
    BY <2>1, DecoderHolds, D!WholeStep
  <2>5. AckedPassed' /\ (NotLoading => NotLoading') /\ (Matched => Matched')
        /\ (E!Begins(file, out) => E!Begins(file, out)') /\ (D!OnlyKeys => D!OnlyKeys')
    BY <2>1 DEF Inv, AckedPassed, NotLoading, Matched, E!Begins, D!OnlyKeys, D!Init
  <2> QED
    BY <2>1, <2>2, <2>3, <2>4, <2>5 DEF Inv, Loading
<1> QED
  BY <1>1, SavingInv, CloseInv, LoadingInv DEF Next

LEMMA InvAlways == Spec => []Inv
BY InitInv, StepInv, PTL DEF Spec

-----------------------------------------------------------------------------
(***************************************************************************)
(* What was delivered is what was saved: the file says the same to the     *)
(* decoder as the encoder's invariant says the file carries.               *)
(***************************************************************************)
LEMMA FlagOfType ==
    ASSUME NEW t \in DOMAIN E!Encodings, NEW f \in E!Encodings[t]
    PROVE  D!KnownType(f) /\ D!TypeOfFlag(f) = Kind(t)
<1>1. /\ Kind(t) \in DOMAIN D!ObjectType /\ f \in D!ObjectType[Kind(t)]
      /\ \A u \in DOMAIN D!ObjectType : f \in D!ObjectType[u] => u = Kind(t)
  BY DEF Kind, D!ObjectType, E!Encodings, E!StringEncodings, E!ListEncodings,
         E!SetEncodings, E!ZSetEncodings, E!HashEncodings, E!HashExEncodings,
         E!StreamEncodings
<1> QED
  BY <1>1, Zenon DEF D!KnownType, D!TypeOfFlag

LEMMA Fits == ASSUME NEW x \in Nat, 2 * x < Int64 PROVE D!ToInt64(x) = x
<1>1. x % Int64 = x
  BY RoundTripAssumption
<1> QED
  BY <1>1, RoundTripAssumption DEF D!ToInt64

LEMMA Unwrapped ==
    ASSUME NEW t \in TTLs
    PROVE  /\ t \in Nat /\ t > 0 /\ t * NsPerMs \in Nat
           /\ D!ToInt64(t) = t /\ D!Expiration(t) = <<t * NsPerMs>>
<1>2. t \in Nat /\ t > 0 /\ NsPerMs \in Nat /\ NsPerMs > 0 /\ 2 * t * NsPerMs < Int64
  BY RoundTripAssumption
<1> DEFINE p == t * NsPerMs
<1>3. p \in Nat /\ t <= p
  BY <1>2
<1>4. 2 * t * NsPerMs = 2 * p
  BY <1>2
<1>5. D!Expiration(t) = <<D!ToInt64(p)>>
  BY <1>2 DEF D!Expiration
<1> HIDE DEF p
<1>6. 2 * p < Int64 /\ 2 * t < Int64
  BY <1>2, <1>3, <1>4, RoundTripAssumption
<1>7. D!ToInt64(p) = p /\ D!ToInt64(t) = t
  BY <1>2, <1>3, <1>6, Fits
<1> QED
  BY <1>2, <1>3, <1>5, <1>7 DEF p

\* An expiration, in milliseconds, that a program passed with an object.
Expires(ms) == IF ms = -1 THEN Dec!Nil ELSE <<ms * NsPerMs>>

LEMMA SameObjectBefore == \A s, i : D!ObjectBefore(s, i) = E!ObjectBefore(s, i)
BY Zenon DEF D!ObjectBefore, E!ObjectBefore

LEMMA TimeSaid ==
    ASSUME NEW s \in Seq(E!Token), \A j \in 1 .. Len(s) : s[j].kind # "sec",
           NEW i \in 1 .. Len(s), NEW o \in Nat, E!LastObject(s, i, o),
           NEW ms \in TTLs \cup {-1}, E!Says(s, o, i, {"ms"}, -1, ms)
    PROVE  D!Expiration(D!MsOf(s, i)) = Expires(ms)
<1> DEFINE js == D!Between(s, o, i, {"ms", "sec"})
<1>1. D!ObjectBefore(s, i) = o
  BY EncoderHolds, E!LastObjectBefore, SameObjectBefore
<1>2. D!MsOf(s, i) = IF js = {} THEN 0 ELSE D!MsAt(s[D!LastOf(js)])
  <2>1. D!MsOf(s, i) = D!MsBetween(s, o, i)
    BY <1>1, DecoderHolds, D!MsOfBetween
  <2> QED
    BY <2>1 DEF D!MsBetween
<1>3. CASE E!Silent(s, o, i, {"ms"}) /\ ms = -1
  <2>1. js = {}
    BY <1>3 DEF E!Silent, D!Between
  <2>2. D!MsOf(s, i) = 0
    BY <1>2, <2>1
  <2> QED
    BY <1>3, <2>2 DEF D!Expiration, D!Nil, Dec!Nil, Expires
<1>4. CASE \E j \in o + 1 .. i - 1 : /\ s[j].kind \in {"ms"} /\ s[j].val = ms
                                     /\ E!Silent(s, j, i, {"ms"})
  <2>1. PICK j \in o + 1 .. i - 1 : /\ s[j].kind \in {"ms"} /\ s[j].val = ms
                                     /\ E!Silent(s, j, i, {"ms"})
    BY <1>4
  <2>2. /\ j \in js /\ js \subseteq Int /\ \A m \in js : m <= j
    <3>1. j \in js /\ js \subseteq Int
      BY <2>1 DEF D!Between
    <3>2. ASSUME NEW m \in js PROVE m <= j
      <4>1. m \in 1 .. Len(s) /\ m \in o + 1 .. i - 1 /\ s[m].kind \in {"ms", "sec"}
        BY DEF D!Between
      <4>2. s[m].kind = "ms"
        BY <4>1
      <4> QED
        BY <2>1, <4>1, <4>2 DEF E!Silent
    <3> QED
      BY <3>1, <3>2
  <2>3. s[j] \in E!Token
    OBVIOUS
  <2>4. ms \in Nat /\ ms # -1 /\ ms \in TTLs
    BY <2>1, <2>3 DEF E!Token
  <2> HIDE DEF js
  <2>5. D!LastOf(js) = j
    BY <2>2, DecoderHolds, D!LastOfIs
  <2>6. D!MsOf(s, i) = D!ToInt64(ms)
    <3>1. D!MsOf(s, i) = D!MsAt(s[j])
      BY <1>2, <2>2, <2>5
    <3> QED
      BY <2>1, <3>1 DEF D!MsAt
  <2> QED
    BY <2>4, <2>6, Unwrapped DEF Expires
<1> QED
  BY <1>3, <1>4 DEF E!Says

\* The n-th object delivered is the n-th acknowledged one, with a value that what
\* was written for it is read as.
ReadBack(n) ==
    /\ n \in 1 .. Len(acked)
    /\ file[delivered[n].at - 2].val \in E!Encodings[acked[n].type]
    /\ Loaded[n] \in Restored(Saved[n], {file[delivered[n].at - 2].val})

LEMMA SameOutcomes == \A f, v : D!Outcomes(f, v) = Dec!Outcomes(f, v) /\ D!None = Dec!None
BY Zenon DEF D!Outcomes, Dec!Outcomes, D!None, Dec!None

LEMMA AsSaved ==
    ASSUME Inv, phase = "load", NEW n \in 1 .. Len(delivered)
    PROVE  ReadBack(n)
<1> DEFINE r == acked[n]
           i == acked[n].at
<1>0. /\ n \in 1 .. Len(acked) /\ delivered[n].at = i
      /\ i \in 1 .. Len(file)
      /\ \E v \in D!Outcomes(file[i - 2].val, file[i].val) \ {D!None} :
             delivered[n] = D!Said(file, i, v)
  <2>1. n \in 1 .. Len(acked) /\ delivered[n].at = i
    BY DEF Inv, Loading, Matched, D!Inv, D!TypeOK
  <2> HIDE DEF i
  <2>2. ~withSpecialOpCode /\ D!OnlyKeys /\ D!ObjectsAsSaid
    BY DEF Inv, Loading, D!Inv
  <2>3. delivered[n].type \notin D!SpecialTypes /\ delivered[n].at \in 1 .. Len(file)
    BY <2>2 DEF D!OnlyKeys
  <2> QED
    BY <2>1, <2>2, <2>3, Zenon DEF D!ObjectsAsSaid
<1>1. PICK v \in D!Outcomes(file[i - 2].val, file[i].val) \ {D!None} :
          /\ n \in 1 .. Len(acked) /\ delivered[n].at = i
          /\ i \in 1 .. Len(file) /\ delivered[n] = D!Said(file, i, v)
  BY <1>0
<1>2. /\ file \in Seq(E!Token) /\ out \in Seq(E!Token) /\ E!Begins(file, out)
      /\ r \in E!AckedCall /\ E!Carried(out, r)
  <2>1. file \in Seq(D!Token) /\ acked \in Seq(E!AckedCall)
    BY OutType DEF Inv, Loading, D!Inv, D!TypeOK
  <2> QED
    BY <1>1, <2>1, SameFormat, OutType DEF Inv, Loading, E!SaveInv, E!AllCarried
<1>3. E!Carried(file, r)
  BY <1>1, <1>2, EncoderHolds, E!CarriedCut
<1>4. r.ms \in TTLs \cup {-1}
  BY <1>1 DEF Inv, AckedPassed
<1>5. \A j \in 1 .. Len(file) : file[j].kind # "sec"
  <2>1. \A j \in 1 .. Len(file) : j \in 1 .. Len(out) /\ file[j] = out[j]
    BY <1>2 DEF E!Begins
  <2>2. \A j \in 1 .. Len(out) : out[j].kind # "sec"
    BY DEF Inv, E!SaveInv, E!PlainFile, E!Plain, E!WrittenKinds
  <2> QED
    BY <2>1, <2>2
<1> HIDE DEF r, i
<1>6. i = r.at
  BY DEF r, i
<1>7. PICK f \in E!Encodings[r.type] : file[i - 2] = E!Tok("type", f)
  BY <1>3, <1>6 DEF E!Carried
<1>8. r.type \in DOMAIN E!Encodings
  BY <1>2 DEF E!AckedCall
<1>9. /\ file[i] = E!Tok("value", r.value) /\ file[i - 1] = E!Tok("key", r.key)
      /\ E!Says(file, 0, i, {"dbNum"}, 0, r.db)
  BY <1>3, <1>6 DEF E!Carried
<1>10. PICK o \in Nat : /\ E!LastObject(file, i, o)
                        /\ E!Says(file, o, i, {"ms"}, -1, r.ms)
  BY <1>3, <1>6 DEF E!Carried, E!None
<1>11. delivered[n].type = Kind(r.type)
  <2>1. file[i - 2].val = f
    BY <1>7 DEF E!Tok
  <2>2. delivered[n].type = D!TypeOfFlag(file[i - 2].val)
    BY <1>1 DEF D!Said, D!Object
  <2> QED
    BY <1>7, <1>8, <2>1, <2>2, FlagOfType
<1>12. delivered[n].db = r.db
  <2>1. E!InForce(file, 0, i, {"dbNum"}, 0) = r.db
    <3>1. i \in Nat /\ 0 \in Nat
      BY <1>1
    <3> QED
      BY ONLY <1>9, <3>1, EncoderHolds, E!SaysInForce
  <2>2. D!InForce(file, 0, i, {"dbNum"}, 0) = r.db
    BY <2>1, Zenon DEF D!InForce, E!InForce
  <2>3. r.db \in DBs
    BY <1>1 DEF Inv, AckedPassed, r
  <2>4. r.db \in Nat /\ 2 * r.db < Int64
    BY <2>3, RoundTripAssumption
  <2>5. D!ToInt64(r.db) = r.db
    BY <2>4, Fits
  <2> QED
    BY <1>1, <2>2, <2>5 DEF D!Said, D!Object
<1>13. delivered[n].key = r.key /\ delivered[n].value = v
  <2>1. file[i - 1].val = r.key
    BY <1>9 DEF E!Tok
  <2> QED
    BY <1>1, <2>1 DEF D!Said, D!Object
<1>14. delivered[n].exp = Expires(r.ms)
  <2>1. D!Expiration(D!MsOf(file, i)) = Expires(r.ms)
    BY <1>1, <1>2, <1>4, <1>5, <1>10, TimeSaid
  <2> QED
    BY <1>1, <2>1 DEF D!Said, D!Object
<1>15. /\ Loaded[n] = Entry(delivered[n].type, delivered[n].db, delivered[n].key,
                            delivered[n].value, delivered[n].exp)
       /\ Saved[n] = Entry(r.type, r.db, r.key, r.value, Expires(r.ms))
  BY <1>1 DEF Loaded, Saved, Expires, r
<1>16. file[delivered[n].at - 2].val = f /\ file[i - 2].val = f /\ file[i].val = r.value
  BY <1>1, <1>7, <1>9 DEF E!Tok
<1>17. v \in Dec!Outcomes(f, r.value) \ {Dec!None}
  BY <1>1, <1>16, SameOutcomes, Zenon
<1>18. Loaded[n] = Entry(Kind(r.type), r.db, r.key, v, Expires(r.ms))
  BY <1>11, <1>12, <1>13, <1>14, <1>15
<1>19. Loaded[n] \in Restored(Saved[n], {f})
  <2>1. v \in (UNION {Dec!Outcomes(g, r.value) : g \in {f}}) \ {Dec!None}
    BY <1>17
  <2>2. /\ Saved[n].type = r.type /\ Saved[n].db = r.db /\ Saved[n].key = r.key
        /\ Saved[n].value = r.value /\ Saved[n].exp = Expires(r.ms)
    BY <1>15 DEF Entry
  <2> QED
    BY <1>18, <2>1, <2>2, Zenon DEF Restored
<1>20. file[delivered[n].at - 2].val \in E!Encodings[acked[n].type]
  BY <1>7, <1>16 DEF r
<1> QED
  BY <1>1, <1>16, <1>19, <1>20, Zenon DEF ReadBack

LEMMA AsSavedNext ==
    (Inv /\ phase = "load" => \A n \in 1 .. Len(delivered) : ReadBack(n))'
<1>1. Inv /\ phase = "load" => \A n \in 1 .. Len(delivered) : ReadBack(n)
  BY AsSaved
<1> QED
  BY <1>1, PTL

(***************************************************************************)
(* Saving and loading through a file implements Snapshot.                  *)
(***************************************************************************)
\* An acknowledged call, as its caller sees it.
SavedAs(r) == Entry(r.type, r.db, r.key, r.value, Expires(r.ms))

LEMMA Saves ==
    ASSUME Inv, SaveStep PROVE Abstract!Save \/ UNCHANGED <<Saved, Loaded>>
<1>1. /\ E!TypeOK /\ E!DbChosen /\ acked \in Seq(E!AckedCall) /\ E!Next
      /\ delivered' = delivered
  BY EncoderStep DEF SaveStep, decVars, Inv, E!SaveInv, E!TypeOK
<1>2. Loaded' = Loaded
  BY <1>1 DEF Loaded
<1>3. \/ acked' = acked
      \/ \E r : acked' = Append(acked, r) /\ E!Acknowledged(r)
  BY <1>1, EncoderHolds, E!StepAcks
<1>4. CASE acked' = acked
  BY <1>2, <1>4 DEF Saved
<1>5. CASE \E r : acked' = Append(acked, r) /\ E!Acknowledged(r)
  <2>1. PICK r : acked' = Append(acked, r) /\ E!Acknowledged(r)
    BY <1>5
  <2>2. /\ Saved = [n \in 1 .. Len(acked) |-> SavedAs(acked[n])]
        /\ Saved' = [n \in 1 .. Len(acked') |-> SavedAs(acked'[n])]
    BY DEF Saved, SavedAs, Expires
  <2>3. /\ Len(acked') = Len(acked) + 1 /\ Len(acked) \in Nat
        /\ acked'[Len(acked) + 1] = r
        /\ \A n \in 1 .. Len(acked) : acked'[n] = acked[n]
    BY <1>1, <2>1
  <2>4. Saved' = Append(Saved, SavedAs(r))
    BY <2>2, <2>3
  <2>5. SavedAs(r) \in AllEntries
    <3>1. r.type \in ObjTypes /\ r.db \in DBs /\ r.key \in Keys /\ r.value \in Values
      BY <2>1 DEF E!Acknowledged
    <3>2. Expires(r.ms) \in {Dec!Nil} \cup {<<t * NsPerMs>> : t \in TTLs}
      BY <2>1 DEF E!Acknowledged, E!None, Expires
    <3> QED
      BY <3>1, <3>2 DEF SavedAs, Entry, AllEntries
  <2> QED
    BY <1>2, <2>4, <2>5 DEF Abstract!Save
<1> QED
  BY <1>3, <1>4, <1>5

LEMMA SameEncodings == E!Encodings = Enc!Encodings
BY Zenon DEF E!Encodings, E!StringEncodings, E!ListEncodings, E!SetEncodings,
   E!ZSetEncodings, E!HashEncodings, E!HashExEncodings, E!StreamEncodings,
   Enc!Encodings, Enc!StringEncodings, Enc!ListEncodings, Enc!SetEncodings,
   Enc!ZSetEncodings, Enc!HashEncodings, Enc!HashExEncodings, Enc!StreamEncodings

LEMMA SavedAreEntries ==
    ASSUME Inv, NEW k \in 1 .. Len(acked)
    PROVE  Saved[k] \in AllEntries /\ Saved[k].type = acked[k].type
<1>1. Saved[k] = SavedAs(acked[k])
  BY DEF Saved, SavedAs, Expires
<1>2. /\ acked[k].type \in ObjTypes /\ acked[k].db \in DBs /\ acked[k].key \in Keys
      /\ acked[k].value \in Values /\ acked[k].ms \in TTLs \cup {-1}
  BY DEF Inv, AckedPassed
<1>3. Expires(acked[k].ms) \in {Dec!Nil} \cup {<<t * NsPerMs>> : t \in TTLs}
  BY <1>2 DEF Expires
<1> QED
  BY <1>1, <1>2, <1>3 DEF SavedAs, Entry, AllEntries

LEMMA Loads ==
    ASSUME Inv, LoadStep PROVE Abstract!Load \/ UNCHANGED <<Saved, Loaded>>
<1>1. /\ phase = "load" /\ acked' = acked /\ D!Inv /\ D!Next /\ Inv' /\ phase' = "load"
      /\ delivered \in Seq(D!Delivery)
  BY DecoderStep, LoadingInv DEF LoadStep, encVars, Inv, Loading, D!Inv, D!TypeOK
<1>2. Saved' = Saved
  BY <1>1 DEF Saved
<1>3. CASE delivered' = delivered
  BY <1>2, <1>3 DEF Loaded
<1>4. CASE delivered' # delivered
  <2>1. PICK obj : delivered' = Append(delivered, obj)
    BY <1>1, <1>4, DecoderHolds, D!ReadKey DEF Inv
  <2> DEFINE k == Len(delivered) + 1
  <2>2. /\ Len(delivered') = k /\ Len(delivered) \in Nat /\ k \in 1 .. Len(delivered')
        /\ \A n \in 1 .. Len(delivered) : delivered'[n] = delivered[n]
    BY <1>1, <2>1
  <2>3. k \in 1 .. Len(acked) /\ Loaded'[k] \in Forms[Saved[k]]
    <3>1. \A n \in 1 .. Len(delivered') : ReadBack(n)'
      BY <1>1, AsSavedNext
    <3>2. PICK f \in E!Encodings[acked[k].type] :
              k \in 1 .. Len(acked) /\ Loaded'[k] \in Restored(Saved[k], {f})
      BY <1>1, <1>2, <2>2, <3>1 DEF ReadBack
    <3>3. Saved[k] \in AllEntries /\ Saved[k].type = acked[k].type
      BY <3>2, SavedAreEntries
    <3>4. Forms[Saved[k]] = Restored(Saved[k], E!Encodings[acked[k].type])
      BY <3>3, SameEncodings DEF Forms
    <3>5. Restored(Saved[k], {f}) \subseteq Restored(Saved[k], E!Encodings[acked[k].type])
      BY <3>2, Zenon DEF Restored
    <3> QED
      BY <3>2, <3>4, <3>5
  <2>4. Len(Loaded) = Len(delivered) /\ Len(Saved) = Len(acked)
    <3>1. Len(acked) \in Nat
      BY OutType
    <3> QED
      BY <2>2, <3>1 DEF Loaded, Saved
  <2>5. Loaded' = Append(Loaded, Loaded'[k])
    <3> DEFINE read(d) == Entry(d.type, d.db, d.key, d.value, d.exp)
    <3>1. /\ Loaded = [n \in 1 .. Len(delivered) |-> read(delivered[n])]
          /\ Loaded' = [n \in 1 .. Len(delivered') |-> read(delivered'[n])]
      BY DEF Loaded
    <3> HIDE DEF read
    <3> QED
      BY <2>2, <3>1
  <2>6. Len(Loaded) < Len(Saved)
    BY <2>2, <2>3, <2>4
  <2> QED
    BY <1>2, <2>3, <2>4, <2>5, <2>6 DEF Abstract!Load
<1> QED
  BY <1>3, <1>4

LEMMA StepRefines ==
    Inv /\ [Next]_vars => [Abstract!Next]_(Abstract!vars)
<1> SUFFICES ASSUME Inv, [Next]_vars PROVE Abstract!Next \/ UNCHANGED <<Saved, Loaded>>
  BY DEF Abstract!vars
<1>1. CASE Close
  BY <1>1 DEF Close, encVars, Saved, Loaded
<1>2. CASE UNCHANGED vars
  BY <1>2 DEF vars, encVars, decVars, Saved, Loaded
<1> QED
  BY <1>1, <1>2, Saves, Loads DEF Next, Abstract!Next

LEMMA InitRefines == Init => Abstract!Init
BY DEF Init, Enc!Init, Dec!Init, Abstract!Init, Saved, Loaded

\* Whatever the order of calls to the encoder, the write that failed and the place
\* where the file was cut, what the decoder delivers is a beginning of what was
\* acknowledged, each object with its own database and expiration.
THEOREM FileImplementsSnapshot == Spec => ImplementsSnapshot
BY InitRefines, StepRefines, InvAlways, PTL DEF Spec, ImplementsSnapshot, Abstract!Spec

(***************************************************************************)
(* A finished file.                                                        *)
(***************************************************************************)
LEMMA FinishedIsComplete ==
    ASSUME Inv, state = "End" PROVE D!Complete(out)
<1>1. /\ E!TypeOK /\ E!Boundary /\ E!FaultIsDirty /\ E!PlainFile /\ E!EndWritten
  BY DEF Inv, E!SaveInv
<1>2. out \in Seq(E!Token) /\ out # << >> /\ out[Len(out)].kind = "crc"
  BY <1>1 DEF E!TypeOK, E!EndWritten
<1>3. E!WellFormed(out)
  BY <1>1 DEF E!EndWritten, E!FaultIsDirty, E!Boundary
<1>4. out[1].val \in {0, 1}
  <2>1. 1 \in 1 .. Len(out) /\ out[1].kind = "magic"
    BY <1>2, <1>3 DEF E!WellFormed
  <2> QED
    BY <1>1, <2>1 DEF E!PlainFile, E!Plain
<1>5. ASSUME NEW i \in 1 .. Len(out)
      PROVE  /\ out[i].kind = "type" => D!KnownType(out[i].val)
             /\ out[i].kind \notin {"slotInfoOp", "slotImportOp"}
  <2>1. E!Plain(out[i])
    BY <1>1 DEF E!PlainFile
  <2> QED
    BY <2>1, FlagOfType DEF E!Plain, E!WrittenKinds
<1> QED
  BY <1>2, <1>3, <1>4, <1>5, SameFormat DEF D!Complete

\* Every object saved was delivered.
AllBack ==
    /\ Len(Loaded) = Len(Saved)
    /\ \A n \in 1 .. Len(Saved) :
           Loaded[n] \in Restored(Saved[n], {file[delivered[n].at - 2].val})

LEMMA FinishedRead == Inv => FinishedFileLoads
<1> SUFFICES ASSUME Inv, phase = "load", file = out, state = "End"
             PROVE  /\ status = "error" => Dec!AtRefusedValue
                    /\ status = "ok" /\ ~stopped => AllBack
  BY DEF FinishedFileLoads, AllBack
<1>1. D!Complete(file) /\ D!WholeRead /\ Matched
  BY FinishedIsComplete DEF Inv, Loading
<1>2. ASSUME status = "ok", ~stopped PROVE AllBack
  <2>1. /\ delivered \in Seq(D!Delivery) /\ acked \in Seq(E!AckedCall)
        /\ Len(delivered) \in Nat /\ Len(acked) \in Nat
    BY OutType DEF Inv, Loading, D!Inv, D!TypeOK
  <2>2. Len(delivered) <= Len(acked)
    BY <1>1, <2>1 DEF Matched
  <2>3. ASSUME Len(delivered) < Len(acked) PROVE FALSE
    <3> DEFINE k == Len(delivered) + 1
    <3>1. k \in 1 .. Len(acked)
      BY <2>1, <2>3
    <3>2. E!Carried(out, acked[k]) /\ acked[k].at \in Nat
      <4>1. acked[k] \in E!AckedCall /\ E!Carried(out, acked[k])
        BY <2>1, <3>1 DEF Inv, E!SaveInv, E!AllCarried
      <4> QED
        BY <4>1 DEF E!AckedCall
    <3>3. acked[k].at \in 1 .. Len(file) /\ file[acked[k].at].kind = "value"
      BY <3>2 DEF E!Carried, E!Tok
    <3>4. PICK m \in 1 .. Len(delivered) : delivered[m].at = acked[k].at
      BY <1>1, <1>2, <3>3 DEF D!WholeRead, D!AllDelivered
    <3>5. m < k /\ m \in 1 .. Len(acked) /\ acked[m].at = acked[k].at
      BY <1>1, <2>1, <2>2, <3>4 DEF Matched
    <3>6. acked[m].at < acked[k].at
      BY <3>1, <3>5 DEF Inv, E!SaveInv, E!InOrder
    <3> QED
      BY <3>2, <3>5, <3>6
  <2>4. Len(delivered) = Len(acked)
    BY <2>1, <2>2, <2>3
  <2>5. \A n \in 1 .. Len(acked) : ReadBack(n)
    BY <2>4, AsSaved
  <2>6. Len(Loaded) = Len(acked) /\ Len(Saved) = Len(acked)
    BY <2>1, <2>4 DEF Loaded, Saved
  <2> QED
    BY <2>5, <2>6 DEF ReadBack, AllBack
<1>3. D!AtRefusedValue => Dec!AtRefusedValue
  BY SameOutcomes, Zenon DEF D!AtRefusedValue, Dec!AtRefusedValue, D!Has, Dec!Has
<1> QED
  BY <1>1, <1>2, <1>3 DEF D!WholeRead

\* Parse fails on a file finished by WriteEnd only at an object whose value does not
\* read back, and unless the callback stopped it gives back all the objects, each
\* with a value its own bytes are read as.
THEOREM FinishedFileIsLoaded == Spec => []FinishedFileLoads
BY FinishedRead, InvAlways, PTL
=============================================================================
