--------------------------- MODULE DecoderProofs ---------------------------
(***************************************************************************)
(* Proofs about Decoder, for every input and every width of the integers:  *)
(* the locals of the loop are what the file says at its place, so that     *)
(* every key is delivered with its own attributes, none is missing or      *)
(* repeated, and nothing follows a callback that wants no more.            *)
(***************************************************************************)
EXTENDS Decoder, SequenceTheorems, TLAPS

(***************************************************************************)
(* What a file says is said by the last token of some kinds between two    *)
(* places; here, one token further.                                        *)
(***************************************************************************)
Between(s, from, i, kinds) == {j \in from + 1 .. i - 1 : s[j].kind \in kinds}

LastOf(js) == CHOOSE j \in js : \A m \in js : m <= j

LEMMA LastOfIs ==
    ASSUME NEW js, NEW i \in js, js \subseteq Int, \A j \in js : j <= i
    PROVE  LastOf(js) = i
<1>1. LastOf(js) \in js /\ \A m \in js : m <= LastOf(js)
  BY Zenon DEF LastOf
<1> DEFINE k == LastOf(js)
<1>2. k \in Int /\ i \in Int /\ k <= i /\ i <= k
  BY <1>1
<1> HIDE DEF k
<1>3. k = i
  BY <1>2
<1> QED
  BY <1>3 DEF k

LEMMA BetweenNext ==
    ASSUME NEW s, NEW from \in Nat, NEW i \in Nat, from < i, NEW kinds
    PROVE  /\ s[i].kind \in kinds => /\ Between(s, from, i + 1, kinds) # {}
                                     /\ LastOf(Between(s, from, i + 1, kinds)) = i
           /\ s[i].kind \notin kinds =>
                  Between(s, from, i + 1, kinds) = Between(s, from, i, kinds)
<1> DEFINE upto == Between(s, from, i + 1, kinds)
<1>1. from + 1 .. (i + 1) - 1 = (from + 1 .. i - 1) \cup {i}
  OBVIOUS
<1>2. \A j \in upto : j <= i /\ j \in Int
  BY DEF Between
<1>3. CASE s[i].kind \in kinds
  <2>1. i \in upto
    BY <1>1, <1>3 DEF Between
  <2> HIDE DEF upto
  <2>2. LastOf(upto) = i
    BY <1>2, <2>1, LastOfIs
  <2> QED
    BY <1>3, <2>1, <2>2 DEF upto
<1>4. CASE s[i].kind \notin kinds
  BY <1>1, <1>4 DEF Between
<1> QED
  BY <1>3, <1>4

LEMMA InForceNext ==
    ASSUME NEW s, NEW from \in Nat, NEW i \in Nat, from < i, NEW kinds, NEW default
    PROVE  InForce(s, from, i + 1, kinds, default) =
               IF s[i].kind \in kinds THEN s[i].val
               ELSE InForce(s, from, i, kinds, default)
<1>1. /\ InForce(s, from, i + 1, kinds, default) =
             IF Between(s, from, i + 1, kinds) = {} THEN default
             ELSE s[LastOf(Between(s, from, i + 1, kinds))].val
      /\ InForce(s, from, i, kinds, default) =
             IF Between(s, from, i, kinds) = {} THEN default
             ELSE s[LastOf(Between(s, from, i, kinds))].val
  BY Zenon DEF InForce, Between, LastOf
<1> QED
  BY <1>1, BetweenNext

LEMMA InForceNone ==
    ASSUME NEW s, NEW i \in Nat, NEW kinds, NEW default
    PROVE  InForce(s, i, i + 1, kinds, default) = default
BY DEF InForce

LEMMA ObjectBeforeNext ==
    ASSUME NEW s, NEW i \in Nat \ {0}
    PROVE  ObjectBefore(s, i + 1) = IF s[i].kind = "value" THEN i ELSE ObjectBefore(s, i)
<1>2. ASSUME NEW n \in Nat
      PROVE  ObjectBefore(s, n) = IF Between(s, 0, n, {"value"}) = {} THEN 0
                                  ELSE LastOf(Between(s, 0, n, {"value"}))
  <2> DEFINE js == {j \in 1 .. n - 1 : s[j].kind = "value"}
  <2>1. Between(s, 0, n, {"value"}) = js
    BY DEF Between
  <2>2. ObjectBefore(s, n) = IF js = {} THEN 0 ELSE LastOf(js)
    BY Zenon DEF ObjectBefore, LastOf
  <2> HIDE DEF js
  <2> QED
    BY <2>1, <2>2
<1>3. /\ s[i].kind = "value" => /\ Between(s, 0, i + 1, {"value"}) # {}
                                /\ LastOf(Between(s, 0, i + 1, {"value"})) = i
      /\ s[i].kind # "value" =>
             Between(s, 0, i + 1, {"value"}) = Between(s, 0, i, {"value"})
  BY BetweenNext
<1>4. i + 1 \in Nat /\ i \in Nat
  OBVIOUS
<1> QED
  BY <1>2, <1>3, <1>4, Zenon

\* The time in milliseconds a token gives, and the last one between two places.
MsAt(t) == IF t.kind = "sec" THEN t.val * MsPerSec ELSE ToInt64(t.val)
MsBetween(s, from, i) ==
    IF Between(s, from, i, {"ms", "sec"}) = {} THEN 0
    ELSE MsAt(s[LastOf(Between(s, from, i, {"ms", "sec"}))])

LEMMA MsOfBetween ==
    ASSUME NEW s, NEW i PROVE MsOf(s, i) = MsBetween(s, ObjectBefore(s, i), i)
BY Zenon DEF MsOf, MsBetween, MsAt, Between, LastOf

LEMMA MsOfNext ==
    ASSUME NEW s, NEW i \in Nat \ {0}, s[i].kind # "value",
           ObjectBefore(s, i) \in 0 .. i - 1
    PROVE  MsOf(s, i + 1) = IF s[i].kind \in {"ms", "sec"} THEN MsAt(s[i]) ELSE MsOf(s, i)
<1> DEFINE from == ObjectBefore(s, i)
<1>1. ObjectBefore(s, i + 1) = from /\ from \in Nat /\ from < i
  BY ObjectBeforeNext
<1>2. MsOf(s, i + 1) = MsBetween(s, from, i + 1) /\ MsOf(s, i) = MsBetween(s, from, i)
  BY <1>1, MsOfBetween
<1> HIDE DEF from
<1> QED
  BY <1>1, <1>2, BetweenNext DEF MsBetween

LEMMA MsOfNone ==
    ASSUME NEW s, NEW i \in Nat \ {0}, s[i].kind = "value"
    PROVE  MsOf(s, i + 1) = 0
<1>1. ObjectBefore(s, i + 1) = i
  BY ObjectBeforeNext
<1>2. Between(s, i, i + 1, {"ms", "sec"}) = {}
  BY DEF Between
<1> QED
  BY <1>1, <1>2, MsOfBetween DEF MsBetween

-----------------------------------------------------------------------------
(***************************************************************************)
(* What follows an opcode or a type byte when it can be read.              *)
(***************************************************************************)
LEMMA Operands ==
    ASSUME file \in Files, pos \in Nat, NEW k \in {1, 2},
           Readable1(k), Readable1(k + 1),
           file[pos + k].kind \in DOMAIN OperandAfter
    PROVE  file[pos + (k + 1)].kind = OperandAfter[file[pos + k].kind]
<1>1. Readable(file) /\ Len(file) \in Nat
  BY DecoderAssumption DEF DecoderAssumption
<1>2. pos + k \in 1 .. Len(file) - 1 /\ (pos + k) + 1 = pos + (k + 1)
  BY <1>1 DEF Readable1, Has
<1>3. \/ Follows(file[pos + k].kind, file[pos + (k + 1)].kind)
      \/ {file[pos + k].kind, file[pos + (k + 1)].kind} \cap Spoilt # {}
  BY <1>1, <1>2 DEF Readable
<1>4. Follows(file[pos + k].kind, file[pos + (k + 1)].kind)
  BY <1>3 DEF Readable1
<1>5. file[pos + k].kind \notin Starters /\ file[pos + k].kind # "eofOp"
  BY DEF OperandAfter, Starters
<1> QED
  BY <1>4, <1>5 DEF Follows

LEMMA Reading ==
    ASSUME file \in Files, pos \in Nat, NEW k \in {1, 2, 3}, Has(k)
    PROVE  /\ pos + k \in 1 .. Len(file) /\ Len(file) \in Nat
           /\ file[pos + k] \in Token /\ file[pos + k].val \in Nat
           /\ file[pos + k].kind \in Kinds
<1>1. file \in Seq(Token) /\ Len(file) \in Nat
  BY DecoderAssumption DEF DecoderAssumption
<1>2. pos + k \in 1 .. Len(file)
  BY <1>1 DEF Has
<1>3. file[pos + k] \in Token
  BY <1>1, <1>2, ElementOfSeq
<1> QED
  BY <1>1, <1>2, <1>3 DEF Token

LEMMA Some ==
    ASSUME NEW S PROVE Nil \in Optional(S) /\ \A v \in S : <<v>> \in Optional(S)
BY DEF Nil, Optional

LEMMA Clock ==
    /\ \A x \in Int : ToInt64(x) \in Int /\ Expiration(x) \in Optional(Int)
    /\ \A x \in Nat : x * MsPerSec \in Int
    /\ \A x \in Int : x <= 0 => Expiration(x) = Nil
    /\ ToInt64(0) = 0
<1>1. Int64 \in Int /\ Int64 > 0 /\ MsPerSec \in Int /\ NsPerMs \in Int
  BY DecoderAssumption DEF DecoderAssumption
<1>2. ASSUME NEW x \in Int PROVE ToInt64(x) \in Int
  <2>1. x % Int64 \in Int
    BY <1>1
  <2> QED
    BY <1>1, <2>1 DEF ToInt64
<1>3. ASSUME NEW x \in Int PROVE Expiration(x) \in Optional(Int)
  <2>1. x * NsPerMs \in Int
    BY <1>1
  <2>2. ToInt64(x * NsPerMs) \in Int
    BY <1>2, <2>1
  <2> QED
    BY <2>2, Some DEF Expiration
<1>4. \A x \in Nat : x * MsPerSec \in Int
  BY <1>1
<1>5. \A x \in Int : x <= 0 => Expiration(x) = Nil
  BY DEF Expiration
<1>6. ToInt64(0) = 0
  <2>1. 0 % Int64 = 0
    BY <1>1
  <2> QED
    BY <1>1, <2>1 DEF ToInt64
<1> QED
  BY <1>2, <1>3, <1>4, <1>5, <1>6

(***************************************************************************)
(* The locals at the beginning of a turn of the loop.  An expiration the   *)
(* objects have not used (zero, or an unsigned number that is negative as  *)
(* an int64) stays in expireMs and stands for none.                        *)
(***************************************************************************)
LocalsAt(i, db, ms, idle, freq) ==
    /\ ObjectBefore(file, i) \in 0 .. i - 1
    /\ db = ToInt64(InForce(file, 0, i, {"dbNum"}, 0))
    /\ idle = IdleOf(file, i) /\ freq = FreqOf(file, i)
    /\ \/ ms = MsOf(file, i)
       \/ ms <= 0 /\ MsOf(file, i) \in Int /\ MsOf(file, i) <= 0

LocalsRight ==
    status = "loop" => pos > 0 /\ LocalsAt(pos + 1, dbIndex, expireMs, lru, lfu)

LEMMA AfterToken ==
    ASSUME NEW i \in Nat \ {0}, NEW db, NEW ms, NEW idle, NEW freq,
           file[i].kind # "value", file[i].val \in Nat, LocalsAt(i, db, ms, idle, freq)
    PROVE  LocalsAt(i + 1, IF file[i].kind = "dbNum" THEN ToInt64(file[i].val) ELSE db,
                    IF file[i].kind \in {"ms", "sec"} THEN MsAt(file[i]) ELSE ms,
                    IF file[i].kind = "idle" THEN <<ToInt64(file[i].val)>> ELSE idle,
                    IF file[i].kind = "freq" THEN <<file[i].val>> ELSE freq)
<1>1. /\ ObjectBefore(file, i + 1) = ObjectBefore(file, i)
      /\ ObjectBefore(file, i) \in Nat /\ ObjectBefore(file, i) < i
  BY ObjectBeforeNext DEF LocalsAt
<1>2. ToInt64(InForce(file, 0, i + 1, {"dbNum"}, 0))
          = IF file[i].kind = "dbNum" THEN ToInt64(file[i].val) ELSE db
  <2>1. InForce(file, 0, i + 1, {"dbNum"}, 0)
            = IF file[i].kind \in {"dbNum"} THEN file[i].val
              ELSE InForce(file, 0, i, {"dbNum"}, 0)
    BY InForceNext
  <2> QED
    BY <2>1, Zenon DEF LocalsAt
<1>0. file[i].val # None
  BY DEF None
<1>3. IdleOf(file, i + 1)
          = IF file[i].kind = "idle" THEN <<ToInt64(file[i].val)>> ELSE idle
  <2>1. InForce(file, ObjectBefore(file, i), i + 1, {"idle"}, None)
            = IF file[i].kind \in {"idle"} THEN file[i].val
              ELSE InForce(file, ObjectBefore(file, i), i, {"idle"}, None)
    BY <1>1, InForceNext
  <2> QED
    BY <1>0, <1>1, <2>1, Zenon DEF LocalsAt, IdleOf
<1>4. FreqOf(file, i + 1) = IF file[i].kind = "freq" THEN <<file[i].val>> ELSE freq
  <2>1. InForce(file, ObjectBefore(file, i), i + 1, {"freq"}, None)
            = IF file[i].kind \in {"freq"} THEN file[i].val
              ELSE InForce(file, ObjectBefore(file, i), i, {"freq"}, None)
    BY <1>1, InForceNext
  <2> QED
    BY <1>0, <1>1, <2>1, Zenon DEF LocalsAt, FreqOf
<1>5. MsOf(file, i + 1)
          = IF file[i].kind \in {"ms", "sec"} THEN MsAt(file[i]) ELSE MsOf(file, i)
  BY MsOfNext DEF LocalsAt
<1>6. ObjectBefore(file, i + 1) \in 0 .. (i + 1) - 1
  BY <1>1
<1> QED
  BY <1>2, <1>3, <1>4, <1>5, <1>6 DEF LocalsAt

LEMMA AfterValue ==
    ASSUME NEW i \in Nat \ {0}, NEW db, NEW ms, NEW idle, NEW freq, NEW rest,
           file[i].kind = "value", LocalsAt(i, db, ms, idle, freq),
           rest \in Int, rest <= 0
    PROVE  LocalsAt(i + 1, db, rest, Nil, Nil)
<1>1. ObjectBefore(file, i + 1) = i
  BY ObjectBeforeNext
<1>2. ToInt64(InForce(file, 0, i + 1, {"dbNum"}, 0)) = db
  <2>1. InForce(file, 0, i + 1, {"dbNum"}, 0) = InForce(file, 0, i, {"dbNum"}, 0)
    BY InForceNext
  <2> QED
    BY <2>1 DEF LocalsAt
<1>3. IdleOf(file, i + 1) = Nil /\ FreqOf(file, i + 1) = Nil
  <2>1. /\ InForce(file, i, i + 1, {"idle"}, None) = None
        /\ InForce(file, i, i + 1, {"freq"}, None) = None
    BY InForceNone
  <2> QED
    BY <1>1, <2>1, Zenon DEF IdleOf, FreqOf
<1>4. MsOf(file, i + 1) = 0
  BY MsOfNone
<1>5. i \in 0 .. (i + 1) - 1
  OBVIOUS
<1> QED
  BY <1>1, <1>2, <1>3, <1>4, <1>5 DEF LocalsAt

-----------------------------------------------------------------------------
(***************************************************************************)
(* The inductive invariant.                                                *)
(***************************************************************************)
StoppedLeft == stopped => status \notin {"header", "loop"}
HeaderFirst ==
    status = "header" => /\ pos = 0 /\ delivered = << >>
                         /\ LocalsAt(1, dbIndex, expireMs, lru, lfu)
Arrived == \A n \in 1 .. Len(delivered) : delivered[n].at <= pos

Inv == /\ TypeOK /\ file \in Files
       /\ LocalsRight /\ StoppedLeft /\ HeaderFirst /\ Arrived
       /\ ObjectsComplete /\ ObjectsAsSaid /\ NilOnlyAtEnd

LEMMA PlaceOfDelivery == TypeOK => \A n \in 1 .. Len(delivered) : delivered[n].at \in Nat
<1>1. \A d \in Delivery : d.at \in Nat
  BY DEF Delivery
<1> QED
  BY <1>1, ElementOfSeq DEF TypeOK

LEMMA InitInv == Init => Inv
<1> SUFFICES ASSUME Init PROVE Inv
  OBVIOUS
<1>1. file \in Seq(Token) /\ file \in Files
  BY DecoderAssumption DEF Init, DecoderAssumption
<1>2. pos \in 0 .. Len(file)
  BY <1>1 DEF Init
<1>3. /\ dbIndex \in Int /\ expireMs \in Int
      /\ lru \in Optional(Int) /\ lfu \in Optional(Nat)
      /\ delivered \in Seq(Delivery) /\ status \in Statuses
  BY Some DEF Init, Statuses
<1>4. withSpecialOpCode \in BOOLEAN
  BY Zenon DEF Init
<1>5. stopped \in BOOLEAN
  BY Zenon DEF Init
<1>6. TypeOK
  BY <1>1, <1>2, <1>3, <1>4, <1>5 DEF TypeOK
<1>7. StoppedLeft
  BY Zenon DEF Init, StoppedLeft
<1>8. LocalsRight /\ Arrived
  BY DEF Init, LocalsRight, Arrived
<1>10. HeaderFirst
  <2>1. ObjectBefore(file, 1) = 0
    BY DEF ObjectBefore
  <2>2. ToInt64(InForce(file, 0, 1, {"dbNum"}, 0)) = 0
    <3>1. InForce(file, 0, 1, {"dbNum"}, 0) = 0
      BY InForceNone
    <3> QED
      BY <3>1, Clock
  <2>4. IdleOf(file, 1) = Nil /\ FreqOf(file, 1) = Nil
    <3>1. /\ InForce(file, 0, 1, {"idle"}, None) = None
          /\ InForce(file, 0, 1, {"freq"}, None) = None
      BY InForceNone
    <3> QED
      BY <2>1, <3>1, Zenon DEF IdleOf, FreqOf
  <2>3. MsOf(file, 1) = 0
    <3>1. Between(file, 0, 1, {"ms", "sec"}) = {}
      BY DEF Between
    <3> QED
      BY <2>1, <3>1, MsOfBetween DEF MsBetween
  <2> QED
    BY <2>1, <2>2, <2>3, <2>4 DEF Init, HeaderFirst, LocalsAt
<1>9. ObjectsComplete /\ ObjectsAsSaid /\ NilOnlyAtEnd
  BY DEF Init, ObjectsComplete, ObjectsAsSaid, NilOnlyAtEnd
<1> QED
  BY <1>1, <1>6, <1>7, <1>8, <1>9, <1>10 DEF Inv

\* The loop is left with an error.
LEMMA FailingTurn ==
    ASSUME Inv, Constant, Fail, UNCHANGED pos PROVE Inv'
<1> USE DEF Inv, Constant, Fail, locals
<1>1. TypeOK'
  BY DEF TypeOK, Statuses
<1>2. StoppedLeft' /\ LocalsRight' /\ HeaderFirst' /\ Arrived'
  BY DEF StoppedLeft, LocalsRight, HeaderFirst, Arrived
<1>3. ObjectsComplete' /\ ObjectsAsSaid' /\ NilOnlyAtEnd'
  BY DEF ObjectsComplete, ObjectsAsSaid, NilOnlyAtEnd
<1> QED
  BY <1>1, <1>2, <1>3

\* A turn that delivers nothing.
LEMMA QuietTurn ==
    ASSUME Inv, status = "loop", Constant, UNCHANGED <<delivered, stopped>>,
           pos' \in pos + 1 .. Len(file),
           \A i \in pos + 1 .. pos' : file[i].kind # "value",
           dbIndex' \in Int, expireMs' \in Int,
           lru' \in Optional(Int), lfu' \in Optional(Nat), LocalsRight',
           \/ status' = "loop"
           \/ status' = "closing" /\ file[pos'].kind \in {"eofOp", "auxKey", "keyCount"}
    PROVE  Inv'
<1> USE DEF Inv, Constant
<1>1. pos \in Nat /\ Len(file) \in Nat /\ pos' \in Nat /\ pos < pos'
  BY DEF TypeOK
<1>2. TypeOK'
  <2>1. pos' \in 0 .. Len(file') /\ status' \in Statuses
    BY <1>1 DEF Statuses
  <2> QED
    BY <2>1 DEF TypeOK
<1>3. StoppedLeft'
  <2>1. ~stopped
    BY DEF StoppedLeft
  <2> QED
    BY <2>1 DEF StoppedLeft
<1>4. HeaderFirst'
  BY DEF HeaderFirst
<1>5. Arrived'
  <2>1. \A n \in 1 .. Len(delivered) : delivered[n].at \in Nat
    BY PlaceOfDelivery
  <2> QED
    BY <1>1, <2>1 DEF Arrived
<1>6. ObjectsComplete'
  <2>1. \A i \in 1 .. pos' : i \in 1 .. pos \/ i \in pos + 1 .. pos'
    BY <1>1
  <2> QED
    BY <2>1 DEF ObjectsComplete
<1>7. ObjectsAsSaid'
  BY DEF ObjectsAsSaid
<1>8. NilOnlyAtEnd'
  BY <1>1 DEF NilOnlyAtEnd, TypeOK
<1> QED
  BY <1>2, <1>3, <1>4, <1>5, <1>6, <1>7, <1>8

\* An object is what the file says at its place, with a value that may be read.
SaidSo(obj) ==
    \E v \in Outcomes(file[obj.at - 2].val, file[obj.at].val) \ {None} :
        obj = Said(file, obj.at, v)

\* A turn that ends with an object, after which the callback is asked.
LEMMA DeliveringTurn ==
    ASSUME Inv, status = "loop", Constant,
           NEW obj \in Delivery, delivered' = Append(delivered, obj),
           obj.at = pos',
           obj.type \notin SpecialTypes => SaidSo(obj),
           pos' \in pos + 1 .. Len(file),
           \A i \in pos + 1 .. pos' - 1 : file[i].kind # "value",
           dbIndex' \in Int, expireMs' \in Int,
           lru' \in Optional(Int), lfu' \in Optional(Nat), LocalsRight',
           \/ UNCHANGED <<stopped, status>>
           \/ stopped' = TRUE /\ status' = "closing"
    PROVE  Inv'
<1> USE DEF Inv, Constant
<1>1. pos \in Nat /\ Len(file) \in Nat /\ pos' \in Nat /\ pos < pos'
  BY DEF TypeOK
<1>2. /\ delivered' \in Seq(Delivery) /\ Len(delivered') = Len(delivered) + 1
      /\ Len(delivered) \in Nat
      /\ \A n \in 1 .. Len(delivered) : delivered'[n] = delivered[n]
      /\ delivered'[Len(delivered) + 1] = obj
  BY AppendProperties DEF TypeOK
<1>3. stopped' \in BOOLEAN /\ status' \in Statuses
  BY DEF TypeOK, Statuses
<1>4. TypeOK'
  <2>1. pos' \in 0 .. Len(file')
    BY <1>1
  <2> QED
    BY <1>2, <1>3, <2>1 DEF TypeOK
<1>5. ~stopped
  BY DEF StoppedLeft
<1>6. StoppedLeft' /\ HeaderFirst'
  BY <1>5 DEF StoppedLeft, HeaderFirst
<1>7. \A n \in 1 .. Len(delivered) : delivered[n].at \in Nat /\ delivered[n].at < pos'
  <2>1. \A n \in 1 .. Len(delivered) : delivered[n].at \in Nat
    BY PlaceOfDelivery
  <2> QED
    BY <1>1, <2>1 DEF Arrived
<1>8. \A n \in 1 .. Len(delivered') : n \in 1 .. Len(delivered) \/ n = Len(delivered) + 1
  BY <1>2
<1>9. Arrived'
  <2>1. \A n \in 1 .. Len(delivered) : delivered'[n].at <= pos'
    BY <1>1, <1>2, <1>7
  <2>2. delivered'[Len(delivered) + 1].at <= pos'
    BY <1>1, <1>2
  <2> QED
    BY <1>8, <2>1, <2>2 DEF Arrived
<1>10. ObjectsComplete'
  <2>1. ASSUME NEW m \in 1 .. Len(delivered'), NEW n \in 1 .. Len(delivered'), m < n
        PROVE  delivered'[m].at < delivered'[n].at
    <3>1. m \in 1 .. Len(delivered)
      BY <1>2, <2>1
    <3> QED
      BY <1>2, <1>7, <1>8, <2>1, <3>1 DEF ObjectsComplete
  <2>2. ASSUME NEW i \in 1 .. pos', file[i].kind = "value"
        PROVE  \E n \in 1 .. Len(delivered') : delivered'[n].at = i
    <3>1. CASE i = pos'
      <4>1. Len(delivered) + 1 \in 1 .. Len(delivered')
        BY <1>2
      <4> QED
        BY <1>2, <3>1, <4>1
    <3>2. CASE i # pos'
      <4>1. i \in 1 .. pos
        <5>1. i \notin pos + 1 .. pos' - 1
          BY <2>2
        <5>2. \A p, q \in Nat : \A j \in 1 .. q :
                  j \notin p + 1 .. q - 1 /\ j # q => j \in 1 .. p
          OBVIOUS
        <5> QED
          BY <1>1, <2>2, <3>2, <5>1, <5>2, Zenon
      <4>2. PICK n \in 1 .. Len(delivered) : delivered[n].at = i
        BY <2>2, <4>1 DEF ObjectsComplete
      <4>3. n \in 1 .. Len(delivered')
        BY <1>2
      <4> QED
        BY <1>2, <4>2, <4>3
    <3> QED
      BY <3>1, <3>2
  <2> QED
    BY <2>1, <2>2 DEF ObjectsComplete
<1>11. ObjectsAsSaid'
  <2>1. \A n \in 1 .. Len(delivered) :
            delivered[n].type \notin SpecialTypes => SaidSo(delivered[n])
    BY Zenon DEF ObjectsAsSaid, SaidSo
  <2>2. \A n \in 1 .. Len(delivered') :
            delivered'[n].type \notin SpecialTypes => SaidSo(delivered'[n])
    BY <1>2, <1>8, <2>1
  <2> QED
    BY <2>2, Zenon DEF ObjectsAsSaid, SaidSo
<1>12. NilOnlyAtEnd'
  BY <1>5 DEF NilOnlyAtEnd
<1> QED
  BY <1>4, <1>6, <1>9, <1>10, <1>11, <1>12

-----------------------------------------------------------------------------
(***************************************************************************)
(* One opcode and its operand, or a type byte and its key.                 *)
(***************************************************************************)
LEMMA AtOperand ==
    ASSUME Inv, NEW kind \in DOMAIN OperandAfter, AtOp(kind), Readable1(2)
    PROVE  /\ status = "loop" /\ pos \in Nat /\ pos + 2 \in pos + 1 .. Len(file)
           /\ file \in Files
           /\ file[pos + 1].kind = kind /\ file[pos + 2].kind = OperandAfter[kind]
           /\ file[pos + 1].val \in Nat /\ file[pos + 2].val \in Nat
           /\ LocalsAt(pos + 1, dbIndex, expireMs, lru, lfu)
           /\ dbIndex \in Int /\ expireMs \in Int
           /\ lru \in Optional(Int) /\ lfu \in Optional(Nat)
           /\ \A i \in pos + 1 .. pos + 2 : i = pos + 1 \/ i = pos + 2
<1>1. pos \in Nat /\ Len(file) \in Nat /\ file \in Files
  BY DEF Inv, TypeOK
<1>2. status = "loop" /\ file[pos + 1].kind = kind /\ Has(1) /\ Has(2)
  BY DEF AtOp, Readable1
<1>3. kind \notin {"bad", "torn"}
  BY DEF OperandAfter
<1>4. Readable1(1)
  BY <1>2, <1>3 DEF Readable1, Spoilt
<1>5. file[pos + (1 + 1)].kind = OperandAfter[file[pos + 1].kind]
  <2>1. Readable1(1 + 1)
    OBVIOUS
  <2> QED
    BY <1>1, <1>2, <1>4, <2>1, Operands
<1>6. file[pos + 1].val \in Nat /\ file[pos + 2].val \in Nat /\ pos + 2 <= Len(file)
  BY <1>1, <1>2, Reading DEF Has
<1>7. LocalsAt(pos + 1, dbIndex, expireMs, lru, lfu)
  BY <1>2 DEF Inv, LocalsRight
<1> QED
  BY <1>1, <1>2, <1>5, <1>6, <1>7 DEF Inv, TypeOK

\* The operands that say something: what they do to the locals is right.
LEMMA OperandTurn ==
    ASSUME Inv, Constant,
           NEW kind \in {"dbOp", "msOp", "secOp", "freqOp", "idleOp", "moduleAuxOp",
                         "slotInfoOp", "slotImportOp"},
           AtOp(kind), Readable1(2), pos' = pos + 2,
           UNCHANGED <<delivered, stopped, status>>,
           dbIndex' = IF kind = "dbOp" THEN ToInt64(file[pos + 2].val) ELSE dbIndex,
           lru' = IF kind = "idleOp" THEN <<ToInt64(file[pos + 2].val)>> ELSE lru,
           lfu' = IF kind = "freqOp" THEN <<file[pos + 2].val>> ELSE lfu,
           expireMs' = IF kind \in {"msOp", "secOp"} THEN MsAt(file[pos + 2]) ELSE expireMs
    PROVE  Inv'
<1>1. kind \in DOMAIN OperandAfter
  BY DEF OperandAfter
<1>2. /\ status = "loop" /\ pos \in Nat /\ pos + 2 \in pos + 1 .. Len(file)
      /\ file[pos + 1].kind = kind /\ file[pos + 2].kind = OperandAfter[kind]
      /\ file[pos + 1].val \in Nat /\ file[pos + 2].val \in Nat
      /\ LocalsAt(pos + 1, dbIndex, expireMs, lru, lfu)
      /\ dbIndex \in Int /\ expireMs \in Int
      /\ lru \in Optional(Int) /\ lfu \in Optional(Nat)
      /\ \A i \in pos + 1 .. pos + 2 : i = pos + 1 \/ i = pos + 2
  BY <1>1, AtOperand
<1>3. LocalsAt(pos + 2, dbIndex, expireMs, lru, lfu)
  <2>1. pos + 1 \in Nat \ {0} /\ (pos + 1) + 1 = pos + 2
    BY <1>2
  <2> QED
    BY <1>2, <2>1, AfterToken
<1> DEFINE t == file[pos + 2]
<1>4. /\ t.kind # "value"
      /\ t.kind = "dbNum" <=> kind = "dbOp"
      /\ t.kind = "idle" <=> kind = "idleOp"
      /\ t.kind = "freq" <=> kind = "freqOp"
      /\ t.kind \in {"ms", "sec"} <=> kind \in {"msOp", "secOp"}
  BY <1>2 DEF OperandAfter
<1>5. LocalsAt(pos + 3, dbIndex', expireMs', lru', lfu')
  <2>1. pos + 2 \in Nat \ {0} /\ (pos + 2) + 1 = pos + 3
    BY <1>2
  <2>2. LocalsAt((pos + 2) + 1, IF t.kind = "dbNum" THEN ToInt64(t.val) ELSE dbIndex,
                 IF t.kind \in {"ms", "sec"} THEN MsAt(t) ELSE expireMs,
                 IF t.kind = "idle" THEN <<ToInt64(t.val)>> ELSE lru,
                 IF t.kind = "freq" THEN <<t.val>> ELSE lfu)
    BY <1>2, <1>3, <1>4, <2>1, AfterToken
  <2> QED
    BY <1>4, <2>1, <2>2
<1>6. LocalsRight'
  <2>1. pos' + 1 = pos + 3 /\ pos' > 0 /\ file' = file
    BY <1>2 DEF Constant
  <2> QED
    BY <1>5, <2>1 DEF LocalsRight, LocalsAt
<1>7. dbIndex' \in Int /\ lru' \in Optional(Int) /\ lfu' \in Optional(Nat)
  <2>0. file[pos + 2].val \in Int
    BY <1>2
  <2>1. ToInt64(file[pos + 2].val) \in Int
    BY ONLY <2>0, Clock
  <2> QED
    BY <1>2, <2>1, Some
<1>8. expireMs' \in Int
  <2>1. MsAt(t) \in Int
    <3>1. t.val \in Nat /\ t.val \in Int
      BY <1>2
    <3> HIDE DEF t
    <3>2. t.val * MsPerSec \in Int /\ ToInt64(t.val) \in Int
      BY <3>1, Clock
    <3> QED
      BY <3>2 DEF MsAt
  <2> QED
    BY <1>2, <2>1
<1>9. \A i \in pos + 1 .. pos' : file[i].kind # "value"
  <2>1. kind # "value"
    OBVIOUS
  <2> QED
    BY <1>2, <1>4, <2>1
<1> QED
  BY <1>2, <1>6, <1>7, <1>8, <1>9, QuietTurn

LEMMA AttributeTurn ==
    ASSUME Inv, SelectDB \/ ExpireTime \/ ExpireTimeMs \/ Freq \/ Idle PROVE Inv'
<1> USE DEF OneOperand, Operand
<1>1. CASE SelectDB
  BY <1>1, OperandTurn, FailingTurn DEF SelectDB
<1>2. CASE ExpireTime
  <2>1. CASE Readable1(2)
    <3>1. file[pos + 2].kind = "sec"
      BY <1>2, <2>1, AtOperand DEF ExpireTime, OperandAfter
    <3> QED
      BY <1>2, <2>1, <3>1, OperandTurn DEF ExpireTime, MsAt
  <2> QED
    BY <1>2, <2>1, FailingTurn DEF ExpireTime
<1>3. CASE ExpireTimeMs
  <2>1. CASE Readable1(2)
    <3>1. file[pos + 2].kind = "ms"
      BY <1>3, <2>1, AtOperand DEF ExpireTimeMs, OperandAfter
    <3> QED
      BY <1>3, <2>1, <3>1, OperandTurn DEF ExpireTimeMs, MsAt
  <2> QED
    BY <1>3, <2>1, FailingTurn DEF ExpireTimeMs
<1>4. CASE Freq
  BY <1>4, OperandTurn, FailingTurn DEF Freq
<1>5. CASE Idle
  BY <1>5, OperandTurn, FailingTurn DEF Idle
<1> QED
  BY <1>1, <1>2, <1>3, <1>4, <1>5

LEMMA SkippingTurn ==
    ASSUME Inv, ModuleAux \/ SlotInfo \/ SlotImport PROVE Inv'
<1>1. ASSUME NEW kind \in {"moduleAuxOp", "slotInfoOp", "slotImportOp"},
             OneOperand(kind, UNCHANGED locals)
      PROVE  Inv'
  <2>1. CASE Readable1(2)
    BY <1>1, <2>1, OperandTurn DEF OneOperand, locals
  <2>2. CASE ~Readable1(2)
    BY <1>1, <2>2, FailingTurn DEF OneOperand
  <2> QED
    BY <2>1, <2>2
<1> QED
  BY <1>1, FailingTurn DEF ModuleAux, SlotInfo, SlotImport, SlotMetadata

\* An object that is not a key, with one or two operands: the locals stay.
LEMMA SpecialDelivery ==
    ASSUME NEW type \in SpecialTypes, NEW at \in Nat, NEW db \in Int,
           NEW key \in Nat \cup {None}, NEW value \in Nat
    PROVE  Object(type, at, db, key, value, Nil, Nil, Nil) \in Delivery
BY Some DEF Object, Delivery

LEMMA FunctionTurn == ASSUME Inv, Function PROVE Inv'
<1>1. CASE ~Readable1(2)
  BY <1>1, FailingTurn DEF Function
<1>2. CASE Readable1(2)
  <2>1. /\ status = "loop" /\ pos \in Nat /\ pos + 2 \in pos + 1 .. Len(file)
        /\ file[pos + 1].kind = "functionOp" /\ file[pos + 2].kind = "function"
        /\ file[pos + 1].val \in Nat /\ file[pos + 2].val \in Nat
        /\ LocalsAt(pos + 1, dbIndex, expireMs, lru, lfu)
        /\ dbIndex \in Int /\ expireMs \in Int
        /\ lru \in Optional(Int) /\ lfu \in Optional(Nat)
        /\ \A i \in pos + 1 .. pos + 2 : i = pos + 1 \/ i = pos + 2
    BY <1>2, AtOperand DEF Function, OperandAfter
  <2>2. Constant /\ UNCHANGED locals /\ pos' = pos + 2
    BY <1>2 DEF Function
  <2>3. LocalsAt(pos + 3, dbIndex, expireMs, lru, lfu)
    <3>1. /\ pos + 1 \in Nat \ {0} /\ (pos + 1) + 1 = pos + 2
          /\ pos + 2 \in Nat \ {0} /\ (pos + 2) + 1 = pos + 3
      BY <2>1
    <3>2. LocalsAt(pos + 2, dbIndex, expireMs, lru, lfu)
      BY <2>1, <3>1, AfterToken
    <3> QED
      BY <2>1, <3>1, <3>2, AfterToken
  <2>4. LocalsRight'
    <3>1. pos' + 1 = pos + 3 /\ pos' > 0 /\ file' = file
      BY <2>1, <2>2 DEF Constant
    <3> QED
      BY <2>2, <2>3, <3>1 DEF LocalsRight, LocalsAt, locals
  <2>5. \A i \in pos + 1 .. pos' : file[i].kind # "value"
    BY <2>1, <2>2
  <2>6. \A i \in pos + 1 .. pos' - 1 : file[i].kind # "value"
    BY <2>1, <2>2
  <2> DEFINE obj == Object("functions", pos + 2, 0, None, Operand, Nil, Nil, Nil)
  <2>7. obj \in Delivery /\ obj.at = pos' /\ obj.type \in SpecialTypes
    <3>1. "functions" \in SpecialTypes /\ pos + 2 \in Nat /\ Operand \in Nat
      BY <2>1 DEF SpecialTypes, Operand
    <3>2. None \in Nat \cup {None} /\ 0 \in Int
      OBVIOUS
    <3>3. obj \in Delivery
      BY <3>1, <3>2, SpecialDelivery, Zenon
    <3> QED
      BY <2>2, <3>1, <3>3 DEF Object
  <2>8. DeliverSpecial(obj)
    BY <1>2 DEF Function
  <2> HIDE DEF obj
  <2>9. CASE Deliver(obj)
    BY <2>1, <2>2, <2>4, <2>6, <2>7, <2>9, DeliveringTurn DEF Deliver, locals
  <2>10. CASE UNCHANGED <<delivered, stopped, status>>
    BY <2>1, <2>2, <2>4, <2>5, <2>10, QuietTurn DEF locals
  <2> QED
    BY <2>8, <2>9, <2>10 DEF DeliverSpecial
<1> QED
  BY <1>1, <1>2

\* An opcode and two operands, or a type byte, a key and a value.
LEMMA AtSecondOperand ==
    ASSUME Inv, NEW kind \in {"auxOp", "resizeOp", "type"}, AtOp(kind),
           Readable1(2), Readable1(3)
    PROVE  /\ pos + 3 \in pos + 1 .. Len(file)
           /\ file[pos + 3].kind = OperandAfter[OperandAfter[kind]]
           /\ file[pos + 3].val \in Nat
           /\ LocalsAt(pos + 3, dbIndex, expireMs, lru, lfu)
           /\ \A i \in pos + 1 .. pos + 2 : file[i].kind # "value"
<1>1. kind \in DOMAIN OperandAfter /\ OperandAfter[kind] \in DOMAIN OperandAfter
  BY DEF OperandAfter
<1>2. /\ pos \in Nat /\ file \in Files /\ Len(file) \in Nat
      /\ file[pos + 1].kind = kind /\ file[pos + 2].kind = OperandAfter[kind]
      /\ file[pos + 1].val \in Nat /\ file[pos + 2].val \in Nat
      /\ LocalsAt(pos + 1, dbIndex, expireMs, lru, lfu)
      /\ \A i \in pos + 1 .. pos + 2 : i = pos + 1 \/ i = pos + 2
  BY <1>1, AtOperand DEF Inv, TypeOK
<1>3. file[pos + 3].kind = OperandAfter[OperandAfter[kind]]
  <2>1. Readable1(2 + 1)
    OBVIOUS
  <2>2. file[pos + (2 + 1)].kind = OperandAfter[file[pos + 2].kind]
    BY <1>1, <1>2, <2>1, Operands
  <2> QED
    BY <1>2, <2>2
<1>4. /\ kind \notin {"value", "dbNum", "ms", "sec", "idle", "freq"}
      /\ OperandAfter[kind] \notin {"value", "dbNum", "ms", "sec", "idle", "freq"}
  BY DEF OperandAfter
<1>5. LocalsAt(pos + 3, dbIndex, expireMs, lru, lfu)
  <2>1. /\ pos + 1 \in Nat \ {0} /\ (pos + 1) + 1 = pos + 2
        /\ pos + 2 \in Nat \ {0} /\ (pos + 2) + 1 = pos + 3
    BY <1>2
  <2>2. LocalsAt(pos + 2, dbIndex, expireMs, lru, lfu)
    BY <1>2, <1>4, <2>1, AfterToken
  <2> QED
    BY <1>2, <1>4, <2>1, <2>2, AfterToken
<1>6. pos + 3 <= Len(file) /\ file[pos + 3].val \in Nat
  BY <1>2, Reading DEF Readable1, Has
<1> QED
  BY <1>2, <1>3, <1>4, <1>5, <1>6

LEMMA TwoOperandsTurn ==
    ASSUME Inv, NEW kind \in {"auxOp", "resizeOp"}, NEW obj, TwoOperands(kind, obj),
           Readable1(2) /\ Readable1(3) =>
               /\ obj \in Delivery /\ obj.at = pos + 3 /\ obj.type \in SpecialTypes
    PROVE  Inv'
<1>1. CASE ~Readable1(2)
  BY <1>1, FailingTurn DEF TwoOperands
<1>2. CASE Readable1(2) /\ ~Readable1(3)
  <2>1. kind \in DOMAIN OperandAfter
    BY DEF OperandAfter
  <2>2. /\ status = "loop" /\ pos \in Nat /\ pos + 2 \in pos + 1 .. Len(file)
        /\ file[pos + 1].kind = kind /\ file[pos + 2].kind = OperandAfter[kind]
        /\ dbIndex \in Int /\ expireMs \in Int
        /\ lru \in Optional(Int) /\ lfu \in Optional(Nat)
        /\ \A i \in pos + 1 .. pos + 2 : i = pos + 1 \/ i = pos + 2
    BY <1>2, <2>1, AtOperand DEF TwoOperands
  <2>3. /\ Constant /\ UNCHANGED <<delivered, stopped>> /\ UNCHANGED locals
        /\ pos' = pos + 2 /\ status' = "closing"
    BY <1>2 DEF TwoOperands
  <2>4. /\ OperandAfter[kind] \in {"auxKey", "keyCount"}
        /\ kind # "value" /\ OperandAfter[kind] # "value"
    BY DEF OperandAfter
  <2>5. LocalsRight'
    BY <2>3 DEF LocalsRight
  <2> QED
    BY <2>2, <2>3, <2>4, <2>5, QuietTurn DEF locals
<1>3. CASE Readable1(2) /\ Readable1(3)
  <2>1. /\ kind \in DOMAIN OperandAfter
        /\ OperandAfter[OperandAfter[kind]] \notin
               {"value", "dbNum", "ms", "sec", "idle", "freq"}
    BY DEF OperandAfter
  <2>2. /\ status = "loop" /\ pos \in Nat /\ AtOp(kind)
        /\ dbIndex \in Int /\ expireMs \in Int
        /\ lru \in Optional(Int) /\ lfu \in Optional(Nat)
    BY <1>3, <2>1, AtOperand DEF TwoOperands
  <2>3. /\ pos + 3 \in pos + 1 .. Len(file)
        /\ file[pos + 3].kind = OperandAfter[OperandAfter[kind]]
        /\ file[pos + 3].val \in Nat
        /\ LocalsAt(pos + 3, dbIndex, expireMs, lru, lfu)
        /\ \A i \in pos + 1 .. pos + 2 : file[i].kind # "value"
    BY <1>3, <2>2, AtSecondOperand
  <2>4. Constant /\ UNCHANGED locals /\ pos' = pos + 3 /\ DeliverSpecial(obj)
    BY <1>3 DEF TwoOperands
  <2>5. LocalsAt(pos + 4, dbIndex, expireMs, lru, lfu)
    <3>1. pos + 3 \in Nat \ {0} /\ (pos + 3) + 1 = pos + 4
      BY <2>2
    <3> QED
      BY <2>1, <2>3, <3>1, AfterToken
  <2>6. LocalsRight'
    <3>1. pos' + 1 = pos + 4 /\ pos' > 0 /\ file' = file
      BY <2>2, <2>4 DEF Constant
    <3> QED
      BY <2>4, <2>5, <3>1 DEF LocalsRight, LocalsAt, locals
  <2>7. \A i \in pos + 1 .. pos' : file[i].kind # "value"
    <3>1. \A i \in pos + 1 .. pos' : i \in pos + 1 .. pos + 2 \/ i = pos + 3
      BY <2>2, <2>4
    <3> QED
      BY <2>1, <2>3, <3>1
  <2>8. \A i \in pos + 1 .. pos' - 1 : file[i].kind # "value"
    BY <2>2, <2>3, <2>4
  <2>9. CASE Deliver(obj)
    BY <1>3, <2>2, <2>3, <2>4, <2>6, <2>8, <2>9, DeliveringTurn DEF Deliver, locals
  <2>10. CASE UNCHANGED <<delivered, stopped, status>>
    BY <2>2, <2>3, <2>4, <2>6, <2>7, <2>10, QuietTurn DEF locals
  <2> QED
    BY <2>4, <2>9, <2>10 DEF DeliverSpecial
<1> QED
  BY <1>1, <1>2, <1>3

LEMMA AuxTurn == ASSUME Inv, Aux \/ ResizeDB PROVE Inv'
<1>1. ASSUME Readable1(2), Readable1(3)
      PROVE  /\ pos + 3 \in Nat /\ dbIndex \in Int
             /\ file[pos + 2].val \in Nat /\ file[pos + 3].val \in Nat
  BY <1>1, Reading DEF Inv, TypeOK, Readable1
<1>2. CASE Aux
  <2> DEFINE obj == Object("aux", pos + 3, 0, Operand, file[pos + 3].val, Nil, Nil, Nil)
  <2>1. Readable1(2) /\ Readable1(3) =>
            /\ obj \in Delivery /\ obj.at = pos + 3 /\ obj.type \in SpecialTypes
    BY <1>1, SpecialDelivery DEF Object, Operand, SpecialTypes
  <2>2. TwoOperands("auxOp", obj)
    BY <1>2 DEF Aux
  <2> HIDE DEF obj
  <2> QED
    BY <2>1, <2>2, TwoOperandsTurn
<1>3. CASE ResizeDB
  <2> DEFINE obj == Object("dbsize", pos + 3, dbIndex, Operand, file[pos + 3].val,
                           Nil, Nil, Nil)
  <2>1. Readable1(2) /\ Readable1(3) =>
            /\ obj \in Delivery /\ obj.at = pos + 3 /\ obj.type \in SpecialTypes
    BY <1>1, SpecialDelivery DEF Object, Operand, SpecialTypes
  <2>2. TwoOperands("resizeOp", obj)
    BY <1>3 DEF ResizeDB
  <2> HIDE DEF obj
  <2> QED
    BY <2>1, <2>2, TwoOperandsTurn
<1> QED
  BY <1>2, <1>3

\* The turn of the loop that reads an object with value v.
ReadsAs(v) ==
    /\ pos' = pos + 3
    /\ ResetAttributes /\ UNCHANGED dbIndex
    /\ Deliver(Object(TypeOfFlag(file[pos + 1].val), pos + 3, dbIndex,
                      Operand, v, Expiration(expireMs), lru, lfu))

LEMMA OutcomesAreValues ==
    ASSUME NEW flag, NEW val \in Nat, NEW v \in Outcomes(flag, val) \ {None}
    PROVE  v \in Nat
BY DecoderAssumption, Zenon DEF DecoderAssumption, Outcomes

(***************************************************************************)
(* An object: its attributes are the locals, which are what the file says, *)
(* and stay so for the next one: expireMs is set back if it is positive.   *)
(***************************************************************************)
LEMMA ObjectTurn == ASSUME Inv, ReadObject PROVE Inv'
<1>1. CASE UNCHANGED pos /\ Fail
  BY <1>1, FailingTurn DEF ReadObject
<1>2. ASSUME NEW v \in ValueRead \ {None}, ReadsAs(v) PROVE Inv'
  <2>0. /\ Readable1(2) /\ Readable1(3) /\ KnownType(file[pos + 1].val)
        /\ v \in Outcomes(file[pos + 1].val, file[pos + 3].val) \ {None}
    BY Zenon DEF ValueRead
  <2>1. /\ "type" \in DOMAIN OperandAfter /\ OperandAfter["type"] = "key"
        /\ OperandAfter["key"] = "value"
    BY DEF OperandAfter
  <2>2. /\ status = "loop" /\ pos \in Nat /\ AtOp("type")
        /\ file[pos + 1].val \in Nat /\ file[pos + 2].val \in Nat
        /\ dbIndex \in Int /\ expireMs \in Int
        /\ lru \in Optional(Int) /\ lfu \in Optional(Nat)
    BY <2>0, <2>1, AtOperand DEF ReadObject
  <2>3. /\ pos + 3 \in pos + 1 .. Len(file)
        /\ file[pos + 3].kind = "value" /\ file[pos + 3].val \in Nat
        /\ LocalsAt(pos + 3, dbIndex, expireMs, lru, lfu)
        /\ \A i \in pos + 1 .. pos + 2 : file[i].kind # "value"
    BY <2>0, <2>1, <2>2, AtSecondOperand
  <2> DEFINE type == TypeOfFlag(file[pos + 1].val)
             obj == Object(type, pos + 3, dbIndex, Operand, v,
                           Expiration(expireMs), lru, lfu)
  <2>4. Constant /\ ResetAttributes /\ UNCHANGED dbIndex /\ pos' = pos + 3 /\ Deliver(obj)
    BY <1>2, Zenon DEF ReadObject, ReadsAs
  <2>5. type \in DOMAIN ObjectType
    BY <2>0 DEF KnownType, TypeOfFlag
  <2>6. obj \in Delivery
    <3>1. pos + 3 \in Nat /\ Operand \in Nat /\ Expiration(expireMs) \in Optional(Int)
      BY <2>2, Clock DEF Operand
    <3>2. v \in Nat
      BY <2>0, <2>3, OutcomesAreValues
    <3> HIDE DEF type
    <3> QED
      BY <2>2, <2>3, <2>5, <3>1, <3>2 DEF Object, Delivery
  <2>7. obj.at = pos'
    BY <2>4 DEF Object
  <2>8. obj = Said(file, pos + 3, v)
    <3>1. (pos + 3) - 2 = pos + 1 /\ (pos + 3) - 1 = pos + 2
      BY <2>2
    <3>2. Expiration(expireMs) = Expiration(MsOf(file, pos + 3))
      <4>1. CASE expireMs = MsOf(file, pos + 3)
        BY <4>1
      <4>2. CASE /\ expireMs <= 0
                 /\ MsOf(file, pos + 3) \in Int /\ MsOf(file, pos + 3) <= 0
        BY <2>2, <4>2, Clock
      <4> QED
        BY <2>3, <4>1, <4>2 DEF LocalsAt
    <3> QED
      BY <2>3, <3>1, <3>2 DEF LocalsAt, Said, Object, Operand
  <2>9. SaidSo(obj)
    <3>1. obj.at = pos + 3 /\ obj.at - 2 = pos + 1
      BY <2>2, <2>4, <2>7
    <3> HIDE DEF obj
    <3> QED
      BY <2>0, <2>8, <3>1 DEF SaidSo
  <2>10. /\ dbIndex' = dbIndex /\ lru' = Nil /\ lfu' = Nil
         /\ expireMs' = IF expireMs > 0 THEN 0 ELSE expireMs
    BY <2>4 DEF ResetAttributes
  <2>11. expireMs' \in Int /\ expireMs' <= 0
    BY <2>2, <2>10
  <2>12. LocalsRight'
    <3>1. pos + 3 \in Nat \ {0} /\ pos' + 1 = (pos + 3) + 1 /\ pos' > 0 /\ file' = file
      BY <2>2, <2>4 DEF Constant
    <3>2. LocalsAt((pos + 3) + 1, dbIndex, expireMs', Nil, Nil)
      BY <2>3, <2>11, <3>1, AfterValue
    <3> QED
      BY <2>10, <3>1, <3>2 DEF LocalsRight, LocalsAt
  <2>13. \A i \in pos + 1 .. pos' - 1 : file[i].kind # "value"
    BY <2>2, <2>3, <2>4
  <2> HIDE DEF obj
  <2>14. pos' \in pos + 1 .. Len(file) /\ dbIndex' \in Int
         /\ lru' \in Optional(Int) /\ lfu' \in Optional(Nat)
    BY <2>2, <2>3, <2>4, <2>10, Some
  <2>15. /\ delivered' = Append(delivered, obj)
         /\ UNCHANGED <<stopped, status>> \/ (stopped' = TRUE /\ status' = "closing")
    BY <2>4 DEF Deliver
  <2> QED
    BY <2>2, <2>4, <2>6, <2>7, <2>9, <2>11, <2>12, <2>13, <2>14, <2>15, DeliveringTurn
<1> QED
  BY <1>1, <1>2, Zenon DEF ReadObject, ReadsAs

LEMMA HeaderTurn == ASSUME Inv, CheckHeader PROVE Inv'
<1>0. /\ status = "header" /\ pos = 0 /\ delivered = << >> /\ file \in Files
      /\ Len(file) \in Nat /\ Constant
  BY DEF CheckHeader, Inv, HeaderFirst, TypeOK
<1>1. CASE ~(Readable1(1) /\ file[1].val \in {0, 1})
  BY <1>1, FailingTurn DEF CheckHeader
<1>2. CASE Readable1(1) /\ file[1].val \in {0, 1}
  <2>1. /\ pos' = 1 /\ status' = "loop" /\ UNCHANGED <<delivered, stopped>>
        /\ UNCHANGED locals
    BY <1>2 DEF CheckHeader
  <2>2. 1 <= Len(file) /\ file[1].kind = "magic" /\ file[1].val \in Nat
    <3>1. Readable(file) /\ 1 <= Len(file) /\ file[1].kind \notin Spoilt
      BY <1>0, <1>2, DecoderAssumption DEF DecoderAssumption, Readable1, Has
    <3>2. file # << >>
      BY <3>1
    <3> QED
      BY <1>2, <3>1, <3>2 DEF Readable
  <2>3. ~stopped
    BY <1>0 DEF Inv, StoppedLeft
  <2>4. TypeOK'
    <3>1. pos' \in 0 .. Len(file) /\ status' \in Statuses
      BY <1>0, <2>1, <2>2 DEF Statuses
    <3> QED
      BY <1>0, <2>1, <3>1 DEF Inv, TypeOK, Constant, locals
  <2>5. LocalsAt(2, dbIndex, expireMs, lru, lfu)
    <3>1. 1 \in Nat \ {0} /\ 1 + 1 = 2
      OBVIOUS
    <3>2. LocalsAt(1, dbIndex, expireMs, lru, lfu)
      BY <1>0 DEF Inv, HeaderFirst
    <3> QED
      BY <2>2, <3>1, <3>2, AfterToken
  <2>6. LocalsRight'
    <3>1. pos' + 1 = 2 /\ pos' > 0 /\ file' = file
      BY <1>0, <2>1 DEF Constant
    <3> QED
      BY <2>1, <2>5, <3>1 DEF LocalsRight, LocalsAt, locals
  <2>7. StoppedLeft'
    BY <2>1, <2>3 DEF StoppedLeft
  <2>8. HeaderFirst' /\ Arrived' /\ ObjectsAsSaid' /\ NilOnlyAtEnd'
    BY <1>0, <2>1 DEF HeaderFirst, Arrived, ObjectsAsSaid, NilOnlyAtEnd
  <2>9. ObjectsComplete'
    <3>1. \A i \in 1 .. pos' : file'[i].kind # "value"
      BY <1>0, <2>1, <2>2 DEF Constant
    <3>2. delivered' = << >>
      BY <1>0, <2>1
    <3> QED
      BY <3>1, <3>2 DEF ObjectsComplete
  <2> QED
    BY <1>0, <2>4, <2>6, <2>7, <2>8, <2>9 DEF Inv, Constant
<1> QED
  BY <1>1, <1>2

LEMMA EndingTurn == ASSUME Inv, NoOpCode \/ ReadEOF \/ ReadChecksum PROVE Inv'
<1>1. CASE NoOpCode
  BY <1>1, FailingTurn DEF NoOpCode
<1>2. CASE ReadEOF
  <2>1. /\ status = "loop" /\ Has(1) /\ file[pos + 1].kind = "eofOp" /\ pos' = pos + 1
        /\ status' = "closing" /\ UNCHANGED <<delivered, stopped>> /\ UNCHANGED locals
        /\ Constant
    BY <1>2 DEF ReadEOF, AtOp
  <2>2. /\ pos \in Nat /\ pos + 1 \in pos + 1 .. Len(file)
        /\ dbIndex \in Int /\ expireMs \in Int
        /\ lru \in Optional(Int) /\ lfu \in Optional(Nat)
    BY <2>1 DEF Inv, TypeOK, Has
  <2>3. \A i \in pos + 1 .. pos' : file[i].kind # "value"
    BY <2>1, <2>2
  <2>4. LocalsRight'
    BY <2>1 DEF LocalsRight
  <2> QED
    BY <2>1, <2>2, <2>3, <2>4, QuietTurn DEF locals
<1>3. CASE ReadChecksum
  <2>1. /\ status' = "ok" /\ UNCHANGED <<delivered, stopped>> /\ UNCHANGED locals
        /\ Constant /\ pos' = IF Has(1) THEN pos + 1 ELSE pos
    BY <1>3 DEF ReadChecksum
  <2>2. pos \in Nat /\ pos' \in 0 .. Len(file) /\ pos <= pos'
    BY <2>1 DEF Inv, TypeOK, Has
  <2>3. TypeOK'
    BY <2>1, <2>2 DEF Inv, TypeOK, Statuses, Constant, locals
  <2>4. Arrived'
    <3>1. \A n \in 1 .. Len(delivered) : delivered[n].at \in Nat /\ delivered[n].at <= pos
      BY PlaceOfDelivery DEF Inv, Arrived
    <3> QED
      BY <2>1, <2>2, <3>1 DEF Arrived
  <2>5. LocalsRight' /\ StoppedLeft' /\ HeaderFirst' /\ NilOnlyAtEnd'
    BY <2>1 DEF LocalsRight, StoppedLeft, HeaderFirst, NilOnlyAtEnd
  <2>6. ObjectsComplete' /\ ObjectsAsSaid'
    BY <2>1 DEF Inv, ObjectsComplete, ObjectsAsSaid, Constant
  <2> QED
    BY <2>1, <2>3, <2>4, <2>5, <2>6 DEF Inv, Constant
<1> QED
  BY <1>1, <1>2, <1>3

LEMMA StepInv == Inv /\ [Next]_vars => Inv'
<1> SUFFICES ASSUME Inv, [Next]_vars PROVE Inv'
  OBVIOUS
<1>1. CASE UNCHANGED vars
  BY <1>1 DEF vars, Inv, TypeOK, LocalsRight, LocalsAt, StoppedLeft, HeaderFirst,
              Arrived, ObjectsComplete, ObjectsAsSaid, NilOnlyAtEnd
<1> QED
  BY <1>1, HeaderTurn, EndingTurn, AttributeTurn, SkippingTurn, FunctionTurn, AuxTurn,
     ObjectTurn DEF Next

LEMMA InvAlways == Spec => []Inv
BY InitInv, StepInv, PTL DEF Spec

\* Types of the locals of Decoder.parse and of what it delivers.
THEOREM TypeCorrect == Spec => []TypeOK
<1>1. Inv => TypeOK
  BY DEF Inv
<1> QED
  BY <1>1, InvAlways, PTL

\* Every key comes with its own database, expiration, idle time and frequency,
\* for every readable input (Decoder.parse).
THEOREM EachObjectAsSaid == Spec => []ObjectsAsSaid
<1>1. Inv => ObjectsAsSaid
  BY DEF Inv
<1> QED
  BY <1>1, InvAlways, PTL

\* No key that was passed is missing, none comes twice or out of order.
THEOREM NoObjectMissing == Spec => []ObjectsComplete
<1>1. Inv => ObjectsComplete
  BY DEF Inv
<1> QED
  BY <1>1, InvAlways, PTL

\* A nil result without a stop comes after the EOF opcode, or after the first
\* operand of Aux or ResizeDB (the error shadowed in Decoder.parse).
THEOREM NilAtEnd == Spec => []NilOnlyAtEnd
<1>1. Inv => NilOnlyAtEnd
  BY DEF Inv
<1> QED
  BY <1>1, InvAlways, PTL

\* Nothing is delivered to a callback that has answered false.
THEOREM StopsForGood == Spec => StopIsFinal
<1>1. Inv /\ [Next]_vars => [stopped => UNCHANGED delivered]_vars
  <2> SUFFICES ASSUME Inv, Next, stopped PROVE UNCHANGED delivered
    BY DEF vars
  <2>1. status \notin {"header", "loop"}
    BY DEF Inv, StoppedLeft
  <2>2. ReadChecksum
    BY <2>1 DEF Next, CheckHeader, NoOpCode, ReadEOF, SelectDB, ExpireTime, ExpireTimeMs,
                Freq, Idle, ModuleAux, SlotInfo, SlotImport, SlotMetadata, OneOperand,
                Function, Aux, ResizeDB, TwoOperands, ReadObject, AtOp
  <2> QED
    BY <2>2 DEF ReadChecksum
<1> QED
  BY <1>1, InvAlways, PTL DEF Spec, StopIsFinal

-----------------------------------------------------------------------------
(***************************************************************************)
(* A file in the format from its header to its checksum, of types the      *)
(* decoder knows, is read to its end, unless the callback stops Parse or a *)
(* value is refused.                                                       *)
(***************************************************************************)
Complete(f) ==
    /\ WellFormed(f) /\ f # << >> /\ f[Len(f)].kind = "crc"
    /\ f[1].val \in {0, 1}
    /\ \A i \in 1 .. Len(f) :
           /\ f[i].kind = "type" => KnownType(f[i].val)
           /\ f[i].kind \in {"slotInfoOp", "slotImportOp"} => f[1].val = 1

AllDelivered ==
    \A i \in 1 .. Len(file) : file[i].kind = "value" =>
        \E n \in 1 .. Len(delivered) : delivered[n].at = i

WholeRead ==
    Complete(file) =>
        /\ status = "error" => AtRefusedValue
        /\ status = "loop" => file[pos].kind \in Starters
        /\ status = "closing" /\ ~stopped => file[pos].kind = "eofOp"
        /\ status = "ok" /\ ~stopped => AllDelivered

LEMMA Grammar ==
    /\ \A k \in OpKinds \ {"eofOp"} : k \in DOMAIN OperandAfter
    /\ \A k \in Starters : k \notin DOMAIN OperandAfter /\ k \notin {"eofOp", "crc"}
    /\ \A k \in DOMAIN OperandAfter : k \notin Starters /\ k \notin {"eofOp", "crc"}
    /\ \A k \in DOMAIN OperandAfter : OperandAfter[k] \notin Spoilt
    /\ OpKinds \cap Spoilt = {} /\ "crc" \notin Spoilt /\ "magic" \in Starters
    /\ \A k \in {"dbOp", "msOp", "secOp", "freqOp", "idleOp", "moduleAuxOp",
                 "functionOp", "slotInfoOp", "slotImportOp"} :
           k \in DOMAIN OperandAfter /\ OperandAfter[k] \in Starters
    /\ \A k \in {"auxOp", "resizeOp", "type"} :
           /\ k \in DOMAIN OperandAfter /\ OperandAfter[k] \in DOMAIN OperandAfter
           /\ OperandAfter[OperandAfter[k]] \in Starters
BY DEF OpKinds, OperandAfter, Starters, Spoilt

LEMMA NextToken ==
    ASSUME NEW f \in Seq(Token), Complete(f), NEW i \in 1 .. Len(f), f[i].kind # "crc"
    PROVE  /\ i + 1 \in 1 .. Len(f) /\ f[i + 1].kind \notin Spoilt
           /\ f[i].kind \in Starters => f[i + 1].kind \in OpKinds
           /\ f[i].kind \in DOMAIN OperandAfter =>
                  f[i + 1].kind = OperandAfter[f[i].kind]
           /\ f[i].kind = "eofOp" => f[i + 1].kind = "crc"
<1>1. i # Len(f)
  BY DEF Complete
<1>2. i \in 1 .. Len(f) - 1
  BY <1>1
<1>3. Follows(f[i].kind, f[i + 1].kind)
  BY <1>2 DEF Complete, WellFormed
<1> QED
  BY <1>2, <1>3, Grammar DEF Follows

\* A turn of the loop finds an opcode and its operands.
LEMMA WholeTurn ==
    ASSUME Inv, Complete(file), status = "loop", file[pos].kind \in Starters
    PROVE  /\ Has(1) /\ file[pos + 1].kind \in OpKinds
           /\ file[pos + 1].kind # "eofOp" =>
                  /\ Readable1(2) /\ file[pos + 2].kind = OperandAfter[file[pos + 1].kind]
                  /\ OperandAfter[file[pos + 1].kind] \in DOMAIN OperandAfter =>
                        /\ Readable1(3)
                        /\ file[pos + 3].kind
                               = OperandAfter[OperandAfter[file[pos + 1].kind]]
<1>1. pos \in 1 .. Len(file) /\ file \in Seq(Token)
  BY DEF Inv, TypeOK, LocalsRight
<1>2. /\ pos + 1 \in 1 .. Len(file) /\ file[pos + 1].kind \in OpKinds
  BY <1>1, NextToken, Grammar
<1>3. ASSUME file[pos + 1].kind # "eofOp"
      PROVE  /\ (pos + 1) + 1 = pos + 2 /\ pos + 2 \in 1 .. Len(file)
             /\ file[pos + 2].kind \notin Spoilt
             /\ file[pos + 2].kind = OperandAfter[file[pos + 1].kind]
  <2>1. file[pos + 1].kind \in DOMAIN OperandAfter /\ file[pos + 1].kind # "crc"
    BY <1>2, <1>3, Grammar
  <2>2. (pos + 1) + 1 = pos + 2
    BY <1>1
  <2> QED
    BY <1>1, <1>2, <2>1, <2>2, NextToken
<1>4. ASSUME file[pos + 1].kind # "eofOp",
             OperandAfter[file[pos + 1].kind] \in DOMAIN OperandAfter
      PROVE  /\ pos + 3 \in 1 .. Len(file) /\ file[pos + 3].kind \notin Spoilt
             /\ file[pos + 3].kind = OperandAfter[OperandAfter[file[pos + 1].kind]]
  <2>1. file[pos + 2].kind \in DOMAIN OperandAfter /\ file[pos + 2].kind # "crc"
    BY <1>3, <1>4, Grammar
  <2>2. (pos + 2) + 1 = pos + 3 /\ pos + 2 \in 1 .. Len(file)
    BY <1>1, <1>3, <1>4
  <2> QED
    BY <1>1, <1>3, <1>4, <2>1, <2>2, NextToken
<1> QED
  BY <1>1, <1>2, <1>3, <1>4 DEF Readable1, Has

\* The turn fails at a value that is refused, or ends where the next can begin.
LEMMA ItemTurn ==
    ASSUME Inv, WholeRead, Complete(file), status = "loop",
           SelectDB \/ ExpireTime \/ ExpireTimeMs \/ Freq \/ Idle \/ ModuleAux
               \/ SlotInfo \/ SlotImport \/ Function \/ Aux \/ ResizeDB \/ ReadObject
    PROVE  \/ status' = "error" /\ UNCHANGED pos /\ AtRefusedValue
           \/ /\ file[pos'].kind \in Starters
              /\ \/ UNCHANGED <<status, stopped>>
                 \/ status' = "closing" /\ stopped'
<1>0. status = "loop" /\ file[pos].kind \in Starters
  BY DEF WholeRead
<1>1. /\ Has(1) /\ pos \in Nat
      /\ file[pos + 1].kind # "eofOp" =>
                  /\ Readable1(2) /\ file[pos + 2].kind = OperandAfter[file[pos + 1].kind]
                  /\ OperandAfter[file[pos + 1].kind] \in DOMAIN OperandAfter =>
                        /\ Readable1(3)
                        /\ file[pos + 3].kind
                               = OperandAfter[OperandAfter[file[pos + 1].kind]]
  BY <1>0, WholeTurn DEF Inv, TypeOK
<1>2. ASSUME NEW kind \in {"dbOp", "msOp", "secOp", "freqOp", "idleOp", "moduleAuxOp",
                           "slotInfoOp", "slotImportOp"},
             NEW update, OneOperand(kind, update)
      PROVE  file[pos'].kind \in Starters /\ UNCHANGED <<status, stopped>>
  BY <1>1, <1>2, Grammar DEF OneOperand, AtOp
<1>3. ASSUME NEW kind \in {"slotInfoOp", "slotImportOp"}, SlotMetadata(kind)
      PROVE  file[pos'].kind \in Starters /\ UNCHANGED <<status, stopped>>
  <2>1. /\ pos + 1 \in 1 .. Len(file) /\ file[pos + 1].kind = kind
    BY <1>1, <1>3 DEF SlotMetadata, AtOp, Has, Inv, TypeOK
  <2>2. file[1].val = 1
    BY <2>1 DEF Complete
  <2>3. OneOperand(kind, UNCHANGED locals)
    BY <1>3, <2>2, Zenon DEF SlotMetadata
  <2> QED
    BY <1>2, <2>3
<1>4. ASSUME NEW obj, DeliverSpecial(obj) \/ Deliver(obj)
      PROVE  \/ UNCHANGED <<status, stopped>>
             \/ status' = "closing" /\ stopped'
  BY <1>4 DEF DeliverSpecial, Deliver
<1>5. ASSUME NEW kind \in {"auxOp", "resizeOp"}, NEW obj, TwoOperands(kind, obj)
      PROVE  file[pos'].kind \in Starters /\ DeliverSpecial(obj)
  BY <1>1, <1>5, Grammar DEF TwoOperands, AtOp
<1>6. CASE Function
  BY <1>1, <1>4, <1>6, Grammar DEF Function, AtOp
<1>7. CASE ReadObject
  <2>1. pos + 1 \in 1 .. Len(file) /\ file[pos + 1].kind = "type"
    BY <1>1, <1>7 DEF ReadObject, AtOp, Has, Inv, TypeOK
  <2>2. KnownType(file[pos + 1].val)
    BY <2>1 DEF Complete
  <2>3. /\ Readable1(2) /\ Readable1(3) /\ file[pos + 3].kind \in Starters
    BY <1>1, <2>1, Grammar
  <2>4. ValueRead = Outcomes(file[pos + 1].val, file[pos + 3].val)
    BY <2>2, <2>3, Zenon DEF ValueRead
  <2>5. CASE None \in ValueRead /\ UNCHANGED pos /\ Fail
    <3>1. Has(3)
      BY <2>3 DEF Readable1
    <3> QED
      BY <2>1, <2>4, <2>5, <3>1, Zenon DEF AtRefusedValue, Fail
  <2>6. ASSUME NEW v, ReadsAs(v) PROVE file[pos'].kind \in Starters
                                       /\ \E obj : Deliver(obj)
    BY <2>3, <2>6, Zenon DEF ReadsAs
  <2> QED
    BY <1>4, <1>7, <2>5, <2>6, Zenon DEF ReadObject, ReadsAs
<1>8. CASE SelectDB \/ ExpireTime \/ ExpireTimeMs \/ Freq \/ Idle \/ ModuleAux
  BY <1>2, <1>8 DEF SelectDB, ExpireTime, ExpireTimeMs, Freq, Idle, ModuleAux
<1>9. CASE SlotInfo \/ SlotImport
  BY <1>3, <1>9 DEF SlotInfo, SlotImport
<1>10. CASE Aux \/ ResizeDB
  BY <1>4, <1>5, <1>10 DEF Aux, ResizeDB
<1> QED
  BY <1>6, <1>7, <1>8, <1>9, <1>10

LEMMA WholeStep == Inv /\ WholeRead /\ [Next]_vars => WholeRead'
<1> SUFFICES ASSUME Inv, WholeRead, [Next]_vars, Complete(file') PROVE WholeRead'
  BY DEF WholeRead, Complete, WellFormed, KnownType
<1>1. CASE UNCHANGED vars
  BY <1>1 DEF vars, WholeRead, AllDelivered, Complete, WellFormed, KnownType,
              AtRefusedValue, Has
<1>2. CASE Next
  <2>0. file' = file /\ Complete(file) /\ file \in Seq(Token)
    <3>1. file' = file
      BY <1>2, Zenon DEF Next, CheckHeader, NoOpCode, ReadEOF, SelectDB, ExpireTime,
            ExpireTimeMs, Freq, Idle, ModuleAux, SlotInfo, SlotImport, SlotMetadata,
            OneOperand, Function, Aux, ResizeDB, TwoOperands, ReadObject, ReadChecksum,
            Constant
    <3> QED
      BY <3>1 DEF Inv, TypeOK
  <2>1. CASE CheckHeader
    <3>1. 1 \in 1 .. Len(file) /\ file[1].kind = "magic" /\ file[1].val \in {0, 1}
      BY <2>0 DEF Complete, WellFormed
    <3>2. pos = 0 /\ Readable1(1)
      BY <2>1, <3>1 DEF CheckHeader, Inv, HeaderFirst, Readable1, Has, Spoilt
    <3>3. pos' = 1 /\ status' = "loop"
      BY <2>1, <3>1, <3>2 DEF CheckHeader
    <3> QED
      BY <2>0, <3>1, <3>3, Grammar DEF WholeRead
  <2>2. CASE NoOpCode
    <3>1. status = "loop" /\ file[pos].kind \in Starters
      BY <2>0, <2>2 DEF NoOpCode, WholeRead
    <3> QED
      BY <2>0, <2>2, <3>1, WholeTurn DEF NoOpCode
  <2>3. CASE ReadEOF
    BY <2>0, <2>3 DEF ReadEOF, AtOp, WholeRead
  <2>4. CASE SelectDB \/ ExpireTime \/ ExpireTimeMs \/ Freq \/ Idle \/ ModuleAux
               \/ SlotInfo \/ SlotImport \/ Function \/ Aux \/ ResizeDB \/ ReadObject
    <3>1. status = "loop"
      BY <2>4 DEF SelectDB, ExpireTime, ExpireTimeMs, Freq, Idle, ModuleAux, SlotInfo,
            SlotImport, SlotMetadata, OneOperand, Function, Aux, ResizeDB, TwoOperands,
            ReadObject, AtOp
    <3>2. \/ status' = "error" /\ UNCHANGED pos /\ AtRefusedValue
          \/ /\ file[pos'].kind \in Starters
             /\ \/ UNCHANGED <<status, stopped>>
                \/ status' = "closing" /\ stopped'
      BY <2>0, <2>4, <3>1, ItemTurn
    <3>3. AtRefusedValue /\ UNCHANGED pos => AtRefusedValue'
      BY <2>0, Zenon DEF AtRefusedValue, Has
    <3> QED
      BY <2>0, <3>1, <3>2, <3>3 DEF WholeRead
  <2>5. CASE ReadChecksum
    <3>1. status = "closing" /\ status' = "ok" /\ UNCHANGED <<delivered, stopped>>
      BY <2>5 DEF ReadChecksum
    <3>2. ASSUME ~stopped PROVE AllDelivered'
      <4>1. file[pos].kind = "eofOp" /\ pos \in 1 .. Len(file)
        BY <2>0, <3>1, <3>2 DEF WholeRead, Inv, NilOnlyAtEnd
      <4>2. pos + 1 \in 1 .. Len(file) /\ file[pos + 1].kind = "crc"
        BY <2>0, <4>1, NextToken
      <4>3. pos + 1 = Len(file)
        <5>1. ASSUME pos + 1 \in 1 .. Len(file) - 1 PROVE FALSE
          <6>1. Follows(file[pos + 1].kind, file[(pos + 1) + 1].kind)
            BY <2>0, <5>1 DEF Complete, WellFormed
          <6> QED
            BY <4>2, <6>1, Grammar DEF Follows, Starters, OperandAfter
        <5> QED
          BY <4>2, <5>1
      <4>4. \A i \in 1 .. Len(file) : file[i].kind = "value" => i \in 1 .. pos
        BY <4>1, <4>2, <4>3
      <4> QED
        BY <2>0, <3>1, <4>4 DEF AllDelivered, Inv, ObjectsComplete
    <3> QED
      BY <2>0, <3>1, <3>2 DEF WholeRead
  <2> QED
    BY <1>2, <2>1, <2>2, <2>3, <2>4, <2>5 DEF Next
<1> QED
  BY <1>1, <1>2

LEMMA WholeInit == Init => WholeRead
BY DEF Init, WholeRead

\* Parse fails on a complete file only at a value that does not read back, and
\* when it returns nil without having been stopped every value of the file was
\* delivered (Decoder.parse).
THEOREM CompleteFileIsRead ==
    Spec => [](Complete(file) => /\ status = "error" => AtRefusedValue
                                 /\ status = "ok" /\ ~stopped => AllDelivered)
<1>1. WholeRead => (Complete(file) => /\ status = "error" => AtRefusedValue
                                      /\ status = "ok" /\ ~stopped => AllDelivered)
  BY DEF WholeRead
<1> QED
  BY <1>1, WholeInit, WholeStep, InvAlways, PTL DEF Spec

(***************************************************************************)
(* Without withSpecialOpCode only keys are delivered, each where its value *)
(* ends.                                                                   *)
(***************************************************************************)
OnlyKeys ==
    ~withSpecialOpCode => \A n \in 1 .. Len(delivered) :
        /\ delivered[n].type \notin SpecialTypes
        /\ delivered[n].at \in 1 .. Len(file)
        /\ file[delivered[n].at].kind = "value"

LEMMA ReadKey ==
    ASSUME Inv, Next, ~withSpecialOpCode, delivered' # delivered
    PROVE  \E obj :
             /\ status = "loop" /\ delivered' = Append(delivered, obj)
             /\ obj.at = pos' /\ obj.type \notin SpecialTypes
             /\ pos' \in pos + 1 .. Len(file) /\ file[pos'].kind = "value"
             /\ \A i \in pos + 1 .. pos' - 1 : file[i].kind # "value"
<1>1. ReadObject
  BY Zenon DEF Next, CheckHeader, NoOpCode, ReadEOF, SelectDB, ExpireTime,
        ExpireTimeMs, Freq, Idle, ModuleAux, SlotInfo, SlotImport, SlotMetadata,
        OneOperand, Function, Aux, ResizeDB, TwoOperands, ReadChecksum, Fail,
        DeliverSpecial
<1>0. PICK v \in ValueRead \ {None} : ReadsAs(v)
  BY <1>1, Zenon DEF ReadObject, ReadsAs, Fail
<1> DEFINE type == TypeOfFlag(file[pos + 1].val)
           obj == Object(type, pos + 3, dbIndex, Operand, v,
                         Expiration(expireMs), lru, lfu)
<1>2. /\ AtOp("type") /\ Readable1(2) /\ Readable1(3) /\ KnownType(file[pos + 1].val)
      /\ pos' = pos + 3 /\ Deliver(obj)
  <2>1. AtOp("type")
    BY <1>1 DEF ReadObject
  <2>2. Readable1(2) /\ Readable1(3) /\ KnownType(file[pos + 1].val)
    BY <1>0, Zenon DEF ValueRead
  <2> QED
    BY <1>0, <2>1, <2>2, Zenon DEF ReadsAs
<1>3. /\ "type" \in DOMAIN OperandAfter /\ OperandAfter["type"] = "key"
      /\ OperandAfter["key"] = "value"
  BY DEF OperandAfter
<1>4. /\ pos + 3 \in pos + 1 .. Len(file) /\ file[pos + 3].kind = "value"
      /\ \A i \in pos + 1 .. pos + 2 : file[i].kind # "value"
  BY <1>2, <1>3, AtSecondOperand
<1>5. type \notin SpecialTypes
  <2>1. type \in DOMAIN ObjectType
    BY <1>2 DEF KnownType, TypeOfFlag
  <2> HIDE DEF type
  <2> QED
    BY <2>1 DEF ObjectType, SpecialTypes
<1>6. delivered' = Append(delivered, obj) /\ status = "loop"
  BY <1>2, Zenon DEF Deliver, AtOp
<1>7. obj.at = pos' /\ obj.type = type
  BY <1>2 DEF Object
<1>8. pos \in Nat
  BY DEF Inv, TypeOK
<1> HIDE DEF obj, type
<1> QED
  BY <1>2, <1>4, <1>5, <1>6, <1>7, <1>8

LEMMA FileKept == ASSUME Next PROVE file' = file /\ withSpecialOpCode' = withSpecialOpCode
BY Zenon DEF Next, CheckHeader, NoOpCode, ReadEOF, SelectDB, ExpireTime,
      ExpireTimeMs, Freq, Idle, ModuleAux, SlotInfo, SlotImport, SlotMetadata,
      OneOperand, Function, Aux, ResizeDB, TwoOperands, ReadObject, ReadChecksum,
      Constant

LEMMA OnlyKeysStep == ASSUME Inv, OnlyKeys, Next PROVE OnlyKeys'
<1> SUFFICES ASSUME ~withSpecialOpCode', NEW n \in 1 .. Len(delivered')
             PROVE  /\ delivered'[n].type \notin SpecialTypes
                    /\ delivered'[n].at \in 1 .. Len(file')
                    /\ file'[delivered'[n].at].kind = "value"
  BY DEF OnlyKeys
<1>1. file' = file /\ ~withSpecialOpCode
  BY FileKept
<1>2. CASE delivered' = delivered
  BY <1>1, <1>2 DEF OnlyKeys
<1>3. CASE delivered' # delivered
  <2>1. PICK obj :
             /\ delivered' = Append(delivered, obj)
             /\ obj.at = pos' /\ obj.type \notin SpecialTypes
             /\ pos' \in pos + 1 .. Len(file) /\ file[pos'].kind = "value"
    BY <1>1, <1>3, ReadKey
  <2>2. /\ n \in 1 .. Len(delivered) \/ n = Len(delivered) + 1
        /\ \A m \in 1 .. Len(delivered) : delivered'[m] = delivered[m]
        /\ delivered'[Len(delivered) + 1] = obj
    BY <2>1 DEF Inv, TypeOK
  <2>3. pos' \in 1 .. Len(file)
    BY <2>1 DEF Inv, TypeOK
  <2> QED
    BY <1>1, <2>1, <2>2, <2>3 DEF OnlyKeys
<1> QED
  BY <1>2, <1>3
=============================================================================
