------------------------------ MODULE Decoder ------------------------------
(***************************************************************************)
(* core/decoder.go: Decoder.Parse.  checkHeader, then a loop that reads an *)
(* opcode or type byte, reads what follows it and hands objects to the     *)
(* callback cb.  The local variables of the loop (dbIndex, expireMs, lru,  *)
(* lfu) carry what the opcodes before an object say about it.              *)
(*                                                                         *)
(* One action is one iteration of the loop.  The input is any sequence of  *)
(* tokens; it may end anywhere and any operand may be damaged.             *)
(***************************************************************************)
EXTENDS RdbTokens, FiniteSets

CONSTANTS
    Files,       \* the inputs
    Int64,       \* 2^64 in the program: integers are taken modulo it
    MsPerSec,    \* 1000
    NsPerMs,     \* int64(time.Millisecond), 1000000
    ReadAs       \* the undamaged values that do not read back as they are

(***************************************************************************)
(* What a value read under a type byte comes back as: itself, unless       *)
(* <<flag, value>> is one of the values ReadAs has the outcomes of.  None  *)
(* stands for an error or a panic, which parse recovers from (592): a hash *)
(* with field expirations that is empty or out of range (hash.go:55, 75),  *)
(* a quicklist2 with a plain node before a packed one, on which            *)
(* memprofiler.SizeOfObject (577) panics.  A misread value is another one: *)
(* a ziplist element of 16384 bytes or more, the distance between two ids  *)
(* of a stream.  Each reader stays inside the value's own string there, so *)
(* that the tokens after it are found where they are.                      *)
(***************************************************************************)
Outcomes(flag, val) ==
    IF <<flag, val>> \in DOMAIN ReadAs THEN ReadAs[<<flag, val>>] ELSE {val}

ASSUME DecoderAssumption ==
    /\ \A f \in Files : f \in Seq(Token) /\ Readable(f)
    /\ Int64 \in Nat \ {0} /\ MsPerSec \in Nat /\ NsPerMs \in Nat
    /\ \A p \in DOMAIN ReadAs : ReadAs[p] # {} /\ ReadAs[p] \subseteq Nat \cup {None}

\* A pointer, or a number and whether it was given: empty for nil.
Nil == << >>
Optional(S) == {s \in Seq(S) : Len(s) <= 1}

VARIABLES
    file,               \* what dec.input reads from
    withSpecialOpCode,  \* Decoder.withSpecialOpCode
    pos,                \* tokens read so far (Decoder.readCount)
    dbIndex, expireMs, lru, lfu,    \* locals of parse
    delivered,          \* the objects cb was called with, in order
    stopped,            \* cb returned false
    status              \* where Parse is: "ok" returned nil, "error" an error

vars == <<file, withSpecialOpCode, pos, dbIndex, expireMs, lru, lfu,
          delivered, stopped, status>>
locals == <<dbIndex, expireMs, lru, lfu>>

Statuses == {"header", "loop", "closing", "ok", "error"}

(***************************************************************************)
(* readObject: the type of object each type byte stands for.               *)
(***************************************************************************)
ObjectType == [string |-> {0}, list |-> {1, 10, 14, 18}, set |-> {2, 11, 20},
               zset |-> {3, 5, 12, 17}, hash |-> {4, 9, 13, 16, 22, 23, 24, 25},
               stream |-> {15, 19, 21}, module |-> {7}]

KnownType(flag) == \E t \in DOMAIN ObjectType : flag \in ObjectType[t]

TypeOfFlag(flag) == CHOOSE t \in DOMAIN ObjectType : flag \in ObjectType[t]

(***************************************************************************)
(* The conversion int64(x) of an unsigned number (int(x) of a database),   *)
(* negative from 2^63 on, and the expiration time in nanoseconds built     *)
(* from expireMs: the product wraps around.                                *)
(***************************************************************************)
ToInt64(x) ==
    LET m == x % Int64 IN IF 2 * m >= Int64 THEN m - Int64 ELSE m

Expiration(ms) == IF ms > 0 THEN <<ToInt64(ms * NsPerMs)>> ELSE Nil

Init ==
    /\ file \in Files
    /\ withSpecialOpCode \in BOOLEAN
    /\ pos = 0
    /\ dbIndex = 0 /\ expireMs = 0 /\ lru = Nil /\ lfu = Nil
    /\ delivered = << >>
    /\ stopped = FALSE
    /\ status = "header"

(***************************************************************************)
(* Reading.  A read fails at the end of the input and on a damaged or cut  *)
(* operand; pos counts the completed reads and stays where it was.         *)
(***************************************************************************)
Has(n) == pos + n <= Len(file)

Readable1(n) == Has(n) /\ file[pos + n].kind \notin Spoilt

AtOp(kind) == status = "loop" /\ Has(1) /\ file[pos + 1].kind = kind

\* Bug: the error goes to a shadowed variable, the loop ends as if at EOF.
Fail_Swallowed == status' = "closing" /\ UNCHANGED <<locals, delivered, stopped>>
Fail == status' = "error" /\ UNCHANGED <<locals, delivered, stopped>>

Constant == UNCHANGED <<file, withSpecialOpCode>>

\* Bugs: an object the callback stops at is not handed to it; a callback that
\* wants no more is called again.
Deliver_AskFirst(obj) ==
    \/ delivered' = Append(delivered, obj) /\ UNCHANGED <<stopped, status>>
    \/ stopped' = TRUE /\ status' = "closing" /\ UNCHANGED delivered
Deliver_GoOn(obj) ==
    /\ delivered' = Append(delivered, obj)
    /\ stopped' \in {stopped, TRUE} /\ UNCHANGED status

(***************************************************************************)
(* cb(obj): the callback answers whether it wants more.                    *)
(***************************************************************************)
Deliver(obj) ==
    /\ delivered' = Append(delivered, obj)
    /\ \/ UNCHANGED <<stopped, status>>
       \/ stopped' = TRUE /\ status' = "closing"

CheckHeader ==
    /\ status = "header"
    /\ IF Readable1(1) /\ file[1].val \in {0, 1}
       THEN pos' = 1 /\ status' = "loop" /\ UNCHANGED <<locals, delivered, stopped>>
       ELSE UNCHANGED pos /\ Fail
    /\ Constant

\* Bug: the end of the input does not end the loop.
NoOpCode_Retry ==
    status = "loop" /\ ~(Has(1) /\ file[pos + 1].kind \in OpKinds) /\ UNCHANGED vars

\* The input ends where an opcode is due, or an unknown byte is there.
NoOpCode ==
    /\ status = "loop"
    /\ ~(Has(1) /\ file[pos + 1].kind \in OpKinds)
    /\ Fail /\ UNCHANGED pos
    /\ Constant

ReadEOF ==
    /\ AtOp("eofOp")
    /\ pos' = pos + 1
    /\ status' = "closing"
    /\ UNCHANGED <<locals, delivered, stopped>> /\ Constant

(***************************************************************************)
(* The opcodes with one operand: set a local or skip it.                   *)
(***************************************************************************)
OneOperand(kind, update) ==
    /\ AtOp(kind)
    /\ IF Readable1(2)
       THEN pos' = pos + 2 /\ update /\ UNCHANGED <<delivered, stopped, status>>
       ELSE UNCHANGED pos /\ Fail
    /\ Constant

Operand == file[pos + 2].val

SelectDB ==
    OneOperand("dbOp", dbIndex' = ToInt64(Operand) /\ UNCHANGED <<expireMs, lru, lfu>>)

ExpireTime ==
    OneOperand("secOp", /\ expireMs' = Operand * MsPerSec
                        /\ UNCHANGED <<dbIndex, lru, lfu>>)

ExpireTimeMs ==
    OneOperand("msOp", /\ expireMs' = ToInt64(Operand)
                       /\ UNCHANGED <<dbIndex, lru, lfu>>)

Freq == OneOperand("freqOp", lfu' = <<Operand>> /\ UNCHANGED <<dbIndex, expireMs, lru>>)

Idle ==
    OneOperand("idleOp", /\ lru' = <<ToInt64(Operand)>>
                         /\ UNCHANGED <<dbIndex, expireMs, lfu>>)

ModuleAux == OneOperand("moduleAuxOp", UNCHANGED locals)

\* Opcodes 244 and 243: Valkey slot metadata to skip, an error for Redis.
SlotMetadata(kind) ==
    /\ AtOp(kind)
    /\ IF file[1].val = 1
       THEN OneOperand(kind, UNCHANGED locals)
       ELSE UNCHANGED pos /\ Fail /\ Constant

SlotInfo == SlotMetadata("slotInfoOp")

SlotImport == SlotMetadata("slotImportOp")

(***************************************************************************)
(* The records cb receives.  `at' is the token the object ends with.       *)
(***************************************************************************)
Object(type, at, db, key, value, exp, idle, freq) ==
    [type |-> type, at |-> at, db |-> db, key |-> key, value |-> value,
     exp |-> exp, idle |-> idle, freq |-> freq]

\* What an opcode says is an object of its own only with withSpecialOpCode.
DeliverSpecial(obj) ==
    IF withSpecialOpCode THEN Deliver(obj)
    ELSE UNCHANGED <<delivered, stopped, status>>

Function ==
    /\ AtOp("functionOp")
    /\ IF Readable1(2)
       THEN /\ pos' = pos + 2
            /\ UNCHANGED locals
            /\ DeliverSpecial(Object("functions", pos + 2, 0, None, Operand,
                                     Nil, Nil, Nil))
       ELSE UNCHANGED pos /\ Fail
    /\ Constant

(***************************************************************************)
(* Aux and ResizeDB read two operands.  A failure to read the first is     *)
(* returned; the error built for the second goes to a shadowed variable    *)
(* and the break that follows ends the loop as if the file had ended.      *)
(***************************************************************************)
TwoOperands(kind, obj) ==
    /\ AtOp(kind)
    /\ IF ~Readable1(2) THEN UNCHANGED pos /\ Fail
       ELSE IF ~Readable1(3)
       THEN pos' = pos + 2 /\ status' = "closing" /\ UNCHANGED <<locals, delivered, stopped>>
       ELSE pos' = pos + 3 /\ UNCHANGED locals /\ DeliverSpecial(obj)
    /\ Constant

Aux ==
    TwoOperands("auxOp", Object("aux", pos + 3, 0, Operand, file[pos + 3].val,
                                Nil, Nil, Nil))

ResizeDB ==
    TwoOperands("resizeOp", Object("dbsize", pos + 3, dbIndex, Operand,
                                   file[pos + 3].val, Nil, Nil, Nil))

\* Bugs: an attribute stays for the next key.
ResetAttributes_KeepFreq ==
    expireMs' = (IF expireMs > 0 THEN 0 ELSE expireMs) /\ lru' = Nil /\ UNCHANGED lfu
ResetAttributes_KeepExpire ==
    UNCHANGED expireMs /\ lru' = Nil /\ lfu' = Nil

ResetAttributes ==
    expireMs' = (IF expireMs > 0 THEN 0 ELSE expireMs) /\ lru' = Nil /\ lfu' = Nil

\* What readObject makes of the value at the place of the loop: it fails, or
\* panics, on a damaged value and on a type byte it does not know.
ValueRead ==
    IF Readable1(2) /\ Readable1(3) /\ KnownType(file[pos + 1].val)
    THEN Outcomes(file[pos + 1].val, file[pos + 3].val) ELSE {None}

(***************************************************************************)
(* A type byte: key, attributes, value.  expireMs is reset only when it    *)
(* was used; lru and lfu always.                                           *)
(***************************************************************************)
ReadObject ==
    /\ AtOp("type")
    /\ \/ \E v \in ValueRead \ {None} :
             /\ pos' = pos + 3
             /\ ResetAttributes /\ UNCHANGED dbIndex
             /\ Deliver(Object(TypeOfFlag(file[pos + 1].val), pos + 3, dbIndex,
                               Operand, v, Expiration(expireMs), lru, lfu))
       \/ None \in ValueRead /\ UNCHANGED pos /\ Fail
    /\ Constant

\* Bug: readCount counts a checksum that is not there.
ReadChecksum_Blind ==
    /\ status = "closing"
    /\ pos' = pos + 1
    /\ status' = "ok"
    /\ UNCHANGED <<locals, delivered, stopped>> /\ Constant

\* After the loop: eight bytes of checksum, read without looking at them.
ReadChecksum ==
    /\ status = "closing"
    /\ pos' = IF Has(1) THEN pos + 1 ELSE pos
    /\ status' = "ok"
    /\ UNCHANGED <<locals, delivered, stopped>> /\ Constant

Next ==
    \/ CheckHeader \/ NoOpCode \/ ReadEOF
    \/ SelectDB \/ ExpireTime \/ ExpireTimeMs \/ Freq \/ Idle
    \/ ModuleAux \/ SlotInfo \/ SlotImport
    \/ Function \/ Aux \/ ResizeDB \/ ReadObject
    \/ ReadChecksum

\* Parse runs in one goroutine that always takes its next step.
Spec == Init /\ [][Next]_vars /\ WF_vars(Next)

-----------------------------------------------------------------------------
(***************************************************************************)
(* Type correctness of the loop's locals and of what was delivered.        *)
(***************************************************************************)
SpecialTypes == {"functions", "aux", "dbsize"}

Delivery == [type : DOMAIN ObjectType \cup SpecialTypes, at : Nat,
             db : Int, key : Nat \cup {None}, value : Nat, exp : Optional(Int),
             idle : Optional(Int), freq : Optional(Nat)]

TypeOK ==
    /\ file \in Seq(Token)
    /\ withSpecialOpCode \in BOOLEAN
    /\ pos \in 0 .. Len(file)
    /\ dbIndex \in Int /\ expireMs \in Int
    /\ lru \in Optional(Int) /\ lfu \in Optional(Nat)
    /\ delivered \in Seq(Delivery)
    /\ stopped \in BOOLEAN
    /\ status \in Statuses

(***************************************************************************)
(* What the file says of the object that ends at token i.                  *)
(***************************************************************************)
MsOf(s, i) ==
    LET from == ObjectBefore(s, i)
        js == {j \in from + 1 .. i - 1 : s[j].kind \in {"ms", "sec"}}
    IN IF js = {} THEN 0
       ELSE LET t == s[CHOOSE j \in js : \A m \in js : m <= j]
            IN IF t.kind = "sec" THEN t.val * MsPerSec ELSE ToInt64(t.val)

\* The idle time and the frequency, by the last token since the object before.
IdleOf(s, i) ==
    LET v == InForce(s, ObjectBefore(s, i), i, {"idle"}, None)
    IN IF v = None THEN Nil ELSE <<ToInt64(v)>>

FreqOf(s, i) ==
    LET v == InForce(s, ObjectBefore(s, i), i, {"freq"}, None)
    IN IF v = None THEN Nil ELSE <<v>>

Said(s, i, value) ==
    Object(TypeOfFlag(s[i - 2].val), i, ToInt64(InForce(s, 0, i, {"dbNum"}, 0)),
           s[i - 1].val, value, Expiration(MsOf(s, i)), IdleOf(s, i), FreqOf(s, i))

(***************************************************************************)
(* Every key arrives with the database in force at its place in the file   *)
(* and with exactly the expiration, idle time and frequency written for    *)
(* it: no attribute reaches the next key, none is lost to an opcode in     *)
(* between (parse, the reset of expireMs, lru and lfu).  Numbers are what  *)
(* their conversion to an int leaves of them (a length of 2^63 or more is  *)
(* a negative database or idle time), and the value is one its bytes may   *)
(* be read as.                                                             *)
(***************************************************************************)
ObjectsAsSaid ==
    \A n \in 1 .. Len(delivered) :
        LET at == delivered[n].at
        IN delivered[n].type \notin SpecialTypes =>
               \E v \in Outcomes(file[at - 2].val, file[at].val) \ {None} :
                   delivered[n] = Said(file, at, v)

\* No key the loop has passed is missing, none comes twice or out of order.
ObjectsComplete ==
    /\ \A m, n \in 1 .. Len(delivered) :
           m < n => delivered[m].at < delivered[n].at
    /\ status \in {"loop", "closing"} =>
           \A i \in 1 .. pos : file[i].kind = "value" =>
               \E n \in 1 .. Len(delivered) : delivered[n].at = i

(***************************************************************************)
(* "cb returns true to continue, returns false to stop the iteration".     *)
(***************************************************************************)
StopIsFinal == [][stopped => UNCHANGED delivered]_vars

(***************************************************************************)
(* Parse returns nil without having been stopped only when it has read the *)
(* EOF opcode, or when the second operand of Aux or ResizeDB did not       *)
(* parse; every other damage or cut is an error.                           *)
(***************************************************************************)
NilOnlyAtEnd ==
    (status = "closing" /\ ~stopped) =>
        /\ pos \in DOMAIN file
        /\ file[pos].kind \in {"eofOp", "auxKey", "keyCount"}

(***************************************************************************)
(* Stronger, and false of the code: an input that is cut or damaged before *)
(* its EOF opcode is always an error ("Parse Aux value failed",            *)
(* decoder.go:449).                                                        *)
(***************************************************************************)
NilMeansEOF ==
    (status = "closing" /\ ~stopped) => file[pos].kind = "eofOp"

\* The loop is at an object with a value its reader, or the profiler, may refuse.
AtRefusedValue ==
    /\ Has(3) /\ file[pos + 1].kind = "type"
    /\ None \in Outcomes(file[pos + 1].val, file[pos + 3].val)

\* Parse returns on every input (the loop consumes a token per iteration).
ParseReturns == <>(status \in {"ok", "error"})
=============================================================================
