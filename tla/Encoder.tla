------------------------------ MODULE Encoder ------------------------------
(***************************************************************************)
(* core/encoder.go: the RDB encoder, an object whose methods append to an  *)
(* io.Writer.  A method checks the state machine stateChanges, writes its  *)
(* tokens one enc.write at a time and moves to its state only when every   *)
(* write succeeded.  Any write may fail, after nothing or a piece of the   *)
(* token reached the writer; the caller sees the error and may go on       *)
(* calling the encoder, which does not remember that a write failed.       *)
(***************************************************************************)
EXTENDS RdbTokens, FiniteSets

CONSTANTS
    DBs,        \* database numbers the caller uses
    Keys,       \* object keys
    ObjTypes,   \* which of the Write...Object methods the caller uses
    Values,     \* object values
    TTLs,       \* expiration timestamps (ms, uint64) the caller passes
    Valkey,     \* Encoder.valkey: made by NewEncoderValkey
    MaxTTLs,    \* how many TTLOptions the caller passes to one call at most
    MaxFaults,  \* bound: failing writes in a behaviour
    MaxLen      \* bound: tokens in the file

(***************************************************************************)
(* The type bytes a writer may choose for a value.  A compact encoding is  *)
(* tried first (tryWrite...) and given up, with nothing written, for a     *)
(* value that has too many or too large elements, or elements that are not *)
(* integers; here the value decides nondeterministically.                  *)
(***************************************************************************)
StringEncodings == {0}
ListEncodings == {10, 14}       \* ziplist, quicklist
SetEncodings == {11, 2}         \* intset, set
ZSetEncodings == {12, 5}        \* ziplist, zset2
HashEncodings == {13, 4}        \* ziplist, hash
HashExEncodings_Unknown == {26} \* bug: a type byte the decoder has no case for
HashExEncodings == IF Valkey THEN {22} ELSE {24}
StreamEncodings == {15, 19, 21} \* by StreamObject.Version

Encodings == [string |-> StringEncodings, list |-> ListEncodings,
              set |-> SetEncodings, zset |-> ZSetEncodings,
              hash |-> HashEncodings, hashEx |-> HashExEncodings,
              stream |-> StreamEncodings]

ASSUME EncoderAssumption ==
    /\ ObjTypes \subseteq DOMAIN Encodings
    /\ DBs \subseteq Nat /\ Keys \subseteq Nat /\ Values \subseteq Nat
    /\ TTLs \subseteq Nat /\ Valkey \in BOOLEAN
    /\ MaxTTLs \in Nat /\ MaxFaults \in Nat /\ MaxLen \in Nat

VARIABLES
    state,      \* Encoder.state
    existDB,    \* Encoder.existDB
    out,        \* what reached Encoder.writer
    crc,        \* what was fed to Encoder.crc
    callerDB,   \* history: the database of the last WriteDBHeader that returned nil
    acked,      \* history: the object calls that returned nil
    dirty,      \* history: some call returned an error after it began to write
    faults      \* history: how many writes failed

vars == <<state, existDB, out, crc, callerDB, acked, dirty, faults>>

States == {"Start", "Header", "DBHeader", "Aux", "TTL", "Object", "End"}

StateChanges == [Start    |-> {"Header"},
                 Header   |-> {"Aux", "DBHeader", "End"},
                 Aux      |-> {"Aux", "DBHeader", "End"},
                 DBHeader |-> {"TTL", "Object"},
                 TTL      |-> {"Object"},
                 Object   |-> {"TTL", "Object", "DBHeader", "End"},
                 End      |-> {}]

\* Bugs: a database without objects may be followed by another or ended; the
\* header may be left out.
Allowed_EmptyDB(toState) ==
    \/ toState \in StateChanges[state]
    \/ state = "DBHeader" /\ toState \in {"DBHeader", "End"}
Allowed_NoHeader(toState) ==
    \/ toState \in StateChanges[state]
    \/ state = "Start" /\ toState = "DBHeader"

Allowed(toState) == toState \in StateChanges[state]

Init ==
    /\ state = "Start"
    /\ existDB = {}
    /\ out = << >>
    /\ crc = << >>
    /\ callerDB = 0
    /\ acked = << >>
    /\ dirty = FALSE
    /\ faults = 0

(***************************************************************************)
(* enc.write of each token of toks in turn, all successful.                *)
(***************************************************************************)
WriteAll(toks) ==
    /\ Len(out) + Len(toks) <= MaxLen
    /\ out' = out \o toks
    /\ crc' = crc \o toks
    /\ UNCHANGED <<dirty, faults>>

\* The tokens the checksum has seen when the n+1-st write fails.  Bug: it is
\* updated before the write it is to cover.
Summed_CrcFirst(toks, n) == SubSeq(toks, 1, n + 1)
Summed(toks, n) == SubSeq(toks, 1, n)

(***************************************************************************)
(* The same, the n+1-st write failing: the writer may have taken a piece   *)
(* of that token, the checksum has not seen it.  (A string or a value is   *)
(* several enc.write calls but one token here: what the checksum saw of a  *)
(* torn one is left out, and no property speaks of the checksum of a file  *)
(* with a torn token.)                                                     *)
(***************************************************************************)
FailAfter(toks, n) ==
    /\ n < Len(toks)
    /\ faults < MaxFaults
    /\ Len(out) + n + 1 <= MaxLen
    /\ \E piece \in {<< >>, <<Torn>>} : out' = out \o SubSeq(toks, 1, n) \o piece
    /\ crc' = crc \o Summed(toks, n)
    /\ dirty' = TRUE
    /\ faults' = faults + 1

WriteFails(toks) == \E n \in 0 .. Len(toks) - 1 : FailAfter(toks, n)

HeaderTokens == <<Tok("magic", IF Valkey THEN 1 ELSE 0)>>

\* Bug: the name of another state.
WriteHeader_Typo ==
    /\ Allowed("Header") /\ WriteAll(HeaderTokens) /\ state' = "writtenHeader"
    /\ UNCHANGED <<existDB, callerDB, acked>>

WriteHeader ==
    /\ Allowed("Header")
    /\ \/ WriteAll(HeaderTokens) /\ state' = "Header"
       \/ WriteFails(HeaderTokens) /\ UNCHANGED state
    /\ UNCHANGED <<existDB, callerDB, acked>>

AuxTokens(k, v) == <<Tok("auxOp", 0), Tok("auxKey", k), Tok("auxVal", v)>>

WriteAux(k, v) ==
    /\ Allowed("Aux")
    /\ \/ WriteAll(AuxTokens(k, v)) /\ state' = "Aux"
       \/ WriteFails(AuxTokens(k, v)) /\ UNCHANGED state
    /\ UNCHANGED <<existDB, callerDB, acked>>

DBHeaderTokens(db) == <<Tok("dbOp", 0), Tok("dbNum", db), Tok("resizeOp", 0),
                        Tok("keyCount", 0), Tok("ttlCount", 0)>>

\* Bug: the number is reserved only when the header is complete.
WriteDBHeader_ReserveLate(db) ==
    /\ Allowed("DBHeader")
    /\ db \notin existDB
    /\ \/ /\ WriteAll(DBHeaderTokens(db))
          /\ state' = "DBHeader" /\ callerDB' = db /\ existDB' = existDB \cup {db}
       \/ WriteFails(DBHeaderTokens(db)) /\ UNCHANGED <<state, callerDB, existDB>>
    /\ UNCHANGED acked

\* The number is reserved in existDB before anything is written.
WriteDBHeader(db) ==
    /\ Allowed("DBHeader")
    /\ db \notin existDB
    /\ existDB' = existDB \cup {db}
    /\ \/ WriteAll(DBHeaderTokens(db)) /\ state' = "DBHeader" /\ callerDB' = db
       \/ WriteFails(DBHeaderTokens(db)) /\ UNCHANGED <<state, callerDB>>
    /\ UNCHANGED acked

\* Bug: milliseconds under the opcode for seconds.
TTLTokens_OldOpcode(ttl) == <<Tok("secOp", 0), Tok("sec", ttl)>>

TTLTokens(ttl) == <<Tok("msOp", 0), Tok("ms", ttl)>>

ObjectTokens(flag, k, v) == <<Tok("type", flag), Tok("key", k), Tok("value", v)>>

(***************************************************************************)
(* beforeWriteObject and the writer of a type.  opts is the sequence of    *)
(* TTLOptions of the call: writeTTL moves to TTL after each, so a second   *)
(* one, or one given in state TTL, is refused - with the first already in  *)
(* the file.                                                               *)
(***************************************************************************)
OptionsAccepted(opts) ==
    Len(opts) = 0 \/ (Len(opts) = 1 /\ Allowed("TTL"))

WriteObject(t, flag, k, v, opts) ==
    LET ttl  == IF opts = << >> THEN << >> ELSE TTLTokens(opts[1])
        toks == ttl \o ObjectTokens(flag, k, v)
    IN /\ Allowed("Object")
       /\ OptionsAccepted(opts)
       /\ \/ /\ WriteAll(toks)
             /\ state' = "Object"
             /\ acked' = Append(acked,
                    [at |-> Len(out'), type |-> t, db |-> callerDB, key |-> k,
                     value |-> v, ms |-> IF opts = << >> THEN None ELSE opts[1]])
          \/ \E n \in 0 .. Len(toks) - 1 :
                /\ FailAfter(toks, n)
                /\ state' = IF opts # << >> /\ n >= Len(ttl) THEN "TTL" ELSE state
                /\ UNCHANGED acked
       /\ UNCHANGED <<existDB, callerDB>>

\* The second TTLOption is refused after the first was written.
WriteObjectRefused(opts) ==
    LET toks == TTLTokens(opts[1])
    IN /\ Allowed("Object")
       /\ Len(opts) > 1
       /\ Allowed("TTL")
       /\ \/ /\ Len(out) + Len(toks) <= MaxLen
             /\ out' = out \o toks
             /\ crc' = crc \o toks
             /\ state' = "TTL"
             /\ dirty' = TRUE
             /\ UNCHANGED faults
          \/ WriteFails(toks) /\ UNCHANGED state
       /\ UNCHANGED <<existDB, callerDB, acked>>

\* The checksum goes to the writer directly, not through enc.write.
WriteEnd ==
    /\ Allowed("End")
    /\ \/ /\ Len(out) + 2 <= MaxLen
          /\ out' = out \o <<Tok("eofOp", 0), Tok("crc", 0)>>
          /\ crc' = Append(crc, Tok("eofOp", 0))
          /\ state' = "End"
          /\ UNCHANGED <<dirty, faults>>
       \/ /\ WriteFails(<<Tok("eofOp", 0)>>)
          /\ UNCHANGED state
       \/ /\ faults < MaxFaults /\ Len(out) + 2 <= MaxLen
          /\ \E piece \in {<< >>, <<Torn>>} :
                out' = Append(out, Tok("eofOp", 0)) \o piece
          /\ crc' = Append(crc, Tok("eofOp", 0))
          /\ dirty' = TRUE
          /\ faults' = faults + 1
          /\ UNCHANGED state
    /\ UNCHANGED <<existDB, callerDB, acked>>

\* The option sequences a caller may pass.
Options == UNION {[1 .. n -> TTLs] : n \in 0 .. MaxTTLs}

Next ==
    \/ WriteHeader
    \/ \E k \in Keys, v \in Values : WriteAux(k, v)
    \/ \E db \in DBs : WriteDBHeader(db)
    \/ \E t \in ObjTypes, k \in Keys, v \in Values, opts \in Options :
           \E flag \in Encodings[t] : WriteObject(t, flag, k, v, opts)
    \/ \E opts \in Options : WriteObjectRefused(opts)
    \/ WriteEnd

Spec == Init /\ [][Next]_vars

-----------------------------------------------------------------------------
(***************************************************************************)
(* Type correctness of the encoder's fields and of the histories.          *)
(***************************************************************************)
AckedCall == [at : Nat, type : DOMAIN Encodings, db : Nat, key : Nat,
              value : Nat, ms : Nat \cup {None}]

TypeOK ==
    /\ state \in States
    /\ existDB \subseteq DBs
    /\ out \in Seq(Token)
    /\ crc \in Seq(Token)
    /\ callerDB \in Nat
    /\ acked \in Seq(AckedCall)
    /\ dirty \in BOOLEAN
    /\ faults \in 0 .. MaxFaults

(***************************************************************************)
(* No database is selected twice in a file, however the header calls fail  *)
(* or are retried (existDB, "store exist db size to avoid duplicate db").  *)
(***************************************************************************)
DbSelectedOnce ==
    \A i, j \in 1 .. Len(out) :
        (out[i].kind = "dbNum" /\ out[j] = out[i]) => i = j

(***************************************************************************)
(* "Do not allow empty db" (stateChanges): what follows a complete         *)
(* database header is an object or its expiration, or the piece of one     *)
(* that failed; the file never ends or starts another database there.      *)
(***************************************************************************)
NoEmptyDB ==
    \A i \in 1 .. Len(out) - 1 :
        out[i].kind = "ttlCount" => out[i + 1].kind \in {"msOp", "type", "torn"}

(***************************************************************************)
(* A finished file that holds no torn token carries the checksum of        *)
(* everything before it, whichever writes failed and were retried          *)
(* (write, WriteEnd).                                                      *)
(***************************************************************************)
ChecksumValid ==
    (state = "End" /\ \A i \in 1 .. Len(out) : out[i].kind # "torn")
        => /\ out = Append(crc, Tok("crc", 0))
           /\ crc[Len(crc)].kind = "eofOp"

(***************************************************************************)
(* As long as no write failed the file is well formed, whatever the order  *)
(* of calls, refused ones included (stateChanges).                         *)
(***************************************************************************)
GrammarKept == faults = 0 => WellFormed(out)

(***************************************************************************)
(* As long as no call failed half-way, what a reader finds in the file is  *)
(* what the acknowledged calls passed: the same objects in the same order, *)
(* each in the database the caller selected and with the expiration of its *)
(* own call, no other.                                                     *)
(***************************************************************************)
DbAsSelected ==
    \A n \in 1 .. Len(acked) :
        acked[n].db = InForce(out, 0, acked[n].at, {"dbNum"}, 0)

\* "TTLOption specific expiration timestamp for object" (encoder.go:272).  On
\* its own this fails: an object call refused or failed behind its expiration
\* leaves it in the file, and the next object has it.
ExpirationAsPassed ==
    \A n \in 1 .. Len(acked) :
        acked[n].ms = InForce(out, ObjectBefore(out, acked[n].at), acked[n].at,
                              {"ms"}, None)

ObjectsAsAcked ==
    /\ \A i \in 1 .. Len(out) :
           out[i].kind = "value" => \E n \in 1 .. Len(acked) : acked[n].at = i
    /\ \A n \in 1 .. Len(acked) :
           LET i == acked[n].at
           IN /\ i > 2 /\ i <= Len(out)
              /\ out[i] = Tok("value", acked[n].value)
              /\ out[i - 1] = Tok("key", acked[n].key)
              /\ out[i - 2] \in {Tok("type", f) : f \in Encodings[acked[n].type]}
    /\ \A m, n \in 1 .. Len(acked) : m < n => acked[m].at < acked[n].at

FileAsAcked ==
    ~dirty => DbAsSelected /\ ExpirationAsPassed /\ ObjectsAsAcked
=============================================================================
