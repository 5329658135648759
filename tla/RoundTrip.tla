----------------------------- MODULE RoundTrip -----------------------------
(***************************************************************************)
(* The encoder and the decoder together (core/encoder.go and               *)
(* core/decoder.go over one file): a program saves objects with an         *)
(* Encoder and gives up at the first error; the process may crash at any   *)
(* point, leaving any beginning of what it wrote; then a Decoder parses    *)
(* the file that is left.                                                  *)
(***************************************************************************)
EXTENDS Integers, Sequences

CONSTANTS
    DBs, Keys, ObjTypes, Values, TTLs, Valkey, MaxTTLs, MaxFaults, MaxLen,
                                                                   \* Encoder
    Int64, MsPerSec, NsPerMs, ReadAs                               \* Decoder

VARIABLES
    state, existDB, out, crc, callerDB, acked, dirty, faults,          \* Encoder
    file, withSpecialOpCode, pos, dbIndex, expireMs, lru, lfu,      \* Decoder
    delivered, stopped, status,
    phase       \* "save", then "load"

encVars == <<state, existDB, out, crc, callerDB, acked, dirty, faults>>
decVars == <<file, withSpecialOpCode, pos, dbIndex, expireMs, lru, lfu,
             delivered, stopped, status>>
vars == <<encVars, decVars, phase>>

Enc == INSTANCE Encoder
Dec == INSTANCE Decoder WITH Files <- {<< >>}

(***************************************************************************)
(* The callers' values: those of Encoder, databases that fit an int, and   *)
(* expirations that are times (positive) and fit an int64 of nanoseconds,  *)
(* as the decoder returns them (a time.Time made with time.Unix).          *)
(***************************************************************************)
ASSUME RoundTripAssumption ==
    /\ ObjTypes \subseteq DOMAIN Enc!Encodings
    /\ DBs \subseteq Nat /\ Keys \subseteq Nat /\ Values \subseteq Nat
    /\ TTLs \subseteq Nat /\ Valkey \in BOOLEAN
    /\ MaxTTLs \in Nat /\ MaxFaults \in Nat /\ MaxLen \in Nat
    /\ Int64 \in Nat \ {0} /\ MsPerSec \in Nat /\ NsPerMs \in Nat \ {0}
    /\ \A t \in TTLs : t > 0 /\ 2 * t * NsPerMs < Int64
    /\ \A db \in DBs : 2 * db < Int64
    /\ \A p \in DOMAIN ReadAs : ReadAs[p] # {} /\ ReadAs[p] \subseteq Nat \cup {-1}

Init == Enc!Init /\ Dec!Init /\ withSpecialOpCode = FALSE /\ phase = "save"

\* The program stops calling the encoder after the first call that failed
\* half-way.
SaveStep ==
    /\ phase = "save" /\ ~dirty
    /\ Enc!Next
    /\ UNCHANGED <<decVars, phase>>

\* The file is closed, or the process dies with a part of it written.
Close ==
    /\ phase = "save"
    /\ phase' = "load"
    /\ \E n \in 0 .. Len(out) : file' = SubSeq(out, 1, n)
    /\ UNCHANGED <<encVars, withSpecialOpCode, pos, dbIndex, expireMs, lru, lfu,
                   delivered, stopped, status>>

LoadStep ==
    /\ phase = "load"
    /\ Dec!Next
    /\ UNCHANGED <<encVars, phase>>

Next == SaveStep \/ Close \/ LoadStep

Spec == Init /\ [][Next]_vars

-----------------------------------------------------------------------------
(***************************************************************************)
(* The objects a program saved and got back, as the callers of Encoder and *)
(* Decoder see them.  A decoded expiration is a time in nanoseconds; there *)
(* is none without one.                                                    *)
(***************************************************************************)
Entry(type, db, key, value, exp) ==
    [type |-> type, db |-> db, key |-> key, value |-> value, exp |-> exp]

\* A hash with field expirations is a hash; what it is written as differs.
Kind(t) == IF t = "hashEx" THEN "hash" ELSE t

Saved == [n \in 1 .. Len(acked) |->
             Entry(acked[n].type, acked[n].db, acked[n].key, acked[n].value,
                   IF acked[n].ms = -1 THEN Dec!Nil ELSE <<acked[n].ms * NsPerMs>>)]

Loaded == [n \in 1 .. Len(delivered) |->
              Entry(delivered[n].type, delivered[n].db, delivered[n].key,
                    delivered[n].value, delivered[n].exp)]

AllEntries == [type : ObjTypes, db : DBs, key : Keys, value : Values,
               exp : {Dec!Nil} \cup {<<t * NsPerMs>> : t \in TTLs}]

\* What the object e, written under one of the type bytes `flags', is read as.
Restored(e, flags) ==
    {Entry(Kind(e.type), e.db, e.key, v, e.exp) :
        v \in (UNION {Dec!Outcomes(f, e.value) : f \in flags}) \ {Dec!None}}

Forms == [e \in AllEntries |-> Restored(e, Enc!Encodings[e.type])]

Abstract == INSTANCE Snapshot WITH
                saved <- Saved, loaded <- Loaded, Entries <- AllEntries

(***************************************************************************)
(* Encoding to a file and decoding it implements Snapshot: whatever the    *)
(* order of calls, the write that failed and the place where the file was  *)
(* cut, what is delivered is a beginning of what was acknowledged, every   *)
(* object in its database with its own expiration, and with its own value  *)
(* unless that is one of the few that do not read back.                    *)
(***************************************************************************)
ImplementsSnapshot == Abstract!Spec

(***************************************************************************)
(* A file finished by WriteEnd and read to the end gives everything back:  *)
(* Parse fails on it only at an object whose value a reader refuses, and   *)
(* otherwise delivers all the objects saved, each with the value its bytes *)
(* are read as under the type byte they were written under.                *)
(***************************************************************************)
FinishedFileLoads ==
    (phase = "load" /\ file = out /\ state = "End") =>
        /\ status = "error" => Dec!AtRefusedValue
        /\ status = "ok" /\ ~stopped =>
               /\ Len(Loaded) = Len(Saved)
               /\ \A n \in 1 .. Len(Saved) :
                      Loaded[n] \in Restored(Saved[n], {file[delivered[n].at - 2].val})
=============================================================================
