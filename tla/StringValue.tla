---------------------------- MODULE StringValue ----------------------------
(***************************************************************************)
(* A string that is written piece by piece and read back (string.go).  A   *)
(* write may fail, after nothing or a part of the piece reached the file.  *)
(* writeString takes any error of writeLZFString to mean that the string   *)
(* does not compress, and writes it again, uncompressed.                   *)
(***************************************************************************)
EXTENDS ValueFile

CONSTANTS
    LzfMin,     \* strings longer than this are compressed: 20
    MaxFaults   \* bound: failing writes

\* The strings given to the encoder; one that LZF may look into is spelled out.
ASSUME StringAssumption ==
    /\ LzfMin \in Nat
    /\ \A o \in Objects :
        o.type = "string" =>
            /\ IsText(o.value) /\ o.compress \in BOOLEAN
            /\ o.compress /\ o.value.len > LzfMin /\ ~isEncodableUint32(o.value) =>
                  o.value.val \in Seq(0 .. ByteBase - 1) /\ o.value = Spelled(o.value.val)

IsString == object.type = "string"

\* Turns the pieces over to the writer; what was written stays.
Plan(form, pieces) ==
    /\ reader' = [reader EXCEPT !.form = form, !.pending = pieces]
    /\ phase' = "writing"
    /\ UNCHANGED <<object, file, got>>

(***************************************************************************)
(* writeString: an integer, else LZF if it is on and the string is long    *)
(* enough, else as it is.  Which form LZF finds depends on its hash table. *)
(***************************************************************************)
BeginString ==
    /\ phase = "new" /\ IsString
    /\ \/ /\ isEncodableUint32(object.value)
          /\ Plan("int", writeString(object.value))
       \/ /\ ~isEncodableUint32(object.value)
          /\ object.compress /\ object.value.len > LzfMin
          /\ \E c \in Compressions(object.value.val) :
                 IF c.ok THEN Plan("lzf", writeLZFString(object.value, c.out))
                 ELSE Plan("simple", writeSimpleString(object.value))
       \/ /\ ~isEncodableUint32(object.value)
          /\ ~object.compress \/ object.value.len <= LzfMin
          /\ Plan("simple", writeSimpleString(object.value))

\* One enc.write that succeeds; after the last one WriteStringObject returns nil.
WritePiece ==
    /\ phase = "writing" /\ reader.pending # << >>
    /\ file' = Append(file, reader.pending[1])
    /\ reader' = [reader EXCEPT !.pending = Tail(@)]
    /\ UNCHANGED <<object, phase, got>>

FailPiece ==
    /\ phase = "writing" /\ reader.pending # << >>
    /\ reader.faults < MaxFaults
    /\ \E piece \in {<< >>, <<TornItem>>} :
           /\ file' = file \o piece
           /\ IF reader.form = "lzf"
              THEN /\ reader' = [reader EXCEPT
                                    !.faults = @ + 1, !.form = "simple",
                                    !.pending = writeSimpleString(object.value),
                                    !.torn = file' # << >>]
                   /\ UNCHANGED phase
              ELSE /\ reader' = [reader EXCEPT !.faults = @ + 1]
                   /\ phase' = "failed"
    /\ UNCHANGED <<object, got>>

\* readString on what is in the file.
ReadStringValue ==
    /\ phase = "writing" /\ reader.pending = << >>
    /\ LET r == readString(file)
       IN IF r.is = "str" /\ r.rest = << >>
          THEN /\ got' = <<r.str>> /\ phase' = "done"
               /\ UNCHANGED <<object, file, reader>>
          ELSE End("lost")

StringNext == BeginString \/ WritePiece \/ FailPiece \/ ReadStringValue

-----------------------------------------------------------------------------
(***************************************************************************)
(* A string whose write returned nil reads back as it is, in every form it *)
(* can take (integers of 1, 2 and 4 bytes, all LZF outputs, lengths of     *)
(* every width), unless bytes of a compressed form were left in the file   *)
(* by a failed write that was taken for "does not compress"; and then it   *)
(* never does.                                                             *)
(***************************************************************************)
StringReadBack ==
    IsString =>
        /\ phase = "done" => got = <<object.value>>
        /\ phase \in {"done", "lost"} => (phase = "lost" <=> reader.torn)
=============================================================================
