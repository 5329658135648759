---------------------------- MODULE JsonPipeline ----------------------------
(***************************************************************************)
(* helper/json.go: ToJsons.  A parser goroutine sends the objects of the   *)
(* RDB file into a bounded channel, `concurrent' workers marshal them into *)
(* a second one, a writer goroutine appends them to the file, and the      *)
(* caller waits for the workers, closes the second channel, waits for the  *)
(* writer and finishes the array.                                          *)
(*                                                                         *)
(* The parser and the writer assign the same variable err, the one the     *)
(* writer tests right after its write: an assignment may come between.     *)
(***************************************************************************)
EXTENDS Integers, Sequences, FiniteSets

CONSTANTS
    Workers,        \* the marshalling goroutines there may be
    MaxObjects,     \* bound: objects in the RDB file
    Unmarshalable,  \* objects jsonEncoder.Marshal refuses (a score of +inf)
    ObjCap,         \* capacity of redisObjectBuffer, 1000
    JsonCap,        \* capacity of jsonStringBuffer, 1000
    MaxFaults       \* bound: failing writes to the output file

ASSUME JsonAssumption ==
    /\ IsFiniteSet(Workers) /\ Workers # {}
    /\ MaxObjects \in Nat
    /\ Unmarshalable \subseteq Nat
    /\ ObjCap \in Nat \ {0} /\ JsonCap \in Nat \ {0}
    /\ MaxFaults \in Nat

Objects == 1 .. MaxObjects

NoObject == 0

VARIABLES
    team,       \* the workers started: `concurrent' of them
    total,      \* objects Parse delivers
    parseErr,   \* what Parse returns after them: "nil" or "parse"
    sent,       \* objects the parser has sent
    objBuf, objClosed,      \* redisObjectBuffer
    jsonBuf, jsonClosed,    \* jsonStringBuffer
    parser, worker, writer, main,   \* where each goroutine is
    item,       \* the object a worker is about to send
    err,        \* the variable err of ToJsons
    empty,      \* the variable empty of ToJsons
    json,       \* the output file
    lost,       \* history: objects not marshalled or not written
    faults      \* history: how many writes failed

vars == <<team, total, parseErr, sent, objBuf, objClosed, jsonBuf, jsonClosed,
          parser, worker, writer, main, item, err, empty, json, lost, faults>>

(***************************************************************************)
(* Pieces of the output: the brackets, the separator ",\n", a torn write,  *)
(* and the objects, which are positive.                                    *)
(***************************************************************************)
Open == 0
Sep == -1
Close == -2
TornPiece == -3

Init ==
    /\ team \in (SUBSET Workers) \ {{}}
    /\ total \in 0 .. MaxObjects
    /\ parseErr \in {"nil", "parse"}
    /\ sent = 0
    /\ objBuf = << >> /\ objClosed = FALSE
    /\ jsonBuf = << >> /\ jsonClosed = FALSE
    /\ parser = "parse" /\ writer = "range" /\ main = "waitWorkers"
    /\ worker = [w \in Workers |-> IF w \in team THEN "range" ELSE "done"]
    /\ item = [w \in Workers |-> NoObject]
    /\ err = "nil"
    /\ empty = TRUE
    /\ json = <<Open>>
    /\ lost = {}
    /\ faults = 0

options == <<team, total, parseErr>>

(***************************************************************************)
(* The parser goroutine: the callback sends, blocking on a full channel;   *)
(* Parse's result is assigned to err; the channel is closed.               *)
(***************************************************************************)
\* Bugs: no bound on the channel; newest object first.
ParserSend_Unbounded ==
    /\ parser = "parse" /\ sent < total
    /\ sent' = sent + 1
    /\ objBuf' = Append(objBuf, sent + 1)
    /\ UNCHANGED <<options, objClosed, jsonBuf, jsonClosed, parser, worker,
                   writer, main, item, err, empty, json, lost, faults>>
ParserSend_Push ==
    /\ parser = "parse" /\ sent < total /\ Len(objBuf) < ObjCap
    /\ sent' = sent + 1
    /\ objBuf' = <<sent + 1>> \o objBuf
    /\ UNCHANGED <<options, objClosed, jsonBuf, jsonClosed, parser, worker,
                   writer, main, item, err, empty, json, lost, faults>>

ParserSend ==
    /\ parser = "parse"
    /\ sent < total
    /\ Len(objBuf) < ObjCap
    /\ sent' = sent + 1
    /\ objBuf' = Append(objBuf, sent + 1)
    /\ UNCHANGED <<options, objClosed, jsonBuf, jsonClosed, parser, worker,
                   writer, main, item, err, empty, json, lost, faults>>

ParserReturns ==
    /\ parser = "parse"
    /\ sent = total
    /\ err' = parseErr
    /\ parser' = "close"
    /\ UNCHANGED <<options, sent, objBuf, objClosed, jsonBuf, jsonClosed, worker,
                   writer, main, item, empty, json, lost, faults>>

ParserCloses ==
    /\ parser = "close"
    /\ objClosed' = TRUE
    /\ parser' = "done"
    /\ UNCHANGED <<options, sent, objBuf, jsonBuf, jsonClosed, worker, writer,
                   main, item, err, empty, json, lost, faults>>

(***************************************************************************)
(* A worker: take an object and marshal it, giving up an object that does  *)
(* not marshal; send the text; leave when the channel is closed and empty. *)
(***************************************************************************)
WorkerTakes(w) ==
    /\ worker[w] = "range"
    /\ objBuf # << >>
    /\ objBuf' = Tail(objBuf)
    /\ IF Head(objBuf) \in Unmarshalable
       THEN lost' = lost \cup {Head(objBuf)} /\ UNCHANGED <<worker, item>>
       ELSE /\ item' = [item EXCEPT ![w] = Head(objBuf)]
            /\ worker' = [worker EXCEPT ![w] = "send"]
            /\ UNCHANGED lost
    /\ UNCHANGED <<options, sent, objClosed, jsonBuf, jsonClosed, parser, writer,
                   main, err, empty, json, faults>>

\* Bug: a send that does not wait for room.
WorkerSends_Drop(w) ==
    /\ worker[w] = "send"
    /\ jsonBuf' = IF Len(jsonBuf) < JsonCap THEN Append(jsonBuf, item[w]) ELSE jsonBuf
    /\ item' = [item EXCEPT ![w] = NoObject]
    /\ worker' = [worker EXCEPT ![w] = "range"]
    /\ UNCHANGED <<options, sent, objBuf, objClosed, jsonClosed, parser, writer,
                   main, err, empty, json, lost, faults>>

WorkerSends(w) ==
    /\ worker[w] = "send"
    /\ Len(jsonBuf) < JsonCap
    /\ jsonBuf' = Append(jsonBuf, item[w])
    /\ item' = [item EXCEPT ![w] = NoObject]
    /\ worker' = [worker EXCEPT ![w] = "range"]
    /\ UNCHANGED <<options, sent, objBuf, objClosed, jsonClosed, parser, writer,
                   main, err, empty, json, lost, faults>>

\* Bug: a closed channel is left with objects in it.
WorkerLeaves_OnClose(w) ==
    /\ worker[w] = "range"
    /\ objClosed
    /\ worker' = [worker EXCEPT ![w] = "done"]
    /\ UNCHANGED <<options, sent, objBuf, objClosed, jsonBuf, jsonClosed, parser,
                   writer, main, item, err, empty, json, lost, faults>>

WorkerLeaves(w) ==
    /\ worker[w] = "range"
    /\ objBuf = << >> /\ objClosed
    /\ worker' = [worker EXCEPT ![w] = "done"]
    /\ UNCHANGED <<options, sent, objBuf, objClosed, jsonBuf, jsonClosed, parser,
                   writer, main, item, err, empty, json, lost, faults>>

(***************************************************************************)
(* The writer: one Write of the text and its separator, whose result goes  *)
(* to err; then err, as it is by then, decides whether it succeeded.       *)
(***************************************************************************)
WriterWrites ==
    /\ writer = "range"
    /\ jsonBuf # << >>
    /\ jsonBuf' = Tail(jsonBuf)
    /\ writer' = "check"
    /\ \/ /\ json' = json \o <<Head(jsonBuf), Sep>>
          /\ err' = "nil"
          /\ UNCHANGED <<lost, faults>>
       \/ /\ faults < MaxFaults
          /\ \E piece \in {<< >>, <<TornPiece>>} : json' = json \o piece
          /\ err' = "write"
          /\ lost' = lost \cup {Head(jsonBuf)}
          /\ faults' = faults + 1
    /\ UNCHANGED <<options, sent, objBuf, objClosed, jsonClosed, parser, worker,
                   main, item, empty>>

WriterChecks ==
    /\ writer = "check"
    /\ empty' = (empty /\ err # "nil")
    /\ writer' = "range"
    /\ UNCHANGED <<options, sent, objBuf, objClosed, jsonBuf, jsonClosed, parser,
                   worker, main, item, err, json, lost, faults>>

WriterLeaves ==
    /\ writer = "range"
    /\ jsonBuf = << >> /\ jsonClosed
    /\ writer' = "done"
    /\ UNCHANGED <<options, sent, objBuf, objClosed, jsonBuf, jsonClosed, parser,
                   worker, main, item, err, empty, json, lost, faults>>

(***************************************************************************)
(* The caller: wg.Wait, close(jsonStringBuffer), wg2.Wait, then back over  *)
(* the last separator if anything was written, and the closing bracket.    *)
(***************************************************************************)
AllLeft_Any == \E w \in team : worker[w] = "done"   \* bug: waits for one worker
AllLeft == \A w \in team : worker[w] = "done"

MainClosesJson ==
    /\ main = "waitWorkers"
    /\ AllLeft
    /\ jsonClosed' = TRUE
    /\ main' = "waitWriter"
    /\ UNCHANGED <<options, sent, objBuf, objClosed, jsonBuf, parser, worker,
                   writer, item, err, empty, json, lost, faults>>

\* Bug: steps back over "[\n" when nothing was written.
SeekBack_Always == SubSeq(json, 1, Len(json) - 1)

\* Seek(-2, 2): "\n]" goes over the last two bytes, a separator or "[\n", or
\* over the end of a torn piece.
SeekBack == IF ~empty /\ json[Len(json)] \in {Sep, Open}
            THEN SubSeq(json, 1, Len(json) - 1) ELSE json

MainFinishes ==
    /\ main = "waitWriter"
    /\ writer = "done"
    /\ \/ /\ json' = Append(SeekBack, Close)
          /\ err' = "nil"
          /\ main' = "returned"
          /\ UNCHANGED faults
       \/ /\ faults < MaxFaults
          /\ err' = "write"
          /\ main' = "failed"
          /\ faults' = faults + 1
          /\ UNCHANGED json
    /\ UNCHANGED <<options, sent, objBuf, objClosed, jsonBuf, jsonClosed, parser,
                   worker, writer, item, empty, lost>>

Parser == ParserSend \/ ParserReturns \/ ParserCloses
Worker(w) == WorkerTakes(w) \/ WorkerSends(w) \/ WorkerLeaves(w)
Writer == WriterWrites \/ WriterChecks \/ WriterLeaves
Main == MainClosesJson \/ MainFinishes

\* The process goes on, or exits, once ToJsons has returned.
Returned == main \in {"returned", "failed"} /\ UNCHANGED vars

Next == Parser \/ (\E w \in Workers : Worker(w)) \/ Writer \/ Main \/ Returned

\* Go schedules every goroutine that is ready to run.
Fairness ==
    /\ WF_vars(Parser) /\ WF_vars(Writer) /\ WF_vars(Main)
    /\ \A w \in Workers : WF_vars(Worker(w))

Spec == Init /\ [][Next]_vars /\ Fairness

-----------------------------------------------------------------------------
\* Type correctness: the channels never exceed their capacities.
TypeOK ==
    /\ team \in SUBSET Workers /\ team # {}
    /\ total \in 0 .. MaxObjects /\ sent \in 0 .. total
    /\ parseErr \in {"nil", "parse"}
    /\ objBuf \in Seq(Objects) /\ Len(objBuf) <= ObjCap
    /\ jsonBuf \in Seq(Objects) /\ Len(jsonBuf) <= JsonCap
    /\ objClosed \in BOOLEAN /\ jsonClosed \in BOOLEAN
    /\ parser \in {"parse", "close", "done"}
    /\ worker \in [Workers -> {"range", "send", "done"}]
    /\ writer \in {"range", "check", "done"}
    /\ main \in {"waitWorkers", "waitWriter", "returned", "failed"}
    /\ item \in [Workers -> Objects \cup {NoObject}]
    /\ err \in {"nil", "parse", "write"}
    /\ empty \in BOOLEAN
    /\ json \in Seq(Objects \cup {Open, Sep, Close, TornPiece})
    /\ lost \subseteq Objects
    /\ faults \in 0 .. MaxFaults

(***************************************************************************)
(* The shutdown order: no worker can send on jsonStringBuffer once it is   *)
(* closed, and when ToJsons returns every goroutine has left and both      *)
(* channels are drained (close after wg.Wait, Seek after wg2.Wait).        *)
(***************************************************************************)
ShutdownOrder ==
    /\ jsonClosed => \A w \in Workers : worker[w] = "done"
    /\ main \in {"returned", "failed"} =>
           /\ parser = "done" /\ writer = "done"
           /\ objBuf = << >> /\ jsonBuf = << >>

(***************************************************************************)
(* Where the objects are: every object the parser has sent is in exactly   *)
(* one place on its way to the file.                                       *)
(***************************************************************************)
Elements(s) == {s[i] : i \in 1 .. Len(s)}

InTransit == Elements(objBuf) \cup Elements(jsonBuf)
                 \cup ({item[w] : w \in Workers} \ {NoObject})

NothingLost == 1 .. sent = InTransit \cup (Elements(json) \cap Objects) \cup lost

\* The places of the file for objects, those that hold one, what is still to
\* come.
Places == 2 .. 2 * MaxObjects
Written == {i \in 1 .. Len(json) : json[i] \in Objects}
ToDo == (1 .. total) \ (Elements(json) \cup lost)
Finished == main \in {"returned", "failed"}

Conv == INSTANCE Conversion WITH
            AllObjects <- Objects, Places <- Places,
            todo <- ToDo,
            array <- [i \in Written |-> json[i]],
            finished <- Finished

(***************************************************************************)
(* The pipeline implements Conversion: every object is written once or     *)
(* given up for a reason (marshalling, a failed write), none twice, the    *)
(* array is finished after all of them, and it is finished eventually: no  *)
(* goroutine waits on another for ever, whatever the capacities.           *)
(***************************************************************************)
ImplementsConversion == Conv!Spec

\* With WithConcurrent(1) the array keeps the order of the file.
OrderKept ==
    Cardinality(team) = 1 =>
        \A i, j \in Written : i < j => json[i] < json[j]

(***************************************************************************)
(* "convert to json file" (json.go:25): an array in brackets, a separator  *)
(* between two objects and nowhere else.                                   *)
(***************************************************************************)
IsJsonArray(s) ==
    /\ Len(s) > 1 /\ s[1] = Open /\ s[Len(s)] = Close
    /\ \A i \in 2 .. Len(s) - 1 :
           s[i] \in IF i % 2 = 0 THEN Objects ELSE {Sep}
    /\ Len(s) > 2 => s[Len(s) - 1] # Sep

\* When Parse succeeds and every write does, the file is such an array.
WellFormedJson ==
    (main = "returned" /\ faults = 0 /\ parseErr = "nil") => IsJsonArray(json)

(***************************************************************************)
(* The same when only Parse fails (an RDB file cut after some objects, say)*)
(* and ToJsons returns nil.  False of the code: the parser's assignment of *)
(* err between the write of the only object and the writer's test of err   *)
(* leaves empty TRUE and the separator in the file.                        *)
(***************************************************************************)
WellFormedOnParseError ==
    (main = "returned" /\ faults = 0) => IsJsonArray(json)
=============================================================================
