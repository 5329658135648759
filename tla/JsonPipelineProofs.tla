------------------------- MODULE JsonPipelineProofs -------------------------
(***************************************************************************)
(* Proofs about JsonPipeline: the channels keep their types and bounds,    *)
(* the goroutines leave in order, every object is at one place, and the    *)
(* pipeline implements Conversion, for any number of workers and objects,  *)
(* any capacities and any number of failing writes.                        *)
(***************************************************************************)
EXTENDS JsonPipeline, FiniteSetTheorems, SequenceTheorems, TLAPS

Piece == Objects \cup {Open, Sep, Close, TornPiece}

LEMMA Pieces ==
    /\ Objects \subseteq Nat /\ 0 \notin Objects
    /\ Open \in Piece /\ Sep \in Piece /\ Close \in Piece /\ TornPiece \in Piece
    /\ Open \notin Objects /\ Sep \notin Objects
    /\ Close \notin Objects /\ TornPiece \notin Objects
BY JsonAssumption DEF JsonAssumption, Objects, Piece, Open, Sep, Close, TornPiece

(***************************************************************************)
(* What the finishing touch writes: the last piece stays, or goes if it is *)
(* not an object, and the bracket follows.                                 *)
(***************************************************************************)
LEMMA SeekBackShape ==
    ASSUME json \in Seq(Piece), json # << >>
    PROVE  /\ SeekBack \in Seq(Piece)
           /\ Len(SeekBack) \in {Len(json), Len(json) - 1}
           /\ \A i \in 1 .. Len(SeekBack) : SeekBack[i] = json[i]
           /\ Len(SeekBack) # Len(json) => json[Len(json)] \notin Objects
<1>1. Len(json) \in Nat /\ Len(json) > 0
  OBVIOUS
<1>2. CASE ~empty /\ json[Len(json)] \in {Sep, Open}
  <2> DEFINE s == SubSeq(json, 1, Len(json) - 1)
  <2>1. SeekBack = s
    BY <1>2 DEF SeekBack
  <2>2. s \in Seq(Piece) /\ Len(s) = Len(json) - 1
    BY <1>1, SubSeqProperties
  <2>3. \A i \in 1 .. Len(s) : s[i] = json[i]
    BY <1>1, <2>2
  <2> HIDE DEF s
  <2> QED
    BY <1>2, <2>1, <2>2, <2>3, Pieces
<1>3. CASE ~(~empty /\ json[Len(json)] \in {Sep, Open})
  <2>1. SeekBack = json
    BY <1>3 DEF SeekBack
  <2> QED
    BY <2>1
<1> QED
  BY <1>2, <1>3

LEMMA Longer ==
    ASSUME NEW s \in Seq(Piece), NEW o \in Objects, NEW p \in Piece
    PROVE  /\ s \o <<o, Sep>> \in Seq(Piece)
           /\ Len(s \o <<o, Sep>>) = Len(s) + 2
           /\ \A i \in 1 .. Len(s) + 2 : (s \o <<o, Sep>>)[i] =
                  IF i <= Len(s) THEN s[i] ELSE IF i = Len(s) + 1 THEN o ELSE Sep
           /\ s \o <<p>> \in Seq(Piece)
           /\ Len(s \o <<p>>) = Len(s) + 1
           /\ \A i \in 1 .. Len(s) + 1 : (s \o <<p>>)[i] =
                  IF i <= Len(s) THEN s[i] ELSE p
           /\ Append(s, p) = s \o <<p>>
           /\ s \o << >> = s
<1>1. <<o, Sep>> \in Seq(Piece) /\ Len(<<o, Sep>>) = 2
  BY Pieces DEF Piece
<1>2. <<p>> \in Seq(Piece) /\ Len(<<p>>) = 1
  OBVIOUS
<1>3. Len(s) \in Nat
  OBVIOUS
<1>4. /\ s \o <<o, Sep>> \in Seq(Piece)
      /\ Len(s \o <<o, Sep>>) = Len(s) + 2
      /\ \A i \in 1 .. Len(s) + 2 : (s \o <<o, Sep>>)[i] =
             IF i <= Len(s) THEN s[i] ELSE <<o, Sep>>[i - Len(s)]
  BY <1>1, ConcatProperties
<1>5. /\ s \o <<p>> \in Seq(Piece)
      /\ Len(s \o <<p>>) = Len(s) + 1
      /\ \A i \in 1 .. Len(s) + 1 : (s \o <<p>>)[i] =
             IF i <= Len(s) THEN s[i] ELSE <<p>>[i - Len(s)]
  BY <1>2, ConcatProperties
<1>6. \A i \in 1 .. Len(s) + 2 : i <= Len(s) \/ i = Len(s) + 1 \/ i = Len(s) + 2
  BY <1>3
<1>7. \A i \in 1 .. Len(s) + 2 : (s \o <<o, Sep>>)[i] =
          IF i <= Len(s) THEN s[i] ELSE IF i = Len(s) + 1 THEN o ELSE Sep
  BY <1>3, <1>4, <1>6
<1>8. \A i \in 1 .. Len(s) + 1 : (s \o <<p>>)[i] = IF i <= Len(s) THEN s[i] ELSE p
  BY <1>3, <1>5
<1>9. Append(s, p) = s \o <<p>> /\ s \o << >> = s
  BY AppendIsConcat, ConcatEmptySeq
<1> QED
  BY <1>4, <1>5, <1>7, <1>8, <1>9

(***************************************************************************)
(* TypeOK, with what it rests on: a worker that is about to send, and no   *)
(* other, holds an object, and the output file is never empty.             *)
(***************************************************************************)
Holding == \A w \in Workers : item[w] \in Objects <=> worker[w] = "send"

TypeInv == TypeOK /\ Holding /\ json # << >>

LEMMA InitType == Init => TypeInv
<1> SUFFICES ASSUME Init PROVE TypeInv
  OBVIOUS
<1>1. json \in Seq(Piece) /\ json # << >>
  BY Pieces DEF Init
<1>2. sent \in 0 .. total /\ faults \in 0 .. MaxFaults
  BY JsonAssumption DEF Init, JsonAssumption
<1>3. /\ objBuf \in Seq(Objects) /\ Len(objBuf) <= ObjCap
      /\ jsonBuf \in Seq(Objects) /\ Len(jsonBuf) <= JsonCap
  BY JsonAssumption DEF Init, JsonAssumption
<1>4. worker \in [Workers -> {"range", "send", "done"}]
  BY DEF Init
<1>5. item \in [Workers -> Objects \cup {NoObject}]
  BY DEF Init
<1>6. team \in SUBSET Workers /\ team # {}
  BY DEF Init
<1>7. total \in 0 .. MaxObjects /\ parseErr \in {"nil", "parse"}
  BY DEF Init
<1>8. /\ parser \in {"parse", "close", "done"} /\ writer \in {"range", "check", "done"}
      /\ main \in {"waitWorkers", "waitWriter", "returned", "failed"}
      /\ err \in {"nil", "parse", "write"}
  BY DEF Init
<1>9. objClosed \in BOOLEAN
  BY Zenon DEF Init
<1>10. jsonClosed \in BOOLEAN
  BY Zenon DEF Init
<1>11. empty \in BOOLEAN
  BY Zenon DEF Init
<1>12. lost \subseteq Objects
  BY DEF Init
<1>13. Holding
  BY Pieces DEF Init, Holding, NoObject
<1> QED
  BY <1>1, <1>2, <1>3, <1>4, <1>5, <1>6, <1>7, <1>8, <1>9, <1>10, <1>11, <1>12, <1>13
  DEF TypeInv, TypeOK, Piece

(***************************************************************************)
(* What the parser sends are objects of the file.                          *)
(***************************************************************************)
LEMMA ParserType == TypeInv /\ Parser => TypeInv'
<1> SUFFICES ASSUME TypeInv, Parser PROVE TypeInv'
  OBVIOUS
<1> USE Pieces DEF TypeInv, TypeOK, Piece, Holding, NoObject, options
<1>1. CASE ParserSend
  <2>1. sent + 1 \in Objects /\ sent' \in 0 .. total
    BY <1>1, JsonAssumption DEF ParserSend, Objects, JsonAssumption
  <2>2. /\ objBuf' \in Seq(Objects)
        /\ Len(objBuf') = Len(objBuf) + 1
    BY <1>1, <2>1, AppendProperties DEF ParserSend
  <2>3. Len(objBuf') <= ObjCap
    BY <1>1, <2>2, JsonAssumption DEF ParserSend, JsonAssumption
  <2> QED
    BY <1>1, <2>1, <2>2, <2>3 DEF ParserSend
<1>2. CASE ParserReturns
  BY <1>2 DEF ParserReturns
<1>3. CASE ParserCloses
  BY <1>3 DEF ParserCloses
<1> QED
  BY <1>1, <1>2, <1>3 DEF Parser

LEMMA WorkerType == ASSUME TypeInv, NEW w \in Workers, Worker(w) PROVE TypeInv'
<1> USE Pieces DEF TypeInv, TypeOK, Piece, Holding, NoObject, options
<1>1. CASE WorkerTakes(w)
  <2>1. /\ Head(objBuf) \in Objects /\ objBuf' \in Seq(Objects)
        /\ Len(objBuf') = Len(objBuf) - 1
    BY <1>1, HeadTailProperties DEF WorkerTakes
  <2>2. Len(objBuf') <= ObjCap
    BY <2>1, JsonAssumption DEF JsonAssumption
  <2>3. /\ lost' \subseteq Objects
        /\ worker' \in [Workers -> {"range", "send", "done"}]
        /\ item' \in [Workers -> Objects \cup {NoObject}]
    BY <1>1, <2>1 DEF WorkerTakes
  <2> QED
    BY <1>1, <2>1, <2>2, <2>3 DEF WorkerTakes
<1>2. CASE WorkerSends(w)
  <2>1. item[w] \in Objects
    BY <1>2 DEF WorkerSends
  <2>2. /\ jsonBuf' \in Seq(Objects)
        /\ Len(jsonBuf') = Len(jsonBuf) + 1
    BY <1>2, <2>1, AppendProperties DEF WorkerSends
  <2>3. Len(jsonBuf') <= JsonCap
    BY <1>2, <2>2, JsonAssumption DEF WorkerSends, JsonAssumption
  <2>4. /\ worker' \in [Workers -> {"range", "send", "done"}]
        /\ item' \in [Workers -> Objects \cup {NoObject}]
        /\ Holding'
    BY <1>2 DEF WorkerSends
  <2> QED
    BY <1>2, <2>2, <2>3, <2>4 DEF WorkerSends
<1>3. CASE WorkerLeaves(w)
  BY <1>3 DEF WorkerLeaves
<1> QED
  BY <1>1, <1>2, <1>3 DEF Worker

LEMMA WriterType == TypeInv /\ Writer => TypeInv'
<1> SUFFICES ASSUME TypeInv, Writer PROVE TypeInv'
  OBVIOUS
<1> USE Pieces DEF TypeInv, TypeOK, Piece, Holding, NoObject, options
<1>1. CASE WriterWrites
  <2>1. /\ Head(jsonBuf) \in Objects /\ jsonBuf' \in Seq(Objects)
        /\ Len(jsonBuf') = Len(jsonBuf) - 1
    BY <1>1, HeadTailProperties DEF WriterWrites
  <2>2. Len(jsonBuf') <= JsonCap
    BY <2>1, JsonAssumption DEF JsonAssumption
  <2>3. faults' \in 0 .. MaxFaults
    BY <1>1, JsonAssumption DEF WriterWrites, JsonAssumption
  <2>4. err' \in {"nil", "parse", "write"} /\ lost' \subseteq Objects
    BY <1>1, <2>1 DEF WriterWrites
  <2>5. json \in Seq(Piece) /\ Len(json) > 0
    OBVIOUS
  <2>6. \/ json' = json \o <<Head(jsonBuf), Sep>>
        \/ json' = json \o << >>
        \/ json' = json \o <<TornPiece>>
    BY <1>1 DEF WriterWrites
  <2>7. json' \in Seq(Piece) /\ Len(json') >= Len(json)
    <3> DEFINE o == Head(jsonBuf)
    <3>1. Len(json) \in Nat /\ o \in Objects /\ TornPiece \in Piece
      BY <2>1, <2>5
    <3>2. /\ json \o <<o, Sep>> \in Seq(Piece)
          /\ Len(json \o <<o, Sep>>) = Len(json) + 2
          /\ json \o <<TornPiece>> \in Seq(Piece)
          /\ Len(json \o <<TornPiece>>) = Len(json) + 1
          /\ json \o << >> = json
      BY ONLY <2>5, <3>1, Longer
    <3>3. \/ json' = json \o <<o, Sep>>
          \/ json' = json
          \/ json' = json \o <<TornPiece>>
      BY ONLY <2>6, <3>2
    <3> HIDE DEF o
    <3> QED
      <4>1. CASE json' = json \o <<o, Sep>>
        BY ONLY <3>1, <3>2, <4>1
      <4>2. CASE json' = json
        BY ONLY <2>5, <3>1, <4>2
      <4>3. CASE json' = json \o <<TornPiece>>
        BY ONLY <3>1, <3>2, <4>3
      <4> QED
        BY ONLY <3>3, <4>1, <4>2, <4>3
  <2>8. json' # << >>
    BY ONLY <2>5, <2>7
  <2> QED
    BY <1>1, <2>1, <2>2, <2>3, <2>4, <2>7, <2>8 DEF WriterWrites
<1>2. CASE WriterChecks
  <2>1. empty' \in BOOLEAN
    BY <1>2 DEF WriterChecks
  <2> QED
    BY <1>2, <2>1 DEF WriterChecks
<1>3. CASE WriterLeaves
  BY <1>3 DEF WriterLeaves
<1> QED
  BY <1>1, <1>2, <1>3 DEF Writer

LEMMA MainType == TypeInv /\ Main => TypeInv'
<1> SUFFICES ASSUME TypeInv, Main PROVE TypeInv'
  OBVIOUS
<1> USE Pieces DEF TypeInv, TypeOK, Piece, Holding, NoObject, options
<1>1. CASE MainClosesJson
  BY <1>1 DEF MainClosesJson
<1>2. CASE MainFinishes
  <2>1. SeekBack \in Seq(Piece)
    BY SeekBackShape
  <2>2. Append(SeekBack, Close) \in Seq(Piece) /\ Append(SeekBack, Close) # << >>
    BY ONLY <2>1, AppendProperties, Pieces
  <2>3. json' \in Seq(Piece) /\ json' # << >>
    BY <1>2, <2>2 DEF MainFinishes
  <2>4. faults' \in 0 .. MaxFaults
    BY <1>2, JsonAssumption DEF MainFinishes, JsonAssumption
  <2> QED
    BY <1>2, <2>3, <2>4 DEF MainFinishes
<1> QED
  BY <1>1, <1>2 DEF Main

LEMMA StepType == TypeInv /\ [Next]_vars => TypeInv'
<1> SUFFICES ASSUME TypeInv, [Next]_vars PROVE TypeInv'
  OBVIOUS
<1>1. CASE UNCHANGED vars
  BY <1>1 DEF vars, TypeInv, TypeOK, Holding
<1>2. CASE Next
  BY <1>1, <1>2, ParserType, WorkerType, WriterType, MainType DEF Next, Returned
<1> QED
  BY <1>1, <1>2

\* The channels stay within their capacities and every variable in its type,
\* whatever the workers, the capacities and the failing writes (ToJsons).
THEOREM TypeCorrect == Spec => []TypeOK
<1>1. Spec => []TypeInv
  BY InitType, StepType, PTL DEF Spec
<1> QED
  BY <1>1, PTL DEF TypeInv

-----------------------------------------------------------------------------
(***************************************************************************)
(* Who has left when.  A worker that has left has seen objBuf closed and   *)
(* empty, and nothing is sent to it any more; the writer has seen jsonBuf  *)
(* so, and the workers have all left by then.                              *)
(***************************************************************************)
WorkersLeft == main # "waitWorkers" => \A w \in Workers : worker[w] = "done"
WriterLeft == writer = "done" => main # "waitWorkers" /\ jsonBuf = << >>
ParserLeft == \A w \in team : worker[w] = "done" => parser = "done" /\ objBuf = << >>
NotStarted == \A w \in Workers \ team : worker[w] = "done"
Closing ==
    /\ jsonClosed => main # "waitWorkers"
    /\ objClosed => parser = "done"
    /\ main \in {"returned", "failed"} => writer = "done"
    /\ parser # "parse" => sent = total

Leaving == WorkersLeft /\ WriterLeft /\ ParserLeft /\ NotStarted /\ Closing

LEMMA InitLeaving == Init => Leaving
BY DEF Init, Leaving, WorkersLeft, WriterLeft, ParserLeft, NotStarted, Closing

LEMMA ParserLeaving == TypeInv /\ Leaving /\ Parser => Leaving'
<1> SUFFICES ASSUME TypeInv, Leaving, Parser PROVE Leaving'
  OBVIOUS
<1> USE DEF Leaving, WorkersLeft, WriterLeft, ParserLeft, NotStarted, Closing, options
<1>1. CASE ParserSend
  BY <1>1 DEF ParserSend
<1>2. CASE ParserReturns
  BY <1>2 DEF ParserReturns
<1>3. CASE ParserCloses
  BY <1>3 DEF ParserCloses
<1> QED
  BY <1>1, <1>2, <1>3 DEF Parser

LEMMA WorkerLeaving ==
    ASSUME TypeInv, Leaving, NEW w \in Workers, Worker(w) PROVE Leaving'
<1> USE DEF Leaving, WorkersLeft, WriterLeft, ParserLeft, NotStarted, Closing, options
<1>0. worker \in [Workers -> {"range", "send", "done"}]
  BY DEF TypeInv, TypeOK
<1>1. CASE WorkerTakes(w)
  <2>1. objBuf # << >> /\ worker[w] = "range"
    BY <1>1 DEF WorkerTakes
  <2>2. \A v \in team : worker[v] # "done"
    BY <2>1
  <2>3. \A v \in Workers : worker'[v] = "done" => worker[v] = "done"
    BY <1>0, <1>1 DEF WorkerTakes
  <2>4. \A v \in Workers \ {w} : worker'[v] = worker[v]
    BY <1>0, <1>1 DEF WorkerTakes
  <2> QED
    BY <1>1, <2>1, <2>2, <2>3, <2>4 DEF WorkerTakes, TypeInv, TypeOK
<1>2. CASE WorkerSends(w)
  <2>1. /\ worker[w] = "send" /\ main = "waitWorkers" /\ writer # "done"
        /\ w \in team
    BY <1>2 DEF WorkerSends
  <2>2. \A v \in Workers : worker'[v] = "done" => worker[v] = "done"
    BY <1>0, <1>2 DEF WorkerSends
  <2>4. \A v \in Workers \ {w} : worker'[v] = worker[v]
    BY <1>0, <1>2 DEF WorkerSends
  <2> QED
    BY <1>2, <2>1, <2>2, <2>4 DEF WorkerSends, TypeInv, TypeOK
<1>3. CASE WorkerLeaves(w)
  <2>1. worker[w] = "range" /\ objBuf = << >> /\ parser = "done"
    BY <1>3 DEF WorkerLeaves
  <2>2. worker' = [worker EXCEPT ![w] = "done"]
    BY <1>3 DEF WorkerLeaves
  <2> QED
    BY <1>0, <1>3, <2>1, <2>2 DEF WorkerLeaves
<1> QED
  BY <1>1, <1>2, <1>3 DEF Worker

LEMMA WriterLeaving == TypeInv /\ Leaving /\ Writer => Leaving'
<1> SUFFICES ASSUME TypeInv, Leaving, Writer PROVE Leaving'
  OBVIOUS
<1> USE DEF Leaving, WorkersLeft, WriterLeft, ParserLeft, NotStarted, Closing, options
<1>1. CASE WriterWrites
  BY <1>1 DEF WriterWrites
<1>2. CASE WriterChecks
  BY <1>2 DEF WriterChecks
<1>3. CASE WriterLeaves
  BY <1>3 DEF WriterLeaves
<1> QED
  BY <1>1, <1>2, <1>3 DEF Writer

LEMMA MainLeaving == TypeInv /\ Leaving /\ Main => Leaving'
<1> SUFFICES ASSUME TypeInv, Leaving, Main PROVE Leaving'
  OBVIOUS
<1> USE DEF Leaving, WorkersLeft, WriterLeft, ParserLeft, NotStarted, Closing, options
<1>1. CASE MainClosesJson
  <2>1. \A w \in Workers : worker[w] = "done"
    BY <1>1 DEF MainClosesJson, AllLeft
  <2> QED
    BY <1>1, <2>1 DEF MainClosesJson
<1>2. CASE MainFinishes
  BY <1>2 DEF MainFinishes
<1> QED
  BY <1>1, <1>2 DEF Main

LEMMA StepLeaving == TypeInv /\ Leaving /\ [Next]_vars => Leaving'
<1> SUFFICES ASSUME TypeInv, Leaving, [Next]_vars PROVE Leaving'
  OBVIOUS
<1>1. CASE UNCHANGED vars
  BY <1>1 DEF vars, Leaving, WorkersLeft, WriterLeft, ParserLeft, NotStarted, Closing
<1>2. CASE Next
  BY <1>1, <1>2, ParserLeaving, WorkerLeaving, WriterLeaving, MainLeaving
  DEF Next, Returned
<1> QED
  BY <1>1, <1>2

LEMMA LeavingShuts == TypeInv /\ Leaving => ShutdownOrder
<1> SUFFICES ASSUME TypeInv, Leaving PROVE ShutdownOrder
  OBVIOUS
<1> USE DEF Leaving, WorkersLeft, WriterLeft, ParserLeft, Closing
<1>1. jsonClosed => \A w \in Workers : worker[w] = "done"
  OBVIOUS
<1>2. ASSUME main \in {"returned", "failed"}
      PROVE  parser = "done" /\ writer = "done" /\ objBuf = << >> /\ jsonBuf = << >>
  <2>1. PICK w \in team : w \in Workers
    BY DEF TypeInv, TypeOK
  <2> QED
    BY <1>2, <2>1
<1> QED
  BY <1>1, <1>2 DEF ShutdownOrder

\* jsonStringBuffer is closed after the last worker has left, and ToJsons
\* returns after every goroutine, with both channels drained (wg, wg2).
THEOREM ClosedAfterLastSender == Spec => []ShutdownOrder
<1>1. Init => TypeInv /\ Leaving
  BY InitType, InitLeaving
<1>2. TypeInv /\ Leaving /\ [Next]_vars => (TypeInv /\ Leaving)'
  BY StepType, StepLeaving
<1> QED
  BY <1>1, <1>2, LeavingShuts, PTL DEF Spec

-----------------------------------------------------------------------------
(***************************************************************************)
(* The elements of a channel, and a channel that has none of them twice.   *)
(***************************************************************************)
Distinct(s) == \A i, j \in 1 .. Len(s) : s[i] = s[j] => i = j

LEMMA ElementsOfAppend ==
    ASSUME NEW S, NEW s \in Seq(S), NEW e \in S
    PROVE  /\ Elements(Append(s, e)) = Elements(s) \cup {e}
           /\ (Distinct(s) /\ e \notin Elements(s)) => Distinct(Append(s, e))
<1> DEFINE t == Append(s, e)
<1>1. /\ Len(s) \in Nat /\ Len(t) = Len(s) + 1
      /\ \A i \in 1 .. Len(s) : t[i] = s[i]
      /\ t[Len(s) + 1] = e
  BY AppendProperties
<1>2. 1 .. Len(t) = (1 .. Len(s)) \cup {Len(s) + 1}
  BY <1>1
<1> HIDE DEF t
<1>3. Elements(t) = Elements(s) \cup {e}
  BY <1>1, <1>2 DEF Elements
<1>4. ASSUME Distinct(s), e \notin Elements(s) PROVE Distinct(t)
  <2>1. \A i \in 1 .. Len(s) : s[i] # e
    BY <1>4 DEF Elements
  <2> QED
    BY <1>1, <1>2, <1>4, <2>1 DEF Distinct
<1> QED
  BY <1>3, <1>4 DEF t

LEMMA ElementsOfTail ==
    ASSUME NEW S, NEW s \in Seq(S), s # << >>
    PROVE  /\ Elements(s) = Elements(Tail(s)) \cup {Head(s)}
           /\ Distinct(s) => Distinct(Tail(s)) /\ Head(s) \notin Elements(Tail(s))
<1> DEFINE t == Tail(s)
<1>1. /\ Len(s) \in Nat /\ Len(s) > 0 /\ Len(t) = Len(s) - 1
      /\ \A i \in 1 .. Len(t) : t[i] = s[i + 1]
      /\ Head(s) = s[1]
  BY HeadTailProperties
<1> HIDE DEF t
<1>2. \A i \in 1 .. Len(s) : i = 1 \/ (i - 1 \in 1 .. Len(t) /\ s[i] = t[i - 1])
  BY <1>1
<1>3. \A i \in 1 .. Len(t) : i + 1 \in 1 .. Len(s)
  BY <1>1
<1>4. Elements(s) = Elements(t) \cup {Head(s)}
  <2>1. \A e \in Elements(s) : e = Head(s) \/ e \in Elements(t)
    BY <1>1, <1>2 DEF Elements
  <2>2. \A e \in Elements(t) : e \in Elements(s)
    BY <1>1, <1>3 DEF Elements
  <2>3. Head(s) \in Elements(s)
    BY <1>1 DEF Elements
  <2> QED
    BY <2>1, <2>2, <2>3
<1>5. ASSUME Distinct(s) PROVE Distinct(t) /\ Head(s) \notin Elements(t)
  <2>1. \A i, j \in 1 .. Len(t) : t[i] = t[j] => i + 1 = j + 1
    BY <1>1, <1>3, <1>5 DEF Distinct
  <2>2. \A i \in 1 .. Len(t) : t[i] # Head(s)
    BY <1>1, <1>3, <1>5 DEF Distinct
  <2>3. \A i, j \in 1 .. Len(t) : i + 1 = j + 1 => i = j
    BY <1>1
  <2> QED
    BY <2>1, <2>2, <2>3 DEF Distinct, Elements
<1> QED
  BY <1>4, <1>5 DEF t

\* What is written grows by the object alone.
LEMMA ElementsOfFile ==
    ASSUME NEW s \in Seq(Piece), NEW o \in Objects
    PROVE  /\ Elements(s \o <<o, Sep>>) \cap Objects = (Elements(s) \cap Objects) \cup {o}
           /\ Elements(s \o <<TornPiece>>) \cap Objects = Elements(s) \cap Objects
           /\ Elements(Append(s, Close)) \cap Objects = Elements(s) \cap Objects
<1>1. Len(s) \in Nat
  OBVIOUS
<1>2. ASSUME NEW p \in {TornPiece, Close}
      PROVE  Elements(s \o <<p>>) \cap Objects = Elements(s) \cap Objects
  <2> DEFINE t == s \o <<p>>
  <2>1. /\ Len(t) = Len(s) + 1 /\ p \notin Objects
        /\ \A i \in 1 .. Len(s) + 1 : t[i] = IF i <= Len(s) THEN s[i] ELSE p
    BY Longer, Pieces
  <2> HIDE DEF t
  <2>2. Elements(t) = Elements(s) \cup {p}
    <3>1. 1 .. Len(t) = (1 .. Len(s)) \cup {Len(s) + 1}
      BY <1>1, <2>1
    <3>2. t[Len(s) + 1] = p /\ \A i \in 1 .. Len(s) : t[i] = s[i]
      BY <1>1, <2>1
    <3> QED
      BY <3>1, <3>2 DEF Elements
  <2> QED
    BY <2>1, <2>2 DEF t
<1>3. Elements(s \o <<o, Sep>>) \cap Objects = (Elements(s) \cap Objects) \cup {o}
  <2> DEFINE t == s \o <<o, Sep>>
  <2>1. /\ Len(t) = Len(s) + 2
        /\ \A i \in 1 .. Len(s) + 2 : t[i] =
               IF i <= Len(s) THEN s[i] ELSE IF i = Len(s) + 1 THEN o ELSE Sep
    BY Longer, Pieces
  <2> HIDE DEF t
  <2>2. 1 .. Len(t) = (1 .. Len(s)) \cup {Len(s) + 1, Len(s) + 2}
    BY <1>1, <2>1
  <2>3. /\ t[Len(s) + 1] = o /\ t[Len(s) + 2] = Sep
        /\ \A i \in 1 .. Len(s) : t[i] = s[i]
    BY <1>1, <2>1
  <2>4. Elements(t) = Elements(s) \cup {o, Sep}
    BY <2>2, <2>3 DEF Elements
  <2> QED
    BY <2>4, Pieces DEF t
<1>4. Append(s, Close) = s \o <<Close>>
  BY Longer, Pieces
<1> QED
  BY <1>2, <1>3, <1>4

-----------------------------------------------------------------------------
(***************************************************************************)
(* Where an object can be: in the first channel, held by one worker, in    *)
(* the second channel, or done with; never at two of these places, nor     *)
(* twice at one.                                                           *)
(***************************************************************************)
Queued == Elements(objBuf)
Held == {item[w] : w \in Workers} \ {NoObject}
Texts == Elements(jsonBuf)
Done == (Elements(json) \cap Objects) \cup lost

Apart ==
    /\ Queued \cap Held = {} /\ Queued \cap Texts = {} /\ Queued \cap Done = {}
    /\ Held \cap Texts = {} /\ Held \cap Done = {} /\ Texts \cap Done = {}
HeldOnce == \A v, w \in Workers : item[v] = item[w] /\ item[v] \in Objects => v = w

Once ==
    /\ NothingLost /\ Apart /\ HeldOnce
    /\ Distinct(objBuf) /\ Distinct(jsonBuf)

LEMMA NothingLostByPlace ==
    NothingLost <=> 1 .. sent = ((Queued \cup Texts) \cup Held) \cup Done
BY DEF NothingLost, InTransit, Queued, Texts, Held, Done

LEMMA InitOnce == Init => Once
<1> SUFFICES ASSUME Init PROVE Once
  OBVIOUS
<1>1. Queued = {} /\ Texts = {}
  BY DEF Init, Queued, Texts, Elements
<1>2. Held = {}
  BY DEF Init, Held
<1>3. Done = {}
  <2>1. Elements(json) = {Open}
    BY DEF Init, Elements
  <2> QED
    BY <2>1, Pieces DEF Init, Done
<1>4. 1 .. sent = {}
  BY DEF Init
<1>5. HeldOnce
  BY Pieces DEF Init, HeldOnce, NoObject
<1>6. Distinct(objBuf) /\ Distinct(jsonBuf)
  BY DEF Init, Distinct
<1>7. NothingLost
  BY <1>1, <1>2, <1>3, <1>4, NothingLostByPlace
<1> QED
  BY <1>1, <1>2, <1>3, <1>5, <1>6, <1>7 DEF Once, Apart

\* A step that leaves every place as it is.
LEMMA SamePlaces ==
    ASSUME Once, UNCHANGED <<sent, objBuf, jsonBuf, item, lost>>,
           Elements(json)' \cap Objects = Elements(json) \cap Objects
    PROVE  /\ Once'
           /\ UNCHANGED <<Queued, Held, Texts, Done>>
<1>1. UNCHANGED <<Queued, Held, Texts>>
  BY DEF Queued, Held, Texts
<1>2. UNCHANGED Done
  BY DEF Done
<1>3. NothingLost'
  BY <1>1, <1>2, NothingLostByPlace DEF Once, NothingLost, InTransit, Queued, Texts, Held, Done
<1> QED
  BY <1>1, <1>2, <1>3 DEF Once, Apart, HeldOnce, Distinct

LEMMA ParserOnce ==
    ASSUME TypeInv, Once, Parser PROVE Once' /\ UNCHANGED <<Done>>
<1>1. CASE ParserSend
  <2> DEFINE o == sent + 1
  <2>1. /\ o \in Objects /\ sent \in Nat /\ objBuf \in Seq(Objects)
        /\ objBuf' = Append(objBuf, o) /\ sent' = o
    BY <1>1, JsonAssumption DEF ParserSend, TypeInv, TypeOK, Objects, JsonAssumption
  <2>2. 1 .. sent = ((Queued \cup Texts) \cup Held) \cup Done
    BY NothingLostByPlace DEF Once
  <2>3. 1 .. sent' = (1 .. sent) \cup {o} /\ o \notin 1 .. sent
    BY <2>1
  <2>4. UNCHANGED <<Texts, Held, Done>>
    BY <1>1 DEF ParserSend, Texts, Held, Done
  <2>5. Queued' = Queued \cup {o}
    BY <2>1, ElementsOfAppend DEF Queued
  <2>6. Distinct(objBuf') /\ Distinct(jsonBuf')
    BY <1>1, <2>1, <2>2, <2>3, ElementsOfAppend DEF Queued, Once, ParserSend, Distinct
  <2>7. HeldOnce'
    BY <1>1 DEF ParserSend, HeldOnce, Once
  <2> HIDE DEF o
  <2>8. Apart'
    BY <2>2, <2>3, <2>4, <2>5 DEF Once, Apart
  <2>9. 1 .. sent' = ((Queued' \cup Texts') \cup Held') \cup Done'
    BY <2>2, <2>3, <2>4, <2>5
  <2>10. NothingLost'
    BY <2>9 DEF NothingLost, InTransit, Queued, Texts, Held, Done
  <2> QED
    BY <2>4, <2>6, <2>7, <2>8, <2>10 DEF Once
<1>2. CASE ParserReturns
  BY <1>2, SamePlaces DEF ParserReturns
<1>3. CASE ParserCloses
  BY <1>3, SamePlaces DEF ParserCloses
<1> QED
  BY <1>1, <1>2, <1>3 DEF Parser

LEMMA WorkerTakesOnce ==
    ASSUME TypeInv, Once, NEW w \in Workers, WorkerTakes(w)
    PROVE  /\ Once'
           /\ Head(objBuf) \in Objects /\ Head(objBuf) \notin Done
<1> DEFINE o == Head(objBuf)
<1>1. /\ objBuf \in Seq(Objects) /\ objBuf # << >> /\ objBuf' = Tail(objBuf)
      /\ o \in Objects /\ item \in [Workers -> Objects \cup {NoObject}]
  BY HeadTailProperties DEF WorkerTakes, TypeInv, TypeOK
<1>2. Queued = Queued' \cup {o} /\ o \notin Queued' /\ Distinct(objBuf')
  BY <1>1, ElementsOfTail DEF Queued, Once
<1>3. UNCHANGED Texts /\ Distinct(jsonBuf')
  BY DEF WorkerTakes, Texts, Once
<1>4. 1 .. sent = ((Queued \cup Texts) \cup Held) \cup Done /\ sent' = sent
  BY NothingLostByPlace DEF Once, WorkerTakes
<1>5. o \notin Held /\ o \notin Texts /\ o \notin Done /\ NoObject \notin Objects
  BY <1>2, Pieces DEF Once, Apart, NoObject
<1>6. item[w] \notin Objects
  BY DEF TypeInv, Holding, WorkerTakes
<1>7. CASE o \in Unmarshalable
  <2>1. Held' = Held /\ Done' = Done \cup {o}
    BY <1>1, <1>7 DEF WorkerTakes, Held, Done
  <2>2. HeldOnce'
    BY <1>7 DEF WorkerTakes, HeldOnce, Once
  <2> HIDE DEF o
  <2>3. Apart'
    BY <1>2, <1>3, <1>5, <2>1 DEF Once, Apart
  <2>4. 1 .. sent' = ((Queued' \cup Texts') \cup Held') \cup Done'
    BY <1>2, <1>3, <1>4, <2>1
  <2>5. NothingLost'
    BY <2>4 DEF NothingLost, InTransit, Queued, Texts, Held, Done
  <2> QED
    BY <1>1, <1>2, <1>3, <1>5, <2>2, <2>3, <2>5 DEF Once, o
<1>8. CASE o \notin Unmarshalable
  <2>1. item' = [item EXCEPT ![w] = o] /\ Done' = Done
    BY <1>8 DEF WorkerTakes, Done
  <2> HIDE DEF o
  <2>2. /\ item'[w] = o /\ \A v \in Workers \ {w} : item'[v] = item[v]
    BY <1>1, <2>1
  <2>3. Held' = Held \cup {o}
    <3>1. \A v \in Workers : item[v] \in Held <=> item[v] \in Objects
      BY <1>1, <1>5 DEF Held
    <3>2. Held' = {item'[v] : v \in Workers} \ {NoObject}
      BY DEF Held
    <3>3. \A e \in Held : \E v \in Workers \ {w} : e = item[v]
      BY <1>1, <1>6 DEF Held
    <3> QED
      BY <1>1, <1>5, <1>6, <2>2, <3>2, <3>3 DEF Held
  <2>4. HeldOnce'
    <3>1. \A v \in Workers : item[v] # o
      BY <1>1, <1>5 DEF Held
    <3> QED
      BY <2>2, <3>1 DEF HeldOnce, Once
  <2>5. Apart'
    BY <1>2, <1>3, <1>5, <2>1, <2>3 DEF Once, Apart
  <2>6. 1 .. sent' = ((Queued' \cup Texts') \cup Held') \cup Done'
    BY <1>2, <1>3, <1>4, <2>1, <2>3
  <2>7. NothingLost'
    BY <2>6 DEF NothingLost, InTransit, Queued, Texts, Held, Done
  <2> QED
    BY <1>1, <1>2, <1>3, <1>5, <2>4, <2>5, <2>7 DEF Once, o
<1> QED
  BY <1>1, <1>5, <1>7, <1>8

LEMMA WorkerSendsOnce ==
    ASSUME TypeInv, Once, NEW w \in Workers, WorkerSends(w)
    PROVE  Once' /\ UNCHANGED Done
<1> DEFINE o == item[w]
<1>1. /\ jsonBuf \in Seq(Objects) /\ jsonBuf' = Append(jsonBuf, o)
      /\ o \in Objects /\ item \in [Workers -> Objects \cup {NoObject}]
      /\ item' = [item EXCEPT ![w] = NoObject]
  BY DEF WorkerSends, TypeInv, TypeOK, Holding
<1>2. NoObject \notin Objects
  BY Pieces DEF NoObject
<1>3. o \in Held
  BY <1>1, <1>2 DEF Held
<1>4. o \notin Queued /\ o \notin Texts /\ o \notin Done
  BY <1>3 DEF Once, Apart
<1>5. Texts' = Texts \cup {o} /\ Distinct(jsonBuf')
  BY <1>1, <1>4, ElementsOfAppend DEF Texts, Once
<1>6. UNCHANGED <<Queued, Done>> /\ Distinct(objBuf') /\ sent' = sent
  BY DEF WorkerSends, Queued, Done, Once
<1>7. 1 .. sent = ((Queued \cup Texts) \cup Held) \cup Done
  BY NothingLostByPlace DEF Once
<1>8. \A v \in Workers \ {w} : item[v] # o
  BY <1>1 DEF HeldOnce, Once
<1>9. /\ item'[w] = NoObject /\ \A v \in Workers \ {w} : item'[v] = item[v]
      /\ item[w] = o
  BY <1>1
<1> HIDE DEF o
<1>10. Held = Held' \cup {o} /\ o \notin Held'
  <2>1. Held' = {item'[v] : v \in Workers} \ {NoObject}
    BY DEF Held
  <2>2. Held' = {item[v] : v \in Workers \ {w}} \ {NoObject}
    BY <1>9, <2>1
  <2>3. Held = ({item[v] : v \in Workers \ {w}} \ {NoObject}) \cup {o}
    <3>1. {item[v] : v \in Workers} = {item[v] : v \in Workers \ {w}} \cup {o}
      BY <1>9
    <3>2. o # NoObject
      BY <1>1, <1>2
    <3> QED
      BY <3>1, <3>2 DEF Held
  <2>4. o \notin {item[v] : v \in Workers \ {w}}
    BY <1>8
  <2> QED
    BY <2>2, <2>3, <2>4
<1>11. HeldOnce'
  BY <1>2, <1>9 DEF HeldOnce, Once
<1>12. Apart'
  BY <1>4, <1>5, <1>6, <1>10 DEF Once, Apart
<1>13. 1 .. sent' = ((Queued' \cup Texts') \cup Held') \cup Done'
  BY <1>5, <1>6, <1>7, <1>10
<1>14. NothingLost'
  BY <1>13 DEF NothingLost, InTransit, Queued, Texts, Held, Done
<1> QED
  BY <1>5, <1>6, <1>11, <1>12, <1>14 DEF Once

LEMMA WriterWritesOnce ==
    ASSUME TypeInv, Once, WriterWrites
    PROVE  /\ Once' /\ Done' = Done \cup {Head(jsonBuf)}
           /\ Head(jsonBuf) \in Objects /\ Head(jsonBuf) \notin Done
           /\ json \in Seq(Piece)
<1> DEFINE o == Head(jsonBuf)
<1>1. /\ jsonBuf \in Seq(Objects) /\ jsonBuf # << >> /\ jsonBuf' = Tail(jsonBuf)
      /\ o \in Objects /\ json \in Seq(Piece)
  BY HeadTailProperties DEF WriterWrites, TypeInv, TypeOK, Piece
<1>2. Texts = Texts' \cup {o} /\ o \notin Texts' /\ Distinct(jsonBuf')
  BY <1>1, ElementsOfTail DEF Texts, Once
<1>3. UNCHANGED <<Queued, Held>> /\ Distinct(objBuf') /\ HeldOnce' /\ sent' = sent
  BY DEF WriterWrites, Queued, Held, Once, HeldOnce
<1>4. 1 .. sent = ((Queued \cup Texts) \cup Held) \cup Done
  BY NothingLostByPlace DEF Once
<1>5. o \notin Queued /\ o \notin Held /\ o \notin Done
  BY <1>2 DEF Once, Apart
<1>6. Done' = Done \cup {o}
  <2>1. /\ Elements(json \o <<o, Sep>>) \cap Objects = (Elements(json) \cap Objects) \cup {o}
        /\ Elements(json \o <<TornPiece>>) \cap Objects = Elements(json) \cap Objects
        /\ json \o << >> = json
    BY <1>1, ElementsOfFile, ConcatEmptySeq
  <2>2. \/ json' = json \o <<o, Sep>> /\ lost' = lost
        \/ json' \in {json \o << >>, json \o <<TornPiece>>} /\ lost' = lost \cup {o}
    BY DEF WriterWrites
  <2>3. Done' = (Elements(json') \cap Objects) \cup lost'
    BY DEF Done, Elements
  <2> HIDE DEF o
  <2> QED
    BY <2>1, <2>2, <2>3 DEF Done
<1> HIDE DEF o
<1>7. Apart'
  BY <1>2, <1>3, <1>5, <1>6 DEF Once, Apart
<1>8. 1 .. sent' = ((Queued' \cup Texts') \cup Held') \cup Done'
  BY <1>2, <1>3, <1>4, <1>6
<1>9. NothingLost'
  BY <1>8 DEF NothingLost, InTransit, Queued, Texts, Held, Done
<1> QED
  BY <1>1, <1>2, <1>3, <1>5, <1>6, <1>7, <1>9 DEF Once, o

\* The finishing touch takes no object away.
LEMMA FinishKeepsObjects ==
    ASSUME TypeInv, MainFinishes
    PROVE  /\ Elements(json)' \cap Objects = Elements(json) \cap Objects
           /\ Written' = Written
           /\ \A i \in Written : json'[i] = json[i]
<1>1. json \in Seq(Piece) /\ json # << >>
  BY DEF TypeInv, TypeOK, Piece
<1>2. CASE json' = json
  BY <1>2 DEF Elements, Written
<1>3. CASE json' = Append(SeekBack, Close)
  <2> DEFINE s == SeekBack
  <2>1. /\ s \in Seq(Piece) /\ Len(s) \in {Len(json), Len(json) - 1}
        /\ \A i \in 1 .. Len(s) : s[i] = json[i]
        /\ Len(s) # Len(json) => json[Len(json)] \notin Objects
    BY <1>1, SeekBackShape
  <2>2. json' = Append(s, Close)
    BY <1>3
  <2> HIDE DEF s
  <2>3. /\ Len(s) \in Nat /\ Len(json) \in Nat /\ Len(json) > 0
        /\ Len(json') = Len(s) + 1
        /\ \A i \in 1 .. Len(s) : json'[i] = s[i]
        /\ json'[Len(s) + 1] = Close
    BY <1>1, <2>1, <2>2, Pieces, AppendProperties
  <2>4. \A i \in 1 .. Len(json) : json[i] \in Objects => i \in 1 .. Len(s)
    BY <2>1, <2>3
  <2>5. \A i \in 1 .. Len(json') : json'[i] \in Objects => i \in 1 .. Len(s)
    BY <2>3, Pieces
  <2>6. Written = {i \in 1 .. Len(s) : s[i] \in Objects}
    BY <2>1, <2>3, <2>4 DEF Written
  <2>7. Written' = {i \in 1 .. Len(s) : s[i] \in Objects}
    <3>1. Written' = {i \in 1 .. Len(json') : json'[i] \in Objects}
      BY DEF Written
    <3> QED
      BY <2>3, <2>5, <3>1
  <2>8. \A i \in Written : json'[i] = json[i]
    BY <2>1, <2>3, <2>6
  <2>9. Elements(json)' = {json'[i] : i \in 1 .. Len(json')}
    BY DEF Elements
  <2>10. Elements(json) \cap Objects = {json[i] : i \in Written}
    BY DEF Elements, Written
  <2>11. Elements(json)' \cap Objects = {json'[i] : i \in Written'}
    BY <2>9 DEF Written
  <2> QED
    BY <2>6, <2>7, <2>8, <2>10, <2>11
<1> QED
  BY <1>2, <1>3 DEF MainFinishes

LEMMA StepOnce == TypeInv /\ Once /\ [Next]_vars => Once'
<1> SUFFICES ASSUME TypeInv, Once, [Next]_vars PROVE Once'
  OBVIOUS
<1>1. CASE UNCHANGED vars
  <2>1. Elements(json)' \cap Objects = Elements(json) \cap Objects
    BY <1>1 DEF vars, Elements
  <2> QED
    BY <1>1, <2>1, SamePlaces DEF vars
<1>2. CASE Parser
  BY <1>2, ParserOnce
<1>3. ASSUME NEW w \in Workers, Worker(w) PROVE Once'
  <2>1. CASE WorkerLeaves(w)
    <3>1. Elements(json)' \cap Objects = Elements(json) \cap Objects
      BY <2>1 DEF WorkerLeaves, Elements
    <3> QED
      BY <2>1, <3>1, SamePlaces DEF WorkerLeaves
  <2> QED
    BY <1>3, <2>1, WorkerTakesOnce, WorkerSendsOnce DEF Worker
<1>4. CASE Writer
  <2>1. ASSUME WriterChecks \/ WriterLeaves PROVE Once'
    <3>1. /\ Elements(json)' \cap Objects = Elements(json) \cap Objects
          /\ UNCHANGED <<sent, objBuf, jsonBuf, item, lost>>
      BY <2>1 DEF WriterChecks, WriterLeaves, Elements
    <3> QED
      BY <3>1, SamePlaces
  <2> QED
    BY <1>4, <2>1, WriterWritesOnce DEF Writer
<1>5. CASE Main
  <2>1. CASE MainClosesJson
    <3>1. /\ Elements(json)' \cap Objects = Elements(json) \cap Objects
          /\ UNCHANGED <<sent, objBuf, jsonBuf, item, lost>>
      BY <2>1 DEF MainClosesJson, Elements
    <3> QED
      BY <3>1, SamePlaces
  <2>2. CASE MainFinishes
    BY <2>2, FinishKeepsObjects, SamePlaces DEF MainFinishes
  <2> QED
    BY <1>5, <2>1, <2>2 DEF Main
<1> QED
  BY <1>1, <1>2, <1>3, <1>4, <1>5 DEF Next, Returned

\* Every object the parser has sent is in a channel, held by a worker, in the
\* file or given up for a reason (redisObjectBuffer, jsonStringBuffer).
THEOREM EveryObjectSomewhere == Spec => []NothingLost
<1>1. Init => TypeInv /\ Once
  BY InitType, InitOnce
<1>2. TypeInv /\ Once /\ [Next]_vars => (TypeInv /\ Once)'
  BY StepType, StepOnce
<1>3. Once => NothingLost
  BY DEF Once
<1> QED
  BY <1>1, <1>2, <1>3, PTL DEF Spec

-----------------------------------------------------------------------------
(***************************************************************************)
(* The refinement of Conversion.  An object done with takes at most two    *)
(* pieces of the file, itself and its separator, so that there is a place  *)
(* for the next one.                                                       *)
(***************************************************************************)
Room == main \notin {"returned", "failed"} => Len(json) <= 1 + 2 * Cardinality(Done)

LEMMA DoneIsFinite ==
    ASSUME TypeInv
    PROVE  /\ IsFiniteSet(Done) /\ Cardinality(Done) \in Nat
           /\ \A o \in Objects \ Done :
                  /\ Cardinality(Done \cup {o}) = Cardinality(Done) + 1
                  /\ Cardinality(Done) < MaxObjects
<1>1. Done \subseteq Objects
  BY DEF TypeInv, TypeOK, Done
<1>2. IsFiniteSet(Objects) /\ Cardinality(Objects) = MaxObjects
  <2>1. MaxObjects \in Nat
    BY JsonAssumption DEF JsonAssumption
  <2> QED
    BY <2>1, FS_Interval DEF Objects
<1>3. IsFiniteSet(Done)
  BY <1>1, <1>2, FS_Subset
<1>4. Cardinality(Done) \in Nat
  BY <1>3, FS_CardinalityType
<1>5. ASSUME NEW o \in Objects \ Done
      PROVE  /\ Cardinality(Done \cup {o}) = Cardinality(Done) + 1
             /\ Cardinality(Done) < MaxObjects
  <2>1. Cardinality(Done \cup {o}) = Cardinality(Done) + 1
    BY <1>3, <1>5, FS_AddElement
  <2>2. Done \cup {o} \in SUBSET Objects
    BY <1>1
  <2>3. Cardinality(Done \cup {o}) <= MaxObjects
    BY <1>2, <2>2, FS_Subset
  <2> QED
    BY <1>4, <2>1, <2>3, JsonAssumption DEF JsonAssumption
<1> QED
  BY <1>3, <1>4, <1>5

\* The lengths the writer leaves.
LEMMA WrittenLength ==
    ASSUME TypeInv, WriterWrites
    PROVE  Len(json) \in Nat /\ Len(json') \in Nat /\ Len(json') <= Len(json) + 2
<1> DEFINE o == Head(jsonBuf)
<1>1. o \in Objects /\ json \in Seq(Piece) /\ TornPiece \in Piece
  BY HeadTailProperties, Pieces DEF WriterWrites, TypeInv, TypeOK, Piece
<1>2. json' \in {json \o <<o, Sep>>, json \o << >>, json \o <<TornPiece>>}
  BY DEF WriterWrites
<1> HIDE DEF o
<1>3. /\ Len(json \o <<o, Sep>>) = Len(json) + 2
      /\ Len(json \o <<TornPiece>>) = Len(json) + 1
      /\ json \o << >> = json
  BY ONLY <1>1, Longer
<1>4. Len(json) \in Nat
  BY <1>1
<1> QED
  BY ONLY <1>2, <1>3, <1>4

LEMMA InitRoom == Init => Room
<1> SUFFICES ASSUME Init PROVE Room
  OBVIOUS
<1>1. Len(json) = 1
  BY DEF Init
<1>2. Cardinality(Done) \in Nat
  BY InitType, DoneIsFinite
<1> QED
  BY <1>1, <1>2 DEF Room

\* A step that does not write, and one that gives an object up.
LEMMA SameRoom ==
    ASSUME TypeInv, Room, UNCHANGED <<json, main>>,
           Done' = Done \/ \E o \in Objects \ Done : Done' = Done \cup {o}
    PROVE  Room'
<1>1. Cardinality(Done') \in Nat /\ Cardinality(Done) \in Nat
      /\ Cardinality(Done) <= Cardinality(Done')
  BY DoneIsFinite
<1>2. Len(json) \in Nat
  BY DEF TypeInv, TypeOK
<1> QED
  BY <1>1, <1>2 DEF Room

LEMMA WriterRoom ==
    ASSUME TypeInv, Once, Leaving, Room, WriterWrites PROVE Room'
<1> DEFINE o == Head(jsonBuf)
<1>1. Done' = Done \cup {o} /\ o \in Objects \ Done
  BY WriterWritesOnce
<1>2. /\ Cardinality(Done') = Cardinality(Done) + 1
      /\ Cardinality(Done) \in Nat
  BY <1>1, DoneIsFinite
<1>3. main \notin {"returned", "failed"} /\ main' = main
  BY DEF WriterWrites, Leaving, Closing
<1> QED
  BY <1>2, <1>3, WrittenLength DEF Room

\* What Conversion sees of the file.
File == [i \in Written |-> json[i]]

LEMMA ToDoOfDone == TypeInv => ToDo = (1 .. total) \ Done /\ 1 .. total \subseteq Objects
<1> SUFFICES ASSUME TypeInv PROVE ToDo = (1 .. total) \ Done /\ 1 .. total \subseteq Objects
  OBVIOUS
<1>1. 1 .. total \subseteq Objects
  BY JsonAssumption DEF TypeInv, TypeOK, Objects, JsonAssumption
<1> QED
  BY <1>1 DEF ToDo, Done

LEMMA ToDoAfter == TypeInv' => ToDo' = (1 .. total') \ Done' /\ 1 .. total' \subseteq Objects
<1> SUFFICES ASSUME TypeInv'
             PROVE  ToDo' = (1 .. total') \ Done' /\ 1 .. total' \subseteq Objects
  OBVIOUS
<1>1. 1 .. total' \subseteq Objects
  BY JsonAssumption DEF TypeInv, TypeOK, Objects, JsonAssumption
<1> QED
  BY <1>1 DEF ToDo, Done

LEMMA InitConversion == Init => Conv!Init
<1> SUFFICES ASSUME Init PROVE Conv!Init
  OBVIOUS
<1>1. ToDo \in SUBSET Objects
  BY InitType, ToDoOfDone
<1>2. File = << >>
  <2>1. Written = {}
    BY Pieces DEF Init, Written
  <2>2. File = [i \in {} |-> json[i]]
    BY <2>1 DEF File
  <2>3. << >> = [i \in {} |-> json[i]]
    OBVIOUS
  <2> QED
    BY <2>2, <2>3
<1>3. lost = {} /\ Finished = FALSE
  BY DEF Init, Finished
<1> QED
  BY <1>1, <1>2, <1>3 DEF Conv!Init, File

\* Nothing that Conversion sees changes.
LEMMA Stutter ==
    ASSUME TypeInv, TypeInv', Done' = Done, UNCHANGED <<total, json, lost>>,
           Finished' = Finished
    PROVE  UNCHANGED <<ToDo, File, lost, Finished>>
<1>1. ToDo' = ToDo
  BY DEF ToDo, Elements
<1>2. File' = File
  BY DEF File, Written
<1> QED
  BY <1>1, <1>2

LEMMA ParserConverts ==
    ASSUME TypeInv, TypeInv', Once, Parser
    PROVE  UNCHANGED <<ToDo, File, lost, Finished>>
<1>1. UNCHANGED <<total, json, lost, main>>
  BY DEF Parser, ParserSend, ParserReturns, ParserCloses, options
<1>2. Finished' = Finished
  BY <1>1 DEF Finished
<1> QED
  BY <1>1, <1>2, ParserOnce, Stutter

LEMMA WorkerConverts ==
    ASSUME TypeInv, TypeInv', Once, Leaving, NEW w \in Workers, Worker(w)
    PROVE  Conv!Next \/ UNCHANGED <<ToDo, File, lost, Finished>>
<1>1. UNCHANGED <<total, json, main>>
  BY DEF Worker, WorkerTakes, WorkerSends, WorkerLeaves, options
<1>2. Finished' = Finished /\ File' = File
  BY <1>1 DEF Finished, File, Written
<1>3. CASE WorkerTakes(w) /\ Head(objBuf) \in Unmarshalable
  <2> DEFINE o == Head(objBuf)
  <2>1. o \in Objects /\ o \notin Done /\ lost' = lost \cup {o}
    BY <1>3, WorkerTakesOnce DEF WorkerTakes
  <2>2. o \in 1 .. total
    <3>1. o \in Queued
      <4>1. objBuf \in Seq(Objects) /\ objBuf # << >>
        BY <1>3 DEF WorkerTakes, TypeInv, TypeOK
      <4> QED
        BY <4>1, ElementsOfTail DEF Queued
    <3>2. 1 .. sent = ((Queued \cup Texts) \cup Held) \cup Done
      BY NothingLostByPlace DEF Once
    <3>3. sent \in 0 .. total /\ total \in Nat
      BY JsonAssumption DEF TypeInv, TypeOK, JsonAssumption
    <3> HIDE DEF o
    <3> QED
      BY <3>1, <3>2, <3>3
  <2>3. Done' = Done \cup {o}
    BY <1>1, <2>1 DEF Done, Elements
  <2>4. o \in ToDo /\ ToDo' = ToDo \ {o}
    BY <1>1, <2>1, <2>2, <2>3, ToDoOfDone, ToDoAfter
  <2>5. Conv!Lose(o)
    BY <1>2, <2>1, <2>4 DEF Conv!Lose, File
  <2> QED
    BY <2>1, <2>5 DEF Conv!Next
<1>4. CASE ~(WorkerTakes(w) /\ Head(objBuf) \in Unmarshalable)
  <2>1. lost' = lost
    BY <1>4 DEF Worker, WorkerTakes, WorkerSends, WorkerLeaves
  <2>2. Done' = Done
    BY <1>1, <2>1 DEF Done, Elements
  <2> QED
    BY <1>1, <1>2, <2>1, <2>2, Stutter
<1> QED
  BY <1>3, <1>4

LEMMA WriterConverts ==
    ASSUME TypeInv, TypeInv', Once, Leaving, Room, WriterWrites
    PROVE  Conv!Next
<1> DEFINE o == Head(jsonBuf)
<1>1. /\ o \in Objects /\ o \notin Done /\ Done' = Done \cup {o}
      /\ json \in Seq(Piece)
  BY WriterWritesOnce
<1>2. o \in 1 .. total
  <2>1. o \in Texts
    <3>1. jsonBuf \in Seq(Objects) /\ jsonBuf # << >>
      BY DEF WriterWrites, TypeInv, TypeOK
    <3> QED
      BY <3>1, ElementsOfTail DEF Texts
  <2>2. 1 .. sent = ((Queued \cup Texts) \cup Held) \cup Done
    BY NothingLostByPlace DEF Once
  <2>3. sent \in 0 .. total /\ total \in Nat
    BY JsonAssumption DEF TypeInv, TypeOK, JsonAssumption
  <2> HIDE DEF o
  <2> QED
    BY <2>1, <2>2, <2>3
<1>3. o \in ToDo /\ ToDo' = ToDo \ {o}
  <2>1. total' = total
    BY DEF WriterWrites, options
  <2> QED
    BY <1>1, <1>2, <2>1, ToDoOfDone, ToDoAfter
<1>4. Finished' = Finished
  BY DEF WriterWrites, Finished
<1>5. Len(json) \in Nat /\ Len(json) > 0
  BY <1>1 DEF TypeInv
<1>6. CASE json' = json \o <<o, Sep>> /\ lost' = lost
  <2> DEFINE p == Len(json) + 1
  <2>1. p \in Places
    <3>1. Len(json) <= 1 + 2 * Cardinality(Done)
      BY DEF Room, WriterWrites, Leaving, Closing
    <3>2. Cardinality(Done) \in Nat /\ Cardinality(Done) < MaxObjects
      BY <1>1, DoneIsFinite
    <3> QED
      BY <1>5, <3>1, <3>2, JsonAssumption DEF Places, JsonAssumption
  <2>2. \A i \in DOMAIN File : i < p
    BY <1>5 DEF File, Written
  <2>3. /\ Len(json') = Len(json) + 2
        /\ \A i \in 1 .. Len(json) + 2 : json'[i] =
               IF i <= Len(json) THEN json[i] ELSE IF i = Len(json) + 1 THEN o ELSE Sep
    BY <1>1, <1>6, Longer, Pieces
  <2> HIDE DEF o
  <2>4. Written' = Written \cup {p}
    <3>1. 1 .. Len(json') = (1 .. Len(json)) \cup {p, p + 1}
      BY <1>5, <2>3
    <3>2. json'[p] = o /\ json'[p + 1] = Sep /\ \A i \in 1 .. Len(json) : json'[i] = json[i]
      BY <1>5, <2>3
    <3>3. Written' = {i \in 1 .. Len(json') : json'[i] \in Objects}
      BY DEF Written
    <3> HIDE DEF p
    <3> QED
      BY <1>1, <3>1, <3>2, <3>3, Pieces DEF Written
  <2>5. File' = [i \in Written \cup {p} |-> IF i = p THEN o ELSE json[i]]
    <3>1. File' = [i \in Written' |-> json'[i]]
      BY DEF File
    <3>2. \A i \in Written \cup {p} : json'[i] = IF i = p THEN o ELSE json[i]
      BY <1>5, <2>3 DEF Written
    <3> HIDE DEF p
    <3> QED
      BY <2>4, <3>1, <3>2
  <2>6. File' = [i \in DOMAIN File \cup {p} |-> IF i = p THEN o ELSE File[i]]
    <3>1. DOMAIN File = Written /\ \A i \in Written : File[i] = json[i]
      BY DEF File
    <3>2. p \notin Written
      BY <1>5 DEF Written
    <3> HIDE DEF p
    <3> QED
      BY <2>5, <3>1, <3>2
  <2> HIDE DEF p
  <2>7. PICK q \in Objects : q = o
    BY <1>1
  <2>8. File' \in {Conv!With(place, q) : place \in Conv!PlacesBehind}
    <3>1. p \in Conv!PlacesBehind
      BY <2>1, <2>2 DEF Conv!PlacesBehind, File
    <3>2. File' = Conv!With(p, q)
      BY <2>6, <2>7 DEF Conv!With, File
    <3> QED
      BY <3>1, <3>2
  <2>9. q \in ToDo /\ ToDo' = ToDo \ {q}
    BY <1>3, <2>7
  <2>10. Conv!Emit(q)
    BY <1>4, <1>6, <2>8, <2>9 DEF Conv!Emit, File
  <2> QED
    BY <2>10 DEF Conv!Next
<1>7. CASE lost' = lost \cup {o} /\ json' \in {json \o << >>, json \o <<TornPiece>>}
  <2>1. /\ \A i \in 1 .. Len(json) : json'[i] = json[i]
        /\ Len(json') \in {Len(json), Len(json) + 1}
        /\ Len(json') = Len(json) + 1 => json'[Len(json) + 1] = TornPiece
    <3>1. /\ json \o << >> = json
          /\ Len(json \o <<TornPiece>>) = Len(json) + 1
          /\ \A i \in 1 .. Len(json) + 1 : (json \o <<TornPiece>>)[i] =
                 IF i <= Len(json) THEN json[i] ELSE TornPiece
      BY <1>1, Longer, Pieces
    <3> QED
      BY <1>5, <1>7, <3>1
  <2>2. Written' = Written
    <3>1. Written' = {i \in 1 .. Len(json') : json'[i] \in Objects}
      BY DEF Written
    <3>2. \A i \in 1 .. Len(json') : i \in 1 .. Len(json) \/ json'[i] = TornPiece
      BY <1>5, <2>1
    <3>3. 1 .. Len(json) \subseteq 1 .. Len(json')
      BY <1>5, <2>1
    <3> QED
      BY <2>1, <3>1, <3>2, <3>3, Pieces DEF Written
  <2>3. File' = File
    <3>1. File' = [i \in Written' |-> json'[i]]
      BY DEF File
    <3>2. \A i \in Written : json'[i] = json[i]
      BY <2>1 DEF Written
    <3> QED
      BY <2>2, <3>1, <3>2 DEF File
  <2>4. Conv!Lose(o)
    BY <1>3, <1>4, <1>7, <2>3 DEF Conv!Lose, File
  <2> QED
    BY <1>1, <2>4 DEF Conv!Next
<1> QED
  BY <1>6, <1>7 DEF WriterWrites

LEMMA FinishConverts ==
    ASSUME TypeInv, TypeInv', Once, Leaving, MainFinishes
    PROVE  Conv!Next
<1>1. \A w \in Workers : worker[w] = "done"
  BY DEF MainFinishes, Leaving, WorkersLeft
<1>2. PICK w \in team : w \in Workers
  BY DEF TypeInv, TypeOK
<1>3. parser = "done" /\ objBuf = << >> /\ jsonBuf = << >> /\ sent = total
  BY <1>1, <1>2 DEF MainFinishes, Leaving, ParserLeft, WriterLeft, Closing
<1>4. Queued = {} /\ Texts = {}
  BY <1>3 DEF Queued, Texts, Elements
<1>5. Held = {}
  BY <1>1 DEF Held, TypeInv, TypeOK, Holding
<1>6. 1 .. total = Done
  BY <1>3, <1>4, <1>5, NothingLostByPlace DEF Once
<1>7. ToDo = {}
  BY <1>6, ToDoOfDone
<1>8. Done' = Done /\ total' = total /\ lost' = lost
  BY FinishKeepsObjects DEF MainFinishes, options, Done
<1>9. ToDo' = ToDo
  BY <1>8, ToDoOfDone, ToDoAfter
<1>10. File' = File
  <2>1. File' = [i \in Written' |-> json'[i]]
    BY DEF File
  <2> QED
    BY <2>1, FinishKeepsObjects DEF File
<1>11. Finished = FALSE /\ Finished' = TRUE
  BY DEF MainFinishes, Finished
<1> QED
  BY <1>7, <1>8, <1>9, <1>10, <1>11 DEF Conv!Next, Conv!Finish, File

Progress == TypeInv /\ Once /\ Leaving /\ Room

LEMMA InitProgress == Init => Progress
BY InitType, InitOnce, InitLeaving, InitRoom DEF Progress

LEMMA StepProgress == Progress /\ [Next]_vars => Progress'
<1> SUFFICES ASSUME Progress, [Next]_vars PROVE Progress'
  OBVIOUS
<1>1. TypeInv /\ Once /\ Leaving /\ Room
  BY DEF Progress
<1>2. TypeInv' /\ Once' /\ Leaving'
  BY <1>1, StepType, StepOnce, StepLeaving
<1>3. Room'
  <2>1. CASE Parser
    <3>1. UNCHANGED <<json, main>>
      BY <2>1 DEF Parser, ParserSend, ParserReturns, ParserCloses
    <3> QED
      BY <1>1, <2>1, <3>1, ParserOnce, SameRoom
  <2>2. ASSUME NEW w \in Workers, Worker(w) PROVE Room'
    <3>1. UNCHANGED <<json, main>>
      BY <2>2 DEF Worker, WorkerTakes, WorkerSends, WorkerLeaves
    <3>2. Done' = Done \/ \E o \in Objects \ Done : Done' = Done \cup {o}
      <4>1. CASE WorkerTakes(w) /\ Head(objBuf) \in Unmarshalable
        <5>1. Done' = Done \cup {Head(objBuf)}
          BY <3>1, <4>1 DEF WorkerTakes, Done, Elements
        <5> QED
          BY <1>1, <4>1, <5>1, WorkerTakesOnce
      <4>2. CASE ~(WorkerTakes(w) /\ Head(objBuf) \in Unmarshalable)
        BY <2>2, <3>1, <4>2 DEF Worker, WorkerTakes, WorkerSends, WorkerLeaves, Done, Elements
      <4> QED
        BY <4>1, <4>2
    <3> QED
      BY <1>1, <3>1, <3>2, SameRoom
  <2>3. CASE WriterWrites
    BY <1>1, <2>3, WriterRoom
  <2>4. CASE WriterChecks \/ WriterLeaves \/ MainClosesJson \/ UNCHANGED vars
    <3>1. UNCHANGED <<json, lost>>
      BY <2>4 DEF WriterChecks, WriterLeaves, MainClosesJson, vars
    <3>2. Done' = Done
      BY <3>1 DEF Done, Elements
    <3>3. Len(json) \in Nat /\ Cardinality(Done) \in Nat
      BY <1>1, DoneIsFinite DEF TypeInv, TypeOK
    <3>4. main \in {"returned", "failed"} => main' \in {"returned", "failed"}
      BY <2>4 DEF WriterChecks, WriterLeaves, MainClosesJson, vars
    <3> QED
      BY <1>1, <3>1, <3>2, <3>3, <3>4 DEF Room
  <2>5. CASE MainFinishes
    BY <2>5 DEF MainFinishes, Room
  <2> QED
    BY <2>1, <2>2, <2>3, <2>4, <2>5 DEF Next, Writer, Main, Returned
<1> QED
  BY <1>2, <1>3 DEF Progress

LEMMA StepConverts ==
    Progress /\ Progress' /\ [Next]_vars => [Conv!Next]_(Conv!vars)
<1> SUFFICES ASSUME Progress, Progress', [Next]_vars
             PROVE  Conv!Next \/ UNCHANGED <<ToDo, File, lost, Finished>>
  BY DEF Conv!vars, File
<1>1. TypeInv /\ Once /\ Leaving /\ Room /\ TypeInv'
  BY DEF Progress
<1>2. CASE Parser
  BY <1>1, <1>2, ParserConverts
<1>3. ASSUME NEW w \in Workers, Worker(w)
      PROVE  Conv!Next \/ UNCHANGED <<ToDo, File, lost, Finished>>
  BY <1>1, <1>3, WorkerConverts
<1>4. CASE WriterWrites
  BY <1>1, <1>4, WriterConverts
<1>5. CASE WriterChecks \/ WriterLeaves \/ MainClosesJson \/ UNCHANGED vars
  <2>1. UNCHANGED <<json, lost, total>>
    BY <1>5 DEF WriterChecks, WriterLeaves, MainClosesJson, vars, options
  <2>2. Finished' = Finished
    BY <1>5 DEF WriterChecks, WriterLeaves, MainClosesJson, vars, Finished
  <2>3. Done' = Done
    BY <2>1 DEF Done, Elements
  <2> QED
    BY <1>1, <2>1, <2>2, <2>3, Stutter
<1>6. CASE MainFinishes
  BY <1>1, <1>6, FinishConverts
<1> QED
  BY <1>2, <1>3, <1>4, <1>5, <1>6 DEF Next, Writer, Main, Returned

\* Every step of the pipeline is a step of Conversion or is not seen there:
\* an object is written behind the others or given up, once, and the array is
\* finished when none is left (ToJsons).
THEOREM StepsOfConversion == Spec => Conv!Init /\ [][Conv!Next]_(Conv!vars)
<1>1. Spec => []Progress
  BY InitProgress, StepProgress, PTL DEF Spec
<1> QED
  BY <1>1, InitConversion, StepConverts, PTL DEF Spec

-----------------------------------------------------------------------------
(***************************************************************************)
(* The text of the array.  While every write succeeds, objects and         *)
(* separators alternate behind the bracket; if Parse succeeds too, err is  *)
(* nil whenever the writer tests it, so that empty says whether something  *)
(* is written, but between a write and its test.                           *)
(***************************************************************************)
Alternates(s) ==
    /\ Len(s) % 2 = 1 /\ s[1] = Open
    /\ \A i \in 2 .. Len(s) : s[i] \in IF i % 2 = 0 THEN Objects ELSE {Sep}

Alternating == (faults = 0 /\ main \notin {"returned", "failed"}) => Alternates(json)
ErrNil == (faults = 0 /\ parseErr = "nil") => err = "nil"
EmptyRight ==
    (faults = 0 /\ parseErr = "nil" /\ main \notin {"returned", "failed"}) =>
        IF writer = "check" THEN Len(json) > 1 ELSE empty <=> Len(json) = 1

Text == Alternating /\ ErrNil /\ EmptyRight /\ WellFormedJson

LEMMA InitText == Init => Text
<1> SUFFICES ASSUME Init PROVE Text
  OBVIOUS
<1>1. Alternating
  BY DEF Init, Alternating, Alternates
<1>2. ErrNil
  BY DEF Init, ErrNil
<1>3. EmptyRight
  <2>1. Len(json) = 1 /\ writer = "range" 
    BY DEF Init
  <2>2. empty
    BY Zenon DEF Init
  <2> QED
    BY <2>1, <2>2 DEF EmptyRight
<1>4. WellFormedJson
  BY DEF Init, WellFormedJson
<1> QED
  BY <1>1, <1>2, <1>3, <1>4 DEF Text

\* An object and its separator keep the alternation.
LEMMA AlternatesOn ==
    ASSUME NEW s \in Seq(Piece), NEW o \in Objects, Alternates(s)
    PROVE  Alternates(s \o <<o, Sep>>) /\ Len(s \o <<o, Sep>>) > 1
<1> DEFINE t == s \o <<o, Sep>>
<1>1. /\ Len(t) = Len(s) + 2
      /\ \A i \in 1 .. Len(s) + 2 : t[i] =
             IF i <= Len(s) THEN s[i] ELSE IF i = Len(s) + 1 THEN o ELSE Sep
  BY Longer, Pieces
<1>2. Len(s) \in Nat /\ Len(s) % 2 = 1
  BY DEF Alternates
<1> HIDE DEF t
<1>3. Len(s) > 0 /\ Len(t) % 2 = 1 /\ Len(t) > 1
  BY <1>1, <1>2
<1>4. t[1] = Open
  BY <1>1, <1>2, <1>3 DEF Alternates
<1>5. ASSUME NEW i \in 2 .. Len(t) PROVE t[i] \in IF i % 2 = 0 THEN Objects ELSE {Sep}
  <2>1. CASE i <= Len(s)
    BY <1>1, <1>2, <1>5, <2>1 DEF Alternates
  <2>2. CASE i = Len(s) + 1
    <3>1. i % 2 = 0
      BY <1>2, <2>2
    <3>2. t[i] = o
      BY <1>1, <1>2, <2>2
    <3> QED
      BY <3>1, <3>2
  <2>3. CASE i = Len(s) + 2
    <3>1. i % 2 = 1
      BY <1>2, <2>3
    <3>2. t[i] = Sep
      BY <1>1, <1>2, <2>3
    <3> QED
      BY <3>1, <3>2
  <2> QED
    BY <1>1, <1>2, <2>1, <2>2, <2>3
<1> QED
  BY <1>3, <1>4, <1>5 DEF Alternates, t

\* The bracket at the end, in place of the last separator.
LEMMA FinishedArray ==
    ASSUME json \in Seq(Piece), Alternates(json), empty <=> Len(json) = 1
    PROVE  IsJsonArray(Append(SeekBack, Close))
<1>1. Len(json) \in Nat /\ Len(json) % 2 = 1 /\ Len(json) > 0 /\ json # << >>
  BY DEF Alternates
<1>2. CASE Len(json) = 1
  <2>1. SeekBack = json
    BY <1>2 DEF SeekBack
  <2> DEFINE t == Append(json, Close)
  <2>2. Len(t) = 2 /\ t[1] = Open /\ t[2] = Close
    <3>1. /\ Len(t) = Len(json) + 1 /\ t[Len(json) + 1] = Close
          /\ \A i \in 1 .. Len(json) : t[i] = json[i]
      BY Pieces, AppendProperties
    <3>2. 1 \in 1 .. Len(json) /\ json[1] = Open
      BY <1>2 DEF Alternates
    <3> HIDE DEF t
    <3> QED
      BY <1>2, <3>1, <3>2
  <2> HIDE DEF t
  <2>3. IsJsonArray(t)
    BY <2>2 DEF IsJsonArray
  <2> QED
    BY <2>1, <2>3 DEF t
<1>3. CASE Len(json) # 1
  <2>1. Len(json) > 2
    <3>1. \A n \in Nat : n % 2 = 1 /\ n # 1 => n > 2
      OBVIOUS
    <3> QED
      BY ONLY <1>1, <1>3, <3>1
  <2>2. json[Len(json)] = Sep
    <3>1. Len(json) \in 2 .. Len(json) /\ Len(json) % 2 # 0
      BY <1>1, <2>1
    <3> QED
      BY <3>1 DEF Alternates
  <2> DEFINE s == SubSeq(json, 1, Len(json) - 1)
             t == Append(s, Close)
  <2>3. SeekBack = s
    BY <1>3, <2>2 DEF SeekBack
  <2>4. /\ s \in Seq(Piece) /\ Len(s) = Len(json) - 1
        /\ \A i \in 1 .. Len(s) : s[i] = json[i]
    BY <1>1, <2>1, <2>3, SeekBackShape
  <2> HIDE DEF s
  <2>5. /\ Len(t) = Len(json) /\ t[Len(json)] = Close
        /\ \A i \in 1 .. Len(json) - 1 : t[i] = json[i]
    BY <1>1, <2>4, AppendProperties, Pieces
  <2> HIDE DEF t
  <2>6. t[1] = Open
    BY <1>1, <2>1, <2>5 DEF Alternates
  <2>7. \A i \in 2 .. Len(t) - 1 : t[i] \in IF i % 2 = 0 THEN Objects ELSE {Sep}
    BY <1>1, <2>1, <2>5 DEF Alternates
  <2>8. t[Len(t) - 1] # Sep
    <3>1. (Len(t) - 1) % 2 = 0 /\ Len(t) - 1 \in 2 .. Len(t) - 1
      BY <1>1, <2>1, <2>5
    <3>2. t[Len(t) - 1] \in Objects
      BY <2>7, <3>1
    <3> QED
      BY <3>2, Pieces
  <2>9. IsJsonArray(t)
    BY <2>1, <2>5, <2>6, <2>7, <2>8 DEF IsJsonArray
  <2> QED
    BY <2>3, <2>9 DEF t
<1> QED
  BY <1>2, <1>3

LEMMA WriterText ==
    ASSUME TypeInv, Leaving, Text, Writer PROVE Text'
<1>1. main \notin {"returned", "failed"} /\ main' = main /\ parseErr' = parseErr
  BY DEF Writer, WriterWrites, WriterChecks, WriterLeaves, Leaving, Closing, options
<1>2. WellFormedJson'
  BY <1>1 DEF WellFormedJson
<1>3. CASE WriterWrites
  <2> DEFINE o == Head(jsonBuf)
  <2>1. o \in Objects /\ json \in Seq(Piece) /\ writer' = "check"
    BY <1>3, HeadTailProperties DEF WriterWrites, TypeInv, TypeOK, Piece
  <2>2. faults \in Nat
    BY DEF TypeInv, TypeOK
  <2>3. CASE json' = json \o <<o, Sep>> /\ err' = "nil" /\ faults' = faults
    BY <1>1, <1>2, <2>1, <2>3, AlternatesOn
    DEF Text, Alternating, ErrNil, EmptyRight
  <2>4. CASE faults' = faults + 1
    <3>1. faults' # 0
      BY <2>2, <2>4
    <3> QED
      BY <1>2, <3>1 DEF Text, Alternating, ErrNil, EmptyRight
  <2> QED
    BY <1>3, <2>3, <2>4 DEF WriterWrites
<1>4. CASE WriterChecks
  <2>1. UNCHANGED <<json, err, faults>> /\ writer = "check" /\ writer' = "range"
    BY <1>4 DEF WriterChecks
  <2>2. ASSUME faults = 0, parseErr = "nil"
        PROVE  Len(json') # 1 /\ ~empty'
    <3>1. err = "nil" /\ Len(json) > 1
      BY <1>1, <2>1, <2>2 DEF Text, ErrNil, EmptyRight
    <3>2. empty' = (empty /\ err # "nil")
      BY <1>4 DEF WriterChecks
    <3>3. ~empty'
      BY <3>1, <3>2
    <3>4. Len(json') # 1
      <4>1. Len(json) \in Nat
        BY DEF TypeInv, TypeOK
      <4>2. Len(json) > 1
        BY <3>1
      <4>3. Len(json') = Len(json)
        BY <2>1
      <4>4. \A n \in Nat : n > 1 => n # 1
        OBVIOUS
      <4> QED
        BY Zenon, <4>1, <4>2, <4>3, <4>4
    <3> QED
      BY <3>3, <3>4
  <2> QED
    BY <1>1, <1>2, <2>1, <2>2 DEF Text, Alternating, ErrNil, EmptyRight
<1>5. CASE WriterLeaves
  <2>1. UNCHANGED <<json, err, empty, faults>> /\ writer = "range" /\ writer' = "done"
    BY <1>5 DEF WriterLeaves
  <2> QED
    BY <1>1, <1>2, <2>1 DEF Text, Alternating, ErrNil, EmptyRight
<1> QED
  BY <1>3, <1>4, <1>5 DEF Writer

LEMMA MainText ==
    ASSUME TypeInv, Leaving, Text, Main PROVE Text'
<1>1. CASE MainClosesJson
  BY <1>1 DEF MainClosesJson, options, Text, Alternating, ErrNil, EmptyRight, WellFormedJson
<1>2. CASE MainFinishes
  <2>1. /\ main \notin {"returned", "failed"} /\ writer = "done" /\ parseErr' = parseErr
        /\ json \in Seq(Piece) /\ main' \in {"returned", "failed"}
    BY <1>2 DEF MainFinishes, TypeInv, TypeOK, Piece, options
  <2>2. Alternating' /\ EmptyRight'
    BY <2>1 DEF Alternating, EmptyRight
  <2>3. CASE json' = Append(SeekBack, Close) /\ err' = "nil" /\ faults' = faults
    <3>1. ErrNil'
      BY <2>3 DEF ErrNil
    <3>2. WellFormedJson'
      <4> SUFFICES ASSUME faults = 0, parseErr = "nil" PROVE IsJsonArray(json')
        BY <2>1, <2>3 DEF WellFormedJson, IsJsonArray
      <4>1. Alternates(json) /\ (empty <=> Len(json) = 1)
        BY <2>1 DEF Text, Alternating, EmptyRight
      <4> QED
        BY <2>1, <2>3, <4>1, FinishedArray DEF IsJsonArray
    <3> QED
      BY <2>2, <3>1, <3>2 DEF Text
  <2>4. CASE main' = "failed" /\ faults' = faults + 1
    <3>1. faults' # 0
      BY <2>4 DEF TypeInv, TypeOK
    <3> QED
      BY <2>2, <2>4, <3>1 DEF Text, ErrNil, WellFormedJson
  <2> QED
    BY <1>2, <2>3, <2>4 DEF MainFinishes
<1> QED
  BY <1>1, <1>2 DEF Main

LEMMA StepText == TypeInv /\ Leaving /\ Text /\ [Next]_vars => Text'
<1> SUFFICES ASSUME TypeInv, Leaving, Text, [Next]_vars PROVE Text'
  OBVIOUS
<1>1. CASE UNCHANGED vars
  BY <1>1 DEF vars, Text, Alternating, ErrNil, EmptyRight, WellFormedJson
<1>2. CASE Parser
  <2>1. UNCHANGED <<json, main, writer, empty, faults, parseErr>>
    BY <1>2 DEF Parser, ParserSend, ParserReturns, ParserCloses, options
  <2>2. err' = err \/ err' = parseErr
    BY <1>2 DEF Parser, ParserSend, ParserReturns, ParserCloses
  <2> QED
    BY <2>1, <2>2 DEF Text, Alternating, ErrNil, EmptyRight, WellFormedJson
<1>3. ASSUME NEW w \in Workers, Worker(w) PROVE Text'
  <2>1. UNCHANGED <<json, main, writer, err, empty, faults, parseErr>>
    BY <1>3 DEF Worker, WorkerTakes, WorkerSends, WorkerLeaves, options
  <2> QED
    BY <2>1 DEF Text, Alternating, ErrNil, EmptyRight, WellFormedJson
<1> QED
  BY <1>1, <1>2, <1>3, WriterText, MainText DEF Next, Returned

\* With no failing write and no error of Parse the file is an array in brackets
\* with a separator between two objects and nowhere else (json.go).
THEOREM ArrayWellFormed == Spec => []WellFormedJson
<1>1. Init => TypeInv /\ Leaving /\ Text
  BY InitType, InitLeaving, InitText
<1>2. TypeInv /\ Leaving /\ Text /\ [Next]_vars => (TypeInv /\ Leaving /\ Text)'
  BY StepType, StepLeaving, StepText
<1>3. Text => WellFormedJson
  BY DEF Text
<1> QED
  BY <1>1, <1>2, <1>3, PTL DEF Spec

-----------------------------------------------------------------------------
(***************************************************************************)
(* With one worker the array has the order of the RDB file (OrderKept).    *)
(* The places of the pipeline are in line: what is written comes before    *)
(* what is in the second channel, that before what the worker holds, and   *)
(* that before what is in the first channel, each channel rising in        *)
(* itself.                                                                 *)
(***************************************************************************)
Before(A, B) == \A a \in A, b \in B : a < b

Rising(s) == \A i, j \in 1 .. Len(s) : i < j => s[i] < s[j]

InFile == Elements(json) \cap Objects

RisingFile == \A i, j \in Written : i < j => json[i] < json[j]

InLine ==
    /\ Rising(objBuf) /\ Rising(jsonBuf) /\ RisingFile
    /\ Before(InFile, Texts) /\ Before(InFile, Held) /\ Before(InFile, Queued)
    /\ Before(Texts, Held) /\ Before(Texts, Queued) /\ Before(Held, Queued)

OneWorker == Cardinality(team) = 1

Ordered == OneWorker => InLine

LEMMA RisingAppend ==
    ASSUME NEW s \in Seq(Objects), NEW e \in Objects, Rising(s), Before(Elements(s), {e})
    PROVE  Rising(Append(s, e))
<1> DEFINE t == Append(s, e)
<1>1. /\ Len(s) \in Nat /\ Len(t) = Len(s) + 1
      /\ \A i \in 1 .. Len(s) : t[i] = s[i]
      /\ t[Len(s) + 1] = e
  BY AppendProperties
<1> HIDE DEF t
<1>2. \A i \in 1 .. Len(s) : s[i] < e
  BY DEF Elements, Before
<1>3. ASSUME NEW i \in 1 .. Len(t), NEW j \in 1 .. Len(t), i < j
      PROVE  t[i] < t[j]
  <2>1. i \in 1 .. Len(s) /\ (j \in 1 .. Len(s) \/ j = Len(s) + 1)
    BY <1>1, <1>3
  <2> QED
    BY <1>1, <1>2, <1>3, <2>1 DEF Rising
<1> QED
  BY <1>3 DEF Rising, t

LEMMA RisingTail ==
    ASSUME NEW s \in Seq(Objects), s # << >>, Rising(s)
    PROVE  Rising(Tail(s)) /\ Before({Head(s)}, Elements(Tail(s)))
<1> DEFINE t == Tail(s)
<1>1. /\ Len(s) \in Nat /\ Len(s) > 0 /\ Len(t) = Len(s) - 1
      /\ \A i \in 1 .. Len(t) : t[i] = s[i + 1]
      /\ Head(s) = s[1]
  BY HeadTailProperties
<1> HIDE DEF t
<1>2. \A i \in 1 .. Len(t) : i + 1 \in 1 .. Len(s) /\ 1 \in 1 .. Len(s) /\ 1 < i + 1
  BY <1>1
<1>3. \A i, j \in 1 .. Len(t) : i < j => i + 1 < j + 1
  BY <1>1
<1>4. Rising(t)
  BY <1>1, <1>2, <1>3 DEF Rising
<1>5. \A i \in 1 .. Len(t) : Head(s) < t[i]
  BY <1>1, <1>2 DEF Rising
<1>6. Before({Head(s)}, Elements(t))
  BY <1>5 DEF Before, Elements
<1> QED
  BY <1>4, <1>6 DEF t

\* An object written behind smaller ones leaves the file rising.
LEMMA RisingFileOn ==
    ASSUME json \in Seq(Piece), NEW o \in Objects, RisingFile, Before(InFile, {o}),
           \/ json' = json \o <<o, Sep>>
           \/ json' = json \o <<TornPiece>>
           \/ json' = json
    PROVE  RisingFile'
<1>1. Len(json) \in Nat
  OBVIOUS
<1>2. /\ \A i \in 1 .. Len(json) : json[i] \in Objects => json[i] < o
      /\ \A i \in Written : json[i] < o
  BY DEF Before, InFile, Elements, Written
<1>3. CASE json' = json \o <<o, Sep>>
  <2>1. /\ Len(json') = Len(json) + 2
        /\ \A i \in 1 .. Len(json) + 2 : json'[i] =
               IF i <= Len(json) THEN json[i] ELSE IF i = Len(json) + 1 THEN o ELSE Sep
    BY <1>3, Longer, Pieces
  <2>2. \A i \in 1 .. Len(json') : json'[i] \in Objects =>
            (i \in Written /\ json'[i] = json[i]) \/ (i = Len(json) + 1 /\ json'[i] = o)
    BY <1>1, <2>1, Pieces DEF Written
  <2>3. ASSUME NEW i \in 1 .. Len(json'), NEW j \in 1 .. Len(json'), i < j,
               json'[i] \in Objects, json'[j] \in Objects
        PROVE  json'[i] < json'[j]
    <3>1. i \in Written /\ json'[i] = json[i]
      <4>1. CASE i = Len(json) + 1
        <5>1. j = Len(json) + 2
          BY <1>1, <2>1, <2>3, <4>1
        <5>2. json'[j] = Sep
          BY <1>1, <2>1, <5>1
        <5> QED
          BY <2>3, <5>2, Pieces
      <4>2. CASE i # Len(json) + 1
        BY <2>2, <2>3, <4>2
      <4> QED
        BY <4>1, <4>2
    <3>2. CASE j \in Written /\ json'[j] = json[j]
      BY <2>3, <3>1, <3>2 DEF RisingFile
    <3>3. CASE j = Len(json) + 1 /\ json'[j] = o
      BY <1>2, <3>1, <3>3
    <3> QED
      BY <2>2, <2>3, <3>2, <3>3
  <2> QED
    BY <2>3 DEF RisingFile, Written
<1>4. CASE json' = json \o <<TornPiece>>
  <2>1. /\ Len(json') = Len(json) + 1
        /\ \A i \in 1 .. Len(json) + 1 : json'[i] =
               IF i <= Len(json) THEN json[i] ELSE TornPiece
    BY <1>4, Longer, Pieces
  <2>2. \A i \in 1 .. Len(json') :
            json'[i] \in Objects => i \in Written /\ json'[i] = json[i]
    BY <1>1, <2>1, Pieces DEF Written
  <2> QED
    BY <2>2 DEF RisingFile, Written
<1>5. CASE json' = json
  BY <1>5 DEF RisingFile, Written
<1> QED
  BY <1>3, <1>4, <1>5

LEMMA InitInLine == Init => InLine
<1> SUFFICES ASSUME Init PROVE InLine
  OBVIOUS
<1>1. Queued = {} /\ Texts = {} /\ Held = {}
  BY DEF Init, Queued, Texts, Held, Elements
<1>2. Written = {}
  BY Pieces DEF Init, Written
<1> QED
  BY <1>1, <1>2 DEF Init, InLine, Before, Rising, RisingFile

\* Everything in the pipeline is one of the objects sent.
LEMMA AllSent ==
    ASSUME Once PROVE (Queued \cup Texts) \cup (Held \cup InFile) \subseteq 1 .. sent
BY NothingLostByPlace DEF Once, Done, InFile

\* With one worker nobody but w holds anything.
LEMMA OnlyHolder ==
    ASSUME TypeInv, Leaving, OneWorker, NEW w \in Workers, worker[w] # "done"
    PROVE  \A v \in Workers \ {w} : item[v] = NoObject
<1>1. IsFiniteSet(team)
  BY FS_Subset, JsonAssumption DEF TypeInv, TypeOK, JsonAssumption
<1>2. PICK x : team = {x}
  BY <1>1, FS_Singleton DEF OneWorker
<1>3. w = x
  BY <1>2 DEF Leaving, NotStarted
<1>4. \A v \in Workers \ {w} : worker[v] = "done"
  BY <1>2, <1>3 DEF Leaving, NotStarted
<1>5. \A v \in Workers \ {w} : item[v] \notin Objects
  BY <1>4 DEF TypeInv, Holding
<1> QED
  BY <1>5 DEF TypeInv, TypeOK

\* A step that moves no object.
LEMMA NothingMoves ==
    ASSUME InLine, UNCHANGED <<objBuf, jsonBuf, item>>,
           Written' = Written, \A i \in Written : json'[i] = json[i],
           Elements(json)' \cap Objects = Elements(json) \cap Objects
    PROVE  InLine'
<1>1. UNCHANGED <<Queued, Texts, Held, InFile>>
  BY DEF Queued, Texts, Held, InFile
<1>2. RisingFile'
  BY DEF InLine, RisingFile
<1> QED
  BY <1>1, <1>2 DEF InLine, Rising

LEMMA SendInLine ==
    ASSUME TypeInv, Once, InLine, ParserSend PROVE InLine'
<1> DEFINE o == sent + 1
<1>1. /\ o \in Objects /\ sent \in Nat /\ objBuf \in Seq(Objects)
      /\ objBuf' = Append(objBuf, o)
  BY JsonAssumption DEF ParserSend, TypeInv, TypeOK, Objects, JsonAssumption
<1>2. \A a \in (Queued \cup Texts) \cup (Held \cup InFile) : a < o
  BY <1>1, AllSent
<1>3. Queued' = Queued \cup {o} /\ UNCHANGED <<Texts, Held, InFile>>
  BY <1>1, ElementsOfAppend DEF Queued, ParserSend, Texts, Held, InFile
<1>4. Rising(objBuf')
  BY <1>1, <1>2, RisingAppend DEF InLine, Before, Queued
<1>5. RisingFile' /\ Rising(jsonBuf')
  BY DEF ParserSend, InLine, RisingFile, Written, Rising
<1> HIDE DEF o
<1> QED
  BY <1>2, <1>3, <1>4, <1>5 DEF InLine, Before

LEMMA TakeInLine ==
    ASSUME TypeInv, Leaving, Once, OneWorker, InLine, NEW w \in Workers, WorkerTakes(w)
    PROVE  InLine'
<1> DEFINE o == Head(objBuf)
<1>1. /\ objBuf \in Seq(Objects) /\ objBuf # << >> /\ objBuf' = Tail(objBuf)
      /\ o \in Objects /\ item \in [Workers -> Objects \cup {NoObject}]
  BY HeadTailProperties DEF WorkerTakes, TypeInv, TypeOK
<1>2. Queued = Queued' \cup {o}
  BY <1>1, ElementsOfTail DEF Queued
<1>3. Rising(objBuf') /\ Before({o}, Queued')
  BY <1>1, RisingTail DEF InLine, Queued
<1>4. UNCHANGED <<Texts, InFile>> /\ RisingFile' /\ Rising(jsonBuf')
  BY DEF WorkerTakes, Texts, InFile, InLine, RisingFile, Written, Rising
<1>5. worker[w] = "range" /\ item[w] \notin Objects
  BY DEF WorkerTakes, TypeInv, Holding
<1>6. \A v \in Workers \ {w} : item[v] = NoObject
  BY <1>5, OnlyHolder
<1>7. \A v \in Workers \ {w} : item'[v] = NoObject
  BY <1>1, <1>6 DEF WorkerTakes
<1>8. item'[w] \in {o, NoObject}
  BY <1>1, <1>5 DEF WorkerTakes
<1>9. Held' \subseteq {o}
  BY <1>7, <1>8 DEF Held
<1> HIDE DEF o
<1> QED
  BY <1>2, <1>3, <1>4, <1>9 DEF InLine, Before

LEMMA TextInLine ==
    ASSUME TypeInv, Leaving, Once, OneWorker, InLine, NEW w \in Workers, WorkerSends(w)
    PROVE  InLine'
<1> DEFINE o == item[w]
<1>1. /\ jsonBuf \in Seq(Objects) /\ jsonBuf' = Append(jsonBuf, o)
      /\ o \in Objects /\ item \in [Workers -> Objects \cup {NoObject}]
      /\ item' = [item EXCEPT ![w] = NoObject] /\ worker[w] = "send"
  BY DEF WorkerSends, TypeInv, TypeOK, Holding
<1>2. o \in Held
  BY <1>1, Pieces DEF Held, NoObject
<1>3. Texts' = Texts \cup {o}
  BY <1>1, ElementsOfAppend DEF Texts
<1>4. UNCHANGED <<Queued, InFile>> /\ RisingFile' /\ Rising(objBuf')
  BY DEF WorkerSends, Queued, InFile, InLine, RisingFile, Written, Rising
<1>5. Held' = {}
  <2>1. \A v \in Workers : item'[v] = NoObject
    BY <1>1, OnlyHolder
  <2> QED
    BY <2>1 DEF Held
<1>6. Rising(jsonBuf')
  BY <1>1, <1>2, RisingAppend DEF InLine, Before, Texts
<1> HIDE DEF o
<1> QED
  BY <1>2, <1>3, <1>4, <1>5, <1>6 DEF InLine, Before

LEMMA WriteInLine ==
    ASSUME TypeInv, InLine, WriterWrites PROVE InLine'
<1> DEFINE o == Head(jsonBuf)
<1>1. /\ jsonBuf \in Seq(Objects) /\ jsonBuf # << >> /\ jsonBuf' = Tail(jsonBuf)
      /\ o \in Objects /\ json \in Seq(Piece)
  BY HeadTailProperties DEF WriterWrites, TypeInv, TypeOK, Piece
<1>2. Texts = Texts' \cup {o}
  BY <1>1, ElementsOfTail DEF Texts
<1>3. Rising(jsonBuf') /\ Before({o}, Texts')
  BY <1>1, RisingTail DEF InLine, Texts
<1>4. UNCHANGED <<Queued, Held>> /\ Rising(objBuf')
  BY DEF WriterWrites, Queued, Held, InLine, Rising
<1>5. json \o << >> = json
  BY <1>1, ConcatEmptySeq
<1>6. \/ json' = json \o <<o, Sep>>
      \/ json' = json \o <<TornPiece>>
      \/ json' = json
  BY <1>5 DEF WriterWrites
<1>7. InFile' \subseteq InFile \cup {o}
  <2>1. /\ Elements(json \o <<o, Sep>>) \cap Objects = InFile \cup {o}
        /\ Elements(json \o <<TornPiece>>) \cap Objects = InFile
    BY <1>1, ElementsOfFile DEF InFile
  <2>2. InFile' = Elements(json') \cap Objects
    BY DEF InFile, Elements
  <2> HIDE DEF o
  <2> QED
    BY <1>6, <2>1, <2>2 DEF InFile
<1>8. Before(InFile, {o})
  BY <1>2 DEF InLine, Before
<1>9. RisingFile'
  <2>1. RisingFile
    BY DEF InLine
  <2> HIDE DEF o
  <2> QED
    BY <1>1, <1>6, <1>8, <2>1, RisingFileOn
<1> HIDE DEF o
<1> QED
  BY <1>2, <1>3, <1>4, <1>7, <1>9 DEF InLine, Before

LEMMA StepOrdered == TypeInv /\ Leaving /\ Once /\ Ordered /\ [Next]_vars => Ordered'
<1> SUFFICES ASSUME TypeInv, Leaving, Once, Ordered, [Next]_vars, OneWorker'
             PROVE  InLine'
  BY DEF Ordered
<1>1. team' = team
  BY DEF Next, vars, Parser, Worker, Writer, Main, Returned, options, ParserSend,
         ParserReturns, ParserCloses, WorkerTakes, WorkerSends, WorkerLeaves,
         WriterWrites, WriterChecks, WriterLeaves, MainClosesJson, MainFinishes
<1>2. OneWorker /\ InLine
  BY <1>1 DEF OneWorker, Ordered
<1>3. ASSUME UNCHANGED <<objBuf, jsonBuf, item, json>> PROVE InLine'
  BY <1>2, <1>3, NothingMoves DEF Written, Elements
<1>4. CASE UNCHANGED vars
  BY <1>3, <1>4 DEF vars
<1>5. CASE Parser
  BY <1>2, <1>3, <1>5, SendInLine DEF Parser, ParserReturns, ParserCloses
<1>6. ASSUME NEW w \in Workers, Worker(w) PROVE InLine'
  BY <1>2, <1>3, <1>6, TakeInLine, TextInLine DEF Worker, WorkerLeaves
<1>7. CASE Writer
  BY <1>2, <1>3, <1>7, WriteInLine DEF Writer, WriterChecks, WriterLeaves
<1>8. CASE Main
  <2>1. CASE MainClosesJson
    BY <1>3, <2>1 DEF MainClosesJson
  <2>2. CASE MainFinishes
    BY <1>2, <2>2, FinishKeepsObjects, NothingMoves DEF MainFinishes
  <2> QED
    BY <1>8, <2>1, <2>2 DEF Main
<1> QED
  BY <1>4, <1>5, <1>6, <1>7, <1>8 DEF Next, Returned

\* With one worker the objects are in the array in the order of the RDB file,
\* those that were not marshalled or not written left out (ToJsons with
\* WithConcurrent(1)).
THEOREM OneWorkerKeepsOrder == Spec => []OrderKept
<1>1. Init => (TypeInv /\ Leaving /\ Once /\ Ordered)
  BY InitType, InitLeaving, InitOnce, InitInLine DEF Ordered
<1>2. TypeInv /\ Leaving /\ Once /\ Ordered /\ [Next]_vars
          => (TypeInv /\ Leaving /\ Once /\ Ordered)'
  BY StepType, StepLeaving, StepOnce, StepOrdered
<1>3. Ordered => OrderKept
  BY DEF Ordered, OneWorker, InLine, RisingFile, OrderKept
<1> QED
  BY <1>1, <1>2, <1>3, PTL DEF Spec
=============================================================================
