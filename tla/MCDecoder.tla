----------------------------- MODULE MCDecoder -----------------------------
(***************************************************************************)
(* Small instances of Decoder for TLC: every file of at most MaxItems      *)
(* items in any order, whole, cut after any token, or with any operand     *)
(* damaged.                                                                *)
(***************************************************************************)
EXTENDS Decoder, TLC

CONSTANTS MaxItems, LongItems

Header(flavour) == <<Tok("magic", flavour)>>
Attribute(op, kind, val) == <<Tok(op, 0), Tok(kind, val)>>
Entry(flag, k, v) == <<Tok("type", flag), Tok("key", k), Tok("value", v)>>
EOFItem == <<Tok("eofOp", 0), Tok("crc", 0)>>

\* 12 ms is past the last instant of a 64-bit nanosecond clock in the scaled
\* arithmetic, 40 and 63 do not fit a signed integer.
Items == {Attribute("dbOp", "dbNum", 1), Attribute("msOp", "ms", 7),
          Attribute("secOp", "sec", 2), Attribute("freqOp", "freq", 5),
          Attribute("idleOp", "idle", 6), Entry(0, 1, 1), Entry(24, 2, 2)}

RareItems == {Attribute("msOp", "ms", 0), Attribute("msOp", "ms", 12),
              Attribute("msOp", "ms", 40),
              Attribute("dbOp", "dbNum", 40), Attribute("idleOp", "idle", 63),
              Entry(24, 2, 4), Entry(18, 1, 3), Entry(15, 2, 5),
              Attribute("functionOp", "function", 3),
              Entry(8, 1, 1), Entry(7, 2, 1),
              Attribute("moduleAuxOp", "moduleAux", 0),
              Attribute("slotInfoOp", "slotInfo", 0),
              Attribute("slotImportOp", "slotImport", 0),
              <<Tok("auxOp", 0), Tok("auxKey", 3), Tok("auxVal", 4)>>,
              <<Tok("resizeOp", 0), Tok("keyCount", 2), Tok("ttlCount", 1)>>}

\* An empty hash with field expirations is refused, a quicklist2 of plain and
\* packed nodes makes the profiler panic, a stream of some distances between its
\* ids is misread or refused.
MCReadAs == <<24, 4>> :> {None} @@ <<18, 3>> :> {None} @@ <<15, 5>> :> {6, None}

Flatten(ss) == LET cat[n \in 0 .. Len(ss)] ==
                       IF n = 0 THEN << >> ELSE cat[n - 1] \o ss[n]
               IN cat[Len(ss)]

Bodies(items, n) == {Flatten(b) : b \in UNION {[1 .. m -> items] : m \in 0 .. n}}

Whole == {Header(f) \o b \o EOFItem : f \in {0, 1},
                                      b \in Bodies(Items \cup RareItems, MaxItems)}
         \cup {Header(0) \o b \o EOFItem : b \in Bodies(Items, LongItems)}

Damaged(f) == {[f EXCEPT ![i] = Tok("bad", 0)] :
                  i \in {j \in 1 .. Len(f) : f[j].kind \in ({"magic"} \cup OperandKinds)
                                                 \ {"ms", "sec", "freq"}}}

Short == {Header(f) \o b \o EOFItem : f \in {0, 1},
                                      b \in Bodies(Items \cup RareItems, 2)}

MCFiles == Whole \cup UNION {Damaged(f) : f \in Short}
           \cup UNION {{SubSeq(f, 1, n) : n \in 0 .. Len(f)} : f \in Short}
           \cup {<<Tok("magic", 2)>> \o EOFItem}
=============================================================================
