-------------------------------- MODULE Lzf --------------------------------
(***************************************************************************)
(* The LZF compressor and decompressor of lzf.go, over sequences of bytes. *)
(* The numbers of the format depend on two of them: a control byte is      *)
(* below MaxLit for a run of literals, and holds a length of at most       *)
(* LongMark in the bits above for a reference (32 and 7 in the code, which *)
(* makes a byte 256).  Indexes are those of the code, from 0.              *)
(***************************************************************************)
EXTENDS Bytes, FiniteSetsExt

CONSTANTS MaxLit, LongMark

ASSUME LzfAssumption == MaxLit \in Nat \ {0} /\ LongMark \in Nat \ {0}

ByteBase == MaxLit * (LongMark + 1)
MaxOff == MaxLit * ByteBase
MaxRef == ByteBase + LongMark + 1

(***************************************************************************)
(* Compress.  The state between two turns of the loop: the index into the  *)
(* input, the finished bytes of the output and the open run of literals;   *)
(* the place of its control byte is reserved, so the output index is       *)
(* Len(out) + 1 + Len(lit).  The output is no longer than the input.       *)
(***************************************************************************)
Start == [in |-> 0, out |-> << >>, lit |-> << >>, ok |-> TRUE]

StopRun(out, lit) == IF lit = << >> THEN out ELSE out \o <<Len(lit) - 1>> \o lit

\* One more literal; a full run is closed.
AddLit(s, byte) ==
    LET lit == Append(s.lit, byte)
    IN [s EXCEPT !.in = @ + 1,
                 !.out = IF Len(lit) = MaxLit THEN StopRun(@, lit) ELSE @,
                 !.lit = IF Len(lit) = MaxLit THEN << >> ELSE lit]

Literal(s, input) ==
    IF Len(s.out) + 1 + Len(s.lit) >= Len(input)
    THEN [s EXCEPT !.ok = FALSE]
    ELSE AddLit(s, input[s.in + 1])

\* The earlier places a hash slot can hold that the code accepts.  Which of
\* them it does hold depends on collisions: any, or none.
Refs(s, input) ==
    {ref \in 1 .. s.in - 1 :
        /\ s.in - ref - 1 < MaxOff
        /\ \A k \in 1 .. 3 : input[ref + k] = input[s.in + k]}

MatchLen(s, input, ref) ==
    LET most == Min({Len(input) - s.in - 2, MaxRef})
    IN Min({n \in 3 .. Max({3, most}) :
               n >= most \/ input[ref + n + 1] # input[s.in + n + 1]})

Match(s, input, ref) ==
    LET used == Len(s.out) + 1 + Len(s.lit)
        len == MatchLen(s, input, ref) - 2
        off == s.in - ref - 1
        code == IF len < LongMark
                THEN <<off \div ByteBase + len * MaxLit>>
                ELSE <<off \div ByteBase + LongMark * MaxLit, len - LongMark>>
    IN IF used - (IF s.lit = << >> THEN 1 ELSE 0) + 4 >= Len(input)
       THEN [s EXCEPT !.ok = FALSE]
       ELSE [s EXCEPT !.in = @ + len + 2,
                      !.out = StopRun(@, s.lit) \o code \o <<off % ByteBase>>,
                      !.lit = << >>]

\* The bytes after the loop, and the end of the last run.
Finish(s, input) ==
    LET last == Iterate(Len(input) - s.in, s,
                        LAMBDA x, k : AddLit(x, input[s.in + k]))
    IN IF Len(s.out) + 1 + Len(s.lit) + 3 >= Len(input)
       THEN [s EXCEPT !.ok = FALSE]
       ELSE [last EXCEPT !.out = StopRun(@, last.lit), !.lit = << >>]

\* The states one turn leads to; a state past the loop, or failed, stays.
Turn(s, input) ==
    IF ~s.ok \/ s.in >= Len(input) - 2 THEN {s}
    ELSE {Literal(s, input)} \cup {Match(s, input, ref) : ref \in Refs(s, input)}

\* Everything Compress can return for an input of at least two bytes.
Compressions(input) ==
    LET states[k \in 0 .. Len(input)] ==
                             IF k = 0 THEN {Start}
                             ELSE UNION {Turn(s, input) : s \in states[k - 1]}
    IN {IF s.ok THEN Finish(s, input) ELSE s : s \in states[Len(input)]}

(***************************************************************************)
(* Decompress, which knows the length of what it shall produce.            *)
(***************************************************************************)
Run(d, input, n, outLen) ==
    IF Len(d.out) + n > outLen \/ d.in + 1 + n > Len(input)
    THEN [d EXCEPT !.ok = FALSE]
    ELSE [d EXCEPT !.in = @ + 1 + n,
                   !.out = @ \o SubSeq(input, d.in + 2, d.in + 1 + n)]

\* The referred bytes one by one: they may be bytes just produced.
CopyBack(out, ref, n) ==
    Iterate(n, out, LAMBDA x, k : Append(x, x[ref + k]))

BackRef(d, input, ctrl, outLen) ==
    LET long == ctrl \div MaxLit = LongMark
        low == d.in + (IF long THEN 3 ELSE 2)
        n == ctrl \div MaxLit + (IF long THEN input[d.in + 2] ELSE 0) + 2
        ref == Len(d.out) - (ctrl % MaxLit) * ByteBase - 1 - input[low]
    IN IF low > Len(input) THEN [d EXCEPT !.ok = FALSE]
       ELSE IF Len(d.out) + n > outLen \/ ref < 0 THEN [d EXCEPT !.ok = FALSE]
       ELSE [d EXCEPT !.in = low, !.out = CopyBack(@, ref, n)]

Decode(d, input, outLen) ==
    IF ~d.ok \/ d.in >= Len(input) THEN d
    ELSE LET ctrl == input[d.in + 1]
         IN IF ctrl < MaxLit THEN Run(d, input, ctrl + 1, outLen)
            ELSE BackRef(d, input, ctrl, outLen)

Decompress(input, outLen) ==
    Iterate(Len(input), [in |-> 0, out |-> << >>, ok |-> TRUE],
            LAMBDA d, k : Decode(d, input, outLen))
=============================================================================
