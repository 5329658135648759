----------------------------- MODULE ValueFile -----------------------------
(***************************************************************************)
(* The state of one value on its way through a file, which the modules of  *)
(* the value types share: an object is given to the encoder (or, for what  *)
(* the encoder does not write, to Redis), its items are written, then the  *)
(* decoder reads them, one turn of a loop at a time.                       *)
(***************************************************************************)
EXTENDS StringCodec, SequencesExt

CONSTANTS
    Objects,    \* the values given to the encoder
    CountMod    \* what the number of entries in a page wraps at: 65536

ASSUME CountModAssumption == CountMod \in Nat \ {0}

IsSequence(s) == s \in Seq(ToSet(s))

VARIABLES
    object,     \* the value given to the encoder, with its options
    phase,      \* how far it is
    file,       \* the items of the value: written, then those not yet read
    reader,     \* the local variables of the decoder (of the encoder, for a string)
    got         \* what the decoder has appended to its result

vars == <<object, phase, file, reader, got>>

(***************************************************************************)
(* "lost": the decoder went on in the middle of an item, and fails or      *)
(* returns something arbitrary; "refused": it returned an error.           *)
(***************************************************************************)
Final == {"done", "lost", "refused"}
Phases == {"new", "writing", "failed", "open", "read", "groups", "sized", "panicked"}
          \cup Final

Locals == [form |-> "none", todo |-> 0, left |-> 0, page |-> << >>,
           pending |-> << >>, torn |-> FALSE, faults |-> 0, min |-> 0,
           nodes |-> << >>, sizes |-> << >>, names |-> << >>, size |-> 0]

Init ==
    /\ object \in Objects
    /\ phase = "new"
    /\ file = << >>
    /\ reader = Locals
    /\ got = << >>

Total(s) == Iterate(Len(s), 0, LAMBDA x, i : x + s[i])
SumLen(strings) == Total([i \in 1 .. Len(strings) |-> strings[i].len])
Concat(ss) == Iterate(Len(ss), << >>, LAMBDA x, i : x \o ss[i])

\* The encoder is done; the decoder stands before the items, whose type byte
\* named this form.
Written(items, form) ==
    /\ file' = items
    /\ reader' = [reader EXCEPT !.form = form]
    /\ phase' = "open"
    /\ UNCHANGED <<object, got>>

\* The decoder ends: with its result, with an error, or nowhere.
End(p) == phase' = p /\ UNCHANGED <<object, file, reader, got>>

\* The items that begin a value with a number of turns to come.
ReadCount ==
    /\ phase = "open"
    /\ IsHead(file, 1)
    /\ reader' = [reader EXCEPT !.todo = readLength(file[1].bytes).val]
    /\ file' = Tail(file)
    /\ phase' = "read"
    /\ UNCHANGED <<object, got>>

\* The value is one string that holds a page.
OnePage ==
    /\ phase = "open"
    /\ reader' = [reader EXCEPT !.todo = 1]
    /\ phase' = "read"
    /\ UNCHANGED <<object, file, got>>

(***************************************************************************)
(* A page is the string a ziplist, listpack or intset is written as.  Its  *)
(* count decides how many entries the decoder reads; the rest of the       *)
(* string is dropped.                                                      *)
(***************************************************************************)
InPage == reader.left > 0

OpenPage ==
    /\ phase = "read" /\ ~InPage /\ reader.todo > 0
    /\ file # << >> /\ file[1].p = "page"
    /\ reader' = [reader EXCEPT !.todo = @ - 1, !.left = file[1].count,
                                !.page = file[1].cells]
    /\ file' = Tail(file)
    /\ UNCHANGED <<object, phase, got>>

\* Bug: an entry that cannot be read is tried again.
TakeEntry_Retry(entry) ==
    /\ entry.is = "str"
    /\ got' = Append(got, entry.str)
    /\ reader' = [reader EXCEPT !.left = @ - 1, !.page = Tail(@)]
    /\ UNCHANGED <<object, phase, file>>

\* The next entry of the page is what `entry' says.
TakeEntry(entry) ==
    IF entry.is = "str"
    THEN /\ got' = Append(got, entry.str)
         /\ reader' = [reader EXCEPT !.left = @ - 1, !.page = Tail(@)]
         /\ UNCHANGED <<object, phase, file>>
    ELSE End(IF entry.is = "error" THEN "refused" ELSE "lost")

AllRead == phase = "read" /\ ~InPage /\ reader.todo = 0

Done == AllRead /\ End("done")

=============================================================================
