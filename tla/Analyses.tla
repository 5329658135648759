------------------------------ MODULE Analyses ------------------------------
(***************************************************************************)
(* The commands bigkey, hotkey, prefix -prefix-sep, flamegraph and aof of  *)
(* cmd.go behind the filters of helper/regex.go: wrapDecoder stacks a      *)
(* decoder per option around the decoder of the file, each hands an object *)
(* on or swallows it, and the command's callback gets what is left.        *)
(* KeyRanking, SepPrefix, FlameTree and AofConversion are the callbacks.   *)
(* ToAOF of helper/converter.go filters like the others, and the package   *)
(* exports it: a program may call it.  The command aof passes its options  *)
(* to ToAOF as one argument (cmd.go:150), which wrapDecoder does not know. *)
(*                                                                         *)
(* An expiration is read in milliseconds and converted to nanoseconds in   *)
(* 64 bits; the filters compare nanoseconds or whole seconds.              *)
(***************************************************************************)
EXTENDS KeyRanking, Strings

CONSTANTS
    FileObjects,    \* the objects a file may hold: [db, key, size, freq, matches, ms]
    AofObjects,     \* those the file for ToAOF may hold, with their values
    FlameObjects,   \* those the file for flamegraph may hold
    OptionSets,     \* the filter options tried
    SeparatorLists, MaxDepths, MaxInt,  \* of SepPrefix
    Now,            \* the time of the call, in milliseconds
    MsPerSec, NsPerMs,  \* units of time
    Int64,          \* 2^64: integers are taken modulo it
    DefaultSep, Others, TrimThreshold, bigNodeThreshold,    \* of FlameTree
    MaxAof, MaxFaults       \* of AofConversion; bound: objects in its file

\* "illegal" stands for options with an expression that does not parse.
ExpireKinds == {"off", "noexpire", "anyexpire", "range", "illegal"}

NoOptions ==
    [regex |-> FALSE, noExpired |-> FALSE, expire |-> [kind |-> "off"], size |-> [on |-> FALSE]]

ASSUME AnalysesAssumption ==
    /\ FileObjects \subseteq [db : Nat, key : Seq(Nat), size : Nat, freq : Weights,
                              matches : BOOLEAN, ms : Nat]
    /\ {o.size : o \in FileObjects} \subseteq Weights
    /\ FlameObjects \subseteq [db : Nat, key : Seq(Nat), size : Nat, freq : Weights,
                               matches : BOOLEAN, ms : Nat]
    /\ \A opts \in OptionSets :
           /\ opts.regex \in BOOLEAN /\ opts.noExpired \in BOOLEAN
           /\ opts.expire.kind \in ExpireKinds
           /\ opts.expire.kind = "range" => opts.expire.lo \in Int /\ opts.expire.hi \in Int
           /\ opts.size.on \in BOOLEAN
           /\ opts.size.on => opts.size.lo \in Int /\ opts.size.hi \in Int
    /\ NoOptions \in OptionSets
    /\ SeparatorLists \subseteq Seq(Nat) /\ MaxDepths \subseteq -MaxInt - 1 .. MaxInt
    /\ Now \in Nat
    /\ MaxInt \in Nat \ {0} /\ Int64 \in Nat \ {0}
    /\ MsPerSec \in Nat \ {0} /\ NsPerMs \in Nat \ {0}

VARIABLES
    command,    \* the command given, or ToAOF
    asked,      \* the filter options given with it
    options,    \* those that arrive at wrapDecoder
    separators, maxDepth, prefixes, rows, grouped,  \* of SepPrefix
    tree, count, queue, \* of FlameTree
    aof, keyspace, loaded, faults,  \* of AofConversion
    file        \* history: the objects of the file so far

sepVars == <<separators, maxDepth, prefixes, rows, grouped>>
flameVars == <<tree, count, queue>>
aofVars == <<aof, keyspace, loaded, faults>>
analysesVars == <<vars, command, asked, options, sepVars, flameVars, aofVars, file>>

Sep == INSTANCE SepPrefix
           WITH phase <- state, offered <- grouped,
                Objects <- {<<o.db, o.key>> : o \in FileObjects},
                Sizes <- {o.size : o \in FileObjects}

Flame == INSTANCE FlameTree

\* An expression that does not parse is an error of wrapDecoder.
Legal(opts) == opts.expire.kind # "illegal"

Commands == {"bigkey", "hotkey", "prefix", "flamegraph", "aof", "ToAOF"}
Ranking == command \in {"bigkey", "hotkey"}
Converting == command \in {"aof", "ToAOF"}

\* main: aof wraps the options once more, and none of them arrives.
Passed(cmd, opts) == IF cmd = "aof" THEN NoOptions ELSE opts

\* Options a command does not look at have one value.
AnalysesInit ==
    /\ Init
    /\ Sep!Init /\ Flame!FlameInit
    /\ aof = << >> /\ keyspace = << >> /\ loaded = 0 /\ faults = 0
    /\ command \in Commands
    /\ hot = (command = "hotkey")
    /\ command # "prefix" => maxDepth = 0
    /\ command \notin {"prefix", "flamegraph"} => separators = << >>
    /\ command \in {"flamegraph", "aof", "ToAOF"} => topN = 1
    /\ asked \in OptionSets /\ options = Passed(command, asked)
    /\ file = << >>

(***************************************************************************)
(* core.Decoder: an expiration of 0 is none; milliseconds become           *)
(* nanoseconds in an int64.                                                *)
(***************************************************************************)
ToInt64(n) ==
    LET m == n % Int64 IN IF 2 * m >= Int64 THEN m - Int64 ELSE m

MaxInt64 == Int64 \div 2 - 1

HasExpiration(o) == o.ms > 0
Expiration(o) == ToInt64(o.ms * NsPerMs)

\* UnixNano()/1e6, which cuts towards zero.
Millis(ms) == LET ns == ToInt64(ms * NsPerMs)
              IN IF ns < 0 THEN -(-ns \div NsPerMs) ELSE ns \div NsPerMs

Aof == INSTANCE AofConversion WITH Millis <- Millis

ASSUME AofAssumption ==
    \A o \in AofObjects : Aof!IsObject(o) /\ o.size \in Nat /\ o.matches \in BOOLEAN

\* time.Time.Unix: whole seconds.
Unix(ns) == ns \div (NsPerMs * MsPerSec)

(***************************************************************************)
(* wrapDecoder: one decorator per option.                                 *)
(* A range is [lo, hi]; "now" and "inf" are already numbers.               *)
(***************************************************************************)
wrapDecoder(opts) ==
    (IF opts.regex THEN <<[kind |-> "regex"]>> ELSE << >>)
    \o (IF opts.noExpired THEN <<[kind |-> "noExpired"]>> ELSE << >>)
    \o (CASE opts.expire.kind = "off" -> << >>
          [] opts.expire.kind = "noexpire" -> <<[kind |-> "noExpiration"]>>
          [] opts.expire.kind = "anyexpire" -> <<[kind |-> "expiration", lo |-> 0, hi |-> MaxInt64]>>
          [] opts.expire.kind = "range" -> <<[kind |-> "expiration", lo |-> opts.expire.lo,
                                                                    hi |-> opts.expire.hi]>>)
    \o (IF opts.size.on THEN <<[kind |-> "size", lo |-> opts.size.lo, hi |-> opts.size.hi]>>
        ELSE << >>)

\* Bug: a key without expiration is taken for expired.
Passes_NilExpired(d, o) ==
    CASE d.kind = "regex" -> o.matches
      [] d.kind = "noExpired" -> HasExpiration(o) /\ Expiration(o) > Now * NsPerMs
      [] d.kind = "noExpiration" -> ~HasExpiration(o)
      [] d.kind = "expiration" ->
            HasExpiration(o) /\ d.lo <= Unix(Expiration(o)) /\ Unix(Expiration(o)) <= d.hi
      [] d.kind = "size" -> d.lo <= o.size /\ o.size <= d.hi

\* Whether a decorator hands an object on.
Passes(d, o) ==
    CASE d.kind = "regex" -> o.matches
      [] d.kind = "noExpired" -> ~HasExpiration(o) \/ Expiration(o) > Now * NsPerMs
      [] d.kind = "noExpiration" -> ~HasExpiration(o)
      [] d.kind = "expiration" ->
            HasExpiration(o) /\ d.lo <= Unix(Expiration(o)) /\ Unix(Expiration(o)) <= d.hi
      [] d.kind = "size" -> d.lo <= o.size /\ o.size <= d.hi

Reaches(o) == \A i \in DOMAIN wrapDecoder(options) : Passes(wrapDecoder(options)[i], o)

\* Leaves alone what belongs to other commands.
OnlyRanking == UNCHANGED <<sepVars, flameVars, aofVars>>
OnlyPrefix == UNCHANGED <<hot, list, offered, flameVars, aofVars>>
OnlyFlame == UNCHANGED <<hot, topN, list, offered, sepVars, aofVars>>
OnlyAof == UNCHANGED <<hot, topN, list, offered, sepVars, flameVars>>
Given == UNCHANGED <<command, asked, options, file>>

Refuse ==
    /\ state = "start"
    /\ ~Legal(options)
    /\ state' = "refused"
    /\ UNCHANGED <<hot, topN, list, offered, sepVars, flameVars, aofVars>>
    /\ Given

StartRanking ==
    /\ Ranking /\ Legal(options)
    /\ Start
    /\ OnlyRanking /\ Given

StartPrefix ==
    /\ command = "prefix" /\ Legal(options)
    /\ Sep!Start
    /\ OnlyPrefix /\ UNCHANGED grouped /\ Given

\* Nothing but the options can be wrong with these.
StartOther ==
    /\ Converting \/ command = "flamegraph"
    /\ Legal(options)
    /\ state = "start"
    /\ state' = "parse"
    /\ UNCHANGED <<hot, topN, list, offered, sepVars, flameVars, aofVars>>
    /\ Given

FromFile(o) ==
    /\ state = "parse"
    /\ Len(file) < IF Converting THEN MaxAof ELSE MaxObjects
    /\ file' = Append(file, o)
    /\ UNCHANGED <<command, asked, options>>

Filtered(o) ==
    /\ FromFile(o)
    /\ ~Reaches(o)
    /\ UNCHANGED <<vars, sepVars, flameVars, aofVars>>

RankObject(o) ==
    /\ Ranking
    /\ FromFile(o)
    /\ Reaches(o)
    /\ NextObject(IF hot THEN o.freq ELSE o.size)
    /\ OnlyRanking

GroupObject(o) ==
    /\ command = "prefix"
    /\ FromFile(o)
    /\ Reaches(o)
    /\ Sep!ParseObject(<<o.db, o.key>>, o.size)
    /\ OnlyPrefix

PlotObject(o) ==
    /\ command = "flamegraph"
    /\ FromFile(o)
    /\ Reaches(o)
    /\ Flame!addObject(o, separators)
    /\ OnlyFlame /\ UNCHANGED state

ConvertObject(o) ==
    /\ Converting
    /\ FromFile(o)
    /\ Reaches(o)
    /\ Aof!Convert(o) \/ Aof!ConvertFails(o)
    /\ OnlyAof /\ UNCHANGED state

ReportRanking ==
    /\ Ranking
    /\ Report
    /\ OnlyRanking /\ Given

ReportPrefix ==
    /\ command = "prefix"
    /\ Sep!Report
    /\ OnlyPrefix /\ Given

\* Parse returns; then trimData, turn by turn.
PlotEnds ==
    /\ command = "flamegraph"
    /\ state = "parse"
    /\ state' = "done"
    /\ Flame!StartTrim
    /\ OnlyFlame /\ Given

TrimTurn ==
    /\ command = "flamegraph"
    /\ Flame!Trim
    /\ OnlyFlame /\ UNCHANGED state /\ Given

\* Parse returns and ToAOF with it; later a server loads the file.
ConvertEnds ==
    /\ Converting
    /\ state = "parse"
    /\ state' = "done"
    /\ UNCHANGED aofVars
    /\ OnlyAof /\ Given

LoadCommand ==
    /\ Converting
    /\ state = "done"
    /\ Aof!Load
    /\ OnlyAof /\ UNCHANGED state /\ Given

\* What the file of a command may hold.
Objects == IF command = "flamegraph" THEN FlameObjects
           ELSE IF Converting THEN AofObjects ELSE FileObjects

AnalysesNext ==
    \/ Refuse \/ StartRanking \/ StartPrefix \/ StartOther
    \/ ReportRanking \/ ReportPrefix
    \/ PlotEnds \/ TrimTurn \/ ConvertEnds \/ LoadCommand
    \/ \E o \in FileObjects : RankObject(o) \/ GroupObject(o)
    \/ \E o \in FlameObjects : PlotObject(o)
    \/ \E o \in Objects : Filtered(o)
    \/ \E o \in AofObjects : ConvertObject(o)

AnalysesSpec == AnalysesInit /\ [][AnalysesNext]_analysesVars

-----------------------------------------------------------------------------
GroupsCounted == Sep!GroupsCounted
LargestReported == Sep!LargestReported

(***************************************************************************)
(* What the options ask for (cmd.go:23-37), in the units of the file.      *)
(***************************************************************************)
Wanted(o) ==
    /\ asked.regex => o.matches
    /\ asked.noExpired => o.ms = 0 \/ o.ms > Now
    /\ CASE asked.expire.kind = "off" -> TRUE
         [] asked.expire.kind = "noexpire" -> o.ms = 0
         [] asked.expire.kind = "anyexpire" -> o.ms # 0
         [] asked.expire.kind = "range" ->
               /\ o.ms # 0
               /\ asked.expire.lo <= o.ms \div MsPerSec
               /\ o.ms \div MsPerSec <= asked.expire.hi
    /\ asked.size.on => asked.size.lo <= o.size /\ o.size <= asked.size.hi

Representable(o) == o.ms * NsPerMs <= MaxInt64
AllRepresentable == \A i \in DOMAIN file : Representable(file[i])

\* Where the objects asked for are in the file.
WantedPlaces == Ascending({i \in DOMAIN file : Wanted(file[i])})

\* The callback has got the objects asked for and no others, in their order.
GotWanted ==
    /\ command = "prefix" =>
           grouped = [j \in DOMAIN WantedPlaces |->
                         LET o == file[WantedPlaces[j]]
                         IN [db |-> o.db, key |-> o.key, size |-> o.size]]
    /\ Ranking =>
           offered = [j \in DOMAIN WantedPlaces |->
                         LET o == file[WantedPlaces[j]]
                         IN [id |-> j, size |-> IF hot THEN o.freq ELSE o.size]]

(***************************************************************************)
(* The stacked filters (regex.go:208-278): the callback of the command has *)
(* got the objects asked for and no others, in the order of the file, as   *)
(* long as every expiration fits an int64 of nanoseconds.                  *)
(***************************************************************************)
FilteredInOrder ==
    ~Converting /\ Legal(options) /\ AllRepresentable => GotWanted

\* The objects the filters let through, each at its place in the file.
Plotted == [i \in {j \in DOMAIN file : Reaches(file[j])} |-> file[i]]

(***************************************************************************)
(* The flame graph (flamegraph.go:82-123): before it is trimmed every node *)
(* has the size of all keys below it.  Trimming keeps the inner nodes, and *)
(* the children of each still add up to what they were, but for one slip:  *)
(* where small leaves are gathered beside a child that is itself called    *)
(* "others", that child disappears with everything below it.               *)
(***************************************************************************)
FlameAddsUp ==
    command = "flamegraph" =>
        /\ state = "parse" => Flame!Complete(Plotted, separators)
        /\ (state = "done" /\ queue = << >>) =>
               IF Cardinality(DOMAIN Plotted) >= TrimThreshold
               THEN Flame!Trimmed(Plotted, separators)
               ELSE Flame!Complete(Plotted, separators)

(***************************************************************************)
(* What a server has after loading a whole file of ToAOF (resp.go): the    *)
(* objects asked for, as LeftOf describes them and with their expirations  *)
(* as far as those fit.  Keys of several databases end up in one.  Only if *)
(* no write failed, which ToAOF prints and does not return; and a filter   *)
(* needs expirations that fit an int64 of nanoseconds.                     *)
(***************************************************************************)
WantedObjects == [j \in DOMAIN WantedPlaces |-> file[WantedPlaces[j]]]

LoadedAsAsked ==
    (/\ Converting /\ Legal(asked)
     /\ state = "done" /\ loaded = Len(aof) /\ faults = 0
     /\ asked = NoOptions \/ AllRepresentable) =>
        Aof!Rebuilt(WantedObjects)

\* It holds of every call of ToAOF, and of aof without filters.
AofRebuilds == options = asked => LoadedAsAsked

(***************************************************************************)
(* "-regex using regex expression filter keys" (cmd.go:24, with -expire    *)
(* and -size below it), of aof like of any command.  cmd.go:150 leaves out *)
(* the dots behind options, and ToAOF converts every key of the file.      *)
(***************************************************************************)
AofFiltered == LoadedAsAsked
=============================================================================
