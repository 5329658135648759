# A TLA+ development of the RDB encoder, decoder and tools

The repository is a Go library and command line tool for Redis and Valkey RDB
files: it decodes a file into objects handed to a callback, encodes objects
into a file, and builds reports and conversions (JSON, AOF, memory, big keys,
hot keys, prefixes, flame graph) on top of the decoder.

## Inventory

| Component | State | Operations | Talks to |
|---|---|---|---|
| Encoder (`core/encoder.go`) | `state`, `existDB`, the running checksum, the writer's position | `WriteHeader`, `WriteAux`, `WriteDBHeader`, `Write...Object`, `WriteEnd` | calls the object writers and an `io.Writer` that may fail |
| Object writers (`core/string.go`, `list.go`, `set.go`, `zset.go`, `hash.go`, `stream.go`) | none | one per type, choosing an encoding | `Encoder.write` |
| Decoder (`core/decoder.go`) | the reader's position, the locals of `parse`: `dbIndex`, `expireMs`, `lru`, `lfu` | `Parse`: one loop iteration per opcode or key | reads an `io.Reader`, calls the value readers and the callback |
| Codecs (`core/string.go`, `listpack.go`, `ziplist.go`, `lzf`) | a cursor into a buffer | write and read one length, string or entry | object writers, value readers |
| Value readers (`core/list.go`, `set.go`, `zset.go`, `hash.go`, `stream.go`) | the counter of a loop, the result so far | one per encoding, those of Redis included | `Decoder` |
| Module values (`core/module.go`) | none | the handler registered for a module type, or skipping | `Decoder` |
| JSON pipeline (`helper/json.go`) | two bounded channels, two wait groups, `err`, `empty`, the output file | `ToJsons`: a parser goroutine, `concurrent` workers, a writer, the caller | `Decoder.Parse` with a callback that sends on a channel |
| Filters (`helper/regex.go`) | the stacked decorators | wrap the callback | between `Decoder` and every tool |
| Prefix tree (`helper/radix.go`, `prefix.go`) | the nodes with their counters, the queue of the walk | insert, traverse, report | `Decoder` callback, top list |
| Separator analysis (`helper/prefix_stream.go`) | a map from prefix to counters | count a key under its prefixes, sort, cut | `Decoder` callback |
| Top lists (`helper/toplist.go`, `bigkey.go`, `hotkey.go`) | a list in descending order, cut at N | add, print | `Decoder` callback |
| Flame graph (`helper/flamegraph.go`) | a tree of key parts | insert, trim, serve | `Decoder` callback |
| AOF conversion (`helper/resp.go`, `converter.go`) | none | commands per object | `Decoder` callback |
| Memory profiler (`memprofiler`) | none | size formulas per type and encoding | `Decoder` |
| Command line (`cmd.go`) | flags | dispatch | the tools |

Where it is hard: encoder calls in any order with writes that fail half-way and
a caller that goes on; state carried from one loop iteration of the decoder to
the next, on input that may be cut or damaged anywhere; the interleavings of
the JSON pipeline, whose goroutines share a variable besides the channels; and,
in the codecs, widths and boundaries that a writer and a reader must agree on.
`PROJECT.json` lists these hazards line by line, with the properties that cover
them.

## Modules

### The file

`RdbTokens` - the vocabulary of the two sides. A file is a sequence of tokens,
one per opcode, length, string, timestamp or value; a token left half-written by
a failed write is `torn`, a header or operand that does not parse is `bad`. `Follows` is
the grammar of the format; `InForce` and `ObjectBefore` say, of the file alone,
which database, expiration, idle time or frequency applies at a place in it.

`Encoder` - one action per method. `state`, `existDB`, `crc` are the fields of
the Go struct, `out` what reached the writer; `StateChanges` is the table
`stateChanges`. Each method is its state check, then its writes in order; every
one of them may fail with nothing or a piece of the token written, the method
returns with the fields as they are at that line, and the caller may go on.
`WriteObjectRefused` is an object call with several `TTLOption`s: the first is
written, the second refused. Histories (`callerDB`, `acked`, `dirty`, `faults`)
record what the caller was told.

`Decoder` - one action per branch of the loop of `parse`, with `checkHeader`
before and the checksum after it. The input is a constant set of files. The
conversions of timestamps, database numbers and idle times keep their width
(`ToInt64`, scaled by the constants): from 2^63 on they are negative, as `int(dbIndex64)`
and `int64(idle)` are. `lru`, `lfu` and an expiration are pointers, empty for nil.
A value reads back as itself but for those of `ReadAs`, which has all outcomes
(`Outcomes`) of the values that `Values` finds to be refused, misread or fatal to the
profiler, which `parse` calls before the callback: an error or panic there ends
`Parse` with an error (`ReadObject`). The callback answers as it likes.

`Snapshot`, `RoundTrip` - what saving and loading promise together, and the
composition of `Encoder` and `Decoder` over one file that a crash may cut after
any token. The program stops calling the encoder at the first error, as
`examples/encode` does; what a program that goes on can produce is `Encoder`'s
own subject. An entry that was saved may come back in any of its `Forms`, one form
for all values but those of `ReadAs`; nothing else about it may change. `RoundTrip`
is shown to implement `Snapshot`.

### The values

In the modules above a value is one token. What is inside it is the subject of
these, which know the bytes:

`Bytes` - integers of fixed width as they go into a buffer and come out again,
signed and unsigned, in both byte orders. A string is the decimal form of an
integer (`Num`) or another text, spelled out where LZF looks into it and
otherwise a name with a length.

`StringCodec` - lengths, integer strings and plain strings. What is written is a
sequence of items (a head, a body, a page of cells); a reader that meets another
item than it needs, or a body of another length, stands in the middle of
something, and what it then reads is arbitrary: the model calls the value `lost`
and says nothing more about it. An error the reader returns itself is `refused`.

`Lzf` - `Compress` as all outputs it can have, whatever its hash table holds from
earlier input, and `Decompress`; the format depends on two constants.

`ListPack`, `ZipList` - one entry of each as a cell: the bytes of its header,
its content, its back length (or the length of the entry before it). Encoder and
reader are separate definitions, from the two sides of the code. `RedisInt` and
`RedisCell` are what Redis itself writes, which the reader must take as well.

`ValueFile` - the state of one value on its way: `object` given to the encoder,
`file` the items, `reader` the locals of the loop that reads them, `got` its
result. `StringValue`, `ListValue`, `TableValue` (hashes, sets, sorted sets, field
expirations), `StreamValue`, `RedisValue` (listpacks, zipmaps, module values) each
add the writing of one kind of value and one action per turn of the decoder's
loop; map order is a choice. `StringValue` also has a write that fails in the
middle, which `writeString` takes for "does not compress". `ListValue` has the walk
of `memprofiler/list.go` over a quicklist. `Values` composes them.

### The tools

`Conversion`, `JsonPipeline` - what a conversion promises, and `ToJsons` with
its goroutines. Receiving, marshalling, sending, writing and testing `err` are
steps of their own, so the parser's assignment of the shared `err` can come
between a write and its test. `Conversion` has an array by place: which objects
are written or given up, each once. `JsonPipeline` is shown to implement it, its
liveness included.

`RadixTree`, `TopList`, `PrefixAnalysis` - the prefix command. The nodes of the
tree are records in a sequence, a child is an index into it, and `insert` is one
action per iteration of its loop (`Descend`, `EndAtNode`, `AddChild`, each with
the split it may need before). `PrefixAnalysis` adds the parse before and the
breadth-first walk, the top list and the rows after, up to the panic of
`parseNodeKey`. Characters are numbers: digits, the space, key bytes. `Prefixed`,
`Below` and `SizeOf` say from the words alone what the tree has to hold.

`Strings` - the functions of Go's `strings` the tools split keys with.

`KeyRanking` - `bigkey` and `hotkey`: one action per object of the file, with the
list of `TopList`. `Positions` is all that `sort.Search` promises of any list, not
what it returns for a sorted one; that the list is sorted is proved.

`SepPrefix` - `prefix -prefix-sep`: splitting with `strings.SplitN`, the flat map,
the unstable sort.

`FlameTree` - `flamegraph`: the tree of key parts, and `trimData` one node of its
queue at a time.

`AofConversion` - `ToAOF`: the commands of every type, a write that fails and is only
printed, and a server (external) that loads the file.

`Analyses` - the composition of the filters of `regex.go` with these five commands
as `cmd.go` dispatches to them, and with `ToAOF` as a program calls it. `wrapDecoder` is
the stack of decorators, `Passes` what each hands on, `Wanted` what the options ask
for. `asked` are the options given, `options` those that arrive at `wrapDecoder`: the
same, but none for the command `aof` (`Passed`), as `cmd.go:150` passes them to `ToAOF`
as one argument.

### Proofs and instances

`EncoderProofs`, `DecoderProofs` and `JsonPipelineProofs` hold the theorems about
the module they are named after, `AnalysesProofs` those about `Analyses` and the
two analyses in it that are proved, `KeyRanking` and `SepPrefix`, `CodecProofs`
those about the codecs (`Bytes`, `ListPack`, `ZipList`, `StringCodec`, `Lzf`), `ValueProofs` those
about the values made of them (`StringValue`, `ListValue`, `TableValue`,
`RedisValue`). `PrefixAnalysisProofs` has the lemmas about `RadixTree` and what each
iteration of `insert` does to it, and the theorems of the prefix command. `RoundTripProofs` takes the lemmas about
encoder and decoder as instances of the first two, as `RoundTrip` takes its two
halves. The `MC...` modules instantiate the others for TLC. Operators whose name has an
underscore (`Signed13_OffByOne`) are plausible mistakes, kept beside the
definition they would replace: with one of them in place the property of the same
part must fail.

## What the runs show

| Run | Question | Instance |
|---|---|---|
| `encoder` | Is every file in the format, every database selected once and not left empty, is the checksum the one of the file, and is the file what was acknowledged? | 2 databases, 1 key, 2 encodings of a hash, up to 2 `TTLOption`s per call, 2 failing writes, 19 tokens: a header, two databases with an object and an expiration each, the end |
| `decoder` | Does every key arrive once, with its own database and attributes, does a callback that says stop get nothing more, does `Parse` return on every input and with an error unless it saw the end? | all files of up to 2 items of all 18 kinds and of up to 4 of the 7 common ones; all prefixes, and all files with one damaged header or operand, of those with 2; lengths beyond half of `Int64`, and values that are refused, misread or either |
| `roundtrip` | Do encoder and decoder together return a beginning of what was saved, and everything from a finished file, but for values that are refused or misread? | as `encoder`, with lists and hashes with field expirations, one value of which is refused or comes back as another, 1 failing write |
| `values` | Does a value of any type come back as it is, from the encoder or from Redis, but for the cases the properties name, and do the decoder's loops end? | integers and lengths on both sides of every width; lists of up to 4 of 6 elements and long ones; hashes, sets and sorted sets in every order; streams with one message at each of 28 distances, and whole ones in 3 versions; module values of up to 3 parts; all texts over 2 letters of length 5 and 6 and periodic ones for LZF; 1 failing write |
| `json` | Does the pipeline write or give up every object exactly once, close its channels in order, keep the order with one worker, and always come to its end? | 1 to 3 workers, up to 4 objects, channels of capacity 2 and 1, an object that does not marshal, 2 failing writes, a parse that fails or not |
| `prefix` | Does the radix tree count every prefix exactly, whatever the order of the keys, stay linked, end its loops, and is the report the largest of the depths asked for? | files of up to 3 of 6 keys of databases 1, 10 and 100 with repetitions, sizes 1 and 2, `-n` -1, 0 and 2, `-max-depth` 0 and 1 |
| `analyses` | Does the command behind the filters see exactly what the options ask for; does it report the first N, the largest groups, a tree whose values add up; does a server that loads the file of `ToAOF` have what the filters let through? | files of up to 4 of 5 keys: ties, no LFU information, expirations before, at and after now and one that overflows; 6 sets of filters, 3 of separators; for `aof` and `ToAOF` up to 3 objects of every type and 1 failing write |

Deadlock is checked in `json` (a `Returned` self-loop stands for the finished
call); the other systems stop when the file is finished or `MaxLen` reached.

The bounds are where the cases happen: two databases for a repeated or empty
one; two `TTLOption`s for the refused second; two faults for a retry that fails
again; three items for an attribute, an opcode between and the key, a fourth for
the next key; channels smaller than the number of objects so that parser and
workers block. Three keys are enough for a split of a node that a split made, for
a repeated key and for a node inside database numbers; four objects for a list of
two to drop an entry and then tie with it. `MaxLen`, `MaxFaults`, `MaxObjects`,
`MaxTTLs`, `MaxItems`, `LongItems`, `MaxInserts` and `MaxAof` are the only bounds
on behaviours.

Other constants are the program's own, scaled down so that TLC meets the
boundary: `Int64`, `MaxInt`, `MsPerSec`, `NsPerMs` (an overflow is a small number);
in `values` `MaxLit`, `LongMark` and `LzfMin` (the control bytes of LZF and its
smallest input), `CountMod` (8 for the 65536 at which the count of a page wraps),
`PageSize` (100 bytes for 4096), `MaxEntries` and `MaxValue` (of a compact
encoding), `ExpireMax`, `ZipMapBig` (4 for the 254 of a zipmap); in `analyses`
`TrimThreshold` and `bigNodeThreshold`. The widths of integers, lengths and
headers are the real ones; the integers of the instance stay within the 32 bits
of TLC, and `CodecProofs` has the rest.

Five runs refute statements of the source:

- `decoder_cut`: "Parse Aux value failed" (`decoder.go:449`). The error is built in
  a shadowed variable; `Parse` returns nil for a file cut in an aux value.
- `json_race`: "ToJsons read rdb file and convert to json file" (`json.go:25`).
  The parser's error arrives between the writer's write and its test of `err`;
  the array is left with a trailing separator, and `ToJsons` returns nil.
- `prefix_names`: "if key is db root, index+1 == len(key)" (`radix.go:130`). With
  keys in databases 10, 11 and 100 the tree has a node `10`, without a space;
  `parseNodeKey` slices at -1 and the command panics.
- `stream_ids`: "ms and seq may be negative" (`stream.go:171`). `encodeListPackInt`
  writes -127..-1 in one byte and -8191..8191 in 13 bits, whose sign the reader
  takes at 4096: such a distance between a message and the first of its entry
  makes the stream unreadable or changes its ids.
- `aof_filters`: "-regex using regex expression filter keys" (`cmd.go:24`), `-expire`
  and `-size` below it. `cmd.go:150` lacks the dots behind `options`, and `aof` converts
  the whole file; `ToAOF` itself filters, as `TestToAofWithRegex` asks
  (`converter_test.go`).

What the passing runs claim is stated around these and around other limits of the
code, each named in the property it bounds:

- `FileAsAcked` as long as no call failed half-way: an object call that is refused
  or fails behind its expiration leaves that in the file, and the next object,
  written without a `TTLOption`, has it (`encoder.go:284`).
- `GrammarKept` as long as no write failed: when that of the checksum does, the EOF
  opcode is in the file and the state unchanged; a retry of `WriteEnd`, or an
  object, goes behind the opcode at which the decoder stops, and returns nil
  (`encoder.go:246`).
- `NilOnlyAtEnd` with its two exceptions, the second operands of `Aux` and
  `ResizeDB`.
- `FinishedFileLoads` where `Parse` fails only at a value that its reader or the
  profiler refuses.
- `WellFormedJson` when `Parse` succeeds.
- `ReportOfLargest` for a report that was finished, with depths counted in nodes of
  the tree as the code does: depth 2 is skipped as "database root" (`prefix.go:64`),
  so a database with a single key, or the common prefix of the keys of the only
  database, is not reported.
- `FilteredInOrder` when every expiration fits an int64 of nanoseconds: `anyexpire`
  is a range from 0 on (`regex.go:254`), and a wrapped time can come out before
  1970.
- `AofRebuilds` for every call of `ToAOF` and for `aof` without filters: the
  databases are merged into one (no `SELECT`), deleted messages of a stream are
  added again, a failed write is only printed; with filters, when every expiration
  fits an int64 of nanoseconds.
- `FlameAddsUp` where the gathered "others" replaces a child already called so, with
  everything below it.
- `StringReadBack` unless a write failed inside a compressed form.
- `ListReadBack` unless a page cannot count its entries or an element has 16384
  bytes or more. The header of such an element is written as 9 bytes, little endian
  (`ziplist.go:153`), and read as 5, big endian; lists put every element into a
  ziplist, so that the list is lost, although `ziplist.go:160` calls only a string
  beyond 32 bits too large.
- `TableReadBack` unless the options of the caller put more into one ziplist than it
  can count.
- `QuicklistSized` where the profiler panics exactly when a listpack comes behind a
  plain node; `Parse` recovers and returns an error, for every command, as it sizes
  every object it delivers.
- `StreamReadBack` where empty fields come back as "0".

## Fairness

`Decoder` and `Values`: `Parse` and the calls around it are one goroutine that
always takes its next step (`WF_vars(Next)`); reads and callbacks return.
`JsonPipeline`: weak fairness for each goroutine, which the Go scheduler gives a
goroutine that stays ready to run; nothing stronger is needed because each
blocked operation stays enabled until it is taken or another worker takes the
object, and then objects run out. `PrefixAnalysis` is one goroutine as well.
`Encoder`, `RoundTrip` and `Analyses` state no liveness: the caller may stop at any
time.

## Proofs

Each theorem holds for all values of the constants under the assumption named in
the module that declares them (`EncoderAssumption`, `DecoderAssumption`,
`JsonAssumption`, `RankingAssumption`, `AnalysesAssumption`, `AofAssumption`, `RadixAssumption`,
`PrefixAssumption`, `RoundTripAssumption`; for the values `CountModAssumption`,
`LzfAssumption`, `StringAssumption`, `ListAssumption`, `TableAssumption`, `RedisAssumption`): bounds and
identifiers are numbers, keys are sequences of
characters, sizes natural numbers, and little more. `StringAssumption` says that a
string that may be compressed is given byte by byte, `ListAssumption` that
`listZipListSize` is positive (`encoder.go:103` sets it to 4096 and nothing changes it),
that strings of a list have lengths of 32 bits and that a plain node of a
quicklist is one value and a packed one at least one, with lengths of 32 bits and
a number of nodes that has a length encoding, `TableAssumption` that a set has each
member once, that numbers of members have a length encoding, that strings which may
go into a ziplist have lengths of 32 bits (`encodeZipListEntry` panics at longer ones)
and that an expiration plus one, and its distance to the largest, are within int64,
`RedisAssumption` that Redis
writes whole members, lengths of at most 32 bits, a number for an expiration and
module opcodes from 1 on. `DecoderAssumption` and `RoundTripAssumption` let `ReadAs` have
any outcomes of any values, as long as each has one; `AnalysesAssumption` has
`NoOptions` among the sets of filters. `RoundTripAssumption` says that a database number fits
an int64, as `int` keeps it, that an expiration is positive and that its nanoseconds
fit an int64: the decoder turns it into a `time.Time` with
`time.Unix(0, expireMs*int64(time.Millisecond))` (`decoder.go:565`), and a later one
would come back as another.

`EncoderProofs`. `TypeCorrect` has one lemma per action. `EachDbSelectedOnce`,
`EmptyDBNeverWritten` and `ChecksumCoversFile` rest on `StepAppends`: every call
appends a piece `p` to the file, and `Appended(p)` gathers what the invariants
need of it - a database number only in second place and only one newly reserved,
the end of a database header only at its end and with the state `DBHeader`, and,
when nothing in it is torn, the same piece fed to the checksum. None of the three
is inductive alone: `DbSelectedOnce` needs that the numbers in the file are in
`existDB` (`DbReserved`), `NoEmptyDB` that the file ends with a database header
only in the state `DBHeader` (`HeaderLeft`), and `ChecksumValid` that before the
end checksum and file agree (`SumOfFile`). `FileInGrammar`: with no failing write
each call appends a whole item (`CallItem`), and between calls the file is empty
or ends with one (`Boundary`).

`ReaderFindsAcked`: what is in force at a place of the file is a
`CHOOSE` of the last token that says it. The invariant names that token (`Says`,
`LastObject`), which tokens appended later cannot change, and adds what the next
object needs: that the file ends in the caller's database and that no expiration
is pending (`AckInv`). `SaveInv` gathers what holds up to the first error, at which
a saving program stops: the file can be read, the acknowledged objects are in it,
in order and no others. `CutReadable` and `CarriedCut` say what is left of that
when the end of the file is lost.

`DecoderProofs`. The invariant says that the locals of the loop are what the file
says at the reader's place (`LocalsRight`): `dbIndex` is the last database number
before it, `expireMs`, `lru`, `lfu` the last ones behind the previous object.
`InForceNext` moves this one token on. `EachObjectAsSaid` and `NoObjectMissing`
follow for whatever file, cut or damaged, and for whatever lengths: what an object
gets is the conversion of what the file says, and one of the outcomes of its value.
`NilAtEnd` and `StopsForGood` need the
same invariant for where the loop is left. `CompleteFileIsRead`: of a file in the
grammar, with nothing in it spoilt and its end in place, `Parse` returns an error only
at a value that can be refused, and nil only with every object delivered, unless the
callback stopped it. The invariant
(`WholeRead`) is that the reader is at the beginning of an item and each opcode
leaves it at the next (`WholeTurn`): no guard of the loop refuses a token that the
grammar allows.

`RoundTripProofs`. `FileImplementsSnapshot` is the refinement of `Snapshot` by the
two halves and the file between them, `FinishedFileIsLoaded` that a finished file
is loaded whole, each object in one of the forms its type byte allows, unless a value
of it is refused. The halves meet at the file: of any beginning of it the encoder's
invariant says what each object in it was acknowledged as, and the decoder's that
each object in it is delivered as the file says. `Matched`, the n-th delivered is
the n-th acknowledged, joins the two; it needs that an object's flag is the one of
its type (`FlagOfType`) and that no expiration wraps (`Unwrapped`).

`JsonPipelineProofs`. `TypeCorrect`; `ClosedAfterLastSender` from who has left and
what the wait groups count (`Leaving`); `EveryObjectSomewhere` from the fact that
no object is at two places of the pipeline at once (`Once`, `Holding`), with the
capacities (`Room`); `ArrayWellFormed` from the shape of the text between two
steps of the writer (`Text`); `StepsOfConversion`, the safety half of the
refinement. In `OrderKept` with one worker the places are in line (`InLine`):
what is written comes before what is in the second channel, that before what the
worker holds, that before what is in the first.

`AnalysesProofs`. `ListIsFirstN` is the list of `KeyRanking` by itself, for any N,
weights and number of objects. `FirstN` needs two facts beside it: that an object's
id is its place in the file, so a new object comes after all equal ones, and that N
is positive once parsing begins. `AddAtShape` says what `add` does to a list,
`PlaceParts` that in a descending list bisection parts the larger entries from the
rest; the step then follows an entry that moves up, the one that falls off, and the
objects dropped before. `RankedBehindFilters` has the same of the command among the
others: every step of `Analyses` is one of `KeyRanking` or leaves its list alone
(`StepRanks`).

`FiltersAsAsked`: what a callback has got are the objects handed on, in their order
(`ReachedInv`), and an object is handed on by the whole stack exactly when it is
asked for (`ReachesAsWanted`), of `ToAOF` as of the others. The second needs that milliseconds turned into
nanoseconds and nanoseconds into whole seconds compare as the milliseconds do
(`ExpirationOf`), as long as nothing wraps. `PrefixesCounted` and `PrefixesReported`
need that the pieces `strings.SplitN` cuts, put together again, are the beginnings
of the key up to a separator (`JoinedIs`), and that the number of pieces asked for is
right also when `maxDepth + 1` wraps to a negative number (`GroupingIs`). The
invariant `SepInv` then counts (`Counted`): under each prefix the objects it is a
prefix of and their bytes. A report is a permutation of the map (an injection of as
many places as there are entries is onto), sorted and cut.

`FlameGraphAddsUp`: before the trim the tree is `Whole`, a function of the objects
alone, and `addObject` makes of it that of one object more (`PlotGrows`). A sum over a
finite set is the number of units its members have (`SumOf`), and the fold of the
community modules is that number (`FoldIsSum`). While `trimData` runs the tree is
described by the nodes still queued (`TrimInv`): none of them begins another, below
each the tree is as it was (`Ahead`), and every inner node that is not at or below
a queued one has children that add up (`Behind`). A child "others" that was replaced
stays in the queue though the tree has nothing below it any more: such nodes are
`Gone`, and their turns change nothing (`TurnGone`).

`AofFilesRebuild` speaks of the objects handed on (`Handed`), which are the objects asked
for (`HandedAsWanted`) where the options arrive and no expiration wraps, and all of them
without options (`NoFilters`). The AOF file is the commands of one object behind those of another;
`at[i]` is where those of the first i objects end, `ord[i]` the order in which the map of
the i-th hash was walked, and `Writing` says that there are such two. Both exist in
every step and are no part of the state, so `AofInv` only says `\E at, ord`. While the
file is loaded, `LoadedAt` says for every place in it what the keyspace is: that of the
first n objects and of the first j commands of the next (`Loaded`). An object without
commands (a module value, a stream without messages) ends where the one before it does,
so that one place can belong to several n and the invariant speaks of all of them
(`NothingToLoad`). Of a key the keyspace holds what `EntryTo` makes of the objects
under it as far as they have been loaded, whenever these are alike as `Understood`
says: a list grows by each of them (`ListGrows`), a string is replaced, and anything else is
there only once (`AlikeAre`). A command leaves all other keys as they are (`PutIs`), and
each of the ways a value grows has its lemma: the fields of a hash (`HashGrows`), which
needs that they are distinct, and the messages of a stream (`AddedGrows`), which are
accepted because their ids ascend. Both are in `IsObject`, which `AofAssumption` asks
of the objects a file may hold; the rest of it is their types, and that a hash that came
without field expirations has none.

`PrefixAnalysisProofs`. The tree of `insert` holds exactly the
words and the places where words part, for any words in any order
(`EveryPrefixCounted`). The invariant `TreeInv` speaks of names, the concatenated
paths from the root: where one node's name begins another's, a child leads there
(`Linked`); every node but the root is the end of a word or a fork (`Ended`,
`Forked`); every node has counted the objects below it, the word still on its way
only as far as it has come (`Tallied`, `Passed`). `insert` is taken apart as the
code does it - split, count, grow - and each part has its lemmas, from which
those of `EndAtNode`, `Descend` and `AddChild` follow. The report
(`ReportNamesTheLargest`) rests on what depth means: a node is as deep as there are
names that begin its own, so a child is one deeper than its parent. The queue of
`traverse` holds separate subtrees in the order of their depth, no two more than
one apart (`QueueInv`); at the first node too deep all nodes still to come are
too deep, and the walk may stop. The list holds the largest of the nodes seen
(`ListInv`), and a row names its node because `parseNodeKey` undoes `genKey` and
`Atoi` the digits of a database number, which needs that all names come from keys
(`WordsAreKeys`).

Induction over numbers (over the length of a word, the digits of a number, the
nodes on a way) goes through the least counterexample: `LeastNumber` is proved
from the well-foundedness of the natural numbers, and that the recursive functions
`Digits`, `Atoi` and the one in `Joined` exist and obey their equations is proved
rather than assumed.

`CodecProofs`. For every integer of 64 bits: `ListpackIntReadsBack`,
`RedisIntReadsBack`, `ZiplistIntReadsBack` and `LengthReadsBack` say that a reader
gets back what was written and stands behind it; `ListpackStringReadsBack` says
the same of strings. The integers of a stream have an exception, the set
`Misread`, and `MisreadIsMisread` says that it is exact. The argument peels a
number byte by byte (`LowHigh`, `Rest`): n + 1 bytes are the lowest byte and a
number of n bytes, down to the signed byte at the top.

`LzfReadsBack`: whatever the hash table of
`Compress` offers, its output decompresses to the input, for any text and any two
constants of the format. The invariant of the compressor (`LzfInv`, `Between`) is that
the finished output decompresses to what has been taken of the input but for the
open run of literals, which is the rest; a reference copies bytes already there,
one by one where it overlaps itself.

`ValueProofs`, the values that are made of these. `StringsReadBack`: the invariant says what
`file` and the pieces still to be written make together (`WriteInv`): read as one
string they give the value, unless a write failed after the first piece of a
compressed form, and then no string at all. `RedisReadsBack`: after each turn `got` is
as many strings of the object as have been read and the reader stands before the
next cell or part (`ListpackRead`, `ZipmapRead`, `ModuleRead`). A zipmap's count tells
no more than `ZipMapBig` fields, so only the first `Told` strings come back, and none
of those that did is of 253 bytes or more. The module values rest on lemmas about
`Concat`, a file of parts, whose unfolding is again proved from the least
counterexample. `QuicklistsSized`: after k nodes `got` is their values in order,
`reader.nodes` their kinds and `reader.sizes` has as many places as there are packed
nodes among them (`QuickRead`), which is where the profiler goes wrong: it takes
the i-th of these for node i. `PackedPlaces` counts: every packed node's place in the
quicklist is within that number exactly when no plain node is in front of one.
`FieldExpirationsAreKept`: for some order of the map, after k turns `got` is the first k
fields of that order with the expirations `Kept` gives them, none of which was out of
range, and the file is the rest of what was written (`HashExInv`); at the end every field
was in the order once, so that `got` has as many elements as the hash. The subtraction
of the least expiration by the encoder and its addition by the reader cancel, but for
what the unsigned length encoding makes of a difference below 0.
`ListsReadBack`: the cut of the list into pages is itself an invariant (`CutIs`): every
finished page is a part of the list, together they are its beginning, and each was
below `PageSize` bytes before its last value, so that a page whose values do not fit
16 bits of count is one `CountWraps` speaks of. The reader's half (`PagesRead`) is the
same for lists and other pages: `got` is the pages behind it and the first k values of
the current one, as long as every page can count its values; a value of 16384 bytes
or more is what it stops at, and nothing else.
`TablesReadBack`: for some order of the map (`PlainOrders`), the file and what has been
read are those of that order (`PlainInv`), by the form the encoder took: a page of
pairs, read like a page of a list; an intset, whose cells give back the integers put
into them, as the width the encoder took from its least and its greatest is enough for
all of them; a table, where after k turns `got` is the first k members. Entry 2i - 1 of
the pairs is the i-th field and entry 2i its value (`PairsAre`), so that none is paired
with another's; the order is the map's members once each, so that `got` is as long as it
should be.

Only model-checked: `StreamReadBack`, a stream as a whole, of which the codecs below it are proved; and all liveness,
`ParseReturns`, `ReadEnds`, `Terminates` and the liveness half of
`ImplementsConversion`, as fairness and `ENABLED` are outside the prover's reach.

## Not modelled

- Inside lists, hashes and streams compression is taken as off; strings of their
  own have it. Both go through the same `writeString`.
- Streams of a version above 3: `TypeVersion` has them (their type byte says 1, the
  fields of version 3 follow), but the instance keeps to what the decoder can
  produce, 1 to 3.
- The text form of scores (`readLiteralFloat`) in sorted sets of old Redis versions.
- A handler registered for a module type is the caller's code.
- The size formulas of `memprofiler` (plain arithmetic) and the memory report, one
  CSV row per object.
- Flag parsing and opening files in `cmd.go`, file and network I/O, formatting
  (`bytefmt`, CSV, JSON text), the web page of the flame graph, aliases and portals.
- The arithmetic of CRC-64: the checksum is the sequence it was fed.
