--------------------------- MODULE AofConversion ---------------------------
(***************************************************************************)
(* ToAOF (helper/converter.go, resp.go): every object its callback gets    *)
(* becomes commands in an append-only file, which a server then loads into *)
(* one database.  Objects come from any database of the RDB file, and no   *)
(* SELECT separates them.                                                  *)
(*                                                                         *)
(* An object is [db, key, type, val, ms, ex]; val is a string, a sequence  *)
(* of elements or messages [id, fields, deleted] (stream), or a set of     *)
(* members, [m, s] (zset) or fields [f, v, e] (hash); ex says that the     *)
(* hash came with field expirations, 0 for none.                           *)
(***************************************************************************)
EXTENDS Strings, SequencesExt

CONSTANTS
    Millis(_),      \* UnixNano()/1e6 of the expiration the decoder made of ms
    MaxFaults       \* bound: failing writes to the output file

VARIABLES
    aof,        \* the commands in the file
    keyspace,   \* the database of the server that loads it
    loaded,     \* how many commands it has loaded
    faults      \* history: how many writes failed

aofVars == <<aof, keyspace, loaded, faults>>

AofInit == aof = << >> /\ keyspace = << >> /\ loaded = 0 /\ faults = 0

Command(name, key, arg) == [name |-> name, key |-> key, arg |-> arg]
TornCommand == Command("torn", << >>, << >>)

(***************************************************************************)
(* hashToCmd: one HMSET, and a command for every field of a hash with      *)
(* expirations, in the order of a map.                                     *)
(***************************************************************************)
hashToCmd(o, order) ==
    <<Command("HMSET", o.key, {[f |-> x.f, v |-> x.v] : x \in o.val})>>
    \o (IF o.ex
        THEN [i \in 1 .. Len(order) |->
                 Command(IF order[i].e = 0 THEN "HPERSIST" ELSE "HPEXPIREAT",
                         o.key, order[i])]
        ELSE << >>)

streamToCmd(o) == [i \in 1 .. Len(o.val) |-> Command("XADD", o.key, o.val[i])]

makeExpireCmd(o) ==
    IF o.ms = 0 THEN << >> ELSE <<Command("PEXPIREAT", o.key, Millis(o.ms))>>

ValueCommands(o, order) ==
    CASE o.type = "string" -> <<Command("SET", o.key, o.val)>>
      [] o.type = "list" -> <<Command("RPUSH", o.key, o.val)>>
      [] o.type = "set" -> <<Command("SADD", o.key, o.val)>>
      [] o.type = "zset" -> <<Command("ZADD", o.key, o.val)>>
      [] o.type = "hash" -> hashToCmd(o, order)
      [] o.type = "stream" -> streamToCmd(o)
      [] OTHER -> << >>     \* a module value

\* Bug: the expiration before the key is there.
ObjectToCmd_ExpireFirst(o, order) == makeExpireCmd(o) \o ValueCommands(o, order)

ObjectToCmd(o, order) == ValueCommands(o, order) \o makeExpireCmd(o)

Orders(o) == IF o.type = "hash" /\ o.ex THEN SetToSeqs(o.val) ELSE {<< >>}

(***************************************************************************)
(* The callback of ToAOF: the commands of an object in one Write.  A       *)
(* failing one leaves a beginning of them; it is printed, and the          *)
(* conversion goes on.                                                     *)
(***************************************************************************)
Convert(o) ==
    /\ \E order \in Orders(o) : aof' = aof \o ObjectToCmd(o, order)
    /\ UNCHANGED <<keyspace, loaded, faults>>

ConvertFails(o) ==
    /\ faults < MaxFaults
    /\ \E order \in Orders(o) :
           LET cmds == ObjectToCmd(o, order) IN
           \E n \in 0 .. Len(cmds) - 1, piece \in {<< >>, <<TornCommand>>} :
               aof' = aof \o SubSeq(cmds, 1, n) \o piece
    /\ faults' = faults + 1
    /\ UNCHANGED <<keyspace, loaded>>

-----------------------------------------------------------------------------
(***************************************************************************)
(* The server (external): the type and value of a key, and its expiration, *)
(* 0 for none.  A command on a key of another type is an error and does    *)
(* nothing; a torn command ends the loading.                               *)
(***************************************************************************)
Exists(key) == key \in DOMAIN keyspace

TypeFor(cmd) ==
    CASE cmd.name = "SET" -> "string" [] cmd.name = "RPUSH" -> "list"
      [] cmd.name = "SADD" -> "set" [] cmd.name = "ZADD" -> "zset"
      [] cmd.name = "XADD" -> "stream" [] OTHER -> "hash"

EmptyOf(type) == IF type \in {"hash", "set", "zset"} THEN {} ELSE << >>

Fields(val, fields, e) ==
    {x \in val : \A y \in fields : x.f # y.f}
    \cup {[f |-> y.f, v |-> y.v, e |-> e] : y \in fields}

Grown(val, cmd) ==
    CASE cmd.name = "SET" -> cmd.arg
      [] cmd.name = "RPUSH" -> val \o cmd.arg
      [] cmd.name = "SADD" -> val \cup cmd.arg
      [] cmd.name = "ZADD" -> {x \in val : \A y \in cmd.arg : x.m # y.m} \cup cmd.arg
      [] cmd.name = "HMSET" -> Fields(val, cmd.arg, 0)
      [] cmd.name = "HPEXPIREAT" -> Fields(val, {cmd.arg}, cmd.arg.e)
      [] cmd.name = "HPERSIST" -> Fields(val, {cmd.arg}, 0)
      [] OTHER -> Append(val, [id |-> cmd.arg.id, fields |-> cmd.arg.fields])

\* XADD wants ascending ids and at least one field.
Accepted(val, cmd) ==
    cmd.name = "XADD" =>
        /\ cmd.arg.fields # {}
        /\ val # << >> => val[Len(val)].id < cmd.arg.id

Applied(cmd) ==
    LET type == TypeFor(cmd)
        old == IF Exists(cmd.key) THEN keyspace[cmd.key]
               ELSE [type |-> type, val |-> EmptyOf(type), ms |-> 0]
        entry == IF cmd.name = "SET"
                 THEN [type |-> "string", val |-> cmd.arg, ms |-> 0]
                 ELSE [old EXCEPT !.val = Grown(old.val, cmd)]
    IN IF cmd.name = "PEXPIREAT"
       THEN IF Exists(cmd.key) THEN [keyspace EXCEPT ![cmd.key].ms = cmd.arg] ELSE keyspace
       ELSE IF cmd.name # "SET" /\ (old.type # type \/ ~Accepted(old.val, cmd))
       THEN keyspace
       ELSE [k \in DOMAIN keyspace \cup {cmd.key} |->
                IF k = cmd.key THEN entry ELSE keyspace[k]]

Loadable == loaded < Len(aof) /\ aof[loaded + 1].name # "torn"

Load ==
    /\ Loadable
    /\ keyspace' = Applied(aof[loaded + 1])
    /\ loaded' = loaded + 1
    /\ UNCHANGED <<aof, faults>>

-----------------------------------------------------------------------------
(***************************************************************************)
(* What loading shall leave of an object: messages that were deleted are   *)
(* there again if they have fields, and of a stream without messages, and  *)
(* of a module value, nothing is left.                                     *)
(***************************************************************************)
WithFields(messages) == {i \in DOMAIN messages : messages[i].fields # {}}

LeftOf(o) ==
    IF o.type = "stream"
    THEN LET places == Ascending(WithFields(o.val))
         IN [j \in DOMAIN places |-> [id |-> o.val[places[j]].id,
                                      fields |-> o.val[places[j]].fields]]
    ELSE o.val

HasCommands(o) ==
    o.type # "module" /\ (o.type = "stream" => WithFields(o.val) # {})

MsLeft(o) == IF o.ms = 0 THEN 0 ELSE Millis(o.ms)

\* The elements of the lists at these places among the first objects, one
\* behind the other.
Joined(objects, places) ==
    LET joined[n \in 0 .. Len(objects)] ==
            IF n = 0 THEN << >>
            ELSE IF n \in places THEN joined[n - 1] \o objects[n].val ELSE joined[n - 1]
    IN joined

\* What is left of the objects at these places, which share a key.  Lists
\* have become one, which expires as the last of them that expires does.
EntryOf(objects, places) ==
    LET o == objects[Max(places)]
        mortal == {i \in places : objects[i].ms # 0}
    IN IF o.type = "list"
       THEN [type |-> "list",
             val |-> Joined(objects, places)[Len(objects)],
             ms |-> IF mortal = {} THEN 0 ELSE MsLeft(objects[Max(mortal)])]
       ELSE [type |-> o.type, val |-> LeftOf(o), ms |-> MsLeft(o)]

Understood(objects, places) ==
    \/ Cardinality(places) = 1
    \/ \E t \in {"string", "list"} : \A i \in places : objects[i].type = t

Rebuilt(objects) ==
    LET under(key) == {i \in DOMAIN objects : objects[i].key = key}
    IN /\ DOMAIN keyspace =
              {objects[i].key : i \in {j \in DOMAIN objects : HasCommands(objects[j])}}
       /\ \A key \in DOMAIN keyspace :
              Understood(objects, under(key)) => keyspace[key] = EntryOf(objects, under(key))

(***************************************************************************)
(* What the objects are: the fields of a hash are distinct, and without    *)
(* field expirations none has one; the ids of a stream ascend.             *)
(***************************************************************************)
IsObject(o) ==
    /\ o.ms \in Nat /\ o.ex \in BOOLEAN
    /\ o.type \in {"string", "list", "set", "zset", "hash", "stream", "module"}
    /\ o.type = "hash" =>
           /\ IsFiniteSet(o.val) /\ o.val \subseteq [f : Nat, v : Nat, e : Nat]
           /\ \A x, y \in o.val : x.f = y.f => x = y
           /\ ~o.ex => \A x \in o.val : x.e = 0
    /\ o.type = "stream" =>
           /\ o.val \in Seq([id : Nat, fields : SUBSET (Nat \X Nat), deleted : BOOLEAN])
           /\ \A i, j \in DOMAIN o.val : i < j => o.val[i].id < o.val[j].id
=============================================================================
