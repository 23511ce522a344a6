---------------------------- MODULE ValkeyRouting ----------------------------
(***************************************************************************)
(* The pure part of ValkeySinkCluster                                      *)
(* (shotover/src/transforms/valkey/sink_cluster.rs): where a command goes, *)
(* how the answers of several nodes become one, the slot map and the       *)
(* redirections.                                                           *)
(*                                                                         *)
(* An argument of a command is a string, or NotBulk if it is not a bulk    *)
(* string; SlotOf stands for the CRC16 of its hash tag.  A response is a   *)
(* frame: a value (n tells which request it answers), an integer, an error *)
(* or a redirection to a slot n and a server.                              *)
(***************************************************************************)
EXTENDS Integers, Sequences, FiniteSets, SequencesExt, FiniteSetsExt

CONSTANTS
    SlotOf,     \* the slot of an argument that is used as a key
    NoNode      \* no server

NotBulk == "not a bulk string"

Frame(t, n, server) == [t |-> t, n |-> n, server |-> server]
Value(n) == Frame("value", n, NoNode)
Integer(n) == Frame("integer", n, NoNode)
Error == Frame("error", 0, NoNode)
Lost == Frame("lost", 0, NoNode)    \* the connection went away: no frame at all

-----------------------------------------------------------------------------
(* RoutingInfo *)

Route(to, join) == [to |-> to, slot |-> 0, join |-> join]
To(to) == Route(to, "First")

ForKey(arg) ==
    IF arg = NotBulk THEN To("Unsupported")
    ELSE [to |-> "Slot", slot |-> SlotOf[arg], join |-> "First"]

KeyAt(args, i) == IF i <= Len(args) THEN ForKey(args[i]) ELSE To("Unsupported")

UnsupportedCommands ==
    {"SCAN", "SHUTDOWN", "SLAVEOF", "REPLICAOF", "MOVE", "BITOP", "CONFIG", "SLOWLOG",
     "INFO", "TIME", "HELLO"}

\* for_command_frame, of a command whose name is a bulk string.
ForCommand(args) ==
    LET name == args[1]
        has(i) == i <= Len(args) /\ args[i] # NotBulk
        streams == {i \in 1..Len(args) : args[i] = "STREAMS"}
    IN CASE name \in {"FLUSHALL", "FLUSHDB"} -> Route("AllMasters", "First")
         [] name = "DBSIZE" -> Route("AllMasters", "IntegerSum")
         [] name = "KEYS" -> Route("AllMasters", "ArrayJoin")
         [] name = "LASTSAVE" -> Route("AllNodes", "IntegerMin")
         [] name \in {"BGSAVE", "SAVE", "BGREWRITEAOF", "ACL"} -> Route("AllNodes", "First")
         [] name = "SCRIPT" ->
              IF has(2) /\ args[2] = "KILL" THEN To("Unsupported")
              ELSE Route("AllMasters", "First")
         [] name = "CLIENT" ->
              IF ~has(2) THEN To("Random")
              ELSE IF args[2] = "SETNAME" THEN To("ShortCircuitOk")
              ELSE IF args[2] = "GETNAME" THEN To("ShortCircuitNil")
              ELSE To("Unsupported")
         [] name \in UnsupportedCommands -> To("Unsupported")
         [] name \in {"EVAL", "EVALSHA"} ->
              IF ~has(3) THEN To("Unsupported")
              ELSE IF args[3] = "0" THEN To("Random") ELSE KeyAt(args, 4)
         [] name \in {"XGROUP", "XINFO"} -> KeyAt(args, 3)
         [] name \in {"XREAD", "XREADGROUP"} ->
              IF streams = {} THEN To("Unsupported") ELSE KeyAt(args, Min(streams) + 1)
         [] name = "AUTH" -> To("Auth")
         [] name \in {"ECHO", "PING"} -> To("Random")
         [] OTHER -> IF Len(args) = 1 THEN To("Random") ELSE KeyAt(args, 2)

-----------------------------------------------------------------------------
(* ResponseJoin *)

\* ResponseJoin::join; prev is no error.  A list of keys is kept as their number.
Join(join, prev, next) ==
    IF join = "First" THEN prev
    ELSE IF prev.t # "integer" \/ next.t # "integer" THEN Error
    ELSE IF join = "IntegerMin" THEN Integer(Min({prev.n, next.n}))
    ELSE Integer(prev.n + next.n)

\* One more node has answered: the fold of send_message_to_channels.
Fold(join, acc, response) ==
    IF acc # <<>> /\ acc[1].t = "error" THEN acc
    ELSE IF response = Lost THEN <<Error>>
    ELSE IF acc = <<>> THEN <<response>>
    ELSE <<Join(join, acc[1], response)>>

-----------------------------------------------------------------------------
(* SlotMap.  A range of slots is [start, end, master, replicas]; a master   *)
(* whose address is not known is NoNode.                                    *)

Insert(map, end, host) ==
    [e \in DOMAIN map \cup {end} |-> IF e = end THEN host ELSE map[e]]

EmptyMap == [e \in {} |-> NoNode]
EmptySlots == [masters |-> EmptyMap, replicas |-> EmptyMap, nodes |-> {}]

\* Variant: the ranges are kept by their first slot.
ToIntervalMapByStart(entries) ==
    FoldLeft(LAMBDA map, e : Insert(map, e.start, e.host), EmptyMap, entries)

ToIntervalMap(entries) ==
    FoldLeft(LAMBDA map, e : Insert(map, e.end, e.host), EmptyMap, entries)

SlotEntry(range, host) ==
    IF host = NoNode THEN <<>>
    ELSE <<[host |-> host, start |-> range.start, end |-> range.end]>>

\* parse_slots and SlotMap::from_entries.
ParseSlots(ranges) ==
    LET masters == FlattenSeq([i \in DOMAIN ranges |-> SlotEntry(ranges[i], ranges[i].master)])
        replicas ==
            FlattenSeq([i \in DOMAIN ranges |->
                FlattenSeq([j \in DOMAIN ranges[i].replicas |->
                    SlotEntry(ranges[i], ranges[i].replicas[j])])])
    IN [ok |-> masters # <<>> /\ \A i \in DOMAIN ranges : ranges[i].start <= ranges[i].end,
        slots |-> [masters |-> ToIntervalMap(masters),
                   replicas |-> ToIntervalMap(replicas),
                   nodes |-> {e.host : e \in ToSet(masters \o replicas)}]]

\* masters.range(slot..).next(): the node of a slot.
MasterOf(slots, slot) ==
    LET ends == {e \in DOMAIN slots.masters : e >= slot}
    IN IF ends = {} THEN NoNode ELSE slots.masters[Min(ends)]

\* The values of a BTreeMap, in the order of its keys.
Values(map) ==
    LET ends == SetToSortSeq(DOMAIN map, <)
    IN [i \in DOMAIN ends |-> map[ends[i]]]

=============================================================================
