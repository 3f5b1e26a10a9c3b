------------------------------ MODULE Commands ------------------------------
(* What the command parser accepts (parser.rs), and what the command table  *)
(* tells clients of it (command_table.rs).                                  *)
(*                                                                          *)
(* An arm of the parser is the number of arguments it accepts, which of     *)
(* them are keys, which are read as integers, up to which they are read at  *)
(* all, and from which on they come in pairs (0 if they do not).  Flags and *)
(* categories of the table are left out.  Both compare names without case.  *)
EXTENDS Resp, Functions, TLC

Many == 1000

Fixed(n, keys, ints) ==
    [least |-> n, most |-> n, keys |-> keys, ints |-> ints, read |-> n,
     pairs |-> 0]

AtLeast(n, keys) ==
    [least |-> n, most |-> Many, keys |-> keys, ints |-> {}, read |-> Many,
     pairs |-> 0]

----------------------------------------------------------------------------
(* The arms of parse_command, in their order. *)

StringArms ==
    [GET     |-> Fixed(1, "first", {}),
     SET     |-> AtLeast(2, "first"),
     DEL     |-> AtLeast(1, "all"),
     EXISTS  |-> AtLeast(1, "all"),
     INCR    |-> Fixed(1, "first", {}),
     INCRBY  |-> Fixed(2, "first", {2}),
     DECR    |-> Fixed(1, "first", {}),
     DECRBY  |-> Fixed(2, "first", {2}),
     EXPIRE  |-> Fixed(2, "first", {2}),
     PEXPIRE |-> Fixed(2, "first", {2}),
     TTL     |-> Fixed(1, "first", {}),
     PTTL    |-> Fixed(1, "first", {})]

ServerArms ==
    [PERSIST |-> Fixed(1, "first", {}),
     MGET    |-> AtLeast(1, "all"),
     MSET    |-> [AtLeast(2, "every other") EXCEPT !.pairs = 1],
     PING    |-> [AtLeast(0, "none") EXCEPT !.read = 1],
     ECHO    |-> Fixed(1, "none", {}),
     INFO    |-> [AtLeast(0, "none") EXCEPT !.read = 1],
     CONFIG  |-> AtLeast(1, "none"),
     COMMAND |-> AtLeast(0, "none"),
     QUIT    |-> [AtLeast(0, "none") EXCEPT !.read = 0],
     FLUSHDB |-> [AtLeast(0, "none") EXCEPT !.read = 0],
     KEYS    |-> Fixed(1, "none", {}),
     SCAN    |-> AtLeast(1, "none")]

ListArms ==
    [JSONPATCH |-> Fixed(2, "first", {}),
     CAS       |-> Fixed(3, "first", {}),
     LPUSH     |-> AtLeast(2, "first"),
     RPUSH     |-> AtLeast(2, "first"),
     LPOP      |-> [Fixed(2, "first", {2}) EXCEPT !.least = 1],
     RPOP      |-> [Fixed(2, "first", {2}) EXCEPT !.least = 1],
     LLEN      |-> Fixed(1, "first", {}),
     LRANGE    |-> Fixed(3, "first", {2, 3}),
     LINDEX    |-> Fixed(2, "first", {2}),
     AUTH      |-> Fixed(1, "none", {})]

PubSubArms ==
    [SUBSCRIBE    |-> AtLeast(1, "none"),
     UNSUBSCRIBE  |-> AtLeast(0, "none"),
     PSUBSCRIBE   |-> AtLeast(1, "none"),
     PUNSUBSCRIBE |-> AtLeast(0, "none"),
     PUBLISH      |-> Fixed(2, "none", {}),
     PUBSUB       |-> AtLeast(1, "none"),
     CLIENT       |-> AtLeast(1, "none")]

(* Mutation of HashArms: a field of HSET and HDEL may be missing. *)
HashArmsLoose ==
    [HSET    |-> [AtLeast(1, "first") EXCEPT !.pairs = 2],
     HGET    |-> Fixed(2, "first", {}),
     HMGET   |-> AtLeast(2, "first"),
     HDEL    |-> AtLeast(1, "first"),
     HEXISTS |-> Fixed(2, "first", {}),
     HGETALL |-> Fixed(1, "first", {}),
     HLEN    |-> Fixed(1, "first", {}),
     HKEYS   |-> Fixed(1, "first", {}),
     HVALS   |-> Fixed(1, "first", {}),
     HINCRBY |-> Fixed(3, "first", {3})]

HashArms ==
    [HSET    |-> [AtLeast(3, "first") EXCEPT !.pairs = 2],
     HGET    |-> Fixed(2, "first", {}),
     HMGET   |-> AtLeast(2, "first"),
     HDEL    |-> AtLeast(2, "first"),
     HEXISTS |-> Fixed(2, "first", {}),
     HGETALL |-> Fixed(1, "first", {}),
     HLEN    |-> Fixed(1, "first", {}),
     HKEYS   |-> Fixed(1, "first", {}),
     HVALS   |-> Fixed(1, "first", {}),
     HINCRBY |-> Fixed(3, "first", {3})]

TransactionArms ==
    [MULTI   |-> Fixed(0, "none", {}),
     EXEC    |-> Fixed(0, "none", {}),
     DISCARD |-> Fixed(0, "none", {}),
     WATCH   |-> AtLeast(1, "all"),
     UNWATCH |-> Fixed(0, "none", {})]

Arms == StringArms @@ ServerArms @@ ListArms @@ PubSubArms @@ HashArms
            @@ TransactionArms

----------------------------------------------------------------------------
(* Arguments. *)

ExtractsBytes(v) == v.kind \in {"simple", "bulk"}

ExtractsInteger(v) == v.kind = "integer" \/ (v.kind = "bulk" /\ IsNumber(v.text))

(* The options of SET: what it does not know, and EX or PX at the end, it   *)
(* passes over.                                                             *)
RECURSIVE SetOptions(_, _)
SetOptions(args, i) ==
    \/ i > Len(args)
    \/ /\ ExtractsBytes(args[i])
       /\ IF args[i].text \in {<<"EX">>, <<"PX">>} /\ i < Len(args)
          THEN ExtractsInteger(args[i + 1]) /\ SetOptions(args, i + 2)
          ELSE SetOptions(args, i + 1)

RECURSIVE ScanOptions(_, _)
ScanOptions(args, i) ==
    \/ i > Len(args)
    \/ /\ i < Len(args)
       /\ ExtractsBytes(args[i])
       /\ \/ args[i].text = <<"MATCH">> /\ ExtractsBytes(args[i + 1])
          \/ args[i].text = <<"COUNT">> /\ ExtractsInteger(args[i + 1])
       /\ ScanOptions(args, i + 2)

(* Whether an arm accepts the arguments. *)
Fits(name, args) ==
    LET arm == Arms[name]
        n   == Len(args)
    IN  /\ n \in arm.least .. arm.most
        /\ arm.pairs # 0 => (n - arm.pairs + 1) % 2 = 0
        /\ CASE name = "SET" ->
                  /\ ExtractsBytes(args[1]) /\ ExtractsBytes(args[2])
                  /\ SetOptions(args, 3)
             [] name = "SCAN" ->
                  ExtractsBytes(args[1]) /\ ScanOptions(args, 2)
             [] OTHER ->
                  \A i \in 1 .. Min({n, arm.read}) :
                      IF i \in arm.ints THEN ExtractsInteger(args[i])
                      ELSE ExtractsBytes(args[i])

(* A value names a command if it is an array that begins with a bulk        *)
(* string.                                                                  *)
IsCommand(v) == v.kind = "array" /\ v.items # <<>> /\ v.items[1].kind = "bulk"

Name(v) == IF Len(v.items[1].text) = 1 THEN v.items[1].text[1] ELSE "unknown"

Args(v) == Tail(v.items)

(* parse_command: whether it is a command and not an error. *)
ParseCommand(v) ==
    IsCommand(v) /\ Name(v) \in DOMAIN Arms /\ Fits(Name(v), Args(v))

(* The arguments the parser takes for keys. *)
KeyPositions(v) ==
    LET keys == Arms[Name(v)].keys
        n    == Len(Args(v))
    IN  CASE keys = "none"        -> {}
          [] keys = "first"       -> {1}
          [] keys = "all"         -> 1 .. n
          [] keys = "every other" -> {i \in 1 .. n : i % 2 = 1}

----------------------------------------------------------------------------
(* The command table. *)

Entry(arity, first, last, step) ==
    [arity |-> arity, first |-> first, last |-> last, step |-> step]

OneKey(arity)  == Entry(arity, 1, 1, 1)
AllKeys(arity) == Entry(arity, 1, -1, 1)
NoKeys(arity)  == Entry(arity, 0, 0, 0)

(* Mutation of StringTable: every argument of MSET is a key. *)
StringTableMSet ==
    [GET |-> OneKey(2), SET |-> OneKey(-3), DEL |-> AllKeys(-2),
     EXISTS |-> AllKeys(-2), INCR |-> OneKey(2), INCRBY |-> OneKey(3),
     DECR |-> OneKey(2), DECRBY |-> OneKey(3), EXPIRE |-> OneKey(3),
     PEXPIRE |-> OneKey(3), TTL |-> OneKey(2), PTTL |-> OneKey(2),
     PERSIST |-> OneKey(2), MGET |-> AllKeys(-2), MSET |-> AllKeys(-3)]

StringTable ==
    [GET |-> OneKey(2), SET |-> OneKey(-3), DEL |-> AllKeys(-2),
     EXISTS |-> AllKeys(-2), INCR |-> OneKey(2), INCRBY |-> OneKey(3),
     DECR |-> OneKey(2), DECRBY |-> OneKey(3), EXPIRE |-> OneKey(3),
     PEXPIRE |-> OneKey(3), TTL |-> OneKey(2), PTTL |-> OneKey(2),
     PERSIST |-> OneKey(2), MGET |-> AllKeys(-2), MSET |-> Entry(-3, 1, -1, 2)]

ServerTable ==
    [PING |-> NoKeys(-1), ECHO |-> NoKeys(2), INFO |-> NoKeys(-1),
     CONFIG |-> NoKeys(-2), COMMAND |-> NoKeys(-1), QUIT |-> NoKeys(1),
     FLUSHDB |-> NoKeys(-1), KEYS |-> NoKeys(2), SCAN |-> NoKeys(-2)]

ListTable ==
    [LPUSH |-> OneKey(-3), RPUSH |-> OneKey(-3), LPOP |-> OneKey(-2),
     RPOP |-> OneKey(-2), LLEN |-> OneKey(2), LRANGE |-> OneKey(4),
     LINDEX |-> OneKey(3)]

HashTable ==
    [HSET |-> OneKey(-4), HGET |-> OneKey(3), HMGET |-> OneKey(-3),
     HDEL |-> OneKey(-3), HEXISTS |-> OneKey(3), HGETALL |-> OneKey(2),
     HLEN |-> OneKey(2), HKEYS |-> OneKey(2), HVALS |-> OneKey(2),
     HINCRBY |-> OneKey(4)]

PubSubTable ==
    [AUTH |-> NoKeys(2), SUBSCRIBE |-> NoKeys(-2), UNSUBSCRIBE |-> NoKeys(-1),
     PSUBSCRIBE |-> NoKeys(-2), PUNSUBSCRIBE |-> NoKeys(-1),
     PUBLISH |-> NoKeys(3), PUBSUB |-> NoKeys(-2), CLIENT |-> NoKeys(-2)]

TransactionTable ==
    [MULTI |-> NoKeys(1), EXEC |-> NoKeys(1), DISCARD |-> NoKeys(1),
     WATCH |-> AllKeys(-2), UNWATCH |-> NoKeys(1)]

CommandTable == StringTable @@ ServerTable @@ ListTable @@ HashTable
                    @@ PubSubTable @@ TransactionTable

(* The arity counts the name; a negative one is the least. *)
ArityAllows(entry, n) ==
    IF entry.arity < 0 THEN n + 1 >= -entry.arity ELSE n + 1 = entry.arity

(* The arguments the table says are keys; -1 is the last one. *)
KeysDescribed(entry, n) ==
    LET last == IF entry.last < 0 THEN n + 1 + entry.last ELSE entry.last
    IN  IF entry.first = 0 THEN {}
        ELSE {i \in entry.first .. last : (i - entry.first) % entry.step = 0}
=============================================================================
