------------------------------ MODULE Protocol ------------------------------
(* The way of a client's requests into the server: written, cut into reads  *)
(* of any length, fed to the parser of the connection, parsed value by      *)
(* value and handed to the command parser.                                  *)
EXTENDS Commands

CONSTANTS
    Pipelines       \* what clients send: values, and bytes that are no value

VARIABLES
    pipeline,       \* what this client sends
    fed,            \* how many of its bytes the server has read
    buffer,         \* RespParser
    position,       \* the bytes at the front of the buffer already parsed
    parsed,         \* the values parse_next has returned
    state           \* of process_read: idle, parsing, failed or dead

vars == <<pipeline, fed, buffer, position, parsed, state>>

Bytes == WriteItems(pipeline.values) \o pipeline.rest

Init ==
    /\ pipeline \in Pipelines
    /\ fed = 0
    /\ buffer = <<>>
    /\ position = 0
    /\ parsed = <<>>
    /\ state = "idle"

(* A read of n bytes. *)
Feed(n) ==
    /\ state = "idle"
    /\ fed + n <= Len(Bytes)
    /\ buffer' = buffer \o SubSeq(Bytes, fed + 1, fed + n)
    /\ fed' = fed + n
    /\ state' = "parsing"
    /\ UNCHANGED <<pipeline, position, parsed>>

Remaining == SubSeq(buffer, position + 1, Len(buffer))

(* Mutation of Compact: the position stays where it is. *)
CompactOnly(consumed) ==
    /\ position' = position + consumed
    /\ buffer' = IF 2 * (position + consumed) > Len(buffer)
                 THEN SubSeq(buffer, position + consumed + 1, Len(buffer))
                 ELSE buffer

(* What has been parsed is dropped once it is more than half of the buffer. *)
Compact(consumed) ==
    LET past == position + consumed
    IN  IF past > Len(buffer) \div 2
        THEN /\ buffer' = SubSeq(buffer, past + 1, Len(buffer))
             /\ position' = 0
        ELSE position' = past /\ UNCHANGED buffer

(* parse_next, called until it has no value or an error, which ends the     *)
(* connection.  (So does a value the command parser refuses, in module      *)
(* Connection; here the parser is followed to the end of its input.)        *)
ParseNext ==
    LET result == ParseValue(Remaining)
    IN  /\ state = "parsing"
        /\ CASE result.outcome = "value" ->
                  /\ Compact(result.consumed)
                  /\ parsed' = Append(parsed, result.value)
                  /\ UNCHANGED state
             [] result.outcome = "more" ->
                  state' = "idle" /\ UNCHANGED <<buffer, position, parsed>>
             [] result.outcome = "error" ->
                  state' = "failed" /\ UNCHANGED <<buffer, position, parsed>>
             [] result.outcome = "died" ->
                  state' = "dead" /\ UNCHANGED <<buffer, position, parsed>>
        /\ UNCHANGED <<pipeline, fed>>

Next == ParseNext \/ \E n \in 1 .. Len(Bytes) : Feed(n)

Spec == Init /\ [][Next]_vars

----------------------------------------------------------------------------
(* Properties. *)

(* How many of the values have arrived to their last byte. *)
Arrived ==
    Max({k \in 0 .. Len(pipeline.values) :
            Len(WriteItems(SubSeq(pipeline.values, 1, k))) <= fed})

(* However the input is cut into reads, the values parsed are those that    *)
(* were written, in their order, each as soon as its last byte has arrived; *)
(* and an error, or the end of the worker for an array too long to          *)
(* allocate, comes only after all of them.                                  *)
ParsedAsSent ==
    /\ parsed = SubSeq(pipeline.values, 1, Len(parsed))
    /\ state = "idle" => Len(parsed) = Arrived
    /\ state \in {"failed", "dead"} => /\ parsed = pipeline.values
                                       /\ pipeline.rest # <<>>

(* All arguments can be read in any role. *)
AllNumbers(v) == \A i \in DOMAIN Args(v) : ExtractsInteger(Args(v)[i])
                                           /\ ExtractsBytes(Args(v)[i])

(* The numbers of arguments the parser refuses and the table allows. *)
Refused(name, n) ==
    \/ name = "MSET" /\ n % 2 = 1
    \/ name = "HSET" /\ n % 2 = 0
    \/ name \in {"LPOP", "RPOP"} /\ n > 2
    \/ name = "SCAN" /\ n > 1

(* The table, by which clients learn what they may send, gives for every    *)
(* command the number of arguments the parser accepts.  It misses JSONPATCH *)
(* and CAS; QUIT accepts arguments it says it does not; and what one number *)
(* cannot say (Refused) it leaves to the parser.                            *)
ArityAsAccepted ==
    \A i \in DOMAIN parsed :
        LET v    == parsed[i]
            name == Name(v)
            n    == Len(Args(v))
        IN  IsCommand(v) =>
                /\ ParseCommand(v) =>
                       \/ name \in {"JSONPATCH", "CAS", "QUIT"}
                       \/ /\ name \in DOMAIN CommandTable
                          /\ ArityAllows(CommandTable[name], n)
                /\ (/\ name \in DOMAIN CommandTable
                    /\ ArityAllows(CommandTable[name], n)
                    /\ AllNumbers(v)) =>
                       ParseCommand(v) \/ Refused(name, n)

(* The keys of a command are where the table says, which is what a client   *)
(* that routes or rewrites commands by it relies on.                        *)
KeysAsDescribed ==
    \A i \in DOMAIN parsed :
        LET v == parsed[i]
        IN  ParseCommand(v) /\ Name(v) \in DOMAIN CommandTable =>
                KeyPositions(v) =
                    KeysDescribed(CommandTable[Name(v)], Len(Args(v)))
=============================================================================
