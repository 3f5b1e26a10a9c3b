----------------------------- MODULE MCProtocol -----------------------------
(* Every command, and one that does not exist, with up to four arguments;   *)
(* options; and pipelines of values whose contents look like the format.    *)
EXTENDS Protocol

One == BulkString(<<"1">>)

Request(name, args) == Array(<<BulkString(<<name>>)>> \o args)

Names == DOMAIN Arms \cup DOMAIN CommandTable \cup {"NOPE"}

Plain == {Request(name, [i \in 1 .. n |-> One]) : name \in Names, n \in 0 .. 4}

Word(w) == BulkString(<<w>>)

Options ==
    {Request("SET", <<Word("k"), One, Word("EX"), One>>),
     Request("SET", <<Word("k"), One, Word("EX"), Word("k")>>),
     Request("SET", <<Word("k"), One, Word("EX")>>),
     Request("SCAN", <<One, Word("COUNT"), One>>),
     Request("SCAN", <<One, Word("MATCH"), Word("k"), Word("COUNT"), One>>),
     Request("LRANGE", <<Word("k"), Integer(-1), Word("k")>>),
     Request("GET", <<Integer(1)>>)}

Odd ==
    {BulkString(<<"CR", "LF">>), BulkString(<<"k", "CR">>), BulkString(<<>>),
     BulkString([i \in 1 .. 12 |-> "k"]), SimpleString(<<"CR", "k">>),
     Integer(-12), NullString, NullArray, ErrorValue(<<"LF">>),
     Array(<<>>), Array(<<Array(<<One>>), NullString>>)}

Rests == {<<"k">>, <<"$", "k", "CR", "LF">>, <<"$", "0", "CR", "LF", "k", "k">>,
          <<"*", "1", "CR", "LF", "$", "1">>, <<"*", "7", "CR", "LF", "$">>}

MCPipelines ==
    [values : {<<v>> : v \in Plain \cup Options}, rest : {<<>>}]
        \cup [values : {<<v, w>> : v \in Odd, w \in Odd},
              rest : {<<>>} \cup Rests]
=============================================================================
