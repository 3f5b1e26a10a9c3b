-------------------------------- MODULE Resp --------------------------------
(* The wire format: how resp.rs parses a value from the front of a buffer   *)
(* and writes one.  A byte is a string of its own name, "CR" and "LF"       *)
(* among them; the name of a command stands for one byte.  Bytes that are   *)
(* not UTF-8 and numbers beyond 64 bits, both of them errors, are left out. *)
EXTENDS Integers, Sequences, FiniteSetsExt

CONSTANT
    MaxCapacity     \* the longest vector of values the process can be given

ASSUME CapacityAssumption == MaxCapacity \in Nat

Digits == <<"0", "1", "2", "3", "4", "5", "6", "7", "8", "9">>

IsDigit(b) == \E i \in DOMAIN Digits : Digits[i] = b

DigitValue(b) == (CHOOSE i \in DOMAIN Digits : Digits[i] = b) - 1

Unsigned(s) == IF s # <<>> /\ s[1] \in {"+", "-"} THEN Tail(s) ELSE s

(* What i64's parse accepts. *)
IsNumber(s) == Unsigned(s) # <<>> /\ \A i \in DOMAIN Unsigned(s) : IsDigit(Unsigned(s)[i])

RECURSIVE Decimal(_)
Decimal(s) ==
    IF s = <<>> THEN 0
    ELSE 10 * Decimal(SubSeq(s, 1, Len(s) - 1)) + DigitValue(s[Len(s)])

NumberIn(s) == (IF s[1] = "-" THEN -1 ELSE 1) * Decimal(Unsigned(s))

RECURSIVE Format(_)
Format(n) ==
    IF n < 0 THEN <<"-">> \o Format(-n)
    ELSE IF n < 10 THEN <<Digits[n + 1]>>
    ELSE Format(n \div 10) \o Format(n % 10)

----------------------------------------------------------------------------
(* Values. *)

SimpleString(text) == [kind |-> "simple", text |-> text]
ErrorValue(text)   == [kind |-> "error", text |-> text]
Integer(n)         == [kind |-> "integer", number |-> n]
BulkString(text)   == [kind |-> "bulk", text |-> text]
NullString         == [kind |-> "null string"]
Array(items)       == [kind |-> "array", items |-> items]
NullArray          == [kind |-> "null array"]

----------------------------------------------------------------------------
(* Parsing.  An outcome is a value with the number of bytes it takes, the   *)
(* need of more bytes, an error, or the end of the worker: it panics, or    *)
(* the process aborts.                                                      *)

Parsed(value, consumed) ==
    [outcome |-> "value", value |-> value, consumed |-> consumed]
More == [outcome |-> "more"]
Bad  == [outcome |-> "error"]
Died == [outcome |-> "died"]

(* Where the first CR LF is; 0 if there is none (yet). *)
FindCrlf(buf) ==
    LET ends == {i \in 1 .. Len(buf) - 1 : buf[i] = "CR" /\ buf[i + 1] = "LF"}
    IN  IF ends = {} THEN 0 ELSE Min(ends)

(* The first line without its type and its end. *)
Line(buf) == SubSeq(buf, 2, FindCrlf(buf) - 1)

AfterLine(buf) == FindCrlf(buf) + 1

ParseSimpleString(buf) ==
    IF FindCrlf(buf) = 0 THEN More
    ELSE Parsed(SimpleString(Line(buf)), AfterLine(buf))

ParseError(buf) ==
    IF FindCrlf(buf) = 0 THEN More
    ELSE Parsed(ErrorValue(Line(buf)), AfterLine(buf))

ParseInteger(buf) ==
    IF FindCrlf(buf) = 0 THEN More
    ELSE IF ~IsNumber(Line(buf)) THEN Bad
    ELSE Parsed(Integer(NumberIn(Line(buf))), AfterLine(buf))

ParseBulkString(buf) ==
    LET length == NumberIn(Line(buf))
        end    == AfterLine(buf) + length
    IN  IF FindCrlf(buf) = 0 THEN More
        ELSE IF ~IsNumber(Line(buf)) THEN Bad
        ELSE IF length < 0 THEN Parsed(NullString, AfterLine(buf))
        ELSE IF Len(buf) < end + 2 THEN More
        ELSE IF buf[end + 1] # "CR" \/ buf[end + 2] # "LF" THEN Bad
        ELSE Parsed(BulkString(SubSeq(buf, AfterLine(buf) + 1, end)), end + 2)

RECURSIVE ParseValue(_), ParseItems(_, _, _, _)

(* The vector is allocated before there is an item for it. *)
ParseArray(buf) ==
    IF FindCrlf(buf) = 0 THEN More
    ELSE IF ~IsNumber(Line(buf)) THEN Bad
    ELSE IF NumberIn(Line(buf)) < 0 THEN Parsed(NullArray, AfterLine(buf))
    ELSE IF NumberIn(Line(buf)) > MaxCapacity THEN Died
    ELSE ParseItems(buf, AfterLine(buf), NumberIn(Line(buf)), <<>>)

(* The loop of parse_array, with so many bytes behind it and items to come. *)
ParseItems(buf, consumed, left, items) ==
    LET item == ParseValue(SubSeq(buf, consumed + 1, Len(buf)))
    IN  IF left = 0 THEN Parsed(Array(items), consumed)
        ELSE IF item.outcome # "value" THEN item
        ELSE ParseItems(buf, consumed + item.consumed, left - 1,
                        Append(items, item.value))

ParseValue(buf) ==
    IF buf = <<>> THEN More
    ELSE CASE buf[1] = "+" -> ParseSimpleString(buf)
           [] buf[1] = "-" -> ParseError(buf)
           [] buf[1] = ":" -> ParseInteger(buf)
           [] buf[1] = "$" -> ParseBulkString(buf)
           [] buf[1] = "*" -> ParseArray(buf)
           [] OTHER -> Bad

----------------------------------------------------------------------------
(* Writing. *)

Crlf == <<"CR", "LF">>

RECURSIVE WriteRespValue(_), WriteItems(_)

WriteRespValue(v) ==
    CASE v.kind = "simple"      -> <<"+">> \o v.text \o Crlf
      [] v.kind = "error"       -> <<"-">> \o v.text \o Crlf
      [] v.kind = "integer"     -> <<":">> \o Format(v.number) \o Crlf
      [] v.kind = "bulk"        -> <<"$">> \o Format(Len(v.text)) \o Crlf
                                       \o v.text \o Crlf
      [] v.kind = "null string" -> <<"$", "-", "1">> \o Crlf
      [] v.kind = "array"       -> <<"*">> \o Format(Len(v.items)) \o Crlf
                                       \o WriteItems(v.items)
      [] v.kind = "null array"  -> <<"*", "-", "1">> \o Crlf

WriteItems(items) ==
    IF items = <<>> THEN <<>>
    ELSE WriteRespValue(Head(items)) \o WriteItems(Tail(items))
=============================================================================
