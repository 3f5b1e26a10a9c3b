------------------------------ MODULE Keyspace ------------------------------
(* KEYS and SCAN of the command executor, while other workers set and       *)
(* delete keys.  One client walks the key space: it calls SCAN with the     *)
(* cursor of the reply before, from "0" until it gets "0" back.             *)
(*                                                                          *)
(* Keys are sequences of bytes, patterns are valid UTF-8.  The store is     *)
(* external; range_query returns at most so many keys between two bounds,   *)
(* both included, in their order.                                           *)
EXTENDS Glob, FiniteSets, Functions

CONSTANTS
    Keys,           \* the keys somebody uses, not empty
    Patterns,       \* what MATCH and KEYS are given
    Counts,         \* what COUNT is given
    NoPattern,      \* SCAN without MATCH
    KeysLimit,      \* at most so many keys KEYS looks at, 100000 in the code
    MaxWrites       \* bound on the number of writes

ASSUME KeyspaceBoundsAssumption ==
    /\ Keys \subseteq Seq(0 .. 254) \ {<<>>}
    /\ Patterns \subseteq Seq(0 .. 255) /\ NoPattern \notin Patterns
    /\ Counts \subseteq Nat
    /\ KeysLimit \in Nat
    /\ MaxWrites \in Nat

VARIABLES
    store,          \* the keys there are
    scan,           \* the client's iteration
    writes,         \* number of writes so far
    returned,       \* history: the keys returned, in the order they were
    lasting         \* history: the keys there have been all the time

vars == <<store, scan, writes, returned, lasting>>

----------------------------------------------------------------------------
(* Keys and ranges. *)

Zero  == <<48>>     \* "0"
Tilde == 126        \* '~'
Last  == <<255>>    \* stands for the code's 255 bytes of 0xFF

IsPrefix(s, t) == Len(s) <= Len(t) /\ \A i \in DOMAIN s : s[i] = t[i]

(* The order of keys: that of the first byte in which they differ. *)
AtMost(s, t) ==
    \/ IsPrefix(s, t)
    \/ \E n \in DOMAIN s \cap DOMAIN t :
          s[n] < t[n] /\ \A i \in 1 .. n - 1 : s[i] = t[i]

Between(low, high) == {k \in store : AtMost(low, k) /\ AtMost(k, high)}

(* The place of a key among others in their order. *)
Rank(keys, k) == Cardinality({l \in keys : AtMost(l, k)})

(* range_query: the first keys of the range. *)
RangeQuery(low, high, limit) ==
    {k \in Between(low, high) : Rank(Between(low, high), k) <= limit}

Ordered(keys) ==
    [i \in 1 .. Cardinality(keys) |-> CHOOSE k \in keys : Rank(keys, k) = i]

(* How long the pattern has none of these bytes. *)
LengthBefore(p, wild) ==
    CHOOSE n \in 0 .. Len(p) :
        /\ \A i \in 1 .. n : p[i] \notin wild
        /\ n < Len(p) => p[n + 1] \in wild

(* Mutation of ExtractPrefix: only a star ends the prefix. *)
ExtractPrefixToStar(p) == SubSeq(p, 1, LengthBefore(p, {Star}))

ExtractPrefix(p) == SubSeq(p, 1, LengthBefore(p, {Star, Question, Open}))

(* Where the keys with the prefix are taken to end. *)
Bound(p) == Append(ExtractPrefix(p), Tilde)

----------------------------------------------------------------------------
(* String::from_utf8_lossy: what is not UTF-8 becomes U+FFFD. *)

Replacement == <<239, 191, 189>>

(* How many bytes a character has that begins with b; none does if it is 0. *)
CharLength(b) ==
    CASE b \in 0 .. 127   -> 1
      [] b \in 194 .. 223 -> 2
      [] b \in 224 .. 239 -> 3
      [] b \in 240 .. 244 -> 4
      [] OTHER            -> 0

(* The bytes that may be second: no longer form than needed, no surrogate,  *)
(* nothing beyond U+10FFFF.                                                 *)
SecondBytes(b) ==
    CASE b = 224 -> 160 .. 191
      [] b = 237 -> 128 .. 159
      [] b = 240 -> 144 .. 191
      [] b = 244 -> 128 .. 143
      [] OTHER   -> 128 .. 191

(* The bytes j to i are the first of a character, or all of them. *)
Begins(s, j, i) ==
    /\ i <= Len(s) /\ i - j < CharLength(s[j])
    /\ j < i => s[j + 1] \in SecondBytes(s[j])
    /\ \A m \in j + 2 .. i : s[m] \in 128 .. 191

(* What becomes of byte i: it stays if it is of a character that is all     *)
(* there; the bytes of one that is cut short are replaced together.         *)
Reading(s, i) ==
    IF \E j \in 1 .. i : Begins(s, j, i) /\ Begins(s, j, j + CharLength(s[j]) - 1)
    THEN <<s[i]>>
    ELSE IF \E j \in 1 .. i - 1 : Begins(s, j, i) THEN <<>>
    ELSE Replacement

FromUtf8Lossy(s) ==
    LET read[n \in 0 .. Len(s)] ==
            IF n = 0 THEN <<>> ELSE read[n - 1] \o Reading(s, n)
    IN  read[Len(s)]

(* match_pattern reads the key as text. *)
MatchPattern(k, p) == GlobMatch(p, FromUtf8Lossy(k))

(* The parser has read the patterns so already. *)
ASSUME PatternsAreTextAssumption == \A p \in Patterns : FromUtf8Lossy(p) = p

----------------------------------------------------------------------------
(* KEYS. *)

KeysEnd(p) == IF ExtractPrefix(p) = <<>> THEN Last ELSE Bound(p)

KeysReply(p) ==
    LET prefix == ExtractPrefix(p)
    IN  IF prefix # <<>> /\ p = prefix THEN store \cap {p}
        ELSE {k \in RangeQuery(prefix, KeysEnd(p), KeysLimit) :
                  MatchPattern(k, p)}

----------------------------------------------------------------------------
(* SCAN. *)

Start(cursor) == IF cursor = Zero THEN <<>> ELSE cursor

(* The range of a pattern with a prefix and a star is made smaller. *)
Narrowed(p) ==
    p # NoPattern /\ ExtractPrefix(p) # <<>> /\ Star \in Range(p)

ScanStart(p, cursor) ==
    IF Narrowed(p) /\ Start(cursor) = <<>> THEN ExtractPrefix(p)
    ELSE Start(cursor)

ScanEnd(p) == IF Narrowed(p) THEN Bound(p) ELSE Last

(* Mutation of FetchLimit: the key after the last is not fetched. *)
FetchExactly(p, count) == IF p = NoPattern THEN count ELSE 2 * count

FetchLimit(p, count) == (IF p = NoPattern THEN count ELSE 2 * count) + 1

Wanted(p, k) == p = NoPattern \/ MatchPattern(k, p)

(* The keys fetched before the loop has count keys; the one at which it     *)
(* finds that it has them is the next cursor.                               *)
Taken(p, count, fetched) ==
    {k \in fetched :
        Cardinality({l \in fetched : Wanted(p, l) /\ AtMost(l, k) /\ l # k})
            < count}

(* Mutation of NextCursor: the cursor is the last key returned. *)
CursorAtLast(p, count, fetched) ==
    LET rest == fetched \ Taken(p, count, fetched)
    IN  IF rest = {} \/ count = 0 THEN Zero
        ELSE Ordered(Taken(p, count, fetched))[
                 Cardinality(Taken(p, count, fetched))]

NextCursor(p, count, fetched) ==
    LET rest == fetched \ Taken(p, count, fetched)
    IN  IF rest = {} THEN Zero ELSE Ordered(rest)[1]

(* What the reply says, and two facts it hides: up to which key it has      *)
(* looked, and whether its cursor is a key.                                 *)
Reply(p, count, cursor) ==
    LET low     == ScanStart(p, cursor)
        fetched == RangeQuery(low, ScanEnd(p), FetchLimit(p, count))
        taken   == Taken(p, count, fetched)
    IN  [keys   |-> Ordered({k \in taken : Wanted(p, k)}),
         cursor |-> NextCursor(p, count, fetched),
         reach  |-> IF fetched = Between(low, ScanEnd(p)) THEN Last
                    ELSE IF fetched = {} THEN <<>>
                    ELSE Ordered(fetched)[Cardinality(fetched)],
         more   |-> fetched # taken]

----------------------------------------------------------------------------

Init ==
    /\ store \in SUBSET Keys /\ IsFiniteSet(store)
    /\ \E p \in Patterns \cup {NoPattern}, count \in Counts :
           scan = [pattern |-> p, count |-> count, cursor |-> Zero,
                   done |-> FALSE, reach |-> <<>>, more |-> FALSE]
    /\ writes = 0
    /\ returned = <<>>
    /\ lasting = store

(* The client calls SCAN with the cursor it has. *)
Scan ==
    LET reply == Reply(scan.pattern, scan.count, scan.cursor)
    IN  /\ ~scan.done
        /\ scan' = [scan EXCEPT !.cursor = reply.cursor,
                                !.done = reply.cursor = Zero,
                                !.reach = reply.reach, !.more = reply.more]
        /\ returned' = returned \o reply.keys
        /\ UNCHANGED <<store, writes, lasting>>

(* Another client sets a key: the store has it, with this value or another. *)
Set(k) ==
    /\ writes < MaxWrites
    /\ store' = store \cup {k}
    /\ writes' = writes + 1
    /\ UNCHANGED <<scan, returned, lasting>>

Del(k) ==
    /\ writes < MaxWrites
    /\ store' = store \ {k}
    /\ writes' = writes + 1
    /\ lasting' = lasting \ {k}
    /\ UNCHANGED <<scan, returned>>

Next == Scan \/ \E k \in Keys : Set(k) \/ Del(k)

Spec == Init /\ [][Next]_vars

----------------------------------------------------------------------------
(* Properties. *)

(* The text of the key matches. *)
KeyMatches(p, k) == Matches(p, FromUtf8Lossy(k))

(* Why KEYS does not find a key that matches.  The store compares the bytes *)
(* of the key with the prefix of the pattern, so a key that is not UTF-8    *)
(* may not have the prefix its text has; the key is beyond the bound, with  *)
(* '~' and more behind the prefix or a byte above '~' (any letter that is   *)
(* not ASCII); or there are as many keys before it as KEYS looks at.        *)
Overlooked(p, k) ==
    LET prefix == ExtractPrefix(p)
    IN  \/ prefix # <<>> /\ FromUtf8Lossy(k) # k
        \/ prefix \notin {<<>>, p} /\ ~AtMost(k, Bound(p))
        \/ /\ prefix = <<>> \/ p # prefix
           /\ Rank(Between(prefix, KeysEnd(p)), k) > KeysLimit

(* KEYS returns keys that match, and all of them but those overlooked. *)
KeysAnswersMatches ==
    \A p \in Patterns :
        /\ \A k \in KeysReply(p) : k \in store /\ KeyMatches(p, k)
        /\ \A k \in store \ KeysReply(p) :
              KeyMatches(p, k) => Overlooked(p, k)

(* The client stops although it has not seen the key: the cursor it got was *)
(* the key "0"; or the keys fetched for MATCH did not reach it, and too few *)
(* of them matched for a cursor.                                            *)
CutOff(k) ==
    \/ scan.more /\ AtMost(Zero, k)
    \/ scan.pattern # NoPattern /\ ~AtMost(k, scan.reach)

(* When SCAN has come to its end, every key that was there all the time and *)
(* matches has been returned: whatever was set and deleted meanwhile, the   *)
(* key of the cursor included.  It fails for keys the end cuts off and,     *)
(* like KEYS, beyond the bound or not UTF-8 if the range was made smaller.  *)
ScanComplete ==
    scan.done =>
        \A k \in lasting \ Range(returned) :
            \/ CutOff(k)
            \/ scan.pattern # NoPattern /\ ~KeyMatches(scan.pattern, k)
            \/ /\ Narrowed(scan.pattern)
               /\ ~AtMost(k, Bound(scan.pattern)) \/ FromUtf8Lossy(k) # k

Before(s, t) == AtMost(s, t) /\ s # t

(* SCAN returns keys in their order and none twice, and none that does not  *)
(* match; its cursor is beyond all of them, so a call that returns keys     *)
(* gets on.  (With COUNT 0 no call returns any, and the cursor stays.)      *)
ScanOnce ==
    /\ \A i \in 2 .. Len(returned) : Before(returned[i - 1], returned[i])
    /\ \A k \in Range(returned) :
           /\ scan.pattern = NoPattern \/ KeyMatches(scan.pattern, k)
           /\ scan.done \/ Before(k, scan.cursor)
=============================================================================
