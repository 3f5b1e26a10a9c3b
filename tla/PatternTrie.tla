---------------------------- MODULE PatternTrie ----------------------------
(* The trie of patterns a worker matches published channels against         *)
(* (pubsub/pattern.rs), as its subscriptions come and go.                   *)
(*                                                                          *)
(* A node is the sequence of edges that leads to it from the root.  A node  *)
(* has one edge for *, one for ?, one per literal byte, and one for a       *)
(* character class: the class of the pattern that came first.  Nodes are    *)
(* never removed, so a class stays when its pattern has gone.               *)
EXTENDS Glob, FiniteSets, FiniteSetsExt, Functions, TLC

CONSTANTS
    Connections,
    Patterns,       \* the patterns clients subscribe to
    Channels,       \* the channels somebody publishes to
    MaxInserts      \* bound on the number of subscriptions made

ASSUME TrieBoundsAssumption == MaxInserts \in Nat

VARIABLES
    subscribers,    \* what the nodes hold: a node, a pattern and a connection
    classes,        \* the class of each node that has an edge for one
    wanted,         \* what the clients are subscribed to
    inserts         \* number of subscriptions made so far

vars == <<subscribers, classes, wanted, inserts>>

----------------------------------------------------------------------------
(* Patterns. *)

NoClass == [ok |-> FALSE, chars |-> {}, negated |-> FALSE, next |-> 0]

(* The bytes of a class after the bracket and the caret: byte i is next,    *)
(* last is the byte pushed last (0 at first).  A dash between two bytes     *)
(* stands for the bytes up to the second.                                   *)
RECURSIVE ClassFrom(_, _, _, _, _)
ClassFrom(p, i, chars, last, negated) ==
    IF i > Len(p) THEN NoClass
    ELSE IF p[i] = Escape
    THEN IF i = Len(p) THEN NoClass
         ELSE ClassFrom(p, i + 2, chars \cup {p[i + 1]}, p[i + 1], negated)
    ELSE IF p[i] = Close
    THEN [ok |-> TRUE, chars |-> chars, negated |-> negated, next |-> i + 1]
    ELSE IF p[i] = Dash /\ last # 0 /\ i < Len(p) /\ p[i + 1] # Close
    THEN LET upTo == (last + 1) .. p[i + 1]
         IN  ClassFrom(p, i + 2, chars \cup upTo,
                       IF upTo = {} THEN last ELSE p[i + 1], negated)
    ELSE ClassFrom(p, i + 1, chars \cup {p[i]}, p[i], negated)

(* The class that starts at byte i. *)
ParseCharClass(p, i) ==
    IF i < Len(p) /\ p[i + 1] = Caret THEN ClassFrom(p, i + 2, {}, 0, TRUE)
    ELSE ClassFrom(p, i + 1, {}, 0, FALSE)

Edge(kind, byte) == [kind |-> kind, byte |-> byte]

(* A step of the walk that insert and remove take through a pattern: the    *)
(* edge, and for a class its bytes.                                         *)
Token(kind, byte, class) == [edge |-> Edge(kind, byte), class |-> class]

RECURSIVE TokensFrom(_, _)
TokensFrom(p, i) ==
    LET class == ParseCharClass(p, i)
    IN  IF i > Len(p) THEN <<>>
        ELSE IF p[i] = Star
        THEN <<Token("star", 0, NoClass)>> \o TokensFrom(p, i + 1)
        ELSE IF p[i] = Question
        THEN <<Token("single", 0, NoClass)>> \o TokensFrom(p, i + 1)
        ELSE IF p[i] = Open /\ class.ok
        THEN <<Token("class", 0, [class EXCEPT !.next = 0])>>
                 \o TokensFrom(p, class.next)
        ELSE IF p[i] = Escape /\ i < Len(p)
        THEN <<Token("literal", p[i + 1], NoClass)>> \o TokensFrom(p, i + 2)
        ELSE <<Token("literal", p[i], NoClass)>> \o TokensFrom(p, i + 1)

Tokens(p) == TokensFrom(p, 1)

Path(p) == [i \in DOMAIN Tokens(p) |-> Tokens(p)[i].edge]

Before(path, i) == SubSeq(path, 1, i - 1)

ClassPlaces(p) == {i \in DOMAIN Tokens(p) : Path(p)[i].kind = "class"}

InClass(class, byte) == (byte \in class.chars) # class.negated

Holds(conn, p) == [node |-> Path(p), pattern |-> p, conn |-> conn]

----------------------------------------------------------------------------
(* What clients do.  The manager inserts a pattern only for a connection    *)
(* that is not subscribed to it; it removes one it may not hold.            *)

Init ==
    /\ subscribers = {}
    /\ classes = <<>>
    /\ wanted = {}
    /\ inserts = 0

(* A class becomes the one of its node only where there is none yet. *)
NewClasses(p) ==
    [node \in {Before(Path(p), i) : i \in ClassPlaces(p)} \ DOMAIN classes |->
        LET i == CHOOSE i \in ClassPlaces(p) : Before(Path(p), i) = node
        IN  Tokens(p)[i].class]

Insert(conn, p) ==
    /\ inserts < MaxInserts
    /\ <<p, conn>> \notin wanted
    /\ subscribers' = subscribers \cup {Holds(conn, p)}
    /\ classes' = NewClasses(p) @@ classes
    /\ wanted' = wanted \cup {<<p, conn>>}
    /\ inserts' = inserts + 1

(* Mutation of Unsubscribed: the pattern is not compared.  Patterns that    *)
(* are spelled differently share nodes.                                     *)
UnsubscribedAtNode(conn, p) ==
    {s \in subscribers : s.node = Path(p) /\ s.conn = conn}

(* The subscribers remove_from_node takes out of the node it has come to. *)
Unsubscribed(conn, p) ==
    {s \in subscribers : s.node = Path(p) /\ s.pattern = p /\ s.conn = conn}

Remove(conn, p) ==
    /\ subscribers' = subscribers \ Unsubscribed(conn, p)
    /\ wanted' = wanted \ {<<p, conn>>}
    /\ UNCHANGED <<classes, inserts>>

Next ==
    \E conn \in Connections, p \in Patterns : Insert(conn, p) \/ Remove(conn, p)

Spec == Init /\ [][Next]_vars

----------------------------------------------------------------------------
(* What a message finds. *)

(* The edge from the node k edges down the path takes the byte. *)
Takes(path, k, byte) ==
    LET edge  == path[k + 1]
        class == classes[SubSeq(path, 1, k)]
    IN  \/ edge.kind = "single"
        \/ edge.kind = "literal" /\ edge.byte = byte
        \/ edge.kind = "class" /\ InClass(class, byte)

AtStar(path, k) == k < Len(path) /\ path[k + 1].kind = "star"

RECURSIVE WaysFrom(_, _, _, _)

(* Mutation of WaysFrom: a star at the end of the path takes all the rest.  *)
WaysTakingRest(path, k, channel, pos) ==
    IF pos > Len(channel)
    THEN IF k = Len(path) \/ (k + 1 = Len(path) /\ AtStar(path, k)) THEN 1 ELSE 0
    ELSE IF k = Len(path)
    THEN IF k > 0 /\ AtStar(path, k - 1) THEN 1 ELSE 0
    ELSE IF AtStar(path, k)
    THEN MapThenSumSet(LAMBDA i : WaysFrom(path, k + 1, channel, i),
                       pos .. (Len(channel) + 1))
    ELSE IF Takes(path, k, channel[pos])
    THEN WaysFrom(path, k + 1, channel, pos + 1)
    ELSE 0

(* In how many ways find_in_node, at byte pos of the channel and at the     *)
(* node k edges down the path, comes to the end of the path.  At the end of *)
(* the channel it looks one star further and no deeper.                     *)
WaysFrom(path, k, channel, pos) ==
    IF pos > Len(channel)
    THEN IF k = Len(path) \/ (k + 1 = Len(path) /\ AtStar(path, k)) THEN 1 ELSE 0
    ELSE IF AtStar(path, k)
    THEN MapThenSumSet(LAMBDA i : WaysFrom(path, k + 1, channel, i),
                       pos .. (Len(channel) + 1))
    ELSE IF k < Len(path) /\ Takes(path, k, channel[pos])
    THEN WaysFrom(path, k + 1, channel, pos + 1)
    ELSE 0

(* How often find_matches returns the pattern for the connection. *)
FindMatches(channel, p, conn) ==
    MapThenSumSet(LAMBDA s : WaysFrom(s.node, 0, channel, 1),
                  {s \in subscribers : s.pattern = p /\ s.conn = conn})

(* Mutation of TotalPatternMatches: patterns are counted, not subscribers.  *)
TotalPatterns(channel) ==
    Cardinality({p \in Patterns : /\ RegistryMatch(p, channel)
                                  /\ \E sub \in wanted : sub[1] = p})

(* get_total_pattern_matches: what PUBLISH adds to its reply. *)
TotalPatternMatches(channel) ==
    Cardinality({sub \in wanted : RegistryMatch(sub[1], channel)})

----------------------------------------------------------------------------
(* Properties. *)

Accepts(token, byte) ==
    \/ token.edge.kind = "single"
    \/ token.edge.kind = "literal" /\ token.edge.byte = byte
    \/ token.edge.kind = "class" /\ InClass(token.class, byte)

(* What a pattern means. *)
RECURSIVE Means(_, _)
Means(tokens, channel) ==
    IF tokens = <<>> THEN channel = <<>>
    ELSE IF Head(tokens).edge.kind = "star"
    THEN \E i \in 1 .. (Len(channel) + 1) :
             Means(Tail(tokens), From(channel, i))
    ELSE /\ channel # <<>>
         /\ Accepts(Head(tokens), Head(channel))
         /\ Means(Tail(tokens), Tail(channel))

Stars(p) == {i \in DOMAIN Path(p) : Path(p)[i].kind = "star"}

StarsTogether(p) == \E i \in Stars(p) : i + 1 \in Stars(p)

(* No pattern that came before has another class at one of p's places. *)
OwnClasses(p) ==
    \A i \in ClassPlaces(p) : classes[Before(Path(p), i)] = Tokens(p)[i].class

Plain(p) == \A i \in DOMAIN p : p[i] \notin {Open, Escape}

(* A subscriber gets a message exactly if it is subscribed, now, to a       *)
(* pattern that matches: whatever was inserted and removed before, under    *)
(* patterns that share nodes.  Two defects are left out: a node keeps the   *)
(* class of the first pattern that brought one (OwnClasses), and the end of *)
(* a channel matches one star only (StarsTogether).                         *)
FoundIffMeant ==
    \A channel \in Channels, p \in Patterns, conn \in Connections :
        LET found == FindMatches(channel, p, conn) > 0
            meant == Means(Tokens(p), channel)
        IN  IF <<p, conn>> \notin wanted THEN ~found
            ELSE OwnClasses(p) => /\ found => meant
                                  /\ meant => (found \/ StarsTogether(p))

(* A subscriber gets a message at most once for a pattern, unless the       *)
(* pattern has several stars: then the walk comes to it in several ways and *)
(* each of them delivers the message.                                       *)
FoundOnce ==
    \A channel \in Channels, sub \in wanted :
        Cardinality(Stars(sub[1])) <= 1 =>
            FindMatches(channel, sub[1], sub[2]) <= 1

(* PUBLISH counts pattern subscribers with another matcher than the one     *)
(* that delivers.  The two agree for patterns without classes and escapes   *)
(* and with at most one star, on channels without a literal star.           *)
CountIsDeliveries ==
    (\A sub \in wanted : Plain(sub[1]) /\ Cardinality(Stars(sub[1])) <= 1) =>
        \A channel \in Channels :
            Star \notin Range(channel) =>
                TotalPatternMatches(channel) =
                    MapThenSumSet(LAMBDA sub :
                        FindMatches(channel, sub[1], sub[2]), wanted)
=============================================================================
