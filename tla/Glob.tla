-------------------------------- MODULE Glob --------------------------------
(* The glob matchers: glob_match of the command executor (KEYS, SCAN),      *)
(* glob_match of the pub/sub registry (PUBSUB CHANNELS, the count PUBLISH   *)
(* replies), and what a pattern means.  Bytes are numbers in their order;   *)
(* patterns and texts are sequences of bytes.                               *)
EXTENDS Integers, Sequences

Star     == 42      \* '*'
Dash     == 45      \* '-'
Question == 63      \* '?'
Open     == 91      \* '['
Escape   == 92      \* '\\'
Close    == 93      \* ']'
Caret    == 94      \* '^'

From(s, i) == SubSeq(s, i, Len(s))

OnlyStars(p) == \A i \in DOMAIN p : p[i] = Star

(* What * and ? mean: the bytes of the pattern are at places of the text,   *)
(* one behind the other; a star takes any number of bytes.                  *)
Matches(p, t) ==
    \E at \in [1 .. Len(p) + 1 -> 1 .. Len(t) + 1] :
        /\ at[1] = 1 /\ at[Len(p) + 1] = Len(t) + 1
        /\ \A i \in DOMAIN p :
              \/ p[i] = Star /\ at[i] <= at[i + 1]
              \/ at[i + 1] = at[i] + 1 /\ p[i] \in {Question, t[at[i]]}

----------------------------------------------------------------------------
(* The loops of the matchers.  A loop is at byte i of the pattern and j of  *)
(* the text; the last star, if there was one, takes the text up to mark.    *)

Places(p, t) ==
    {s \in [i : 1 .. Len(p) + 1, j : 1 .. Len(t) + 1,
            star : 0 .. Len(p), mark : 1 .. Len(t) + 1] :
        s.star < s.i /\ s.mark <= s.j}

Begin == [i |-> 1, j |-> 1, star |-> 0, mark |-> 1]

TakeStar(s) == [s EXCEPT !.i = s.i + 1, !.star = s.i, !.mark = s.j]

TakeByte(s) == [s EXCEPT !.i = s.i + 1, !.j = s.j + 1]

(* Stuck: the last star takes one byte more; without a star it stays stuck. *)
GoBack(s) ==
    IF s.star = 0 THEN s
    ELSE [s EXCEPT !.i = s.star + 1, !.j = s.mark + 1, !.mark = s.mark + 1]

GlobStep(p, t, s) ==
    IF s.i <= Len(p) /\ p[s.i] = Star THEN TakeStar(s)
    ELSE IF s.i <= Len(p) /\ p[s.i] \in {Question, t[s.j]} THEN TakeByte(s)
    ELSE GoBack(s)

(* executor.rs, glob_match. *)
GlobMatch(p, t) ==
    LET loop[s \in Places(p, t)] ==
            IF s.j > Len(t) THEN OnlyStars(From(p, s.i))
            ELSE LET next == GlobStep(p, t, s)
                 IN  IF next = s THEN FALSE ELSE loop[next]
    IN  loop[Begin]

(* The registry's loop compares the bytes before it looks for a star. *)
RegistryStep(p, t, s) ==
    IF s.i <= Len(p) /\ p[s.i] \in {Question, t[s.j]} THEN TakeByte(s)
    ELSE IF s.i <= Len(p) /\ p[s.i] = Star THEN TakeStar(s)
    ELSE GoBack(s)

(* registry.rs, glob_match. *)
RegistryMatch(p, t) ==
    LET loop[s \in Places(p, t)] ==
            IF s.j > Len(t) THEN OnlyStars(From(p, s.i))
            ELSE LET next == RegistryStep(p, t, s)
                 IN  IF next = s THEN FALSE ELSE loop[next]
    IN  loop[Begin]
=============================================================================
