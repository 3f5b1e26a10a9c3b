---------------------------- MODULE MCPatternTrie ----------------------------
(* Patterns of up to two bytes over a, b, * and ?, and longer ones with     *)
(* several stars, classes and escapes; channels of up to three bytes.       *)
EXTENDS PatternTrie

CONSTANTS c1, c2

a == 97
b == 98

MCConnections == {c1, c2}

Short == UNION {[1 .. n -> {a, b, Star, Question}] : n \in 0 .. 2}

Starred ==
    {<<Star, a, Star>>, <<a, Star, b>>, <<Star, Star, a>>, <<a, Star, Star>>,
     <<Star, Question, Star>>}

Special ==
    {<<Open, a, Close>>,                        \* [a]
     <<Open, b, Close>>,                        \* [b]
     <<Open, b, Close, a>>,                     \* [b]a
     <<Open, Caret, a, Close, Star>>,           \* [^a]*
     <<Star, Open, a, Dash, b, Close>>,         \* *[a-b]
     <<Star, Open, Escape, Close, b, Close>>,   \* *[\]b]
     <<Open, a>>,                               \* an open class: literal
     <<Escape, Open, a>>,                       \* the same, escaped
     <<Escape, Star, b>>,                       \* \*b
     <<a, Escape>>}                             \* an escape at the end

MCPatterns == Short \cup Starred \cup Special

MCChannels ==
    UNION {[1 .. n -> {a, b}] : n \in 0 .. 3}
        \cup {<<Star>>, <<Star, b>>, <<Open, a>>, <<a, Escape>>, <<b, Close>>}

TrieSymmetry == Permutations(MCConnections)
=============================================================================
