----------------------------- MODULE MCKeyspace -----------------------------
(* Six keys: the key "0", keys that share a prefix, one of them beyond the  *)
(* bound '~' of its prefix, and one that is not UTF-8.                      *)
EXTENDS Keyspace

a == 97
b == 98

MCKeys == {Zero, <<a>>, <<a, a>>, <<a, b>>, <<a, Tilde, a>>, <<200>>}

(* The text of the last key is matched by "*", by "???" and, without its    *)
(* bytes being in the range, by U+FFFD and a star.                          *)
MCPatterns ==
    {<<Star>>, <<a>>, <<a, Star>>, <<a, Question>>, <<a, Question, Star>>,
     <<Star, a>>, <<Question, Question, Question>>,
     Append(Replacement, Star)}

(* The readings of bytes that begin no character, characters cut short by a *)
(* byte or the end, a byte too many, a longer form than needed.             *)
ASSUME LossyCases ==
    /\ FromUtf8Lossy(<<104, 200, 101>>) = <<104>> \o Replacement \o <<101>>
    /\ FromUtf8Lossy(<<195, 169, 128>>) = <<195, 169>> \o Replacement
    /\ FromUtf8Lossy(<<240, 159, 152>>) = Replacement
    /\ FromUtf8Lossy(<<240, 128, 128>>)
           = Replacement \o Replacement \o Replacement
    /\ FromUtf8Lossy(<<226, 130, 226, 130, 172>>)
           = Replacement \o <<226, 130, 172>>
    /\ FromUtf8Lossy(<<255, 97>>) = Replacement \o <<97>>
=============================================================================
