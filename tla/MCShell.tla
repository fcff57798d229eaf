------------------------------ MODULE MCShell ------------------------------
(* An instance of the shell small enough for TLC.                          *)
EXTENDS Shell

Tokens == Words \cup Symbols

\* A job in the background; then any line of up to two tokens, any line of
\* three with a word, or a longer one.
MCInput ==
  <<{<<"a", "&">>},
    UNION {[1..n -> Tokens] : n \in 0..2}
      \cup {l \in [1..3 -> Tokens] : \E i \in 1..3 : l[i] \in Words}
      \cup {<<"a", "|", "a", "|", "a">>, <<"(", "a", ";", "a", ")", "|", "a", ">", "a">>,
            <<"a", "&", ";", "a", "<", "a">>}>>
=============================================================================
