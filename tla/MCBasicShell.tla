---------------------------- MODULE MCBasicShell ----------------------------
(* Instances of BasicShell for TLC. *)
EXTENDS BasicShell

AllPhases == {1, 2, 3}
FirstPhases == {1, 2}
SomeDirs == {<<>>, <<<<"a">>>>, <<<<"a">>, <<"b">>>>}

\* Every line of up to three characters.
Chars == {"w", "f", " ", "|", "q", "s"}
Short == UNION {[1..n -> Chars] : n \in 0..3}

Pipelines ==
    {<<"w", " ", "|", " ", "f", " ", "|", " ", "h">>,
     <<"w", "|", "f", "|", "f">>, <<"b", "|", "f">>, <<"b", "|", "h">>, <<"f", "|", "b">>, <<"w", "|", "h", "|", "f">>,
     <<"q", "w", "q", "|", "q", "f", "q">>,
     <<" ", "q", "w", "q", " ", "a", "|", "f", " ", " ">>}
Others == {<<"&">>, <<"w", "&">>, <<"&", "w">>, <<"&", " ", "w">>, <<"w", " ", "&">>, <<"w", "|", "f", "&">>, <<"x">>, <<"c", " ", "a", " ", "a">>,
           <<"c", " ", "a", " ", "b">>, <<"c">>}

Script(n) == IF n = 1 THEN Short \cup Pipelines \cup Others
             ELSE {<<"w">>, <<"w", "|", "f">>, <<"c", " ", "b">>}
=============================================================================
