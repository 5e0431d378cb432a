------------------------------- MODULE MCJit -------------------------------
(***************************************************************************)
(* Jit with every argument of up to MaxLen lexemes, some longer ones, and  *)
(* two runs that may find what earlier ones left.                          *)
(***************************************************************************)
EXTENDS Jit

CONSTANT MaxLen

Long == {<<"num", "-", "num", "-", "num">>, <<"num", "+", "num", "*", "num">>,
         <<"num", "/", "num", "/", "num", "*", "num">>,
         <<"(", "num", "+", "num", ")", "*", "-", "num">>,
         <<"-", "num", "*", "num", "-", "(", "num", "/", "inf", ")">>,
         <<"num", " ", "*", "(", "num", "+", "num">>,
         <<"num", "/", "tiny", "+", "fine">>}
Short == {<<"num">>, <<"inf">>, <<"tiny">>}
MCInputs == <<Long \cup UNION {[1 .. n -> Lexemes \ {" ", "tiny", "fine"}] : n \in 0 .. MaxLen},
              Short, Short>>
=============================================================================
