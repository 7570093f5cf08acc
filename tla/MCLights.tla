------------------------------- MODULE MCLights -------------------------------
(* Lights with numbers that fit their variables and numbers that do not.   *)
EXTENDS Lights

Of(b, g, r) == [blue |-> b, green |-> g, red |-> r]

MCBalances == {Of(100, 110, 127), Of(300, -1, 127)}
MCLevels   == {50, 384}
MCColors   == {Of(258, 0, -1)}
==============================================================================
