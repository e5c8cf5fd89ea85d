----------------------------- MODULE MCRosClock -----------------------------
(* A second has 8 nanoseconds: eighths, thirds and the ends of seconds.     *)
EXTENDS RosClock

MCSpans == {-9, -8, -3, 0, 1, 7, 8, 18}

MCFractions == {<<0, 1>>, <<1, 2>>, <<1, 3>>, <<1, 1>>}

=============================================================================
