--------------------------- MODULE MCEventCollector ---------------------------
(***************************************************************************)
(* Instances of EventCollector with two symbols and two numbers.           *)
(***************************************************************************)
EXTENDS EventCollector

CONSTANTS spy, vix, n1, n2

MCSymbols == {spy, vix}
MCNumbers == {n1, n2}

=============================================================================
