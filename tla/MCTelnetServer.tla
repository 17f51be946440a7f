--------------------------- MODULE MCTelnetServer ---------------------------
(* TelnetServer on small instances: see the .cfg files for the bounds.     *)
EXTENDS TelnetServer, TLC

CONSTANTS c1, c2, c3, p1

TwoConns == {c1, c2}
ThreeConns == {c1, c2, c3}
OneForeign == {p1}
NoForeign == {}

ConnSymmetry == Permutations(Conns)
=============================================================================
