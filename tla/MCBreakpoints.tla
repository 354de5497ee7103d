--------------------------- MODULE MCBreakpoints ---------------------------
(* Instances of Breakpoints for TLC.                                       *)
EXTENDS Breakpoints

CONSTANTS g1, g2, g3

MCExchanges == {g1, g2, g3}
=============================================================================
