------------------------------ MODULE MCStore ------------------------------
(* Instances of Store for TLC.                                             *)
EXTENDS Store

CONSTANTS w1, w2

MCWriters == {w1, w2}
=============================================================================
