------------------------------ MODULE MCLists ------------------------------
(* Instances of Lists for TLC.                                             *)
EXTENDS Lists

CONSTANTS t1, t2

MCTexts == {t1, t2}
=============================================================================
