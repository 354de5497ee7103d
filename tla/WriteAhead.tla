----------------------------- MODULE WriteAhead -----------------------------
(***************************************************************************)
(* What internal/sysproxy promises about somebody else's settings: they    *)
(* are borrowed only while a copy of them is kept to go back to, and the   *)
(* copy is given up only when they have been returned.                     *)
(***************************************************************************)
VARIABLES
  borrowed,  \* the settings differ from the owner's
  saved      \* the owner's settings are kept somewhere

vars == <<borrowed, saved>>

Init == ~borrowed /\ ~saved

Save   == ~borrowed /\ saved' = TRUE /\ UNCHANGED borrowed
Forget == ~borrowed /\ saved' = FALSE /\ UNCHANGED borrowed
Borrow == saved /\ borrowed' = TRUE /\ UNCHANGED saved
Return == saved /\ borrowed' = FALSE /\ UNCHANGED saved

Next == Save \/ Forget \/ Borrow \/ Return

Spec == Init /\ [][Next]_vars

=============================================================================
