----------------------------- MODULE MCFlowTable -----------------------------
(* Instances of FlowTable for TLC.                                         *)
EXTENDS FlowTable

MCFilters == {"", "settled"}
MCMatches(text, f) ==
  CASE text = "" -> TRUE [] text = "settled" -> f.settled [] text = "odd" -> f.id % 2 = 1
MCSizes == {[plain |-> 2, prompted |-> 1, away |-> 3], [plain |-> 1, prompted |-> 1, away |-> 2]}
=============================================================================
