------------------------------ MODULE MCExchange ------------------------------
(* Instances of Exchange for TLC.                                          *)
EXTENDS Exchange

CONSTANTS g1, g2

One == {g1}
Two == {g1, g2}

Plan(route, breakReq, breakResp, rehead, rebody) ==
  [route |-> route, breakReq |-> breakReq, breakResp |-> breakResp,
   redirect |-> FALSE, rehead |-> rehead, rebody |-> rebody]

(* No rule, and every rule on its own.                                     *)
EachRule ==
  {Plan("forward", FALSE, FALSE, "none", FALSE),
   Plan("forward", FALSE, FALSE, "headers", FALSE),
   Plan("forward", FALSE, FALSE, "status", TRUE),
   Plan("forward", TRUE, TRUE, "none", FALSE),
   [Plan("forward", FALSE, FALSE, "none", FALSE) EXCEPT !.redirect = TRUE]}
  \cup {Plan(route, FALSE, FALSE, "none", FALSE) : route \in Routes}

(* Everything at once, and a request that is refused.                      *)
TwoRules ==
  {Plan("forward", TRUE, TRUE, "status", FALSE),
   Plan("block", TRUE, FALSE, "none", FALSE)}

EveryRule == EachRule \cup TwoRules
=============================================================================
