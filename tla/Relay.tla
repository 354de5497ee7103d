------------------------------- MODULE Relay -------------------------------
(***************************************************************************)
(* What an exchange promises, whatever rules, breakpoints and failures do  *)
(* to it: a request goes upstream at most once and only while it has no    *)
(* answer, and the one answer it gets is never followed by another.        *)
(***************************************************************************)
CONSTANTS Exchanges, Requests, Responses, NoRequest, NoResponse

VARIABLES received, fetched, answer

promise == <<received, fetched, answer>>

Init == /\ received = {}
        /\ fetched = [g \in Exchanges |-> NoRequest]
        /\ answer = [g \in Exchanges |-> NoResponse]

Receive(g) ==
  /\ g \in Exchanges \ received
  /\ received' = received \cup {g}
  /\ UNCHANGED <<fetched, answer>>

Fetch(g) ==
  /\ g \in received /\ fetched[g] = NoRequest /\ answer[g] = NoResponse
  /\ \E r \in Requests : fetched' = [fetched EXCEPT ![g] = r]
  /\ UNCHANGED <<received, answer>>

Answer(g) ==
  /\ g \in received /\ answer[g] = NoResponse
  /\ \E r \in Responses : answer' = [answer EXCEPT ![g] = r]
  /\ UNCHANGED <<received, fetched>>

Next == \E g \in Exchanges : Receive(g) \/ Fetch(g) \/ Answer(g)

Spec == Init /\ [][Next]_promise
=============================================================================
