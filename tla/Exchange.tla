------------------------------ MODULE Exchange ------------------------------
(***************************************************************************)
(* One request through the proxy: Proxy.handle (proxy/proxy.go) from the   *)
(* client's request to the answer on the wire, with the flow it records in *)
(* the Store (core/store.go), the rules' plan, both breakpoints and the    *)
(* upstream server.  Several exchanges run at once and share the store; a  *)
(* flow that has been evicted or cleared is out of reach of Update.        *)
(*                                                                         *)
(* A message is its head (status line and headers) and its body, each named*)
(* by where it comes from.                                                 *)
(***************************************************************************)
EXTENDS Naturals, Sequences

CONSTANTS
  Exchanges,  \* requests the clients make
  Plans,      \* what the rules may decide for a request
  Limit,      \* Store.limit
  Faults      \* what may go wrong outside, see below

(***************************************************************************)
(* Faults:                                                                 *)
(*   "refused"  the upstream cannot be reached                             *)
(*   "cut"      a response body ends early                                 *)
(*   "long"     a body is longer than MaxBody                              *)
(*   "gone"     the client has gone when an upgrade is to be confirmed     *)
(*   "clear"    the operator clears the flow list                          *)
(***************************************************************************)
Routes == {"forward", "upgrade", "block", "location", "file"}

AllPlans == [route : Routes, breakReq : BOOLEAN, breakResp : BOOLEAN,
             redirect : BOOLEAN, rehead : {"none", "headers", "status"},
             rebody : BOOLEAN]

ASSUME ExchangeAssumption ==
  /\ Plans \subseteq AllPlans
  /\ Limit \in Nat \ {0}
  /\ Faults \subseteq {"refused", "cut", "long", "gone", "clear"}

VARIABLES
  pc,       \* where handle is
  plan,     \* the rules' plan
  scheme,   \* how the request came: http proxied, https intercepted
  body,     \* the request body that was read: whole or cut at MaxBody
  addr,     \* r.URL: the address the request is to be sent to
  verdict,  \* what the operator decided at either breakpoint
  resp,     \* the local response: resp and respBody
  reason,   \* why a synthetic answer is being written
  sent,     \* what went upstream: the scheme used and the body
  wire,     \* what the client received
  flow,     \* the Flow object of every exchange
  store,    \* Store.flows, oldest first
  breakAll  \* Options.BreakRequests, Options.BreakResponses

vars == <<pc, plan, scheme, body, addr, verdict, resp, reason, sent, wire, flow,
          store, breakAll>>

Schemes  == {"http", "https"}
Verdicts == {"none", "send", "edit", "drop", "release"}
Heads    == {"none", "blank", "origin", "ruled", "edited", "synthetic", "mock",
             "upgraded", "implicit"}
Bodies   == {"none", "empty", "origin", "cut", "ruled", "edited", "synthetic",
             "mock"}
Message  == [head : Heads, body : Bodies]
Nothing  == [head |-> "none", body |-> "none"]

States   == {"pending", "complete", "error", "intercepted", "blocked"}
Terminal == {"complete", "error", "blocked"}
Flow     == [state : States, head : Heads, body : Bodies]

Phases == {"new", "ready", "blocks", "mocks", "mockRecord", "serves",
           "heldReq", "forward", "synth", "synthRecord", "markError",
           "responded", "stream", "streamRecord", "read", "breakResp",
           "heldResp", "dropResp", "write", "writeRecord", "upgrade", "relay",
           "done"}

Request == [to : Schemes \cup {"none"}, body : {"none", "whole", "cut"}]
Unsent  == [to |-> "none", body |-> "none"]

NoPlan == [route |-> "forward", breakReq |-> FALSE, breakResp |-> FALSE,
           redirect |-> FALSE, rehead |-> "none", rebody |-> FALSE]

NewFlow == [state |-> "pending", head |-> "blank", body |-> "empty"]

Init ==
  /\ pc = [g \in Exchanges |-> "new"]
  /\ plan = [g \in Exchanges |-> NoPlan]
  /\ scheme = [g \in Exchanges |-> "http"]
  /\ body = [g \in Exchanges |-> "whole"]
  /\ addr = [g \in Exchanges |-> "http"]
  /\ verdict = [g \in Exchanges |-> [req |-> "none", resp |-> "none"]]
  /\ resp = [g \in Exchanges |-> Nothing]
  /\ reason = [g \in Exchanges |-> "none"]
  /\ sent = [g \in Exchanges |-> Unsent]
  /\ wire = [g \in Exchanges |-> Nothing]
  /\ flow = [g \in Exchanges |-> NewFlow]
  /\ store = <<>>
  /\ breakAll = [phase \in {"req", "resp"} |-> FALSE]

-----------------------------------------------------------------------------
(* The store and the steps of a handler.                                   *)

Retained == {store[i] : i \in 1 .. Len(store)}

(* Store.Update: only a retained flow is changed.                          *)
Update(g, f) ==
  flow' = IF g \in Retained THEN [flow EXCEPT ![g] = f] ELSE flow

Goes(g, from, to) == pc[g] = from /\ pc' = [pc EXCEPT ![g] = to]

inputs  == <<plan, scheme, body>>
outputs == <<sent, wire>>

(* Variant: the store grows without bound.                                 *)
AddedUntrimmed(g) == Append(store, g)

(* Store.Add: append, then drop what exceeds the limit.                    *)
Added(g) ==
  LET longer == Append(store, g) IN
  IF Len(longer) > Limit THEN Tail(longer) ELSE longer

Receive(g) ==
  /\ \E p \in Plans, s \in Schemes :
       /\ plan' = [plan EXCEPT ![g] = p]
       /\ scheme' = [scheme EXCEPT ![g] = s]
       /\ addr' = [addr EXCEPT ![g] = s]
       /\ \E b \in {"whole"} \cup (IF "long" \in Faults THEN {"cut"} ELSE {}) :
            body' = [body EXCEPT ![g] = b]
       /\ Goes(g, "new", CASE p.route = "block" -> "blocks"
                           [] p.route = "location" -> "mocks"
                           [] p.route = "file" -> "serves"
                           [] OTHER -> "ready")
  /\ store' = Added(g)
  /\ UNCHANGED <<verdict, resp, reason, outputs, flow, breakAll>>

-----------------------------------------------------------------------------
(* Answers the proxy makes up itself.                                      *)

(* WriteHeader and Write: the client has its answer.                       *)
Answers(g, message) == wire' = [wire EXCEPT ![g] = message]

Synthetic == [head |-> "synthetic", body |-> "synthetic"]
Mock      == [head |-> "mock", body |-> "mock"]

Because(g, why) == reason' = [reason EXCEPT ![g] = why]

(* Variant: handle goes on after a block.                                  *)
BlocksAndGoesOn(g) ==
  /\ Goes(g, "blocks", "ready")
  /\ Update(g, [flow[g] EXCEPT !.state = "blocked"])
  /\ UNCHANGED <<inputs, addr, verdict, resp, reason, outputs, store, breakAll>>

Blocks(g) ==
  /\ Goes(g, "blocks", "synth")
  /\ Update(g, [flow[g] EXCEPT !.state = "blocked"])
  /\ Because(g, "block")
  /\ UNCHANGED <<inputs, addr, verdict, resp, outputs, store, breakAll>>

(* serveMockFile: the file may be unreadable.                              *)
ServesFile(g) ==
  /\ \/ Goes(g, "serves", "mocks") /\ UNCHANGED reason
     \/ Goes(g, "serves", "synth") /\ Because(g, "file")
  /\ UNCHANGED <<inputs, addr, verdict, resp, outputs, flow, store, breakAll>>

WritesMock(g) ==
  /\ Goes(g, "mocks", "mockRecord")
  /\ Answers(g, Mock)
  /\ UNCHANGED <<inputs, addr, verdict, resp, reason, sent, flow, store, breakAll>>

RecordsMock(g) ==
  /\ Goes(g, "mockRecord", "done")
  /\ Update(g, [state |-> "complete", head |-> "mock", body |-> "mock"])
  /\ UNCHANGED <<inputs, addr, verdict, resp, reason, outputs, store, breakAll>>

WritesSynthetic(g) ==
  /\ Goes(g, "synth", "synthRecord")
  /\ Answers(g, Synthetic)
  /\ UNCHANGED <<inputs, addr, verdict, resp, reason, sent, flow, store, breakAll>>

(* Blocked and failed flows keep their state; all but a blocked one are    *)
(* marked as errors by the caller.                                         *)
RecordsSynthetic(g) ==
  /\ Goes(g, "synthRecord", IF reason[g] = "block" THEN "done" ELSE "markError")
  /\ Update(g, [state |-> IF flow[g].state \in {"blocked", "error"}
                          THEN flow[g].state ELSE "complete",
                head |-> "synthetic", body |-> "synthetic"])
  /\ UNCHANGED <<inputs, addr, verdict, resp, reason, outputs, store, breakAll>>

(* Variant: after an unreadable file the mock is written all the same.     *)
MarksErrorAndGoesOn(g) ==
  /\ Goes(g, "markError", IF reason[g] = "file" THEN "mocks" ELSE "done")
  /\ Update(g, [flow[g] EXCEPT !.state = "error"])
  /\ UNCHANGED <<inputs, addr, verdict, resp, reason, outputs, store, breakAll>>

MarksError(g) ==
  /\ Goes(g, "markError", "done")
  /\ Update(g, [flow[g] EXCEPT !.state = "error"])
  /\ UNCHANGED <<inputs, addr, verdict, resp, reason, outputs, store, breakAll>>

-----------------------------------------------------------------------------
(* The request breakpoint.                                                 *)

Ready(g) ==
  /\ IF plan[g].breakReq \/ breakAll.req
     THEN /\ Goes(g, "ready", "heldReq")
          /\ Update(g, [flow[g] EXCEPT !.state = "intercepted"])
     ELSE Goes(g, "ready", "forward") /\ UNCHANGED flow
  /\ UNCHANGED <<inputs, addr, verdict, resp, reason, outputs, store, breakAll>>

(* Variant: the flow stays marked after the breakpoint.                    *)
ResumedNot(g) == flow[g]

Resumed(g) ==
  IF flow[g].state = "intercepted" THEN [flow[g] EXCEPT !.state = "pending"]
  ELSE flow[g]

Decides(g, phase, v) == verdict' = [verdict EXCEPT ![g][phase] = v]

(* Variant: a dropped request is forwarded.                                *)
DropsRequestNot(g) ==
  /\ Goes(g, "heldReq", "forward")
  /\ Decides(g, "req", "drop")
  /\ Update(g, Resumed(g))
  /\ UNCHANGED <<inputs, addr, resp, reason, outputs, store, breakAll>>

DropsRequest(g) ==
  /\ Goes(g, "heldReq", "synth")
  /\ Decides(g, "req", "drop")
  /\ Update(g, Resumed(g))
  /\ Because(g, "drop")
  /\ UNCHANGED <<inputs, addr, resp, outputs, store, breakAll>>

(* The editor's text is a request line with a path: parseRawRequest makes  *)
(* it an http address unless the operator typed an absolute one.  An empty *)
(* or unreadable text leaves r.URL alone, which is relative when the       *)
(* request came through TLS interception.                                  *)
SendsRequest(g, v) ==
  /\ Goes(g, "heldReq", "forward")
  /\ Decides(g, "req", v)
  /\ Update(g, Resumed(g))
  /\ addr' = [addr EXCEPT ![g] =
                CASE v = "send" -> "http"
                  [] v = "release" -> IF scheme[g] = "https" THEN "relative" ELSE "http"]
  /\ UNCHANGED <<inputs, resp, reason, outputs, store, breakAll>>

(* What the operator types in place of the body is not told apart from the *)
(* body that was read.                                                     *)
EditsRequest(g) ==
  /\ Goes(g, "heldReq", "forward")
  /\ Decides(g, "req", "edit")
  /\ Update(g, Resumed(g))
  /\ \E s \in Schemes : addr' = [addr EXCEPT ![g] = s]
  /\ UNCHANGED <<inputs, resp, reason, outputs, store, breakAll>>

-----------------------------------------------------------------------------
(* Forwarding.  A redirect rule carries an address of its own.             *)

Target(g) == IF plan[g].redirect THEN "https" ELSE addr[g]

Sends(g, to) == sent' = [sent EXCEPT ![g] = [to |-> to, body |-> body[g]]]

(* An address without a scheme is refused before anything is sent, and so  *)
(* is an upgrade when its dial fails.                                      *)
Fails(g) ==
  /\ \/ Target(g) = "relative" /\ UNCHANGED sent
     \/ /\ Target(g) # "relative" /\ "refused" \in Faults
        /\ \/ plan[g].route = "forward" /\ Sends(g, Target(g))
           \/ UNCHANGED sent
  /\ Goes(g, "forward", "synth")
  /\ Because(g, "fail")
  /\ UNCHANGED <<inputs, addr, verdict, resp, wire, flow, store, breakAll>>

(* RoundTrip returns the head of the origin's response, which is recorded  *)
(* before the rules change it.                                             *)
RoundTrips(g) ==
  /\ plan[g].route = "forward" /\ Target(g) # "relative"
  /\ Goes(g, "forward", "responded")
  /\ Sends(g, Target(g))
  /\ Update(g, [flow[g] EXCEPT !.head = "origin"])
  /\ resp' = [resp EXCEPT ![g] = [head |-> "origin", body |-> "origin"]]
  /\ UNCHANGED <<inputs, addr, verdict, reason, wire, store, breakAll>>

BodyRead == {"origin"} \cup (IF Faults \cap {"cut", "long"} # {} THEN {"cut"} ELSE {})

(* The rules' response headers, then: does anything need the whole body?   *)
Responded(g) ==
  /\ resp' = [resp EXCEPT ![g].head = IF plan[g].rehead = "none" THEN @ ELSE "ruled"]
  /\ Goes(g, "responded",
          IF \/ plan[g].breakResp \/ breakAll.resp
             \/ plan[g].rebody \/ plan[g].rehead = "status"
          THEN "read" ELSE "stream")
  /\ UNCHANGED <<inputs, addr, verdict, reason, outputs, flow, store, breakAll>>

Streams(g) ==
  /\ Goes(g, "stream", "streamRecord")
  /\ \E b \in {"origin"} \cup (Faults \cap {"cut"}) :
       /\ Answers(g, [resp[g] EXCEPT !.body = b])
       /\ resp' = [resp EXCEPT ![g].body = b]
  /\ UNCHANGED <<inputs, addr, verdict, reason, sent, flow, store, breakAll>>

(* A body the origin cut short counts as complete, a failed write or read  *)
(* as an error.  The recorded head stays as the origin sent it, and no more*)
(* than MaxBody bytes of the body are kept.                                *)
RecordsStream(g) ==
  /\ Goes(g, "streamRecord", "done")
  /\ \E s \in {"complete"} \cup (IF resp[g].body = "cut" THEN {"error"} ELSE {}),
        b \in {resp[g].body} \cup (IF "long" \in Faults THEN {"cut"} ELSE {}) :
       Update(g, [flow[g] EXCEPT !.state = s, !.body = b])
  /\ UNCHANGED <<inputs, addr, verdict, resp, reason, outputs, store, breakAll>>

(* readCapped stops at MaxBody; a read error is only logged.               *)
Reads(g) ==
  /\ Goes(g, "read", "breakResp")
  /\ \E b \in IF plan[g].rebody THEN {"ruled"} ELSE BodyRead :
       /\ resp' = [resp EXCEPT ![g].body = b]
       /\ Update(g, [flow[g] EXCEPT !.body = b])
  /\ UNCHANGED <<inputs, addr, verdict, reason, outputs, store, breakAll>>

-----------------------------------------------------------------------------
(* The response breakpoint.                                                *)

BreaksResponse(g) ==
  /\ IF plan[g].breakResp \/ breakAll.resp
     THEN /\ Goes(g, "breakResp", "heldResp")
          /\ Update(g, [flow[g] EXCEPT !.state = "intercepted"])
     ELSE Goes(g, "breakResp", "write") /\ UNCHANGED flow
  /\ UNCHANGED <<inputs, addr, verdict, resp, reason, outputs, store, breakAll>>

DropsResponse(g) ==
  /\ Goes(g, "heldResp", "dropResp")
  /\ Decides(g, "resp", "drop")
  /\ Update(g, Resumed(g))
  /\ UNCHANGED <<inputs, addr, resp, reason, outputs, store, breakAll>>

(* Variant: a dropped response leaves its flow as it is.                   *)
ReturnsUnmarked(g) ==
  /\ Goes(g, "dropResp", "done")
  /\ Answers(g, [head |-> "implicit", body |-> "empty"])
  /\ UNCHANGED <<inputs, addr, verdict, resp, reason, sent, flow, store, breakAll>>

(* The handler returns without writing: net/http answers 200, no body.     *)
ReturnsUnwritten(g) ==
  /\ Goes(g, "dropResp", "done")
  /\ Update(g, [flow[g] EXCEPT !.state = "error"])
  /\ Answers(g, [head |-> "implicit", body |-> "empty"])
  /\ UNCHANGED <<inputs, addr, verdict, resp, reason, sent, store, breakAll>>

(* The editor shows the flow as it was recorded when the response was held,*)
(* not the response at hand; what the operator sends replaces the response.*)
SendsResponse(g) ==
  /\ Goes(g, "heldResp", "write")
  /\ Decides(g, "resp", "send")
  /\ Update(g, Resumed(g))
  /\ resp' = [resp EXCEPT ![g] = [head |-> flow[g].head, body |-> flow[g].body]]
  /\ UNCHANGED <<inputs, addr, reason, outputs, store, breakAll>>

EditsResponse(g) ==
  /\ Goes(g, "heldResp", "write")
  /\ Decides(g, "resp", "edit")
  /\ resp' = [resp EXCEPT ![g] = [head |-> "edited", body |-> "edited"]]
  /\ Update(g, [Resumed(g) EXCEPT !.head = "edited", !.body = "edited"])
  /\ UNCHANGED <<inputs, addr, reason, outputs, store, breakAll>>

ReleasesResponse(g) ==
  /\ Goes(g, "heldResp", "write")
  /\ Decides(g, "resp", "release")
  /\ Update(g, Resumed(g))
  /\ UNCHANGED <<inputs, addr, resp, reason, outputs, store, breakAll>>

WritesResponse(g) ==
  /\ Goes(g, "write", "writeRecord")
  /\ Answers(g, resp[g])
  /\ UNCHANGED <<inputs, addr, verdict, resp, reason, sent, flow, store, breakAll>>

RecordsResponse(g) ==
  /\ Goes(g, "writeRecord", "done")
  /\ Update(g, [state |-> "complete", head |-> resp[g].head, body |-> resp[g].body])
  /\ UNCHANGED <<inputs, addr, verdict, resp, reason, outputs, store, breakAll>>

-----------------------------------------------------------------------------
(* handleUpgrade: the handshake is passed on over a plain connection, then *)
(* bytes both ways.                                                        *)

DialsUpgrade(g) ==
  /\ plan[g].route = "upgrade" /\ Target(g) # "relative"
  /\ Goes(g, "forward", "upgrade")
  /\ Sends(g, "http")
  /\ UNCHANGED <<inputs, addr, verdict, resp, reason, wire, flow, store, breakAll>>

Upgrades(g) ==
  /\ Goes(g, "upgrade", "relay")
  /\ Answers(g, [head |-> "upgraded", body |-> "empty"])
  /\ Update(g, [flow[g] EXCEPT !.head = "upgraded"])
  /\ UNCHANGED <<inputs, addr, verdict, resp, reason, sent, store, breakAll>>

(* The upstream ends before its head is complete.                          *)
UpgradeFails(g) ==
  /\ "refused" \in Faults
  /\ Goes(g, "upgrade", "synth")
  /\ Because(g, "fail")
  /\ UNCHANGED <<inputs, addr, verdict, resp, outputs, flow, store, breakAll>>

(* The head cannot be written: the handler returns at once.                *)
UpgradeAbandoned(g) ==
  /\ "gone" \in Faults
  /\ Goes(g, "upgrade", "done")
  /\ UNCHANGED <<inputs, addr, verdict, resp, reason, outputs, flow, store, breakAll>>

(* Variant: the end of an upgraded connection is not recorded.             *)
RelayEndsUnrecorded(g) ==
  /\ Goes(g, "relay", "done")
  /\ UNCHANGED <<inputs, addr, verdict, resp, reason, outputs, flow, store, breakAll>>

RelayEnds(g) ==
  /\ Goes(g, "relay", "done")
  /\ Update(g, [flow[g] EXCEPT !.state = "complete"])
  /\ UNCHANGED <<inputs, addr, verdict, resp, reason, outputs, store, breakAll>>

-----------------------------------------------------------------------------
(* The operator: the flow list and the global breakpoint toggles.          *)

Clear ==
  /\ "clear" \in Faults
  /\ store' = <<>>
  /\ UNCHANGED <<pc, inputs, addr, verdict, resp, reason, outputs, flow, breakAll>>

Toggle(phase) ==
  /\ breakAll' = [breakAll EXCEPT ![phase] = ~@]
  /\ UNCHANGED <<pc, inputs, addr, verdict, resp, reason, outputs, flow, store>>

-----------------------------------------------------------------------------
MakesUp(g) == \/ Blocks(g) \/ ServesFile(g) \/ WritesMock(g) \/ RecordsMock(g)
              \/ WritesSynthetic(g) \/ RecordsSynthetic(g) \/ MarksError(g)

Forwards(g) == \/ Ready(g) \/ Fails(g) \/ RoundTrips(g) \/ Responded(g)
               \/ Streams(g) \/ RecordsStream(g) \/ Reads(g)
               \/ BreaksResponse(g) \/ ReturnsUnwritten(g)
               \/ WritesResponse(g) \/ RecordsResponse(g)
               \/ DialsUpgrade(g) \/ Upgrades(g) \/ UpgradeFails(g)
               \/ UpgradeAbandoned(g) \/ RelayEnds(g)

Operator(g) == \/ DropsRequest(g) \/ EditsRequest(g)
               \/ \E v \in {"send", "release"} : SendsRequest(g, v)
               \/ DropsResponse(g) \/ SendsResponse(g) \/ EditsResponse(g)
               \/ ReleasesResponse(g)

Next == \/ \E g \in Exchanges : Receive(g) \/ MakesUp(g) \/ Forwards(g) \/ Operator(g)
        \/ Clear
        \/ \E phase \in {"req", "resp"} : Toggle(phase)

Spec == Init /\ [][Next]_vars

(* A handler runs on, the upstream answers or refuses, upgraded            *)
(* connections end, and the operator answers the breakpoints.              *)
Fairness == \A g \in Exchanges : WF_vars(MakesUp(g) \/ Forwards(g) \/ Operator(g))

FairSpec == Spec /\ Fairness

-----------------------------------------------------------------------------
(* Every variable keeps its type, and the store its limit (Store.Add).     *)
TypeOK ==
  /\ pc \in [Exchanges -> Phases]
  /\ plan \in [Exchanges -> AllPlans]
  /\ scheme \in [Exchanges -> Schemes]
  /\ body \in [Exchanges -> {"whole", "cut"}]
  /\ addr \in [Exchanges -> Schemes \cup {"relative"}]
  /\ verdict \in [Exchanges -> [req : Verdicts, resp : Verdicts]]
  /\ resp \in [Exchanges -> Message]
  /\ reason \in [Exchanges -> {"none", "block", "file", "drop", "fail"}]
  /\ sent \in [Exchanges -> Request]
  /\ wire \in [Exchanges -> Message]
  /\ flow \in [Exchanges -> Flow]
  /\ store \in Seq(Exchanges) /\ Len(store) <= Limit
  /\ breakAll \in [{"req", "resp"} -> BOOLEAN]

(* What any proxy promises: a request goes upstream at most once, before   *)
(* it is answered, and is answered at most once.                           *)
Promise == INSTANCE Relay
             WITH Requests <- Request, NoRequest <- Unsent,
                  Responses <- Message, NoResponse <- Nothing,
                  received <- {g \in Exchanges : pc[g] # "new"},
                  fetched <- sent, answer <- wire

KeepsRelay == Promise!Spec

(* A request that a rule answers or that the operator drops never reaches  *)
(* the upstream server (the short circuits and the drop in handle).        *)
RefusedStaysLocal ==
  \A g \in Exchanges :
    plan[g].route \in {"block", "location", "file"} \/ verdict[g].req = "drop"
      => sent[g] = Unsent

(* When handle has returned, a flow that is still listed is settled and    *)
(* shows the answer the client received: its body, unless only MaxBody     *)
(* bytes were kept, and its head, except that a streamed response is       *)
(* listed without the rules' header changes.                               *)
SettledAsAnswered ==
  \A g \in Exchanges : pc[g] = "done" /\ g \in Retained =>
    /\ flow[g].state \in Terminal
    /\ wire[g].head = "implicit" => flow[g].state = "error"
    /\ wire[g].head # "implicit" =>
         /\ \/ flow[g].head = wire[g].head
            \/ flow[g].head = "origin" /\ wire[g].head = "ruled"
         /\ flow[g].body \in {wire[g].body, "cut"}

(* A listed flow shows a break only while its exchange really is paused.   *)
InterceptedIsHeld ==
  \A g \in Retained :
    flow[g].state = "intercepted" <=> pc[g] \in {"heldReq", "heldResp"}

(* A settled flow never becomes pending or paused again.                   *)
SettledStaysSettled ==
  [][\A g \in Exchanges : flow[g].state \in Terminal => flow'[g].state \in Terminal]_vars

(* handle always returns, and when it has answered its client the flow is  *)
(* settled, if it is still listed.                                         *)
Settled(g) ==
  /\ pc[g] = "done"
  /\ wire[g] # Nothing /\ g \in Retained => flow[g].state \in Terminal

EveryExchangeSettles == \A g \in Exchanges : pc[g] # "new" ~> Settled(g)

-----------------------------------------------------------------------------
(* The inductive invariant behind RefusedStaysLocal and KeepsRelay: which  *)
(* phases come before the request is sent and before it is answered, and   *)
(* where a request that must stay local can be.                            *)

BeforeFetch == {"new", "ready", "blocks", "mocks", "serves", "heldReq", "forward"}

BeforeAnswer == BeforeFetch \cup
  {"synth", "responded", "stream", "read", "breakResp", "heldResp", "dropResp",
   "write", "upgrade"}

MadeUp == {"synth", "synthRecord", "markError", "done"}

Ordered(g) ==
  /\ pc[g] \in BeforeFetch => sent[g] = Unsent
  /\ pc[g] \in BeforeAnswer => wire[g] = Nothing
  /\ plan[g].route \in {"block", "location", "file"} =>
       /\ pc[g] \in {"blocks", "mocks", "mockRecord", "serves"} \cup MadeUp
       /\ sent[g] = Unsent
  /\ pc[g] \in {"new", "ready", "heldReq"} => verdict[g].req = "none"
  /\ verdict[g].req = "drop" => pc[g] \in MadeUp /\ sent[g] = Unsent

ExchangeInv == TypeOK /\ \A g \in Exchanges : Ordered(g)

-----------------------------------------------------------------------------
(* The inductive invariant behind SettledAsAnswered, InterceptedIsHeld and *)
(* SettledStaysSettled: what the list shows follows the handler.           *)

(* The state of a listed flow says where handle is.                        *)
Unsettled == {"ready", "blocks", "mocks", "mockRecord", "serves", "forward",
              "responded", "stream", "streamRecord", "read", "breakResp",
              "dropResp", "write", "writeRecord", "upgrade", "relay"}

StateFollows(g) ==
  /\ pc[g] # "new"
  /\ flow[g].state = "intercepted" <=> pc[g] \in {"heldReq", "heldResp"}
  /\ pc[g] \in Unsettled => flow[g].state = "pending"
  /\ pc[g] \in {"synth", "synthRecord"} =>
       flow[g].state = IF reason[g] = "block" THEN "blocked" ELSE "pending"
  /\ pc[g] = "markError" => flow[g].state = "complete"
  /\ pc[g] = "done" => IF wire[g] = Nothing THEN flow[g].state = "pending"
                                            ELSE flow[g].state \in Terminal

(* It shows what has been received, or is going to be answered.            *)
ShowsAnswer(g) ==
  /\ wire[g].head = "implicit" => flow[g].state = "error"
  /\ wire[g].head # "implicit" =>
       /\ \/ flow[g].head = wire[g].head
          \/ flow[g].head = "origin" /\ wire[g].head = "ruled"
       /\ flow[g].body \in {wire[g].body, "cut"}

AnswerFollows(g) ==
  /\ pc[g] \in {"responded", "stream", "streamRecord"} => flow[g].head = "origin"
  /\ pc[g] = "relay" => flow[g].head = "upgraded"
  /\ pc[g] = "markError" => flow[g].head = "synthetic" /\ flow[g].body = "synthetic"
  /\ pc[g] = "done" /\ wire[g] # Nothing => ShowsAnswer(g)

Listed(g) == g \in Retained => StateFollows(g) /\ AnswerFollows(g)

(* What the client has by then, whether its flow is listed or not; and     *)
(* only a client that has gone is left without an answer.                  *)
BodyUnread == {"new", "ready", "blocks", "mocks", "serves", "heldReq", "forward",
               "upgrade", "relay"}

HasResponse == {"responded", "stream", "streamRecord", "read", "breakResp",
                "heldResp", "write", "writeRecord"}

AnswerStands(g) ==
  /\ pc[g] = "new" => flow[g] = NewFlow
  /\ pc[g] \in BodyUnread => flow[g].body = "empty"
  /\ flow[g].head \notin {"none", "implicit"} /\ resp[g].head # "implicit"
  /\ pc[g] \in HasResponse => resp[g].head # "none"
  /\ pc[g] \in {"responded", "stream", "streamRecord"} =>
       resp[g].head \in {"origin", "ruled"}
  /\ pc[g] = "mockRecord" => wire[g] = Mock
  /\ pc[g] \in {"synthRecord", "markError"} => wire[g] = Synthetic
  /\ pc[g] \in {"streamRecord", "writeRecord"} => wire[g] = resp[g]
  /\ pc[g] = "relay" => wire[g] = [head |-> "upgraded", body |-> "empty"]
  /\ pc[g] = "done" /\ wire[g] = Nothing => "gone" \in Faults

(* Where a handler is, what it has sent and answered, and what the list    *)
(* shows of it agree: the invariants of this module in one.                *)
FlowInv == ExchangeInv /\ \A g \in Exchanges : AnswerStands(g) /\ Listed(g)

-----------------------------------------------------------------------------
(* What the documents say and the code does not do.                        *)

(* A request of an intercepted TLS connection that is sent as the editor   *)
(* shows it goes on over TLS (README.md:30: interception of HTTPS).        *)
SentOverTls ==
  \A g \in Exchanges :
    /\ scheme[g] = "https" /\ verdict[g].req = "send"
    /\ plan[g].route = "forward" /\ ~plan[g].redirect
    /\ sent[g] # Unsent
    => sent[g].to = "https"
=============================================================================
