--------------------------- MODULE ExchangeProofs ---------------------------
(***************************************************************************)
(* Theorems about Exchange for any set of exchanges and rules, any limit   *)
(* of the store and any faults.                                            *)
(***************************************************************************)
EXTENDS Exchange, SequenceTheorems, TLAPS

(* Adding a flow keeps the store within its limit.                         *)
LEMMA AddedType ==
  ASSUME NEW g \in Exchanges, store \in Seq(Exchanges), Len(store) <= Limit
  PROVE  Added(g) \in Seq(Exchanges) /\ Len(Added(g)) <= Limit
<1> DEFINE longer == Append(store, g)
<1>1. longer \in Seq(Exchanges) /\ Len(longer) = Len(store) + 1 /\ Len(store) \in Nat
  OBVIOUS
<1>2. longer # << >>
  BY <1>1
<1>3. Tail(longer) \in Seq(Exchanges) /\ Len(Tail(longer)) = Len(longer) - 1
  BY <1>1, <1>2
<1> QED
  BY <1>1, <1>3, ExchangeAssumption DEF Added

(* Whatever an update makes of a flow, the flows keep their type.          *)
LEMMA UpdateType ==
  ASSUME TypeOK, NEW g \in Exchanges, NEW f \in Flow, Update(g, f)
  PROVE  flow' \in [Exchanges -> Flow]
BY DEF TypeOK, Update

(* The flow of an exchange, with a new state, head or body.                *)
LEMMA FlowParts ==
  ASSUME TypeOK, NEW g \in Exchanges
  PROVE  /\ \A s \in States : [flow[g] EXCEPT !.state = s] \in Flow
         /\ \A h \in Heads : [flow[g] EXCEPT !.head = h] \in Flow
         /\ \A s \in States, b \in Bodies :
              [flow[g] EXCEPT !.state = s, !.body = b] \in Flow
         /\ \A b \in Bodies : [flow[g] EXCEPT !.body = b] \in Flow
         /\ Resumed(g) \in Flow
         /\ [Resumed(g) EXCEPT !.head = "edited", !.body = "edited"] \in Flow
         /\ flow[g].state \in States /\ flow[g].head \in Heads /\ flow[g].body \in Bodies
<1>1. flow[g] \in [state : States, head : Heads, body : Bodies]
  BY DEF TypeOK, Flow
<1>2. "pending" \in States /\ "edited" \in Heads /\ "edited" \in Bodies
  BY DEF States, Heads, Bodies
<1>3. Resumed(g) \in [state : States, head : Heads, body : Bodies]
  BY <1>1, <1>2 DEF Resumed
<1> QED
  BY <1>1, <1>2, <1>3 DEF Flow

(* Typed values of the other functions of an exchange.                     *)
LEMMA Moving ==
  ASSUME TypeOK, NEW g \in Exchanges, NEW from, NEW to \in Phases, Goes(g, from, to)
  PROVE  /\ pc' \in [Exchanges -> Phases]
         /\ pc[g] = from /\ pc'[g] = to
         /\ \A h \in Exchanges : h # g => pc'[h] = pc[h]
BY DEF TypeOK, Goes

-----------------------------------------------------------------------------
LEMMA MakesUpType ==
  ASSUME TypeOK, NEW g \in Exchanges, MakesUp(g) PROVE TypeOK'
<1> USE FlowParts DEF inputs, outputs
<1>1. CASE Blocks(g)
  <2>1. flow' \in [Exchanges -> Flow]
    BY <1>1, UpdateType DEF Blocks, States
  <2>2. pc' \in [Exchanges -> Phases]
    BY <1>1, Moving DEF Blocks, Phases
  <2> QED
    BY <1>1, <2>1, <2>2 DEF Blocks, TypeOK, Because
<1>2. CASE ServesFile(g)
  <2>1. pc' \in [Exchanges -> Phases]
    BY <1>2, Moving DEF ServesFile, Phases
  <2> QED
    BY <1>2, <2>1 DEF ServesFile, TypeOK, Because
<1>3. CASE WritesMock(g)
  <2>1. pc' \in [Exchanges -> Phases]
    BY <1>3, Moving DEF WritesMock, Phases
  <2>2. Mock \in Message
    BY DEF Mock, Message, Heads, Bodies
  <2> QED
    BY <1>3, <2>1, <2>2 DEF WritesMock, TypeOK, Answers
<1>4. CASE RecordsMock(g)
  <2>1. pc' \in [Exchanges -> Phases]
    BY <1>4, Moving DEF RecordsMock, Phases
  <2>2. [state |-> "complete", head |-> "mock", body |-> "mock"] \in Flow
    BY DEF Flow, States, Heads, Bodies
  <2>3. flow' \in [Exchanges -> Flow]
    BY <1>4, <2>2, UpdateType DEF RecordsMock
  <2> QED
    BY <1>4, <2>1, <2>3 DEF RecordsMock, TypeOK
<1>5. CASE WritesSynthetic(g)
  <2>1. pc' \in [Exchanges -> Phases]
    BY <1>5, Moving DEF WritesSynthetic, Phases
  <2>2. Synthetic \in Message
    BY DEF Synthetic, Message, Heads, Bodies
  <2> QED
    BY <1>5, <2>1, <2>2 DEF WritesSynthetic, TypeOK, Answers
<1>6. CASE RecordsSynthetic(g)
  <2>1. pc' \in [Exchanges -> Phases]
    BY <1>6, Moving DEF RecordsSynthetic, Phases
  <2>2. PICK s \in States :
          Update(g, [state |-> s, head |-> "synthetic", body |-> "synthetic"])
    BY <1>6 DEF RecordsSynthetic, States
  <2>3. [state |-> s, head |-> "synthetic", body |-> "synthetic"] \in Flow
    BY DEF Flow, States, Heads, Bodies
  <2>4. flow' \in [Exchanges -> Flow]
    BY <2>2, <2>3, UpdateType
  <2> QED
    BY <1>6, <2>1, <2>4 DEF RecordsSynthetic, TypeOK
<1>7. CASE MarksError(g)
  <2>1. pc' \in [Exchanges -> Phases]
    BY <1>7, Moving DEF MarksError, Phases
  <2>2. flow' \in [Exchanges -> Flow]
    BY <1>7, UpdateType DEF MarksError, States
  <2> QED
    BY <1>7, <2>1, <2>2 DEF MarksError, TypeOK
<1> QED
  BY <1>1, <1>2, <1>3, <1>4, <1>5, <1>6, <1>7 DEF MakesUp

(* A response made of heads and bodies is a message.                       *)
LEMMA RespParts ==
  ASSUME TypeOK, NEW g \in Exchanges
  PROVE  /\ \A h \in Heads : [resp[g] EXCEPT !.head = h] \in Message
         /\ \A b \in Bodies : [resp[g] EXCEPT !.body = b] \in Message
         /\ resp[g] \in Message /\ resp[g].head \in Heads /\ resp[g].body \in Bodies
BY SMTT(30) DEF TypeOK, Message

LEMMA MessageParts ==
  ASSUME NEW h \in Heads, NEW b \in Bodies
  PROVE  [head |-> h, body |-> b] \in Message
BY DEF Message

LEMMA RespType ==
  ASSUME TypeOK, NEW g \in Exchanges, NEW m \in Message,
         resp' = [resp EXCEPT ![g] = m]
  PROVE  resp' \in [Exchanges -> Message]
BY DEF TypeOK

LEMMA WireType ==
  ASSUME TypeOK, NEW g \in Exchanges, NEW m \in Message, Answers(g, m)
  PROVE  wire' \in [Exchanges -> Message]
BY DEF TypeOK, Answers

(* What is sent is a request over one of the two schemes.                  *)
LEMMA SentType ==
  ASSUME TypeOK, NEW g \in Exchanges, NEW to \in Schemes, Sends(g, to)
  PROVE  sent' \in [Exchanges -> Request]
<1>1. body[g] \in {"whole", "cut"}
  BY DEF TypeOK
<1>2. [to |-> to, body |-> body[g]] \in Request
  BY <1>1 DEF Request
<1> QED
  BY <1>2 DEF TypeOK, Sends

LEMMA TargetType ==
  ASSUME TypeOK, NEW g \in Exchanges
  PROVE  Target(g) \in Schemes \cup {"relative"}
<1>1. addr[g] \in Schemes \cup {"relative"}
  BY DEF TypeOK
<1> QED
  BY <1>1 DEF Target, Schemes

(* The first half of forwarding: up to the response's head.                *)
LEMMA FetchesType ==
  ASSUME TypeOK, NEW g \in Exchanges,
         Ready(g) \/ Fails(g) \/ RoundTrips(g) \/ Responded(g)
  PROVE  TypeOK'
<1> USE FlowParts DEF inputs, outputs
<1>1. CASE Ready(g)
  <2>1. pc' \in [Exchanges -> Phases]
    BY <1>1, Moving DEF Ready, Phases
  <2>2. flow' \in [Exchanges -> Flow]
    <3>1. CASE UNCHANGED flow
      BY <3>1 DEF TypeOK
    <3>2. CASE Update(g, [flow[g] EXCEPT !.state = "intercepted"])
      BY <3>2, UpdateType DEF States
    <3> QED
      BY <1>1, <3>1, <3>2 DEF Ready
  <2> QED
    BY <1>1, <2>1, <2>2 DEF Ready, TypeOK
<1>2. CASE Fails(g)
  <2>1. pc' \in [Exchanges -> Phases]
    BY <1>2, Moving DEF Fails, Phases
  <2>2. sent' \in [Exchanges -> Request]
    <3>1. CASE UNCHANGED sent
      BY <3>1 DEF TypeOK
    <3>2. CASE Target(g) # "relative" /\ Sends(g, Target(g))
      BY <3>2, TargetType, SentType
    <3> QED
      BY <1>2, <3>1, <3>2 DEF Fails
  <2> QED
    BY <1>2, <2>1, <2>2 DEF Fails, TypeOK, Because
<1>3. CASE RoundTrips(g)
  <2>1. pc' \in [Exchanges -> Phases]
    BY <1>3, Moving DEF RoundTrips, Phases
  <2>2. sent' \in [Exchanges -> Request]
    BY <1>3, TargetType, SentType DEF RoundTrips
  <2>3. flow' \in [Exchanges -> Flow]
    BY <1>3, UpdateType DEF RoundTrips, Heads
  <2>4. [head |-> "origin", body |-> "origin"] \in Message
    BY DEF Message, Heads, Bodies
  <2>5. resp' \in [Exchanges -> Message]
    BY <1>3, <2>4, RespType DEF RoundTrips
  <2> QED
    BY <1>3, <2>1, <2>2, <2>3, <2>5 DEF RoundTrips, TypeOK
<1>4. CASE Responded(g)
  <2>1. pc' \in [Exchanges -> Phases]
    <3>1. Goes(g, "responded", "read") \/ Goes(g, "responded", "stream")
      BY <1>4 DEF Responded
    <3> QED
      BY <3>1, Moving DEF Phases
  <2>2. resp' \in [Exchanges -> Message]
    <3>1. PICK h \in Heads : resp' = [resp EXCEPT ![g] = [resp[g] EXCEPT !.head = h]]
      <4>1. CASE plan[g].rehead = "none"
        BY <1>4, <4>1, RespParts DEF Responded
      <4>2. CASE plan[g].rehead # "none"
        BY <1>4, <4>2 DEF Responded, Heads
      <4> QED
        BY <4>1, <4>2
    <3>2. [resp[g] EXCEPT !.head = h] \in Message
      BY RespParts
    <3> QED
      BY <3>1, <3>2, RespType
  <2> QED
    BY <1>4, <2>1, <2>2 DEF Responded, TypeOK
<1> QED
  BY <1>1, <1>2, <1>3, <1>4

(* The second half: the response's body, its breakpoint and the answer.    *)
LEMMA DeliversType ==
  ASSUME TypeOK, NEW g \in Exchanges,
         \/ Streams(g) \/ RecordsStream(g) \/ Reads(g) \/ BreaksResponse(g)
         \/ ReturnsUnwritten(g) \/ WritesResponse(g) \/ RecordsResponse(g)
  PROVE  TypeOK'
<1> USE FlowParts, RespParts DEF inputs, outputs
<1>1. CASE Streams(g)
  <2>1. pc' \in [Exchanges -> Phases]
    BY <1>1, Moving DEF Streams, Phases
  <2>2. PICK b \in Bodies : /\ Answers(g, [resp[g] EXCEPT !.body = b])
                            /\ resp' = [resp EXCEPT ![g] = [resp[g] EXCEPT !.body = b]]
    BY <1>1 DEF Streams, Bodies
  <2>3. [resp[g] EXCEPT !.body = b] \in Message
    BY RespParts
  <2>4. wire' \in [Exchanges -> Message] /\ resp' \in [Exchanges -> Message]
    BY <2>2, <2>3, WireType, RespType
  <2> QED
    BY <1>1, <2>1, <2>4 DEF Streams, TypeOK
<1>2. CASE RecordsStream(g)
  <2>1. pc' \in [Exchanges -> Phases]
    BY <1>2, Moving DEF RecordsStream, Phases
  <2>2. PICK s \in States, b \in Bodies :
          Update(g, [flow[g] EXCEPT !.state = s, !.body = b])
    BY <1>2 DEF RecordsStream, States, Bodies
  <2>3. flow' \in [Exchanges -> Flow]
    BY <2>2, UpdateType
  <2> QED
    BY <1>2, <2>1, <2>3 DEF RecordsStream, TypeOK
<1>3. CASE Reads(g)
  <2>1. pc' \in [Exchanges -> Phases]
    BY <1>3, Moving DEF Reads, Phases
  <2>2. PICK b \in Bodies :
          /\ resp' = [resp EXCEPT ![g] = [resp[g] EXCEPT !.body = b]]
          /\ Update(g, [flow[g] EXCEPT !.body = b])
    BY <1>3 DEF Reads, BodyRead, Bodies
  <2>3. resp' \in [Exchanges -> Message]
    <3>1. [resp[g] EXCEPT !.body = b] \in Message
      BY RespParts
    <3> QED
      BY <2>2, <3>1, RespType
  <2>4. flow' \in [Exchanges -> Flow]
    BY <2>2, UpdateType
  <2> QED
    BY <1>3, <2>1, <2>3, <2>4 DEF Reads, TypeOK
<1>4. CASE BreaksResponse(g)
  <2>1. pc' \in [Exchanges -> Phases]
    BY <1>4, Moving DEF BreaksResponse, Phases
  <2>2. flow' \in [Exchanges -> Flow]
    <3>1. CASE UNCHANGED flow
      BY <3>1 DEF TypeOK
    <3>2. CASE Update(g, [flow[g] EXCEPT !.state = "intercepted"])
      BY <3>2, UpdateType DEF States
    <3> QED
      BY <1>4, <3>1, <3>2 DEF BreaksResponse
  <2> QED
    BY <1>4, <2>1, <2>2 DEF BreaksResponse, TypeOK
<1>5. CASE ReturnsUnwritten(g)
  <2>1. pc' \in [Exchanges -> Phases]
    BY <1>5, Moving DEF ReturnsUnwritten, Phases
  <2>2. flow' \in [Exchanges -> Flow]
    BY <1>5, UpdateType DEF ReturnsUnwritten, States
  <2>3. [head |-> "implicit", body |-> "empty"] \in Message
    BY MessageParts DEF Heads, Bodies
  <2>4. wire' \in [Exchanges -> Message]
    BY <1>5, <2>3, WireType DEF ReturnsUnwritten
  <2> QED
    BY <1>5, <2>1, <2>2, <2>4 DEF ReturnsUnwritten, TypeOK
<1>6. CASE WritesResponse(g)
  <2>1. pc' \in [Exchanges -> Phases]
    BY <1>6, Moving DEF WritesResponse, Phases
  <2>2. wire' \in [Exchanges -> Message]
    BY <1>6, RespParts, WireType DEF WritesResponse
  <2> QED
    BY <1>6, <2>1, <2>2 DEF WritesResponse, TypeOK
<1>7. CASE RecordsResponse(g)
  <2>1. pc' \in [Exchanges -> Phases]
    BY <1>7, Moving DEF RecordsResponse, Phases
  <2> DEFINE h == resp[g].head
             b == resp[g].body
  <2> HIDE DEF h, b
  <2>2. [state |-> "complete", head |-> h, body |-> b] \in Flow
    <3>1. h \in Heads /\ b \in Bodies
      BY RespParts DEF h, b
    <3> QED
      BY <3>1 DEF Flow, States
  <2>3. flow' \in [Exchanges -> Flow]
    BY <1>7, <2>2, UpdateType DEF RecordsResponse, h, b
  <2> QED
    BY <1>7, <2>1, <2>3 DEF RecordsResponse, TypeOK
<1> QED
  BY <1>1, <1>2, <1>3, <1>4, <1>5, <1>6, <1>7

(* Upgraded connections.                                                   *)
LEMMA UpgradesType ==
  ASSUME TypeOK, NEW g \in Exchanges,
         \/ DialsUpgrade(g) \/ Upgrades(g) \/ UpgradeFails(g)
         \/ UpgradeAbandoned(g) \/ RelayEnds(g)
  PROVE  TypeOK'
<1> USE FlowParts DEF inputs, outputs
<1>1. CASE DialsUpgrade(g)
  <2>1. pc' \in [Exchanges -> Phases]
    BY <1>1, Moving DEF DialsUpgrade, Phases
  <2>2. sent' \in [Exchanges -> Request]
    BY <1>1, SentType DEF DialsUpgrade, Schemes
  <2> QED
    BY <1>1, <2>1, <2>2 DEF DialsUpgrade, TypeOK
<1>2. CASE Upgrades(g)
  <2>1. pc' \in [Exchanges -> Phases]
    BY <1>2, Moving DEF Upgrades, Phases
  <2>2. flow' \in [Exchanges -> Flow]
    BY <1>2, UpdateType DEF Upgrades, Heads
  <2>3. [head |-> "upgraded", body |-> "empty"] \in Message
    BY MessageParts DEF Heads, Bodies
  <2>4. wire' \in [Exchanges -> Message]
    BY <1>2, <2>3, WireType DEF Upgrades
  <2> QED
    BY <1>2, <2>1, <2>2, <2>4 DEF Upgrades, TypeOK
<1>3. CASE UpgradeFails(g)
  <2>1. pc' \in [Exchanges -> Phases]
    BY <1>3, Moving DEF UpgradeFails, Phases
  <2> QED
    BY <1>3, <2>1 DEF UpgradeFails, TypeOK, Because
<1>4. CASE UpgradeAbandoned(g)
  <2>1. pc' \in [Exchanges -> Phases]
    BY <1>4, Moving DEF UpgradeAbandoned, Phases
  <2> QED
    BY <1>4, <2>1 DEF UpgradeAbandoned, TypeOK
<1>5. CASE RelayEnds(g)
  <2>1. pc' \in [Exchanges -> Phases]
    BY <1>5, Moving DEF RelayEnds, Phases
  <2>2. flow' \in [Exchanges -> Flow]
    BY <1>5, UpdateType DEF RelayEnds, States
  <2> QED
    BY <1>5, <2>1, <2>2 DEF RelayEnds, TypeOK
<1> QED
  BY <1>1, <1>2, <1>3, <1>4, <1>5

(* The operator's answers at the breakpoints.                              *)
LEMMA DecidesType ==
  ASSUME TypeOK, NEW g \in Exchanges, NEW v \in Verdicts,
         NEW phase \in {"req", "resp"}, Decides(g, phase, v)
  PROVE  verdict' \in [Exchanges -> [req : Verdicts, resp : Verdicts]]
<1>1. verdict[g] \in [req : Verdicts, resp : Verdicts]
  BY DEF TypeOK
<1>2. verdict' = [verdict EXCEPT ![g] = [verdict[g] EXCEPT ![phase] = v]]
  BY DEF Decides
<1>3. [verdict[g] EXCEPT ![phase] = v] \in [req : Verdicts, resp : Verdicts]
  BY <1>1
<1> QED
  BY <1>2, <1>3 DEF TypeOK

LEMMA OperatorType ==
  ASSUME TypeOK, NEW g \in Exchanges, Operator(g) PROVE TypeOK'
<1> USE FlowParts DEF inputs, outputs
<1>1. CASE DropsRequest(g)
  <2>1. pc' \in [Exchanges -> Phases]
    BY <1>1, Moving DEF DropsRequest, Phases
  <2>2. flow' \in [Exchanges -> Flow]
    BY <1>1, UpdateType DEF DropsRequest
  <2>3. verdict' \in [Exchanges -> [req : Verdicts, resp : Verdicts]]
    BY <1>1, DecidesType DEF DropsRequest, Verdicts
  <2> QED
    BY <1>1, <2>1, <2>2, <2>3 DEF DropsRequest, TypeOK, Because
<1>2. CASE EditsRequest(g)
  <2>1. pc' \in [Exchanges -> Phases]
    BY <1>2, Moving DEF EditsRequest, Phases
  <2>2. flow' \in [Exchanges -> Flow]
    BY <1>2, UpdateType DEF EditsRequest
  <2>3. verdict' \in [Exchanges -> [req : Verdicts, resp : Verdicts]]
    BY <1>2, DecidesType DEF EditsRequest, Verdicts
  <2>4. addr' \in [Exchanges -> Schemes \cup {"relative"}]
    BY <1>2 DEF EditsRequest, TypeOK
  <2> QED
    BY <1>2, <2>1, <2>2, <2>3, <2>4 DEF EditsRequest, TypeOK
<1>3. ASSUME NEW v \in {"send", "release"}, SendsRequest(g, v) PROVE TypeOK'
  <2>1. pc' \in [Exchanges -> Phases]
    BY <1>3, Moving DEF SendsRequest, Phases
  <2>2. flow' \in [Exchanges -> Flow]
    BY <1>3, UpdateType DEF SendsRequest
  <2>3. verdict' \in [Exchanges -> [req : Verdicts, resp : Verdicts]]
    BY <1>3, DecidesType DEF SendsRequest, Verdicts
  <2>4. addr' \in [Exchanges -> Schemes \cup {"relative"}]
    <3>1. PICK s \in Schemes \cup {"relative"} : addr' = [addr EXCEPT ![g] = s]
      <4>1. CASE v = "send"
        BY <1>3, <4>1 DEF SendsRequest, Schemes
      <4>2. CASE v = "release"
        BY <1>3, <4>2 DEF SendsRequest, Schemes
      <4> QED
        BY <4>1, <4>2
    <3> QED
      BY <3>1 DEF TypeOK
  <2> QED
    BY <1>3, <2>1, <2>2, <2>3, <2>4 DEF SendsRequest, TypeOK
<1>4. CASE DropsResponse(g)
  <2>1. pc' \in [Exchanges -> Phases]
    BY <1>4, Moving DEF DropsResponse, Phases
  <2>2. flow' \in [Exchanges -> Flow]
    BY <1>4, UpdateType DEF DropsResponse
  <2>3. verdict' \in [Exchanges -> [req : Verdicts, resp : Verdicts]]
    BY <1>4, DecidesType DEF DropsResponse, Verdicts
  <2> QED
    BY <1>4, <2>1, <2>2, <2>3 DEF DropsResponse, TypeOK
<1>5. CASE SendsResponse(g)
  <2>1. pc' \in [Exchanges -> Phases]
    BY <1>5, Moving DEF SendsResponse, Phases
  <2>2. flow' \in [Exchanges -> Flow]
    BY <1>5, UpdateType DEF SendsResponse
  <2>3. verdict' \in [Exchanges -> [req : Verdicts, resp : Verdicts]]
    BY <1>5, DecidesType DEF SendsResponse, Verdicts
  <2>4. [head |-> flow[g].head, body |-> flow[g].body] \in Message
    BY MessageParts
  <2>5. resp' \in [Exchanges -> Message]
    BY <1>5, <2>4, RespType DEF SendsResponse
  <2> QED
    BY <1>5, <2>1, <2>2, <2>3, <2>5 DEF SendsResponse, TypeOK
<1>6. CASE EditsResponse(g)
  <2>1. pc' \in [Exchanges -> Phases]
    BY <1>6, Moving DEF EditsResponse, Phases
  <2>2. flow' \in [Exchanges -> Flow]
    BY <1>6, UpdateType DEF EditsResponse
  <2>3. verdict' \in [Exchanges -> [req : Verdicts, resp : Verdicts]]
    BY <1>6, DecidesType DEF EditsResponse, Verdicts
  <2>4. [head |-> "edited", body |-> "edited"] \in Message
    BY MessageParts DEF Heads, Bodies
  <2>5. resp' \in [Exchanges -> Message]
    BY <1>6, <2>4, RespType DEF EditsResponse
  <2> QED
    BY <1>6, <2>1, <2>2, <2>3, <2>5 DEF EditsResponse, TypeOK
<1>7. CASE ReleasesResponse(g)
  <2>1. pc' \in [Exchanges -> Phases]
    BY <1>7, Moving DEF ReleasesResponse, Phases
  <2>2. flow' \in [Exchanges -> Flow]
    BY <1>7, UpdateType DEF ReleasesResponse
  <2>3. verdict' \in [Exchanges -> [req : Verdicts, resp : Verdicts]]
    BY <1>7, DecidesType DEF ReleasesResponse, Verdicts
  <2> QED
    BY <1>7, <2>1, <2>2, <2>3 DEF ReleasesResponse, TypeOK
<1> QED
  BY <1>1, <1>2, <1>3, <1>4, <1>5, <1>6, <1>7 DEF Operator

(* A request arrives.                                                      *)
LEMMA ReceiveType ==
  ASSUME TypeOK, NEW g \in Exchanges, Receive(g) PROVE TypeOK'
<1> USE DEF inputs, outputs
<1>1. PICK p \in Plans, s \in Schemes :
        /\ plan' = [plan EXCEPT ![g] = p]
        /\ scheme' = [scheme EXCEPT ![g] = s]
        /\ addr' = [addr EXCEPT ![g] = s]
        /\ \E b \in {"whole", "cut"} : body' = [body EXCEPT ![g] = b]
        /\ \E to \in {"blocks", "mocks", "serves", "ready"} : Goes(g, "new", to)
  <2>1. PICK p \in Plans, s \in Schemes :
          /\ plan' = [plan EXCEPT ![g] = p]
          /\ scheme' = [scheme EXCEPT ![g] = s]
          /\ addr' = [addr EXCEPT ![g] = s]
          /\ \E b \in {"whole"} \cup (IF "long" \in Faults THEN {"cut"} ELSE {}) :
               body' = [body EXCEPT ![g] = b]
          /\ Goes(g, "new", CASE p.route = "block" -> "blocks"
                              [] p.route = "location" -> "mocks"
                              [] p.route = "file" -> "serves"
                              [] OTHER -> "ready")
    BY DEF Receive
  <2>2. \E to \in {"blocks", "mocks", "serves", "ready"} : Goes(g, "new", to)
    BY <2>1
  <2> QED
    BY <2>1, <2>2
<1>2. pc' \in [Exchanges -> Phases]
  BY <1>1, Moving DEF Phases
<1>3. plan' \in [Exchanges -> AllPlans] /\ scheme' \in [Exchanges -> Schemes]
  BY <1>1, ExchangeAssumption DEF TypeOK
<1>4. addr' \in [Exchanges -> Schemes \cup {"relative"}]
  BY <1>1 DEF TypeOK
<1>5. body' \in [Exchanges -> {"whole", "cut"}]
  BY <1>1 DEF TypeOK
<1>6. store' \in Seq(Exchanges) /\ Len(store') <= Limit
  BY AddedType DEF Receive, TypeOK
<1> QED
  BY <1>2, <1>3, <1>4, <1>5, <1>6 DEF Receive, TypeOK

(* Every step keeps the types.                                             *)
LEMMA TypeStep ==
  TypeOK /\ [Next]_vars => TypeOK'
<1> SUFFICES ASSUME TypeOK, [Next]_vars PROVE TypeOK'
  OBVIOUS
<1> USE DEF inputs, outputs
<1>1. ASSUME NEW g \in Exchanges, Receive(g) PROVE TypeOK'
  BY <1>1, ReceiveType
<1>2. ASSUME NEW g \in Exchanges, MakesUp(g) PROVE TypeOK'
  BY <1>2, MakesUpType
<1>3. ASSUME NEW g \in Exchanges, Forwards(g) PROVE TypeOK'
  BY <1>3, FetchesType, DeliversType, UpgradesType DEF Forwards
<1>4. ASSUME NEW g \in Exchanges, Operator(g) PROVE TypeOK'
  BY <1>4, OperatorType
<1>5. CASE Clear
  <2>1. <<>> \in Seq(Exchanges) /\ Len(<<>>) <= Limit
    BY ExchangeAssumption
  <2> QED
    BY <1>5, <2>1 DEF Clear, TypeOK
<1>6. ASSUME NEW phase \in {"req", "resp"}, Toggle(phase) PROVE TypeOK'
  <2>1. breakAll[phase] \in BOOLEAN
    BY DEF TypeOK
  <2>2. breakAll' \in [{"req", "resp"} -> BOOLEAN]
    BY <1>6, <2>1, Zenon DEF Toggle, TypeOK
  <2> QED
    BY <1>6, <2>2 DEF Toggle, TypeOK
<1>7. CASE UNCHANGED vars
  BY <1>7 DEF vars, TypeOK
<1> QED
  BY <1>1, <1>2, <1>3, <1>4, <1>5, <1>6, <1>7 DEF Next

-----------------------------------------------------------------------------
(* What a step of another exchange leaves alone.                           *)
Untouched(h) ==
  /\ pc'[h] = pc[h] /\ plan'[h] = plan[h] /\ verdict'[h] = verdict[h]
  /\ sent'[h] = sent[h] /\ wire'[h] = wire[h]

LEMMA UntouchedOrdered ==
  ASSUME NEW h \in Exchanges, Ordered(h), Untouched(h) PROVE Ordered(h)'
BY DEF Ordered, Untouched

(* A request that arrives is where its plan sends it, and nothing has been *)
(* sent or written yet.                                                    *)
LEMMA ReceiveOrdered ==
  ASSUME TypeOK, NEW g \in Exchanges, Receive(g), \A h \in Exchanges : Ordered(h)
  PROVE  \A h \in Exchanges : Ordered(h)'
<1> USE DEF outputs
<1>1. PICK p \in Plans :
        /\ plan' = [plan EXCEPT ![g] = p]
        /\ Goes(g, "new", CASE p.route = "block" -> "blocks"
                            [] p.route = "location" -> "mocks"
                            [] p.route = "file" -> "serves"
                            [] OTHER -> "ready")
  BY DEF Receive
<1>2. UNCHANGED <<sent, wire, verdict>>
  BY DEF Receive
<1>3. ASSUME NEW h \in Exchanges, h # g PROVE Ordered(h)'
  BY <1>1, <1>2, <1>3, UntouchedOrdered DEF Untouched, Goes, TypeOK
<1>4. plan'[g] = p
  BY <1>1 DEF TypeOK
<1>5. sent'[g] = Unsent /\ wire'[g] = Nothing /\ verdict'[g].req = "none"
  BY <1>1, <1>2 DEF Ordered, BeforeFetch, BeforeAnswer, Goes
<1>6. \/ p.route \in {"block", "location", "file"} /\ pc'[g] \in {"blocks", "mocks", "serves"}
      \/ p.route \notin {"block", "location", "file"} /\ pc'[g] = "ready"
  BY <1>1 DEF Goes, TypeOK
<1>7. Ordered(g)'
  BY <1>4, <1>5, <1>6 DEF Ordered
<1> QED
  BY <1>3, <1>7

LEMMA MakesUpOrdered ==
  ASSUME TypeOK, NEW g \in Exchanges, MakesUp(g), \A h \in Exchanges : Ordered(h)
  PROVE  \A h \in Exchanges : Ordered(h)'
<1> USE DEF inputs, outputs
<1>1. UNCHANGED <<plan, verdict, sent>>
  BY DEF MakesUp, Blocks, ServesFile, WritesMock, RecordsMock, WritesSynthetic,
         RecordsSynthetic, MarksError
<1>2. ASSUME NEW h \in Exchanges, h # g PROVE Ordered(h)'
  <2>1. pc'[h] = pc[h] /\ wire'[h] = wire[h]
    BY <1>2
    DEF MakesUp, Blocks, ServesFile, WritesMock, RecordsMock, WritesSynthetic,
         RecordsSynthetic, MarksError, Goes, Answers, TypeOK
  <2> QED
    BY <1>1, <2>1, UntouchedOrdered DEF Untouched
<1>3. Ordered(g)'
  <2>1. CASE Blocks(g)
    BY <1>1, <2>1
    DEF Blocks, Goes, Ordered, BeforeFetch, BeforeAnswer, MadeUp, TypeOK
  <2>2. CASE ServesFile(g)
    BY <1>1, <2>2
    DEF ServesFile, Goes, Ordered, BeforeFetch, BeforeAnswer, MadeUp, TypeOK
  <2>3. CASE WritesMock(g)
    BY <1>1, <2>3
    DEF WritesMock, Goes, Ordered, BeforeFetch, BeforeAnswer, MadeUp, TypeOK
  <2>4. CASE RecordsMock(g)
    BY <1>1, <2>4
    DEF RecordsMock, Goes, Ordered, BeforeFetch, BeforeAnswer, MadeUp, TypeOK
  <2>5. CASE WritesSynthetic(g)
    BY <1>1, <2>5
    DEF WritesSynthetic, Goes, Ordered, BeforeFetch, BeforeAnswer, MadeUp, TypeOK
  <2>6. CASE RecordsSynthetic(g)
    BY <1>1, <2>6
    DEF RecordsSynthetic, Goes, Ordered, BeforeFetch, BeforeAnswer, MadeUp, TypeOK
  <2>7. CASE MarksError(g)
    BY <1>1, <2>7
    DEF MarksError, Goes, Ordered, BeforeFetch, BeforeAnswer, MadeUp, TypeOK
  <2> QED
    BY <2>1, <2>2, <2>3, <2>4, <2>5, <2>6, <2>7 DEF MakesUp
<1> QED
  BY <1>2, <1>3

(* A request is sent from forward only, and answered from the phases of    *)
(* BeforeAnswer only.                                                      *)
LEMMA ForwardsOrdered ==
  ASSUME TypeOK, NEW g \in Exchanges, Forwards(g), \A h \in Exchanges : Ordered(h)
  PROVE  \A h \in Exchanges : Ordered(h)'
<1> USE DEF inputs, outputs
<1>1. UNCHANGED <<plan, verdict>>
  BY DEF Forwards, Ready, Fails, RoundTrips, Responded, Streams, RecordsStream,
     Reads,
         BreaksResponse, ReturnsUnwritten, WritesResponse,
         RecordsResponse, DialsUpgrade, Upgrades, UpgradeFails,
         UpgradeAbandoned, RelayEnds
<1>2. ASSUME NEW h \in Exchanges, h # g PROVE Ordered(h)'
  <2>1. pc'[h] = pc[h]
    BY <1>2
    DEF Goes, TypeOK, Forwards, Ready, Fails, RoundTrips, Responded, Streams,
        RecordsStream, Reads,
         BreaksResponse, ReturnsUnwritten, WritesResponse,
         RecordsResponse, DialsUpgrade, Upgrades, UpgradeFails,
         UpgradeAbandoned, RelayEnds
  <2>2. sent'[h] = sent[h] /\ wire'[h] = wire[h]
    BY <1>2
    DEF Sends, Answers, TypeOK, Forwards, Ready, Fails, RoundTrips, Responded,
        Streams, RecordsStream, Reads,
         BreaksResponse, ReturnsUnwritten, WritesResponse,
         RecordsResponse, DialsUpgrade, Upgrades, UpgradeFails,
         UpgradeAbandoned, RelayEnds
  <2> QED
    BY <1>1, <2>1, <2>2, UntouchedOrdered DEF Untouched
<1>3. Ordered(g)'
  <2> USE <1>1 DEF Goes, Ordered, BeforeFetch, BeforeAnswer, MadeUp, TypeOK
  <2>1. CASE Ready(g)
    BY <2>1 DEF Ready
  <2>2. CASE Fails(g)
    BY <2>2 DEF Fails
  <2>3. CASE RoundTrips(g)
    BY <2>3 DEF RoundTrips
  <2>4. CASE Responded(g)
    BY <2>4 DEF Responded
  <2>5. CASE Streams(g)
    BY <2>5 DEF Streams
  <2>6. CASE RecordsStream(g)
    BY <2>6 DEF RecordsStream
  <2>7. CASE Reads(g)
    BY <2>7 DEF Reads
  <2>8. CASE BreaksResponse(g)
    BY <2>8, SMTT(30) DEF BreaksResponse
  <2>9. CASE ReturnsUnwritten(g)
    BY <2>9 DEF ReturnsUnwritten
  <2>10. CASE WritesResponse(g)
    BY <2>10 DEF WritesResponse
  <2>11. CASE RecordsResponse(g)
    BY <2>11 DEF RecordsResponse
  <2>12. CASE DialsUpgrade(g)
    BY <2>12 DEF DialsUpgrade
  <2>13. CASE Upgrades(g)
    BY <2>13 DEF Upgrades
  <2>14. CASE UpgradeFails(g)
    BY <2>14 DEF UpgradeFails
  <2>15. CASE UpgradeAbandoned(g)
    BY <2>15 DEF UpgradeAbandoned
  <2>16. CASE RelayEnds(g)
    BY <2>16 DEF RelayEnds
  <2> QED
    BY <2>1, <2>2, <2>3, <2>4, <2>5, <2>6, <2>7, <2>8, <2>9, <2>10, <2>11,
       <2>12, <2>13, <2>14, <2>15, <2>16 DEF Forwards
<1> QED
  BY <1>2, <1>3

(* A decision leaves the flow of control before the request is sent, or    *)
(* before the response is written; only a drop of a request is a refusal.  *)
LEMMA OperatorOrdered ==
  ASSUME TypeOK, NEW g \in Exchanges, Operator(g), \A h \in Exchanges : Ordered(h)
  PROVE  \A h \in Exchanges : Ordered(h)'
<1> USE DEF inputs, outputs
<1>1. UNCHANGED <<plan, sent, wire>>
  BY DEF Operator, DropsRequest, EditsRequest, SendsRequest, DropsResponse,
         SendsResponse, EditsResponse, ReleasesResponse
<1>2. ASSUME NEW h \in Exchanges, h # g PROVE Ordered(h)'
  <2>1. pc'[h] = pc[h] /\ verdict'[h] = verdict[h]
    BY <1>2 DEF Goes, Decides, TypeOK, Operator, DropsRequest, EditsRequest,
         SendsRequest, DropsResponse, SendsResponse, EditsResponse, ReleasesResponse
  <2> QED
    BY <1>1, <2>1, UntouchedOrdered DEF Untouched
<1>3. ASSUME NEW v \in Verdicts, Decides(g, "resp", v)
      PROVE  verdict'[g].req = verdict[g].req
  BY <1>3 DEF Decides, TypeOK
<1>4. ASSUME NEW v \in Verdicts, Decides(g, "req", v)
      PROVE  verdict'[g].req = v
  BY <1>4 DEF Decides, TypeOK
<1>5. Ordered(g)'
  <2> USE <1>1 DEF Goes, Ordered, BeforeFetch, BeforeAnswer, MadeUp
  <2> pc \in [Exchanges -> Phases]
    BY DEF TypeOK
  <2>1. CASE DropsRequest(g)
    BY <2>1, <1>4 DEF DropsRequest, Verdicts
  <2>2. CASE EditsRequest(g)
    BY <2>2, <1>4 DEF EditsRequest, Verdicts
  <2>3. ASSUME NEW v \in {"send", "release"}, SendsRequest(g, v) PROVE Ordered(g)'
    BY <2>3, <1>4 DEF SendsRequest, Verdicts
  <2>4. CASE DropsResponse(g)
    BY <2>4, <1>3 DEF DropsResponse, Verdicts
  <2>5. CASE SendsResponse(g)
    BY <2>5, <1>3 DEF SendsResponse, Verdicts
  <2>6. CASE EditsResponse(g)
    BY <2>6, <1>3 DEF EditsResponse, Verdicts
  <2>7. CASE ReleasesResponse(g)
    BY <2>7, <1>3 DEF ReleasesResponse, Verdicts
  <2> QED
    BY <2>1, <2>2, <2>3, <2>4, <2>5, <2>6, <2>7 DEF Operator
<1> QED
  BY <1>2, <1>5

LEMMA ExchangeInvStep ==
  ExchangeInv /\ [Next]_vars => ExchangeInv'
<1> SUFFICES ASSUME ExchangeInv, [Next]_vars PROVE ExchangeInv'
  OBVIOUS
<1> USE DEF inputs, outputs
<1> DEFINE Ordering == \A h \in Exchanges : Ordered(h)
<1> TypeOK /\ Ordering
  BY DEF ExchangeInv
<1>1. ASSUME NEW g \in Exchanges,
             Receive(g) \/ MakesUp(g) \/ Forwards(g) \/ Operator(g)
      PROVE  Ordering'
  BY <1>1, ReceiveOrdered, MakesUpOrdered, ForwardsOrdered, OperatorOrdered
<1>2. ASSUME \/ Clear \/ \E phase \in {"req", "resp"} : Toggle(phase)
             \/ UNCHANGED vars
      PROVE  Ordering'
  <2>1. UNCHANGED <<pc, plan, verdict, sent, wire>>
    BY <1>2 DEF Clear, Toggle, vars
  <2>2. ASSUME NEW h \in Exchanges PROVE Ordered(h)'
    BY <2>1, UntouchedOrdered DEF Untouched
  <2> QED
    BY <2>2
<1>3. \/ \E g \in Exchanges : Receive(g) \/ MakesUp(g) \/ Forwards(g) \/ Operator(g)
      \/ Clear \/ \E phase \in {"req", "resp"} : Toggle(phase)
      \/ UNCHANGED vars
  BY Zenon DEF Next
<1>4. Ordering'
  BY <1>1, <1>2, <1>3, Zenon
<1> QED
  BY <1>4, TypeStep DEF ExchangeInv

LEMMA ExchangeInvInit == Init => ExchangeInv
<1> SUFFICES ASSUME Init PROVE ExchangeInv
  OBVIOUS
<1>1. NoPlan \in AllPlans /\ NewFlow \in Flow /\ Unsent \in Request /\ Nothing \in Message
  BY DEF NoPlan, AllPlans, Routes, NewFlow, Flow, States, Heads, Bodies, Unsent,
         Request, Nothing, Message
<1>2. TypeOK
  <2>1. store \in Seq(Exchanges) /\ Len(store) <= Limit
    BY ExchangeAssumption DEF Init
  <2>2. breakAll \in [{"req", "resp"} -> BOOLEAN]
    BY DEF Init
  <2> QED
    BY <1>1, <2>1, <2>2 DEF Init, TypeOK, Phases, Schemes, Verdicts
<1>3. ASSUME NEW h \in Exchanges PROVE Ordered(h)
  BY DEF Init, Ordered, NoPlan, MadeUp
<1> QED
  BY <1>2, <1>3 DEF ExchangeInv

(* The inductive invariant of an exchange, for any rules and faults.       *)
THEOREM ExchangeInvAlways == Spec => []ExchangeInv
BY ExchangeInvInit, ExchangeInvStep, PTL DEF Spec

(* Every variable keeps its type, and the store its limit.                 *)
THEOREM TypeCorrect == Spec => []TypeOK
<1>1. ExchangeInv => TypeOK
  BY DEF ExchangeInv
<1> QED
  BY <1>1, ExchangeInvAlways, PTL

(* A request that a rule answers or that the operator drops never reaches  *)
(* the upstream server.                                                    *)
THEOREM RefusedStaysLocalAlways == Spec => []RefusedStaysLocal
<1>1. ExchangeInv => RefusedStaysLocal
  BY DEF ExchangeInv, Ordered, RefusedStaysLocal
<1> QED
  BY <1>1, ExchangeInvAlways, PTL

-----------------------------------------------------------------------------
(* The steps of Exchange are steps of Relay.                               *)
received == {g \in Exchanges : pc[g] # "new"}

(* After its request has been received, no step of an exchange undoes that.*)
LEMMA StaysReceived ==
  ASSUME TypeOK, NEW g \in Exchanges, MakesUp(g) \/ Forwards(g) \/ Operator(g)
  PROVE  g \in received /\ received' = received
<1>1. pc[g] # "new" /\ pc'[g] # "new"
  <2> USE DEF Goes, TypeOK
  <2>1. CASE MakesUp(g)
    BY <2>1
    DEF MakesUp, Blocks, ServesFile, WritesMock, RecordsMock, WritesSynthetic,
         RecordsSynthetic, MarksError
  <2>2. CASE Forwards(g)
    BY <2>2
    DEF Forwards, Ready, Fails, RoundTrips, Responded, Streams, RecordsStream,
        Reads,
         BreaksResponse, ReturnsUnwritten, WritesResponse,
         RecordsResponse, DialsUpgrade, Upgrades, UpgradeFails,
         UpgradeAbandoned, RelayEnds
  <2>3. CASE Operator(g)
    BY <2>3 DEF Operator, DropsRequest, EditsRequest, SendsRequest, DropsResponse,
         SendsResponse, EditsResponse, ReleasesResponse
  <2> QED
    BY <2>1, <2>2, <2>3
<1>2. \A h \in Exchanges : h # g => pc'[h] = pc[h]
  <2> USE DEF Goes, TypeOK
  <2>1. CASE MakesUp(g)
    BY <2>1
    DEF MakesUp, Blocks, ServesFile, WritesMock, RecordsMock, WritesSynthetic,
         RecordsSynthetic, MarksError
  <2>2. CASE Forwards(g)
    BY <2>2
    DEF Forwards, Ready, Fails, RoundTrips, Responded, Streams, RecordsStream,
        Reads,
         BreaksResponse, ReturnsUnwritten, WritesResponse,
         RecordsResponse, DialsUpgrade, Upgrades, UpgradeFails,
         UpgradeAbandoned, RelayEnds
  <2>3. CASE Operator(g)
    BY <2>3 DEF Operator, DropsRequest, EditsRequest, SendsRequest, DropsResponse,
         SendsResponse, EditsResponse, ReleasesResponse
  <2> QED
    BY <2>1, <2>2, <2>3
<1> QED
  BY <1>1, <1>2 DEF received

(* Sending is a Fetch of Relay.                                            *)
LEMMA SendIsFetch ==
  ASSUME ExchangeInv, NEW g \in Exchanges, NEW to \in Schemes, Sends(g, to),
         pc[g] = "forward", received' = received, UNCHANGED wire
  PROVE  Promise!Fetch(g)
<1> DEFINE request == [to |-> to, body |-> body[g]]
<1>1. request \in Request
  BY DEF ExchangeInv, TypeOK, Request
<1>2. sent' = [sent EXCEPT ![g] = request]
  BY DEF Sends
<1>3. g \in received /\ sent[g] = Unsent /\ wire[g] = Nothing
  BY DEF ExchangeInv, Ordered, BeforeFetch, BeforeAnswer, received
<1> HIDE DEF request
<1> QED
  BY <1>1, <1>2, <1>3 DEF Promise!Fetch, received

(* Writing an answer is an Answer of Relay.                                *)
LEMMA AnswersIsAnswer ==
  ASSUME ExchangeInv, NEW g \in Exchanges, NEW m \in Message, Answers(g, m),
         pc[g] \in BeforeAnswer \ {"new"}, received' = received, UNCHANGED sent
  PROVE  Promise!Answer(g)
<1>1. g \in received /\ wire[g] = Nothing
  BY DEF ExchangeInv, Ordered, received
<1> QED
  BY <1>1 DEF Answers, Promise!Answer, received

(* A step of a handler or of the operator sends, answers, or does neither. *)
Relays(g) == \/ Promise!Fetch(g) \/ Promise!Answer(g)
             \/ UNCHANGED <<received, sent, wire>>

LEMMA MakesUpRelays ==
  ASSUME ExchangeInv, NEW g \in Exchanges, MakesUp(g) PROVE Relays(g)
<1> USE DEF inputs, outputs
<1>1. received' = received
  BY StaysReceived DEF ExchangeInv
<1>2. CASE WritesMock(g)
  <2>1. Mock \in Message
    BY DEF Mock, Message, Heads, Bodies
  <2> QED
    BY <1>1, <1>2, <2>1, AnswersIsAnswer
    DEF WritesMock, Goes, BeforeAnswer, BeforeFetch, Relays
<1>3. CASE WritesSynthetic(g)
  <2>1. Synthetic \in Message
    BY DEF Synthetic, Message, Heads, Bodies
  <2> QED
    BY <1>1, <1>3, <2>1, AnswersIsAnswer
    DEF WritesSynthetic, Goes, BeforeAnswer, Relays
<1>4. CASE \/ Blocks(g) \/ ServesFile(g) \/ RecordsMock(g)
           \/ RecordsSynthetic(g) \/ MarksError(g)
  BY <1>1, <1>4 DEF Blocks, ServesFile, RecordsMock, RecordsSynthetic, MarksError,
     Relays
<1> QED
  BY <1>2, <1>3, <1>4 DEF MakesUp

LEMMA ForwardsRelays ==
  ASSUME ExchangeInv, NEW g \in Exchanges, Forwards(g) PROVE Relays(g)
<1> USE DEF inputs, outputs
<1> TypeOK
  BY DEF ExchangeInv
<1>1. received' = received
  BY StaysReceived
<1>2. CASE Fails(g)
  <2>1. CASE UNCHANGED sent
    BY <1>1, <1>2, <2>1 DEF Fails, Relays
  <2>2. CASE Target(g) # "relative" /\ Sends(g, Target(g))
    BY <1>1, <1>2, <2>2, TargetType, SendIsFetch DEF Fails, Goes, Relays
  <2> QED
    BY <1>2, <2>1, <2>2 DEF Fails
<1>3. CASE RoundTrips(g)
  BY <1>1, <1>3, TargetType, SendIsFetch DEF RoundTrips, Goes, Relays
<1>4. CASE DialsUpgrade(g)
  BY <1>1, <1>4, SendIsFetch DEF DialsUpgrade, Goes, Relays, Schemes
<1>5. CASE Streams(g)
  <2>1. PICK b \in Bodies : Answers(g, [resp[g] EXCEPT !.body = b])
    BY <1>5 DEF Streams, Bodies
  <2>2. [resp[g] EXCEPT !.body = b] \in Message
    BY RespParts
  <2>3. pc[g] = "stream" /\ UNCHANGED sent
    BY <1>5 DEF Streams, Goes
  <2> QED
    BY <1>1, <2>1, <2>2, <2>3, AnswersIsAnswer DEF BeforeAnswer, Relays
<1>6. CASE ReturnsUnwritten(g)
  <2>1. [head |-> "implicit", body |-> "empty"] \in Message
    BY MessageParts DEF Heads, Bodies
  <2> QED
    BY <1>1, <1>6, <2>1, AnswersIsAnswer
    DEF ReturnsUnwritten, Goes, BeforeAnswer, Relays
<1>7. CASE WritesResponse(g)
  BY <1>1, <1>7, RespParts, AnswersIsAnswer
  DEF WritesResponse, Goes, BeforeAnswer, Relays
<1>8. CASE Upgrades(g)
  <2>1. [head |-> "upgraded", body |-> "empty"] \in Message
    BY MessageParts DEF Heads, Bodies
  <2> QED
    BY <1>1, <1>8, <2>1, AnswersIsAnswer DEF Upgrades, Goes, BeforeAnswer, Relays
<1>9. CASE \/ Ready(g) \/ Responded(g) \/ RecordsStream(g) \/ Reads(g)
           \/ BreaksResponse(g) \/ RecordsResponse(g) \/ UpgradeFails(g)
           \/ UpgradeAbandoned(g) \/ RelayEnds(g)
  BY <1>1, <1>9 DEF Ready, Responded, RecordsStream, Reads, BreaksResponse,
     RecordsResponse, UpgradeFails, UpgradeAbandoned, RelayEnds, Relays
<1> QED
  BY <1>2, <1>3, <1>4, <1>5, <1>6, <1>7, <1>8, <1>9 DEF Forwards

LEMMA OperatorRelays ==
  ASSUME ExchangeInv, NEW g \in Exchanges, Operator(g) PROVE Relays(g)
<1>1. received' = received
  BY StaysReceived DEF ExchangeInv
<1> QED
  BY <1>1 DEF Operator, DropsRequest, EditsRequest, SendsRequest, DropsResponse,
     SendsResponse, EditsResponse, ReleasesResponse, Relays, inputs, outputs

LEMMA RelayStep ==
  ExchangeInv /\ [Next]_vars => [Promise!Next]_(Promise!promise)
<1> SUFFICES ASSUME ExchangeInv, [Next]_vars
             PROVE  [Promise!Next]_(Promise!promise)
  OBVIOUS
<1> USE DEF inputs, outputs
<1>1. ASSUME NEW g \in Exchanges, Receive(g) PROVE Promise!Receive(g)
  <2>1. PICK to \in {"blocks", "mocks", "serves", "ready"} : Goes(g, "new", to)
    <3>1. PICK p \in Plans :
            Goes(g, "new", CASE p.route = "block" -> "blocks"
                             [] p.route = "location" -> "mocks"
                             [] p.route = "file" -> "serves"
                             [] OTHER -> "ready")
      BY <1>1 DEF Receive
    <3> QED
      BY <3>1
  <2>2. g \in Exchanges \ received
    BY <2>1 DEF Goes, received
  <2>3. received' = received \cup {g}
    BY <2>1 DEF Goes, received, ExchangeInv, TypeOK
  <2> QED
    BY <1>1, <2>2, <2>3 DEF Receive, Promise!Receive, received
<1>2. ASSUME NEW g \in Exchanges, MakesUp(g) \/ Forwards(g) \/ Operator(g)
      PROVE  Relays(g)
  BY <1>2, MakesUpRelays, ForwardsRelays, OperatorRelays
<1>3. ASSUME \/ Clear \/ \E phase \in {"req", "resp"} : Toggle(phase)
             \/ UNCHANGED vars
      PROVE  UNCHANGED <<received, sent, wire>>
  BY <1>3 DEF Clear, Toggle, vars, received
<1>4. UNCHANGED <<received, sent, wire>> => UNCHANGED Promise!promise
  BY DEF received, Promise!promise
<1>5. \/ \E g \in Exchanges : Receive(g) \/ MakesUp(g) \/ Forwards(g) \/ Operator(g)
      \/ Clear \/ \E phase \in {"req", "resp"} : Toggle(phase)
      \/ UNCHANGED vars
  BY Zenon DEF Next
<1> QED
  BY <1>1, <1>2, <1>3, <1>4, <1>5, Zenon DEF Relays, Promise!Next

(* A request goes upstream at most once, before it is answered, and is     *)
(* answered at most once: handle implements Relay.                         *)
THEOREM RelayKept == Spec => KeepsRelay
<1>1. Init => Promise!Init
  BY DEF Init, Promise!Init
<1> QED
  BY <1>1, RelayStep, ExchangeInvAlways, PTL DEF Spec, KeepsRelay, Promise!Spec

-----------------------------------------------------------------------------
(* What the list shows.                                                    *)

(* An update reaches a listed flow, and no other.                          *)
LEMMA UpdatedFlow ==
  ASSUME TypeOK, NEW g \in Exchanges, NEW f, Update(g, f)
  PROVE  /\ flow'[g] = IF g \in Retained THEN f ELSE flow[g]
         /\ \A h \in Exchanges : h # g => flow'[h] = flow[h]
BY DEF TypeOK, Update

(* What a step of another exchange leaves of this one; its flow may be     *)
(* dropped from the list.                                                  *)
Elsewhere(h) ==
  /\ pc'[h] = pc[h] /\ resp'[h] = resp[h] /\ reason'[h] = reason[h]
  /\ wire'[h] = wire[h] /\ flow'[h] = flow[h]
  /\ h \in Retained' => h \in Retained

LEMMA ElsewhereKeeps ==
  ASSUME NEW h \in Exchanges, Elsewhere(h), AnswerStands(h), Listed(h)
  PROVE  AnswerStands(h)' /\ Listed(h)'
BY DEF Elsewhere, AnswerStands, Listed, StateFollows, AnswerFollows, ShowsAnswer

(* The parts of a flow and of a response, with one of them changed.        *)
LEMMA FlowFields ==
  ASSUME TypeOK, NEW g \in Exchanges
  PROVE  /\ \A s : /\ [flow[g] EXCEPT !.state = s].state = s
                   /\ [flow[g] EXCEPT !.state = s].head = flow[g].head
                   /\ [flow[g] EXCEPT !.state = s].body = flow[g].body
         /\ \A s : /\ [flow[g] EXCEPT !.head = s].head = s
                   /\ [flow[g] EXCEPT !.head = s].state = flow[g].state
                   /\ [flow[g] EXCEPT !.head = s].body = flow[g].body
         /\ \A s : /\ [flow[g] EXCEPT !.body = s].body = s
                   /\ [flow[g] EXCEPT !.body = s].state = flow[g].state
                   /\ [flow[g] EXCEPT !.body = s].head = flow[g].head
         /\ \A s, b : /\ [flow[g] EXCEPT !.state = s, !.body = b].state = s
                      /\ [flow[g] EXCEPT !.state = s, !.body = b].body = b
                      /\ [flow[g] EXCEPT !.state = s, !.body = b].head = flow[g].head
BY DEF TypeOK, Flow

LEMMA RespFields ==
  ASSUME TypeOK, NEW g \in Exchanges
  PROVE  /\ \A h : /\ [resp[g] EXCEPT !.head = h].head = h
                   /\ [resp[g] EXCEPT !.head = h].body = resp[g].body
         /\ \A b : /\ [resp[g] EXCEPT !.body = b].body = b
                   /\ [resp[g] EXCEPT !.body = b].head = resp[g].head
BY DEF TypeOK, Message

LEMMA ResumedFields ==
  ASSUME TypeOK, NEW g \in Exchanges
  PROVE  /\ Resumed(g).state = IF flow[g].state = "intercepted" THEN "pending"
                               ELSE flow[g].state
         /\ Resumed(g).head = flow[g].head /\ Resumed(g).body = flow[g].body
         /\ LET f == [Resumed(g) EXCEPT !.head = "edited", !.body = "edited"] IN
            f.state = Resumed(g).state /\ f.head = "edited" /\ f.body = "edited"
<1>1. flow[g] \in [state : States, head : Heads, body : Bodies]
  BY DEF TypeOK, Flow
<1>2. Resumed(g) \in [state : States, head : Heads, body : Bodies]
  BY <1>1 DEF Resumed, States
<1>3. /\ Resumed(g).state = IF flow[g].state = "intercepted" THEN "pending"
                            ELSE flow[g].state
      /\ Resumed(g).head = flow[g].head /\ Resumed(g).body = flow[g].body
  BY <1>1 DEF Resumed
<1>4. \A f \in [state : States, head : Heads, body : Bodies] :
        LET e == [f EXCEPT !.head = "edited", !.body = "edited"] IN
        e.state = f.state /\ e.head = "edited" /\ e.body = "edited"
  OBVIOUS
<1> QED
  BY <1>2, <1>3, <1>4

(* What becomes of a flow: an update changes it only while it is listed.   *)
Becomes(g, s, h, b) ==
  /\ g \in Retained => flow'[g].state = s /\ flow'[g].head = h /\ flow'[g].body = b
  /\ g \notin Retained => flow'[g] = flow[g]

LEMMA UpdateShows ==
  ASSUME TypeOK, NEW g \in Exchanges, NEW f, Update(g, f)
  PROVE  Becomes(g, f.state, f.head, f.body)
BY UpdatedFlow DEF Becomes

LEMMA UpdateBecomes ==
  ASSUME TypeOK, NEW g \in Exchanges
  PROVE  /\ UNCHANGED flow => Becomes(g, flow[g].state, flow[g].head, flow[g].body)
         /\ \A s : Update(g, [flow[g] EXCEPT !.state = s])
              => Becomes(g, s, flow[g].head, flow[g].body)
         /\ \A h : Update(g, [flow[g] EXCEPT !.head = h])
              => Becomes(g, flow[g].state, h, flow[g].body)
         /\ \A b : Update(g, [flow[g] EXCEPT !.body = b])
              => Becomes(g, flow[g].state, flow[g].head, b)
         /\ \A s, b : Update(g, [flow[g] EXCEPT !.state = s, !.body = b])
              => Becomes(g, s, flow[g].head, b)
         /\ \A s, h, b : Update(g, [state |-> s, head |-> h, body |-> b])
              => Becomes(g, s, h, b)
<1>0. flow[g] \in [state : States, head : Heads, body : Bodies]
  BY DEF TypeOK, Flow
<1>1. ASSUME NEW s, Update(g, [flow[g] EXCEPT !.state = s])
      PROVE  Becomes(g, s, flow[g].head, flow[g].body)
  <2> DEFINE f == [flow[g] EXCEPT !.state = s]
  <2>1. f.state = s /\ f.head = flow[g].head /\ f.body = flow[g].body
    BY <1>0
  <2>2. Becomes(g, f.state, f.head, f.body)
    BY <1>1, UpdateShows
  <2> HIDE DEF f
  <2> QED
    BY <2>1, <2>2
<1>2. ASSUME NEW h, Update(g, [flow[g] EXCEPT !.head = h])
      PROVE  Becomes(g, flow[g].state, h, flow[g].body)
  <2> DEFINE f == [flow[g] EXCEPT !.head = h]
  <2>1. f.state = flow[g].state /\ f.head = h /\ f.body = flow[g].body
    BY <1>0
  <2>2. Becomes(g, f.state, f.head, f.body)
    BY <1>2, UpdateShows
  <2> HIDE DEF f
  <2> QED
    BY <2>1, <2>2
<1>3. ASSUME NEW b, Update(g, [flow[g] EXCEPT !.body = b])
      PROVE  Becomes(g, flow[g].state, flow[g].head, b)
  <2> DEFINE f == [flow[g] EXCEPT !.body = b]
  <2>1. f.state = flow[g].state /\ f.head = flow[g].head /\ f.body = b
    BY <1>0
  <2>2. Becomes(g, f.state, f.head, f.body)
    BY <1>3, UpdateShows
  <2> HIDE DEF f
  <2> QED
    BY <2>1, <2>2
<1>4. ASSUME NEW s, NEW b, Update(g, [flow[g] EXCEPT !.state = s, !.body = b])
      PROVE  Becomes(g, s, flow[g].head, b)
  <2> DEFINE f == [flow[g] EXCEPT !.state = s, !.body = b]
  <2>1. f.state = s /\ f.head = flow[g].head /\ f.body = b
    BY <1>0
  <2>2. Becomes(g, f.state, f.head, f.body)
    BY <1>4, UpdateShows
  <2> HIDE DEF f
  <2> QED
    BY <2>1, <2>2
<1>5. ASSUME NEW s, NEW h, NEW b, Update(g, [state |-> s, head |-> h, body |-> b])
      PROVE  Becomes(g, s, h, b)
  <2> DEFINE f == [state |-> s, head |-> h, body |-> b]
  <2>1. f.state = s /\ f.head = h /\ f.body = b
    BY <1>0
  <2>2. Becomes(g, f.state, f.head, f.body)
    BY <1>5, UpdateShows
  <2> HIDE DEF f
  <2> QED
    BY <2>1, <2>2
<1>6. UNCHANGED flow => Becomes(g, flow[g].state, flow[g].head, flow[g].body)
  BY DEF Becomes
<1> QED
  BY <1>1, <1>2, <1>3, <1>4, <1>5, <1>6, Zenon

(* A break ends: the flow is pending again, if it is listed.               *)
LEMMA ResumeBecomes ==
  ASSUME TypeOK, NEW g \in Exchanges, Listed(g), pc[g] \in {"heldReq", "heldResp"}
  PROVE  /\ Update(g, Resumed(g)) => Becomes(g, "pending", flow[g].head, flow[g].body)
         /\ Update(g, [Resumed(g) EXCEPT !.head = "edited", !.body = "edited"])
              => Becomes(g, "pending", "edited", "edited")
<1>1. g \in Retained => flow[g].state = "intercepted"
  BY DEF Listed, StateFollows
<1>2. ASSUME Update(g, Resumed(g))
      PROVE  Becomes(g, "pending", flow[g].head, flow[g].body)
  BY <1>1, <1>2, UpdatedFlow, ResumedFields DEF Becomes
<1>3. ASSUME Update(g, [Resumed(g) EXCEPT !.head = "edited", !.body = "edited"])
      PROVE  Becomes(g, "pending", "edited", "edited")
  <2> DEFINE f == [Resumed(g) EXCEPT !.head = "edited", !.body = "edited"]
  <2>1. f.state = Resumed(g).state /\ f.head = "edited" /\ f.body = "edited"
    BY ResumedFields, Zenon
  <2>2. flow'[g] = IF g \in Retained THEN f ELSE flow[g]
    BY <1>3, UpdatedFlow, Zenon
  <2> HIDE DEF f
  <2> QED
    BY <1>1, <2>1, <2>2, ResumedFields DEF Becomes
<1> QED
  BY <1>2, <1>3

(* What a client that has been answered has received.                      *)
LEMMA WireParts ==
  ASSUME NEW g \in Exchanges, AnswerStands(g)
  PROVE  /\ pc[g] = "mockRecord" =>
              wire[g].head = "mock" /\ wire[g].body = "mock" /\ wire[g] # Nothing
         /\ pc[g] \in {"synthRecord", "markError"} =>
              /\ wire[g].head = "synthetic" /\ wire[g].body = "synthetic"
              /\ wire[g] # Nothing
         /\ pc[g] \in {"streamRecord", "writeRecord"} =>
              /\ wire[g].head = resp[g].head /\ wire[g].body = resp[g].body
              /\ wire[g] # Nothing
         /\ pc[g] = "relay" =>
              wire[g].head = "upgraded" /\ wire[g].body = "empty" /\ wire[g] # Nothing
<1>1. Nothing.head = "none"
  BY DEF Nothing
<1>2. Mock.head = "mock" /\ Mock.body = "mock"
  BY DEF Mock
<1>3. Synthetic.head = "synthetic" /\ Synthetic.body = "synthetic"
  BY DEF Synthetic
<1>4. LET u == [head |-> "upgraded", body |-> "empty"] IN
      u.head = "upgraded" /\ u.body = "empty"
  OBVIOUS
<1> QED
  BY <1>1, <1>2, <1>3, <1>4 DEF AnswerStands, HasResponse

(* A step keeps what the flow says, and a settled flow settled.            *)
Keeps(g) ==
  /\ AnswerStands(g)' /\ Listed(g)'
  /\ flow[g].state \in Terminal => flow'[g].state \in Terminal

(* An answer the proxy makes up is recorded after it is written.           *)
LEMMA MakesUpKeeps ==
  ASSUME FlowInv, NEW g \in Exchanges, MakesUp(g), Retained' = Retained
  PROVE  Keeps(g)
<1> USE DEF inputs, outputs
<1> TypeOK /\ AnswerStands(g) /\ Listed(g)
  BY DEF FlowInv, ExchangeInv
<1> /\ pc \in [Exchanges -> Phases]
    /\ reason \in [Exchanges -> {"none", "block", "file", "drop", "fail"}]
  BY DEF TypeOK
<1> resp \in [Exchanges -> Message] /\ wire \in [Exchanges -> Message]
  BY DEF TypeOK
<1> USE DEF Keeps, Becomes, AnswerStands, Listed, StateFollows, AnswerFollows,
            ShowsAnswer, Unsettled, BodyUnread, HasResponse, Terminal
<1>1. CASE Blocks(g)
  <2>1. /\ pc[g] = "blocks"
        /\ pc'[g] = "synth"
        /\ reason'[g] = "block"
        /\ resp'[g] = resp[g]
        /\ wire'[g] = wire[g]
    BY <1>1 DEF Blocks, Goes, Because
  <2>2. Becomes(g, "blocked", flow[g].head, flow[g].body)
    BY <1>1, <2>1, UpdateBecomes DEF Blocks
  <2> QED
    BY <2>1, <2>2
<1>2. CASE ServesFile(g)
  <2>1. /\ pc[g] = "serves"
        /\ pc'[g] \in {"mocks", "synth"}
        /\ (pc'[g] = "synth" => reason'[g] = "file")
        /\ resp'[g] = resp[g]
        /\ wire'[g] = wire[g]
    BY <1>2 DEF ServesFile, Goes, Because
  <2>2. Becomes(g, flow[g].state, flow[g].head, flow[g].body)
    BY <1>2, <2>1, UpdateBecomes DEF ServesFile
  <2> QED
    BY <2>1, <2>2
<1>3. CASE WritesMock(g)
  <2>1. /\ pc[g] = "mocks"
        /\ pc'[g] = "mockRecord"
        /\ reason'[g] = reason[g]
        /\ resp'[g] = resp[g]
        /\ wire'[g] = Mock
    BY <1>3 DEF WritesMock, Goes, Answers
  <2>2. Becomes(g, flow[g].state, flow[g].head, flow[g].body)
    BY <1>3, <2>1, UpdateBecomes DEF WritesMock
  <2> QED
    BY <2>1, <2>2
<1>4. CASE RecordsMock(g)
  <2>1. /\ pc[g] = "mockRecord"
        /\ pc'[g] = "done"
        /\ reason'[g] = reason[g]
        /\ resp'[g] = resp[g]
        /\ wire'[g] = wire[g]
    BY <1>4 DEF RecordsMock, Goes
  <2>2. Becomes(g, "complete", "mock", "mock")
    BY <1>4, <2>1, UpdateBecomes DEF RecordsMock
  <2>3. wire'[g].head = "mock" /\ wire'[g].body = "mock" /\ wire'[g] # Nothing
    BY <2>1, WireParts
  <2> QED
    BY <2>1, <2>2, <2>3
<1>5. CASE WritesSynthetic(g)
  <2>1. /\ pc[g] = "synth"
        /\ pc'[g] = "synthRecord"
        /\ reason'[g] = reason[g]
        /\ resp'[g] = resp[g]
        /\ wire'[g] = Synthetic
    BY <1>5 DEF WritesSynthetic, Goes, Answers
  <2>2. Becomes(g, flow[g].state, flow[g].head, flow[g].body)
    BY <1>5, <2>1, UpdateBecomes DEF WritesSynthetic
  <2> QED
    BY <2>1, <2>2
<1>6. CASE RecordsSynthetic(g)
  <2>1. /\ pc[g] = "synthRecord"
        /\ pc'[g] \in {"done", "markError"}
        /\ (pc'[g] = "done" <=> reason[g] = "block")
        /\ reason'[g] = reason[g]
        /\ resp'[g] = resp[g]
        /\ wire'[g] = wire[g]
    BY <1>6 DEF RecordsSynthetic, Goes
  <2> DEFINE s == IF flow[g].state \in {"blocked", "error"} THEN flow[g].state
                  ELSE "complete"
  <2>2. Becomes(g, s, "synthetic", "synthetic")
    <3>1. Update(g, [state |-> s, head |-> "synthetic", body |-> "synthetic"])
      BY <1>6 DEF RecordsSynthetic
    <3> HIDE DEF s
    <3> QED
      BY <3>1, UpdateBecomes, Zenon
  <2>3. wire'[g].head = "synthetic" /\ wire'[g].body = "synthetic" /\ wire'[g] # Nothing
    BY <2>1, WireParts
  <2> QED
    BY <2>1, <2>2, <2>3
<1>7. CASE MarksError(g)
  <2>1. /\ pc[g] = "markError"
        /\ pc'[g] = "done"
        /\ reason'[g] = reason[g]
        /\ resp'[g] = resp[g]
        /\ wire'[g] = wire[g]
    BY <1>7 DEF MarksError, Goes
  <2>2. Becomes(g, "error", flow[g].head, flow[g].body)
    BY <1>7, <2>1, UpdateBecomes DEF MarksError
  <2>3. wire'[g].head = "synthetic" /\ wire'[g].body = "synthetic" /\ wire'[g] # Nothing
    BY <2>1, WireParts
  <2> QED
    BY <2>1, <2>2, <2>3
<1> QED
  BY <1>1, <1>2, <1>3, <1>4, <1>5, <1>6, <1>7 DEF MakesUp

(* The same of the steps that forward a request and answer with what comes *)
(* back.                                                                   *)
LEMMA ForwardsKeeps ==
  ASSUME FlowInv, NEW g \in Exchanges, Forwards(g), Retained' = Retained
  PROVE  Keeps(g)
<1> USE DEF inputs, outputs
<1> TypeOK /\ AnswerStands(g) /\ Listed(g)
  BY DEF FlowInv, ExchangeInv
<1> /\ pc \in [Exchanges -> Phases]
    /\ reason \in [Exchanges -> {"none", "block", "file", "drop", "fail"}]
  BY DEF TypeOK
<1> resp \in [Exchanges -> Message] /\ wire \in [Exchanges -> Message]
  BY DEF TypeOK
<1> USE DEF Keeps, Becomes, AnswerStands, Listed, StateFollows, AnswerFollows,
            ShowsAnswer, Unsettled, BodyUnread, HasResponse, Terminal
<1>1. CASE Ready(g)
  <2>1. /\ pc[g] = "ready"
        /\ pc'[g] \in {"heldReq", "forward"}
        /\ reason'[g] = reason[g]
        /\ resp'[g] = resp[g]
        /\ wire'[g] = wire[g]
    BY <1>1 DEF Ready, Goes
  <2>2. \/ pc'[g] = "heldReq" /\ Becomes(g, "intercepted", flow[g].head, flow[g].body)
        \/ pc'[g] = "forward" /\ Becomes(g, flow[g].state, flow[g].head, flow[g].body)
    <3>1. CASE plan[g].breakReq \/ breakAll.req
      <4>1. pc'[g] = "heldReq"
        BY <1>1, <3>1 DEF Ready, Goes
      <4>2. Update(g, [flow[g] EXCEPT !.state = "intercepted"])
        BY <1>1, <3>1 DEF Ready
      <4> QED
        BY <4>1, <4>2, UpdateBecomes, Zenon
    <3>2. CASE ~(plan[g].breakReq \/ breakAll.req)
      <4>1. pc'[g] = "forward"
        BY <1>1, <3>2 DEF Ready, Goes
      <4>2. UNCHANGED flow
        BY <1>1, <3>2 DEF Ready
      <4> QED
        BY <4>1, <4>2, UpdateBecomes, Zenon
    <3> QED
      BY <3>1, <3>2
  <2> QED
    BY <2>1, <2>2
<1>2. CASE Fails(g)
  <2>1. /\ pc[g] = "forward"
        /\ pc'[g] = "synth"
        /\ reason'[g] = "fail"
        /\ resp'[g] = resp[g]
        /\ wire'[g] = wire[g]
    BY <1>2 DEF Fails, Goes, Because
  <2>2. Becomes(g, flow[g].state, flow[g].head, flow[g].body)
    BY <1>2, <2>1, UpdateBecomes DEF Fails
  <2> QED
    BY <2>1, <2>2
<1>3. CASE RoundTrips(g)
  <2>1. /\ pc[g] = "forward"
        /\ pc'[g] = "responded"
        /\ reason'[g] = reason[g]
        /\ resp'[g].head = "origin"
        /\ wire'[g] = wire[g]
    BY <1>3, RespFields DEF RoundTrips, Goes
  <2>2. Becomes(g, flow[g].state, "origin", flow[g].body)
    BY <1>3, <2>1, UpdateBecomes DEF RoundTrips
  <2> QED
    BY <2>1, <2>2
<1>4. CASE Responded(g)
  <2>1. /\ pc[g] = "responded"
        /\ pc'[g] \in {"read", "stream"}
        /\ reason'[g] = reason[g]
        /\ resp'[g].head \in {"ruled", resp[g].head}
        /\ wire'[g] = wire[g]
    BY <1>4, RespFields DEF Responded, Goes
  <2>2. Becomes(g, flow[g].state, flow[g].head, flow[g].body)
    BY <1>4, <2>1, UpdateBecomes DEF Responded
  <2> QED
    BY <2>1, <2>2
<1>5. CASE Streams(g)
  <2>1. /\ pc[g] = "stream"
        /\ pc'[g] = "streamRecord"
        /\ reason'[g] = reason[g]
        /\ resp'[g].head = resp[g].head
        /\ wire'[g] = resp'[g]
    BY <1>5, RespFields DEF Streams, Goes, Answers
  <2>2. Becomes(g, flow[g].state, flow[g].head, flow[g].body)
    BY <1>5, <2>1, UpdateBecomes DEF Streams
  <2> QED
    BY <2>1, <2>2
<1>6. CASE RecordsStream(g)
  <2>1. /\ pc[g] = "streamRecord"
        /\ pc'[g] = "done"
        /\ reason'[g] = reason[g]
        /\ resp'[g] = resp[g]
        /\ wire'[g] = wire[g]
    BY <1>6 DEF RecordsStream, Goes
  <2>0. PICK s \in {"complete", "error"}, b \in {resp[g].body, "cut"} :
          Update(g, [flow[g] EXCEPT !.state = s, !.body = b])
    BY <1>6, Zenon DEF RecordsStream
  <2>2. Becomes(g, s, flow[g].head, b)
    BY <2>0, UpdateBecomes, Zenon
  <2>3. wire'[g].head = resp[g].head /\ wire'[g].body = resp[g].body /\ wire'[g] # Nothing
    BY <2>1, WireParts
  <2> QED
    BY <2>1, <2>2, <2>3
<1>7. CASE Reads(g)
  <2>1. /\ pc[g] = "read"
        /\ pc'[g] = "breakResp"
        /\ reason'[g] = reason[g]
        /\ resp'[g].head = resp[g].head
        /\ wire'[g] = wire[g]
    BY <1>7, RespFields DEF Reads, Goes
  <2>0. PICK b : Update(g, [flow[g] EXCEPT !.body = b])
    BY <1>7, Zenon DEF Reads
  <2>2. Becomes(g, flow[g].state, flow[g].head, b)
    BY <2>0, UpdateBecomes, Zenon
  <2> QED
    BY <2>1, <2>2
<1>8. CASE BreaksResponse(g)
  <2>1. /\ pc[g] = "breakResp"
        /\ pc'[g] \in {"heldResp", "write"}
        /\ reason'[g] = reason[g]
        /\ resp'[g] = resp[g]
        /\ wire'[g] = wire[g]
    BY <1>8 DEF BreaksResponse, Goes
  <2>2. \/ pc'[g] = "heldResp" /\ Becomes(g, "intercepted", flow[g].head, flow[g].body)
        \/ pc'[g] = "write" /\ Becomes(g, flow[g].state, flow[g].head, flow[g].body)
    <3>1. CASE plan[g].breakResp \/ breakAll.resp
      <4>1. pc'[g] = "heldResp"
        BY <1>8, <3>1 DEF BreaksResponse, Goes
      <4>2. Update(g, [flow[g] EXCEPT !.state = "intercepted"])
        BY <1>8, <3>1 DEF BreaksResponse
      <4> QED
        BY <4>1, <4>2, UpdateBecomes, Zenon
    <3>2. CASE ~(plan[g].breakResp \/ breakAll.resp)
      <4>1. pc'[g] = "write"
        BY <1>8, <3>2 DEF BreaksResponse, Goes
      <4>2. UNCHANGED flow
        BY <1>8, <3>2 DEF BreaksResponse
      <4> QED
        BY <4>1, <4>2, UpdateBecomes, Zenon
    <3> QED
      BY <3>1, <3>2
  <2> QED
    BY <2>1, <2>2
<1>9. CASE ReturnsUnwritten(g)
  <2>1. /\ pc[g] = "dropResp"
        /\ pc'[g] = "done"
        /\ reason'[g] = reason[g]
        /\ resp'[g] = resp[g]
        /\ wire'[g] = [head |-> "implicit", body |-> "empty"]
    BY <1>9 DEF ReturnsUnwritten, Goes, Answers
  <2>2. Becomes(g, "error", flow[g].head, flow[g].body)
    BY <1>9, <2>1, UpdateBecomes DEF ReturnsUnwritten
  <2>3. wire'[g].head = "implicit" /\ wire'[g] # Nothing
    BY <2>1 DEF Nothing
  <2> QED
    BY <2>1, <2>2, <2>3
<1>10. CASE WritesResponse(g)
  <2>1. /\ pc[g] = "write"
        /\ pc'[g] = "writeRecord"
        /\ reason'[g] = reason[g]
        /\ resp'[g] = resp[g]
        /\ wire'[g] = resp[g]
    BY <1>10 DEF WritesResponse, Goes, Answers
  <2>2. Becomes(g, flow[g].state, flow[g].head, flow[g].body)
    BY <1>10, <2>1, UpdateBecomes DEF WritesResponse
  <2> QED
    BY <2>1, <2>2
<1>11. CASE RecordsResponse(g)
  <2>1. /\ pc[g] = "writeRecord"
        /\ pc'[g] = "done"
        /\ reason'[g] = reason[g]
        /\ resp'[g] = resp[g]
        /\ wire'[g] = wire[g]
    BY <1>11 DEF RecordsResponse, Goes
  <2>2. Becomes(g, "complete", resp[g].head, resp[g].body)
    BY <1>11, <2>1, UpdateBecomes DEF RecordsResponse
  <2>3. wire'[g].head = resp[g].head /\ wire'[g].body = resp[g].body /\ wire'[g] # Nothing
    BY <2>1, WireParts
  <2> QED
    BY <2>1, <2>2, <2>3
<1>12. CASE DialsUpgrade(g)
  <2>1. /\ pc[g] = "forward"
        /\ pc'[g] = "upgrade"
        /\ reason'[g] = reason[g]
        /\ resp'[g] = resp[g]
        /\ wire'[g] = wire[g]
    BY <1>12 DEF DialsUpgrade, Goes
  <2>2. Becomes(g, flow[g].state, flow[g].head, flow[g].body)
    BY <1>12, <2>1, UpdateBecomes DEF DialsUpgrade
  <2> QED
    BY <2>1, <2>2
<1>13. CASE Upgrades(g)
  <2>1. /\ pc[g] = "upgrade"
        /\ pc'[g] = "relay"
        /\ reason'[g] = reason[g]
        /\ resp'[g] = resp[g]
        /\ wire'[g] = [head |-> "upgraded", body |-> "empty"]
    BY <1>13 DEF Upgrades, Goes, Answers
  <2>2. Becomes(g, flow[g].state, "upgraded", flow[g].body)
    BY <1>13, <2>1, UpdateBecomes DEF Upgrades
  <2> QED
    BY <2>1, <2>2
<1>14. CASE UpgradeFails(g)
  <2>1. /\ pc[g] = "upgrade"
        /\ pc'[g] = "synth"
        /\ reason'[g] = "fail"
        /\ resp'[g] = resp[g]
        /\ wire'[g] = wire[g]
    BY <1>14 DEF UpgradeFails, Goes, Because
  <2>2. Becomes(g, flow[g].state, flow[g].head, flow[g].body)
    BY <1>14, <2>1, UpdateBecomes DEF UpgradeFails
  <2> QED
    BY <2>1, <2>2
<1>15. CASE UpgradeAbandoned(g)
  <2>1. /\ pc[g] = "upgrade"
        /\ pc'[g] = "done"
        /\ "gone" \in Faults
        /\ reason'[g] = reason[g]
        /\ resp'[g] = resp[g]
        /\ wire'[g] = wire[g]
    BY <1>15 DEF UpgradeAbandoned, Goes
  <2>2. Becomes(g, flow[g].state, flow[g].head, flow[g].body)
    BY <1>15, <2>1, UpdateBecomes DEF UpgradeAbandoned
  <2>3. wire'[g] = Nothing
    BY <2>1 DEF FlowInv, ExchangeInv, Ordered, BeforeAnswer
  <2> QED
    BY <2>1, <2>2, <2>3
<1>16. CASE RelayEnds(g)
  <2>1. /\ pc[g] = "relay"
        /\ pc'[g] = "done"
        /\ reason'[g] = reason[g]
        /\ resp'[g] = resp[g]
        /\ wire'[g] = wire[g]
    BY <1>16 DEF RelayEnds, Goes
  <2>2. Becomes(g, "complete", flow[g].head, flow[g].body)
    BY <1>16, <2>1, UpdateBecomes DEF RelayEnds
  <2>3. wire'[g].head = "upgraded" /\ wire'[g].body = "empty" /\ wire'[g] # Nothing
    BY <2>1, WireParts
  <2> QED
    BY <2>1, <2>2, <2>3
<1> QED
  BY <1>1, <1>2, <1>3, <1>4, <1>5, <1>6, <1>7, <1>8, <1>9, <1>10, <1>11, <1>12,
     <1>13,
  <1>14, <1>15, <1>16 DEF Forwards

(* And of what the operator decides.                                       *)
LEMMA OperatorKeeps ==
  ASSUME FlowInv, NEW g \in Exchanges, Operator(g), Retained' = Retained
  PROVE  Keeps(g)
<1> USE DEF inputs, outputs
<1> TypeOK /\ AnswerStands(g) /\ Listed(g)
  BY DEF FlowInv, ExchangeInv
<1> /\ pc \in [Exchanges -> Phases]
    /\ reason \in [Exchanges -> {"none", "block", "file", "drop", "fail"}]
  BY DEF TypeOK
<1> resp \in [Exchanges -> Message] /\ wire \in [Exchanges -> Message]
  BY DEF TypeOK
<1> USE DEF Keeps, Becomes, AnswerStands, Listed, StateFollows, AnswerFollows,
            ShowsAnswer, Unsettled, BodyUnread, HasResponse, Terminal
<1>1. CASE DropsRequest(g)
  <2>1. /\ pc[g] = "heldReq"
        /\ pc'[g] = "synth"
        /\ reason'[g] = "drop"
        /\ resp'[g] = resp[g]
        /\ wire'[g] = wire[g]
    BY <1>1 DEF DropsRequest, Goes, Because
  <2>2. Becomes(g, "pending", flow[g].head, flow[g].body)
    BY <1>1, <2>1, ResumeBecomes DEF DropsRequest
  <2> QED
    BY <2>1, <2>2
<1>2. CASE EditsRequest(g)
  <2>1. /\ pc[g] = "heldReq"
        /\ pc'[g] = "forward"
        /\ reason'[g] = reason[g]
        /\ resp'[g] = resp[g]
        /\ wire'[g] = wire[g]
    BY <1>2 DEF EditsRequest, Goes
  <2>2. Becomes(g, "pending", flow[g].head, flow[g].body)
    BY <1>2, <2>1, ResumeBecomes DEF EditsRequest
  <2> QED
    BY <2>1, <2>2
<1>3. ASSUME NEW v \in {"send", "release"}, SendsRequest(g, v)
      PROVE  Keeps(g)
  <2>1. /\ pc[g] = "heldReq"
        /\ pc'[g] = "forward"
        /\ reason'[g] = reason[g]
        /\ resp'[g] = resp[g]
        /\ wire'[g] = wire[g]
    BY <1>3 DEF SendsRequest, Goes
  <2>2. Becomes(g, "pending", flow[g].head, flow[g].body)
    BY <1>3, <2>1, ResumeBecomes DEF SendsRequest
  <2> QED
    BY <2>1, <2>2
<1>4. CASE DropsResponse(g)
  <2>1. /\ pc[g] = "heldResp"
        /\ pc'[g] = "dropResp"
        /\ reason'[g] = reason[g]
        /\ resp'[g] = resp[g]
        /\ wire'[g] = wire[g]
    BY <1>4 DEF DropsResponse, Goes
  <2>2. Becomes(g, "pending", flow[g].head, flow[g].body)
    BY <1>4, <2>1, ResumeBecomes DEF DropsResponse
  <2> QED
    BY <2>1, <2>2
<1>5. CASE SendsResponse(g)
  <2>1. /\ pc[g] = "heldResp"
        /\ pc'[g] = "write"
        /\ reason'[g] = reason[g]
        /\ resp'[g].head = flow[g].head
        /\ wire'[g] = wire[g]
    BY <1>5, RespFields DEF SendsResponse, Goes
  <2>2. Becomes(g, "pending", flow[g].head, flow[g].body)
    BY <1>5, <2>1, ResumeBecomes DEF SendsResponse
  <2> QED
    BY <2>1, <2>2
<1>6. CASE EditsResponse(g)
  <2>1. /\ pc[g] = "heldResp"
        /\ pc'[g] = "write"
        /\ reason'[g] = reason[g]
        /\ resp'[g].head = "edited"
        /\ wire'[g] = wire[g]
    BY <1>6, RespFields DEF EditsResponse, Goes
  <2>2. Becomes(g, "pending", "edited", "edited")
    BY <1>6, <2>1, ResumeBecomes DEF EditsResponse
  <2> QED
    BY <2>1, <2>2
<1>7. CASE ReleasesResponse(g)
  <2>1. /\ pc[g] = "heldResp"
        /\ pc'[g] = "write"
        /\ reason'[g] = reason[g]
        /\ resp'[g] = resp[g]
        /\ wire'[g] = wire[g]
    BY <1>7 DEF ReleasesResponse, Goes
  <2>2. Becomes(g, "pending", flow[g].head, flow[g].body)
    BY <1>7, <2>1, ResumeBecomes DEF ReleasesResponse
  <2> QED
    BY <2>1, <2>2
<1> QED
  BY <1>1, <1>2, <1>3, <1>4, <1>5, <1>6, <1>7 DEF Operator

(* A step of a handler or of the operator concerns one exchange, and leaves*)
(* the list alone.                                                         *)
LEMMA HandlerElsewhere ==
  ASSUME TypeOK, NEW g \in Exchanges, MakesUp(g) \/ Forwards(g) \/ Operator(g)
  PROVE  /\ Retained' = Retained
         /\ \A h \in Exchanges : h # g => Elsewhere(h)
<1> USE DEF inputs, outputs
<1>1. UNCHANGED store
  <2>1. CASE MakesUp(g)
    BY <2>1
    DEF MakesUp, Blocks, ServesFile, WritesMock, RecordsMock, WritesSynthetic,
    RecordsSynthetic, MarksError
  <2>2. CASE Forwards(g)
    BY <2>2
    DEF Forwards, Ready, Fails, RoundTrips, Responded, Streams, RecordsStream,
    Reads, BreaksResponse, ReturnsUnwritten, WritesResponse, RecordsResponse,
    DialsUpgrade, Upgrades, UpgradeFails, UpgradeAbandoned, RelayEnds
  <2>3. CASE Operator(g)
    BY <2>3 DEF Operator, DropsRequest, EditsRequest, SendsRequest, DropsResponse,
    SendsResponse, EditsResponse, ReleasesResponse
  <2> QED
    BY <2>1, <2>2, <2>3
<1>2. \A h \in Exchanges : h # g => pc'[h] = pc[h]
  <2> USE DEF Goes, TypeOK
  <2>1. CASE MakesUp(g)
    BY <2>1
    DEF MakesUp, Blocks, ServesFile, WritesMock, RecordsMock, WritesSynthetic,
    RecordsSynthetic, MarksError
  <2>2. CASE Forwards(g)
    BY <2>2
    DEF Forwards, Ready, Fails, RoundTrips, Responded, Streams, RecordsStream,
    Reads, BreaksResponse, ReturnsUnwritten, WritesResponse, RecordsResponse,
    DialsUpgrade, Upgrades, UpgradeFails, UpgradeAbandoned, RelayEnds
  <2>3. CASE Operator(g)
    BY <2>3 DEF Operator, DropsRequest, EditsRequest, SendsRequest, DropsResponse,
    SendsResponse, EditsResponse, ReleasesResponse
  <2> QED
    BY <2>1, <2>2, <2>3
<1>3. \A h \in Exchanges : h # g => resp'[h] = resp[h] /\ reason'[h] = reason[h]
  <2> USE DEF Because, TypeOK
  <2>1. CASE MakesUp(g)
    BY <2>1
    DEF MakesUp, Blocks, ServesFile, WritesMock, RecordsMock, WritesSynthetic,
    RecordsSynthetic, MarksError
  <2>2. CASE Forwards(g)
    BY <2>2
    DEF Forwards, Ready, Fails, RoundTrips, Responded, Streams, RecordsStream,
    Reads, BreaksResponse, ReturnsUnwritten, WritesResponse, RecordsResponse,
    DialsUpgrade, Upgrades, UpgradeFails, UpgradeAbandoned, RelayEnds
  <2>3. CASE Operator(g)
    BY <2>3 DEF Operator, DropsRequest, EditsRequest, SendsRequest, DropsResponse,
    SendsResponse, EditsResponse, ReleasesResponse
  <2> QED
    BY <2>1, <2>2, <2>3
<1>4. \A h \in Exchanges : h # g => wire'[h] = wire[h]
  <2> USE DEF Answers, TypeOK
  <2>1. CASE MakesUp(g)
    BY <2>1
    DEF MakesUp, Blocks, ServesFile, WritesMock, RecordsMock, WritesSynthetic,
    RecordsSynthetic, MarksError
  <2>2. CASE Forwards(g)
    BY <2>2
    DEF Forwards, Ready, Fails, RoundTrips, Responded, Streams, RecordsStream,
    Reads, BreaksResponse, ReturnsUnwritten, WritesResponse, RecordsResponse,
    DialsUpgrade, Upgrades, UpgradeFails, UpgradeAbandoned, RelayEnds
  <2>3. CASE Operator(g)
    BY <2>3 DEF Operator, DropsRequest, EditsRequest, SendsRequest, DropsResponse,
    SendsResponse, EditsResponse, ReleasesResponse
  <2> QED
    BY <2>1, <2>2, <2>3
<1>5. \A h \in Exchanges : h # g => flow'[h] = flow[h]
  <2> USE DEF Update, TypeOK
  <2>1. CASE MakesUp(g)
    BY <2>1
    DEF MakesUp, Blocks, ServesFile, WritesMock, RecordsMock, WritesSynthetic,
    RecordsSynthetic, MarksError
  <2>2. CASE Forwards(g)
    BY <2>2
    DEF Forwards, Ready, Fails, RoundTrips, Responded, Streams, RecordsStream,
    Reads, BreaksResponse, ReturnsUnwritten, WritesResponse, RecordsResponse,
    DialsUpgrade, Upgrades, UpgradeFails, UpgradeAbandoned, RelayEnds
  <2>3. CASE Operator(g)
    BY <2>3 DEF Operator, DropsRequest, EditsRequest, SendsRequest, DropsResponse,
    SendsResponse, EditsResponse, ReleasesResponse
  <2> QED
    BY <2>1, <2>2, <2>3
<1> QED
  BY <1>1, <1>2, <1>3, <1>4, <1>5 DEF Elsewhere, Retained

(* Adding a flow lists that one and no other that was not listed.          *)
LEMMA AddedRetained ==
  ASSUME TypeOK, NEW g \in Exchanges, store' = Added(g)
  PROVE  Retained' \subseteq Retained \cup {g}
<1> DEFINE longer == Append(store, g)
<1>1. store \in Seq(Exchanges) /\ Len(store) \in Nat
  BY DEF TypeOK
<1>2. longer \in Seq(Exchanges) /\ Len(longer) = Len(store) + 1
  BY <1>1
<1>3. \A i \in 1 .. Len(longer) : longer[i] \in Retained \cup {g}
  BY <1>1, <1>2 DEF Retained
<1>4. store' \in {longer, Tail(longer)}
  BY DEF Added
<1>5. CASE store' = longer
  BY <1>3, <1>5 DEF Retained
<1>6. CASE store' = Tail(longer)
  <2>1. longer # << >>
    BY <1>1, <1>2
  <2>2. /\ Len(Tail(longer)) = Len(longer) - 1
        /\ \A i \in 1 .. Len(Tail(longer)) : Tail(longer)[i] = longer[i + 1]
    BY <1>2, <2>1
  <2> HIDE DEF longer
  <2>3. \A i \in 1 .. Len(store') : store'[i] \in Retained \cup {g}
    BY <1>1, <1>2, <1>3, <1>6, <2>2
  <2> QED
    BY <2>3 DEF Retained
<1> QED
  BY <1>4, <1>5, <1>6

LEMMA ReceiveKeeps ==
  ASSUME FlowInv, NEW g \in Exchanges, Receive(g), NEW h \in Exchanges
  PROVE  Keeps(h)
<1> USE DEF inputs, outputs
<1>0. TypeOK /\ AnswerStands(h) /\ Listed(h)
  BY DEF FlowInv, ExchangeInv
<1>1. UNCHANGED <<resp, reason, wire, flow>> /\ store' = Added(g)
  BY DEF Receive
<1>2. PICK to \in {"blocks", "mocks", "serves", "ready"} : Goes(g, "new", to)
  <2>1. PICK p \in Plans :
          Goes(g, "new", CASE p.route = "block" -> "blocks"
                           [] p.route = "location" -> "mocks"
                           [] p.route = "file" -> "serves"
                           [] OTHER -> "ready")
    BY DEF Receive
  <2> QED
    BY <2>1
<1>3. Retained' \subseteq Retained \cup {g}
  BY <1>0, <1>1, AddedRetained
<1>4. CASE h # g
  <2>1. Elsewhere(h)
    BY <1>0, <1>1, <1>2, <1>3, <1>4 DEF Elsewhere, Goes, TypeOK
  <2> QED
    BY <1>0, <2>1, ElsewhereKeeps DEF Keeps, Elsewhere
<1>5. CASE h = g
  <2>1. pc[h] = "new" /\ pc'[h] = to
    BY <1>0, <1>2, <1>5 DEF Goes, TypeOK
  <2>2. flow[h].state = "pending" /\ flow[h].head = "blank" /\ flow[h].body = "empty"
    BY <1>0, <2>1 DEF AnswerStands, NewFlow
  <2> QED
    BY <1>0, <1>1, <2>1, <2>2
    DEF Keeps, AnswerStands, Listed, StateFollows, AnswerFollows, BodyUnread,
        HasResponse, Unsettled
<1> QED
  BY <1>4, <1>5

(* Every step keeps what every flow says, and settled flows settled.       *)
LEMMA FlowStep ==
  ASSUME FlowInv, [Next]_vars PROVE \A h \in Exchanges : Keeps(h)
<1> USE DEF inputs, outputs
<1>0. TypeOK /\ \A h \in Exchanges : AnswerStands(h) /\ Listed(h)
  BY DEF FlowInv, ExchangeInv
<1>1. ASSUME NEW g \in Exchanges, Receive(g) PROVE \A h \in Exchanges : Keeps(h)
  BY <1>1, ReceiveKeeps
<1>2. ASSUME NEW g \in Exchanges, MakesUp(g) \/ Forwards(g) \/ Operator(g)
      PROVE  \A h \in Exchanges : Keeps(h)
  <2>1. Retained' = Retained /\ \A h \in Exchanges : h # g => Elsewhere(h)
    BY <1>0, <1>2, HandlerElsewhere
  <2>2. Keeps(g)
    BY <1>2, <2>1, MakesUpKeeps, ForwardsKeeps, OperatorKeeps
  <2>3. ASSUME NEW h \in Exchanges, h # g PROVE Keeps(h)
    BY <1>0, <2>1, <2>3, ElsewhereKeeps DEF Keeps, Elsewhere
  <2> QED
    BY <2>2, <2>3
<1>3. ASSUME \/ Clear \/ \E phase \in {"req", "resp"} : Toggle(phase)
             \/ UNCHANGED vars
      PROVE  \A h \in Exchanges : Keeps(h)
  <2>1. UNCHANGED <<pc, resp, reason, wire, flow>> /\ Retained' \subseteq Retained
    BY <1>3 DEF Clear, Toggle, vars, Retained
  <2>2. ASSUME NEW h \in Exchanges PROVE Keeps(h)
    BY <1>0, <2>1, ElsewhereKeeps DEF Keeps, Elsewhere
  <2> QED
    BY <2>2
<1>4. \/ \E g \in Exchanges : Receive(g) \/ MakesUp(g) \/ Forwards(g) \/ Operator(g)
      \/ Clear \/ \E phase \in {"req", "resp"} : Toggle(phase)
      \/ UNCHANGED vars
  BY Zenon DEF Next
<1> QED
  BY <1>1, <1>2, <1>3, <1>4, Zenon

LEMMA FlowInvStep == FlowInv /\ [Next]_vars => FlowInv'
<1> SUFFICES ASSUME FlowInv, [Next]_vars PROVE FlowInv'
  OBVIOUS
<1>1. ExchangeInv'
  BY ExchangeInvStep DEF FlowInv
<1> QED
  BY <1>1, FlowStep DEF FlowInv, Keeps

LEMMA FlowInvInit == Init => FlowInv
<1> SUFFICES ASSUME Init PROVE FlowInv
  OBVIOUS
<1>1. Retained = {}
  BY DEF Init, Retained
<1>2. ASSUME NEW h \in Exchanges PROVE AnswerStands(h) /\ Listed(h)
  BY <1>1 DEF Init, AnswerStands, Listed, NewFlow, Nothing, HasResponse
<1> QED
  BY <1>2, ExchangeInvInit DEF FlowInv

(* What the list shows of an exchange agrees with where its handler is and *)
(* with what its client received, whatever the rules and the faults.       *)
THEOREM FlowInvAlways == Spec => []FlowInv
BY FlowInvInit, FlowInvStep, PTL DEF Spec

(* A listed flow shows a break only while its exchange really is paused.   *)
THEOREM InterceptedIsHeldAlways == Spec => []InterceptedIsHeld
<1>1. FlowInv => InterceptedIsHeld
  <2> SUFFICES ASSUME FlowInv, NEW g \in Retained
               PROVE  flow[g].state = "intercepted" <=> pc[g] \in {"heldReq", "heldResp"}
    BY DEF InterceptedIsHeld
  <2>1. g \in Exchanges
    BY DEF FlowInv, ExchangeInv, TypeOK, Retained
  <2> QED
    BY <2>1 DEF FlowInv, Listed, StateFollows
<1> QED
  BY <1>1, FlowInvAlways, PTL

(* When handle has returned, a flow that is still listed is settled and    *)
(* shows the answer the client received, unless the client of an upgrade   *)
(* had gone: that handler returns without settling its flow.               *)
THEOREM SettledAsAnsweredAlways ==
  ASSUME "gone" \notin Faults
  PROVE  Spec => []SettledAsAnswered
<1>1. FlowInv => SettledAsAnswered
  BY DEF FlowInv, AnswerStands, Listed, StateFollows, AnswerFollows, ShowsAnswer,
         SettledAsAnswered
<1> QED
  BY <1>1, FlowInvAlways, PTL

(* A settled flow never becomes pending or paused again.                   *)
THEOREM SettledStaysSettledAlways == Spec => SettledStaysSettled
<1>1. FlowInv /\ [Next]_vars =>
        [\A g \in Exchanges : flow[g].state \in Terminal => flow'[g].state \in Terminal]_vars
  BY FlowStep DEF Keeps
<1> QED
  BY <1>1, FlowInvAlways, PTL DEF Spec, SettledStaysSettled
=============================================================================
