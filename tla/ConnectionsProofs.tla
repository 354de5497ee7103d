------------------------- MODULE ConnectionsProofs -------------------------
(* Theorems about Connections, for any number of clients, whatever they    *)
(* are after, and any number of moves.                                     *)
EXTENDS Connections, TLAPS

-----------------------------------------------------------------------------
(* Every variable keeps its type.  The number of the next listener, and    *)
(* that a move closes and serves only what it has bound, is needed for it. *)
OneListener ==
  /\ main \in {"start", "closed"} => listening = {}
  /\ main = "start" => ln = 0
  /\ main \in {"loop", "switching", "closing"} => listening = {ln}
  /\ main \in {"bound", "served"} => ln \in listening

Typed == TypeOK /\ OneListener

LEMMA InitTyped == Init => Typed
<1> SUFFICES ASSUME Init PROVE Typed
  OBVIOUS
<1>1. /\ MaxListeners \in Nat /\ 0 \in 0 .. MaxListeners
  BY ConnectionsAssumption
<1>2. tunnelOnly \in BOOLEAN /\ authority \in BOOLEAN
  BY Zenon DEF Init
<1>3. answers \in [Conns -> Seq({200, 409, 502})]
  <2>1. <<>> \in Seq({200, 409, 502})
    OBVIOUS
  <2> QED BY <2>1 DEF Init
<1>4. relay \in [Conns -> [up : BOOLEAN, down : BOOLEAN,
                           peer : {"none", "open", "eof", "closed"}]]
  BY DEF Init, NoRelay
<1>5. phase \in [Conns -> Phases]
  BY DEF Init, Phases
<1>6. OneListener
  BY DEF Init, OneListener
<1> QED BY <1>1, <1>2, <1>3, <1>4, <1>5, <1>6 DEF Init, Typed, TypeOK

(* What the client is told about its CONNECT is a code.                    *)
LEMMA ToldTyped ==
  ASSUME answers \in [Conns -> Seq({200, 409, 502})],
         NEW c \in Conns, NEW code \in {200, 409, 502},
         Tells(c, code) \/ CannotTell(c)
  PROVE  answers' \in [Conns -> Seq({200, 409, 502})]
<1> DEFINE Codes == {200, 409, 502}
           longer == Append(answers[c], code)
<1>1. longer \in Seq(Codes)
  <2>1. answers[c] \in Seq(Codes) /\ code \in Codes
    OBVIOUS
  <2> QED BY <2>1
<1>2. ASSUME NEW S, answers \in [Conns -> S], longer \in S
      PROVE  [answers EXCEPT ![c] = longer] \in [Conns -> S]
  <2> HIDE DEF longer
  <2> QED BY <1>2
<1>3. [answers EXCEPT ![c] = longer] \in [Conns -> Seq(Codes)]
  <2> HIDE DEF longer, Codes
  <2>1. answers \in [Conns -> Seq(Codes)]
    BY DEF Codes
  <2> QED BY <2>1, <1>1, <1>2
<1>4. CASE Tells(c, code)
  <2>1. answers' = [answers EXCEPT ![c] = longer]
    BY <1>4 DEF Tells
  <2> HIDE DEF longer
  <2> QED BY <2>1, <1>3
<1>5. CASE CannotTell(c)
  BY <1>5 DEF CannotTell
<1> QED BY <1>4, <1>5

(* The two halves of the type invariant; the handlers leave the first one  *)
(* alone.                                                                  *)
ServerTyped ==
  /\ main \in {"start", "loop", "bound", "served", "switching", "closing", "closed"}
  /\ ln \in 0 .. MaxListeners /\ srv \in 0 .. MaxListeners
  /\ listening \subseteq 1 .. MaxListeners
  /\ ln = IF main = "bound" THEN srv + 1 ELSE srv
  /\ tunnelOnly \in BOOLEAN /\ authority \in BOOLEAN
  /\ closing \subseteq owed /\ owed \subseteq Conns

Sockets == {"none", "open", "gone", "closed"}
Relays  == [up : BOOLEAN, down : BOOLEAN, peer : {"none", "open", "eof", "closed"}]
FlowStates == {"none", "pending", "established", "complete", "error"}

ConnTyped ==
  /\ conns \subseteq Conns
  /\ phase \in [Conns -> Phases] /\ home \in [Conns -> 0 .. MaxListeners]
  /\ sock \in [Conns -> Sockets] /\ answers \in [Conns -> Seq({200, 409, 502})]
  /\ flow \in [Conns -> FlowStates] /\ relay \in [Conns -> Relays]

LEMMA RelayTyped ==
  ASSUME NEW r \in Relays
  PROVE  /\ [r EXCEPT !.down = FALSE] \in Relays
         /\ \A p \in {"eof", "closed"} :
              [r EXCEPT !.peer = p] \in Relays /\ [r EXCEPT !.up = FALSE, !.peer = p] \in Relays
  BY DEF Relays

LEMMA TypeInHalves ==
  /\ Typed <=> ServerTyped /\ OneListener /\ ConnTyped
  /\ Typed' <=> (ServerTyped /\ OneListener /\ ConnTyped)'
  BY DEF Typed, TypeOK, ServerTyped, ConnTyped, Sockets, Relays, FlowStates

LEMMA StepTyped == Typed /\ [Next]_vars => Typed'
<1> SUFFICES ASSUME ServerTyped, OneListener, ConnTyped, [Next]_vars
             PROVE  (ServerTyped /\ OneListener /\ ConnTyped)'
  BY TypeInHalves
<1> USE ConnectionsAssumption DEF ServerTyped, OneListener
<1>1. CASE Start
  BY <1>1 DEF Start, ConnTyped, conn
<1>2. CASE RebindListens
  BY <1>2 DEF RebindListens, ConnTyped, conn
<1>3. CASE RebindServes
  BY <1>3 DEF RebindServes, ConnTyped, conn
<1>4. CASE LoadsCA
  BY <1>4 DEF LoadsCA, ConnTyped, conn
<1>5. CASE SetsMode
  BY <1>5 DEF SetsMode, ConnTyped, conn
<1>6. CASE CloseBegins
  BY <1>6 DEF CloseBegins, ConnTyped, conn
<1>7. CASE RebindCloses
  <2>1. (ServerTyped /\ OneListener)'
    BY <1>7 DEF RebindCloses
  <2>2. ConnTyped'
    BY <1>7 DEF RebindCloses, ConnTyped, Ended, CutByUs, Phases, Sockets
  <2> QED BY <2>1, <2>2
<1>8. CASE ClosesServer
  <2>1. (ServerTyped /\ OneListener)'
    BY <1>8 DEF ClosesServer
  <2>2. ConnTyped'
    BY <1>8 DEF ClosesServer, ConnTyped, Ended, CutByUs, Phases, Sockets
  <2> QED BY <2>1, <2>2
<1>9. ASSUME NEW c \in Conns, ClosesOne(c) PROVE (ServerTyped /\ OneListener /\ ConnTyped)'
  BY <1>9 DEF ClosesOne, ConnTyped, CutByUs, Sockets
<1> USE DEF ConnTyped, server, Goes, Leaves, Records, CutByUs, Phases, Intercepted,
         Tunnelled, Sockets, FlowStates
<1>10. ASSUME NEW c \in Conns, Connect(c) PROVE (ServerTyped /\ OneListener /\ ConnTyped)'
  BY <1>10 DEF Connect
<1>11. ASSUME NEW c \in Conns, HangsUp(c) PROVE (ServerTyped /\ OneListener /\ ConnTyped)'
  BY <1>11 DEF HangsUp
<1>12. ASSUME NEW c \in Conns, Hijack(c) PROVE (ServerTyped /\ OneListener /\ ConnTyped)'
  BY <1>12 DEF Hijack
<1>13. ASSUME NEW c \in Conns, PeeksPlain(c) PROVE (ServerTyped /\ OneListener /\ ConnTyped)'
  BY <1>13 DEF PeeksPlain, TunnelBegins
<1>14. ASSUME NEW c \in Conns, PeeksTLS(c) PROVE (ServerTyped /\ OneListener /\ ConnTyped)'
  BY <1>14 DEF PeeksTLS
<1>15. ASSUME NEW c \in Conns, Upgrades(c) PROVE (ServerTyped /\ OneListener /\ ConnTyped)'
  <2>1. (ServerTyped /\ OneListener)'
    BY <1>15 DEF Upgrades
  <2>2. Relaying \in Relays
    BY DEF Relaying, Relays
  <2>3. relay' \in [Conns -> Relays]
    BY <1>15, <2>2 DEF Upgrades
  <2>4. phase' \in [Conns -> Phases]
    BY <1>15, ZenonT(60) DEF Upgrades
  <2>5. home' \in [Conns -> 0 .. MaxListeners]
    BY <1>15 DEF Upgrades
  <2>6. UNCHANGED <<server, sock, conns, answers, flow>>
    BY <1>15 DEF Upgrades
  <2> QED BY <2>1, <2>3, <2>4, <2>5, <2>6
<1>16. ASSUME NEW c \in Conns, PeerCloses(c) PROVE (ServerTyped /\ OneListener /\ ConnTyped)'
  <2>1. (ServerTyped /\ OneListener)'
    BY <1>16 DEF PeerCloses
  <2>2. [relay[c] EXCEPT !.peer = "closed"] \in Relays
    BY RelayTyped
  <2>3. relay' \in [Conns -> Relays]
    BY <1>16, <2>2 DEF PeerCloses
  <2>4. ConnTyped'
    BY <1>16, <2>3 DEF PeerCloses
  <2> QED BY <2>1, <2>4
<1>17. ASSUME NEW c \in Conns, Accept(c) PROVE (ServerTyped /\ OneListener /\ ConnTyped)'
  BY <1>17 DEF Accept
<1>18. ASSUME NEW c \in Conns, HttpEnds(c) PROVE (ServerTyped /\ OneListener /\ ConnTyped)'
  BY <1>18 DEF HttpEnds
<1>19. ASSUME NEW c \in Conns, TlsEnds(c) PROVE (ServerTyped /\ OneListener /\ ConnTyped)'
  BY <1>19 DEF TlsEnds
<1>20. ASSUME NEW c \in Conns, DownEnds(c) PROVE (ServerTyped /\ OneListener /\ ConnTyped)'
  <2>1. (ServerTyped /\ OneListener)'
    BY <1>20 DEF DownEnds
  <2>2. [relay[c] EXCEPT !.down = FALSE] \in Relays
    BY RelayTyped
  <2>3. relay' \in [Conns -> Relays]
    BY <1>20, <2>2 DEF DownEnds
  <2>4. ConnTyped'
    BY <1>20, <2>3 DEF DownEnds
  <2> QED BY <2>1, <2>4
<1>21. ASSUME NEW c \in Conns, Track(c) PROVE (ServerTyped /\ OneListener /\ ConnTyped)'
  BY <1>21 DEF Track
<1>22. ASSUME NEW c \in Conns, Tunnels(c) PROVE (ServerTyped /\ OneListener /\ ConnTyped)'
  BY <1>22 DEF Tunnels, TunnelBegins
<1>23. ASSUME NEW c \in Conns, Acknowledges(c) PROVE (ServerTyped /\ OneListener /\ ConnTyped)'
  <2>1. answers' \in [Conns -> Seq({200, 409, 502})]
    BY <1>23, ToldTyped DEF Acknowledges
  <2>2. relay' \in [Conns -> Relays]
    BY <1>23 DEF Acknowledges
  <2>3. phase' \in [Conns -> Phases]
    <3>1. \E p \in {"peek", "done"} : phase' = [phase EXCEPT ![c] = p]
      BY <1>23 DEF Acknowledges
    <3> QED BY <3>1
  <2>4. sock' \in [Conns -> Sockets]
    BY <1>23 DEF Acknowledges
  <2>5. flow' \in [Conns -> FlowStates]
    BY <1>23 DEF Acknowledges
  <2>6. UNCHANGED <<server, home, conns>>
    BY <1>23 DEF Acknowledges
  <2> QED BY <2>1, <2>2, <2>3, <2>4, <2>5, <2>6
<1>24. ASSUME NEW c \in Conns, RefusesLocal(c) PROVE (ServerTyped /\ OneListener /\ ConnTyped)'
  <2>1. answers' \in [Conns -> Seq({200, 409, 502})]
    BY <1>24, ToldTyped DEF RefusesLocal
  <2>2. relay' \in [Conns -> Relays]
    BY <1>24 DEF RefusesLocal
  <2>3. phase' \in [Conns -> Phases]
    BY <1>24 DEF RefusesLocal
  <2>4. sock' \in [Conns -> Sockets]
    BY <1>24 DEF RefusesLocal
  <2>5. flow' \in [Conns -> FlowStates]
    BY <1>24 DEF RefusesLocal
  <2>6. UNCHANGED <<server, home, conns>>
    BY <1>24 DEF RefusesLocal
  <2> QED BY <2>1, <2>2, <2>3, <2>4, <2>5, <2>6
<1>25. ASSUME NEW c \in Conns, PeekFails(c) PROVE (ServerTyped /\ OneListener /\ ConnTyped)'
  BY <1>25 DEF PeekFails
<1>26. ASSUME NEW c \in Conns, DialFails(c) PROVE (ServerTyped /\ OneListener /\ ConnTyped)'
  <2>1. answers' \in [Conns -> Seq({200, 409, 502})]
    BY <1>26, ToldTyped DEF DialFails
  <2>2. relay' \in [Conns -> Relays]
    BY <1>26 DEF DialFails
  <2>3. phase' \in [Conns -> Phases]
    BY <1>26 DEF DialFails
  <2>4. sock' \in [Conns -> Sockets]
    BY <1>26 DEF DialFails
  <2>5. flow' \in [Conns -> FlowStates]
    BY <1>26 DEF DialFails
  <2>6. UNCHANGED <<server, home, conns>>
    BY <1>26 DEF DialFails
  <2> QED BY <2>1, <2>2, <2>3, <2>4, <2>5, <2>6
<1>27. ASSUME NEW c \in Conns, Dialed(c) PROVE (ServerTyped /\ OneListener /\ ConnTyped)'
  <2>1. answers' \in [Conns -> Seq({200, 409, 502})]
    BY <1>27, ToldTyped DEF Dialed
  <2>2. relay' \in [Conns -> Relays]
    <3>1. Relaying \in Relays
      BY DEF Relaying, Relays
    <3>2. relay' = [relay EXCEPT ![c] = Relaying] \/ relay' = relay
      BY <1>27 DEF Dialed
    <3> QED BY <3>1, <3>2, ZenonT(60)
  <2>3. phase' \in [Conns -> Phases]
    <3>1. \E p \in {"relay", "done"} : phase' = [phase EXCEPT ![c] = p]
      BY <1>27 DEF Dialed
    <3> QED BY <3>1
  <2>4. sock' \in [Conns -> Sockets]
    BY <1>27 DEF Dialed
  <2>5. flow' \in [Conns -> FlowStates]
    <3>1. \E p \in {"established", "error"} : flow' = [flow EXCEPT ![c] = p]
      BY <1>27 DEF Dialed
    <3> QED BY <3>1
  <2>6. UNCHANGED <<server, home, conns>>
    BY <1>27 DEF Dialed
  <2> QED BY <2>1, <2>2, <2>3, <2>4, <2>5, <2>6
<1>28. ASSUME NEW c \in Conns, HandshakeOK(c) PROVE (ServerTyped /\ OneListener /\ ConnTyped)'
  BY <1>28 DEF HandshakeOK
<1>29. ASSUME NEW c \in Conns, HandshakeFails(c) PROVE (ServerTyped /\ OneListener /\ ConnTyped)'
  BY <1>29 DEF HandshakeFails
<1>30. ASSUME NEW c \in Conns, UpEnds(c) PROVE (ServerTyped /\ OneListener /\ ConnTyped)'
  <2>1. (ServerTyped /\ OneListener)'
    BY <1>30 DEF UpEnds
  <2>2. PICK p \in {"eof", "closed"} :
          relay' = [relay EXCEPT ![c] = [relay[c] EXCEPT !.up = FALSE, !.peer = p]]
    BY <1>30, ZenonT(60) DEF UpEnds
  <2>3. [relay[c] EXCEPT !.up = FALSE, !.peer = p] \in Relays
    BY RelayTyped
  <2>4. relay' \in [Conns -> Relays]
    BY <2>2, <2>3
  <2>5. ConnTyped'
    BY <1>30, <2>4 DEF UpEnds
  <2> QED BY <2>1, <2>5
<1>31. ASSUME NEW c \in Conns, RelayEnds(c) PROVE (ServerTyped /\ OneListener /\ ConnTyped)'
  <2>1. (ServerTyped /\ OneListener)'
    BY <1>31 DEF RelayEnds
  <2>2. NoRelay \in Relays
    BY DEF NoRelay, Relays
  <2>3. relay' \in [Conns -> Relays]
    BY <1>31, <2>2 DEF RelayEnds
  <2>4. phase' \in [Conns -> Phases]
    BY <1>31, ZenonT(60) DEF RelayEnds
  <2>5. flow' \in [Conns -> FlowStates]
    BY <1>31, ZenonT(60) DEF RelayEnds
  <2>6. UNCHANGED <<server, home, sock, conns, answers>>
    BY <1>31 DEF RelayEnds
  <2> QED BY <2>1, <2>3, <2>4, <2>5, <2>6
<1>32. ASSUME NEW c \in Conns, Untrack(c) PROVE (ServerTyped /\ OneListener /\ ConnTyped)'
  BY <1>32 DEF Untrack
<1>33. CASE UNCHANGED vars
  BY <1>33 DEF vars, conn
<1> QED
  BY <1>1, <1>2, <1>3, <1>4, <1>5, <1>6, <1>7, <1>8, <1>9, <1>10, <1>11,
     <1>12, <1>13, <1>14, <1>15, <1>16, <1>17, <1>18, <1>19, <1>20, <1>21,
     <1>22, <1>23, <1>24, <1>25, <1>26, <1>27, <1>28, <1>29, <1>30, <1>31,
     <1>32, <1>33
  DEF Next, Main, Client, Proceeds

(* Every variable keeps its type, for any number of clients and moves.     *)
THEOREM TypeCorrect == Spec => []TypeOK
<1>1. Typed => TypeOK
  BY DEF Typed
<1> QED BY <1>1, InitTyped, StepTyped, PTL DEF Spec

-----------------------------------------------------------------------------
(* A goroutine that serves a connection touches nothing but what belongs   *)
(* to it.                                                                  *)
HandlerStep(c) == \/ Client(c) \/ Accept(c) \/ HttpEnds(c) \/ TlsEnds(c)
                  \/ DownEnds(c) \/ Proceeds(c)

Same(d) ==
  /\ phase'[d] = phase[d] /\ home'[d] = home[d] /\ sock'[d] = sock[d]
  /\ answers'[d] = answers[d] /\ flow'[d] = flow[d] /\ (d \in conns' <=> d \in conns)

LEMMA OnlyItsOwn ==
  ASSUME ConnTyped, NEW c \in Conns, HandlerStep(c)
  PROVE  UNCHANGED server /\ \A d \in Conns \ {c} : Same(d)
<1> USE DEF ConnTyped, Goes, Leaves, Records, CutByUs, Same
<1>1. CASE Connect(c)
  BY <1>1 DEF Connect
<1>2. CASE HangsUp(c)
  BY <1>2 DEF HangsUp
<1>3. CASE Hijack(c)
  BY <1>3 DEF Hijack
<1>4. CASE PeeksPlain(c)
  BY <1>4 DEF PeeksPlain, TunnelBegins
<1>5. CASE PeeksTLS(c)
  BY <1>5 DEF PeeksTLS
<1>6. CASE Upgrades(c)
  BY <1>6 DEF Upgrades
<1>7. CASE PeerCloses(c)
  BY <1>7 DEF PeerCloses
<1>8. CASE Accept(c)
  BY <1>8 DEF Accept
<1>9. CASE HttpEnds(c)
  BY <1>9 DEF HttpEnds
<1>10. CASE TlsEnds(c)
  BY <1>10 DEF TlsEnds
<1>11. CASE DownEnds(c)
  BY <1>11 DEF DownEnds
<1>12. CASE Track(c)
  BY <1>12 DEF Track
<1>13. CASE Tunnels(c)
  BY <1>13 DEF Tunnels, TunnelBegins
<1>14. CASE Acknowledges(c)
  BY <1>14 DEF Acknowledges, Tells, CannotTell
<1>15. CASE RefusesLocal(c)
  BY <1>15 DEF RefusesLocal, Tells, CannotTell
<1>16. CASE PeekFails(c)
  BY <1>16 DEF PeekFails
<1>17. CASE DialFails(c)
  BY <1>17 DEF DialFails, Tells, CannotTell
<1>18. CASE Dialed(c)
  BY <1>18 DEF Dialed, Tells, CannotTell
<1>19. CASE HandshakeOK(c)
  BY <1>19 DEF HandshakeOK
<1>20. CASE HandshakeFails(c)
  BY <1>20 DEF HandshakeFails
<1>21. CASE UpEnds(c)
  BY <1>21 DEF UpEnds
<1>22. CASE RelayEnds(c)
  BY <1>22 DEF RelayEnds
<1>23. CASE Untrack(c)
  BY <1>23 DEF Untrack
<1> QED
  BY <1>1, <1>2, <1>3, <1>4, <1>5, <1>6, <1>7, <1>8, <1>9, <1>10, <1>11,
     <1>12, <1>13, <1>14, <1>15, <1>16, <1>17, <1>18, <1>19, <1>20, <1>21,
     <1>22, <1>23
  DEF HandlerStep, Client, Proceeds

-----------------------------------------------------------------------------
(* The inductive invariant behind ConnectionsInv.  To the properties it    *)
(* adds that without interception there may be no CA but with it there is, *)
(* that who waits in a queue waits in an open one, and how far Close has   *)
(* come with the connections that it owes.                                 *)
ModeHasCA == (tunnelOnly \/ authority) /\ (main = "switching" => authority)

Held == {"connect"} \cup Tunnelled \cup Intercepted

Served(c) ==
  /\ phase[c] \in Intercepted => authority
  /\ phase[c] \in Held => c \in conns
  /\ c \in conns \cup owed => phase[c] # "away"
  /\ phase[c] = "backlog" => home[c] \in listening
  /\ main = "closing" /\ c \in owed \ closing => sock[c] # "open"
  /\ main = "closed" => /\ c \in owed => sock[c] # "open"
                        /\ phase[c] = "http" => home[c] # ln

ConnectionsIInv == Typed /\ ModeHasCA /\ \A c \in Conns : Served(c)

LEMMA InvImplied == ConnectionsIInv => ConnectionsInv
  BY DEF ConnectionsIInv, ConnectionsInv, Typed, OneListener, TypeOK, Served, Held,
         CurrentIsListening, InterceptionHasCA, HeldIsTracked, CloseReaches

LEMMA InitServed == Init => ConnectionsIInv
<1> SUFFICES ASSUME Init PROVE ConnectionsIInv
  OBVIOUS
<1>1. Typed
  BY InitTyped
<1>2. ModeHasCA
  BY DEF Init, ModeHasCA
<1>3. \A c \in Conns : Served(c)
  BY DEF Init, Served, Held, Intercepted, Tunnelled
<1> QED BY <1>1, <1>2, <1>3 DEF ConnectionsIInv

(* The main goroutine keeps it.                                            *)
LEMMA MainServes == ConnectionsIInv /\ Main => ModeHasCA' /\ \A c \in Conns : Served(c)'
<1> SUFFICES ASSUME ConnectionsIInv, Main PROVE ModeHasCA' /\ \A c \in Conns : Served(c)'
  OBVIOUS
<1> USE DEF ConnectionsIInv, Typed, TypeOK, OneListener, ModeHasCA, Served, Held, Intercepted,
         Tunnelled, conn
<1>1. CASE Start
  BY <1>1 DEF Start
<1>2. CASE RebindListens
  BY <1>2 DEF RebindListens
<1>3. CASE RebindServes
  BY <1>3 DEF RebindServes
<1>4. CASE RebindCloses
  BY <1>4 DEF RebindCloses, Ended, CutByUs, Waiting
<1>5. CASE LoadsCA
  BY <1>5 DEF LoadsCA
<1>6. CASE SetsMode
  BY <1>6 DEF SetsMode
<1>7. CASE CloseBegins
  BY <1>7 DEF CloseBegins
<1>8. ASSUME NEW c \in Conns, ClosesOne(c) PROVE ModeHasCA' /\ \A d \in Conns : Served(d)'
  BY <1>8 DEF ClosesOne, CutByUs
<1>9. CASE ClosesServer
  BY <1>9 DEF ClosesServer, Ended, CutByUs, Waiting
<1> QED
  BY <1>1, <1>2, <1>3, <1>4, <1>5, <1>6, <1>7, <1>8, <1>9
  DEF Main

(* A handler keeps it for its own connection ...                           *)
LEMMA HandlerServes ==
  ASSUME ConnectionsIInv, NEW c \in Conns, HandlerStep(c)
  PROVE  Served(c)'
<1>1. UNCHANGED server
  BY OnlyItsOwn, TypeInHalves DEF ConnectionsIInv
<1>2. ConnTyped /\ OneListener /\ ModeHasCA /\ Served(c)
  BY TypeInHalves DEF ConnectionsIInv
<1> USE <1>1, <1>2 DEF ConnTyped, OneListener, ModeHasCA, Served, Held, Intercepted, Tunnelled,
        server, Goes, Leaves, CutByUs
<1>3. CASE Connect(c)
  BY <1>3 DEF Connect
<1>4. CASE HangsUp(c)
  BY <1>4 DEF HangsUp
<1>5. CASE Hijack(c)
  BY <1>5 DEF Hijack
<1>6. CASE PeeksPlain(c)
  BY <1>6 DEF PeeksPlain, TunnelBegins
<1>7. CASE PeeksTLS(c)
  BY <1>7 DEF PeeksTLS
<1>8. CASE Upgrades(c)
  BY <1>8 DEF Upgrades
<1>9. CASE PeerCloses(c)
  BY <1>9 DEF PeerCloses
<1>10. CASE Accept(c)
  BY <1>10 DEF Accept
<1>11. CASE HttpEnds(c)
  BY <1>11 DEF HttpEnds
<1>12. CASE TlsEnds(c)
  BY <1>12 DEF TlsEnds
<1>13. CASE DownEnds(c)
  BY <1>13 DEF DownEnds
<1>14. CASE Track(c)
  BY <1>14 DEF Track
<1>15. CASE Tunnels(c)
  BY <1>15 DEF Tunnels, TunnelBegins
<1>16. CASE Acknowledges(c)
  BY <1>16 DEF Acknowledges
<1>17. CASE RefusesLocal(c)
  BY <1>17 DEF RefusesLocal
<1>18. CASE PeekFails(c)
  BY <1>18 DEF PeekFails
<1>19. CASE DialFails(c)
  BY <1>19 DEF DialFails
<1>20. CASE Dialed(c)
  BY <1>20 DEF Dialed
<1>21. CASE HandshakeOK(c)
  BY <1>21 DEF HandshakeOK
<1>22. CASE HandshakeFails(c)
  BY <1>22 DEF HandshakeFails
<1>23. CASE UpEnds(c)
  BY <1>23 DEF UpEnds
<1>24. CASE RelayEnds(c)
  BY <1>24 DEF RelayEnds
<1>25. CASE Untrack(c)
  BY <1>25 DEF Untrack
<1> QED
  BY <1>3, <1>4, <1>5, <1>6, <1>7, <1>8, <1>9, <1>10, <1>11, <1>12, <1>13,
     <1>14, <1>15, <1>16, <1>17, <1>18, <1>19, <1>20, <1>21, <1>22, <1>23,
     <1>24, <1>25
  DEF HandlerStep, Client, Proceeds

(* ... and for the others.                                                 *)
LEMMA StepServes == ConnectionsIInv /\ [Next]_vars => ConnectionsIInv'
<1> SUFFICES ASSUME ConnectionsIInv, [Next]_vars PROVE ConnectionsIInv'
  OBVIOUS
<1>1. Typed'
  BY StepTyped DEF ConnectionsIInv
<1>2. CASE Main
  BY <1>1, <1>2, MainServes DEF ConnectionsIInv
<1>3. ASSUME NEW c \in Conns, HandlerStep(c) PROVE ConnectionsIInv'
  <2>1. UNCHANGED server /\ \A d \in Conns \ {c} : Same(d)
    BY <1>3, OnlyItsOwn, TypeInHalves DEF ConnectionsIInv
  <2>2. ModeHasCA'
    BY <2>1 DEF ConnectionsIInv, ModeHasCA, server
  <2>3. ASSUME NEW d \in Conns \ {c} PROVE Served(d)'
    BY <2>1 DEF ConnectionsIInv, Served, server, Same
  <2>4. Served(c)'
    BY <1>3, HandlerServes
  <2> QED BY <1>1, <2>2, <2>3, <2>4 DEF ConnectionsIInv
<1>4. CASE UNCHANGED vars
  BY <1>1, <1>4 DEF vars, server, conn, ConnectionsIInv, ModeHasCA, Served
<1> QED BY <1>2, <1>3, <1>4 DEF Next, HandlerStep

(* Whatever the clients do and in whatever order the address is moved, the *)
(* mode switched and the proxy closed: the announced address listens,      *)
(* interception has its CA, and Close reaches what it is bound to.         *)
THEOREM ConnectionsSafe == Spec => []ConnectionsInv
<1> QED BY InitServed, StepServes, InvImplied, PTL DEF Spec

-----------------------------------------------------------------------------
(* The invariant behind TunnelsInv: nothing is said before the CONNECT is  *)
(* decided on.                                                             *)
Unanswered == {"away", "backlog", "http", "hijacked", "connect", "dialing"}

Told(c) ==
  /\ Len(answers[c]) <= 1
  /\ phase[c] \in Unanswered => answers[c] = <<>>
  /\ phase[c] \in Intercepted \cup {"acknowledged", "relay"} => answers[c] = <<200>>
  /\ flow[c] = "complete" => answers[c] = <<200>>
  /\ flow[c] \in {"pending", "established"} <=> phase[c] \in Tunnelled

TunnelsIInv == Typed /\ \A c \in Conns : Told(c)

LEMMA InitTold == Init => TunnelsIInv
<1> SUFFICES ASSUME Init, NEW c \in Conns PROVE Typed /\ Told(c)
  BY InitTyped DEF TunnelsIInv
<1>1. answers[c] = <<>> /\ phase[c] = "away" /\ flow[c] = "none"
  BY DEF Init
<1> QED BY <1>1, InitTyped DEF Told, Intercepted, Tunnelled, Unanswered

(* The main goroutine ends connections that have not asked for anything.   *)
LEMMA MainTells == ASSUME TunnelsIInv, Main, NEW c \in Conns PROVE Told(c)'
<1>1. Told(c)
  BY DEF TunnelsIInv
<1>2. UNCHANGED <<answers, flow>>
  BY DEF Main, Start, RebindListens, RebindServes, RebindCloses, LoadsCA, SetsMode, CloseBegins,
         ClosesOne, ClosesServer, conn
<1>3. \/ phase'[c] = phase[c]
      \/ phase[c] \in {"backlog", "http"} /\ phase'[c] = "done"
  BY DEF Main, Start, RebindListens, RebindServes, RebindCloses, LoadsCA, SetsMode, CloseBegins,
         ClosesOne, ClosesServer, conn, Ended, Waiting
<1> QED BY <1>1, <1>2, <1>3 DEF Told, Unanswered, Intercepted, Tunnelled

LEMMA HandlerTells ==
  ASSUME TunnelsIInv, NEW c \in Conns, HandlerStep(c)
  PROVE  Told(c)'
<1>1. ConnTyped /\ Told(c)
  BY TypeInHalves DEF TunnelsIInv
<1>2. ASSUME answers[c] = <<>>, NEW code \in {200, 409, 502}
      PROVE  Append(answers[c], code) = <<code>> /\ Len(<<code>>) = 1
  BY <1>2
<1> USE <1>1 DEF ConnTyped, Told, Unanswered, Intercepted, Tunnelled, Goes, Records
<1>3. CASE Connect(c)
  BY <1>3 DEF Connect
<1>4. CASE HangsUp(c)
  BY <1>4 DEF HangsUp
<1>5. CASE Hijack(c)
  BY <1>5 DEF Hijack
<1>6. CASE PeeksPlain(c)
  BY <1>6 DEF PeeksPlain, TunnelBegins
<1>7. CASE PeeksTLS(c)
  BY <1>7 DEF PeeksTLS
<1>8. CASE Upgrades(c)
  BY <1>8 DEF Upgrades
<1>9. CASE PeerCloses(c)
  BY <1>9 DEF PeerCloses
<1>10. CASE Accept(c)
  BY <1>10 DEF Accept
<1>11. CASE HttpEnds(c)
  BY <1>11 DEF HttpEnds
<1>12. CASE TlsEnds(c)
  BY <1>12 DEF TlsEnds
<1>13. CASE DownEnds(c)
  BY <1>13 DEF DownEnds
<1>14. CASE Track(c)
  BY <1>14 DEF Track
<1>15. CASE Tunnels(c)
  BY <1>15 DEF Tunnels, TunnelBegins
<1>16. CASE Acknowledges(c)
  BY <1>2, <1>16 DEF Acknowledges, Tells, CannotTell
<1>17. CASE RefusesLocal(c)
  <2>1. answers[c] = <<>> /\ flow[c] # "complete"
    BY <1>17 DEF RefusesLocal
  <2>2. Len(answers'[c]) <= 1
    <3>1. Tells(c, 409) \/ CannotTell(c)
      BY <1>17 DEF RefusesLocal
    <3>2. CASE Tells(c, 409)
      BY <1>2, <2>1, <3>2 DEF Tells
    <3>3. CASE CannotTell(c)
      BY <3>3 DEF CannotTell
    <3> QED BY <3>1, <3>2, <3>3
  <2>3. flow'[c] = flow[c] /\ phase[c] = "connect" /\ phase'[c] = "done"
    BY <1>17 DEF RefusesLocal
  <2> QED BY <2>1, <2>2, <2>3
<1>18. CASE PeekFails(c)
  BY <1>18 DEF PeekFails
<1>19. CASE DialFails(c)
  BY <1>2, <1>19 DEF DialFails, Tells, CannotTell
<1>20. CASE Dialed(c)
  <2>1. CASE phase[c] = "dialing"
    <3>1. answers[c] = <<>>
      BY <2>1
    <3>2. CASE Goes(c, "dialing", "relay") /\ Tells(c, 200) /\ Records(c, "established")
      <4>1. answers'[c] = <<200>>
        BY <1>2, <3>1, <3>2 DEF Tells
      <4>2. phase'[c] = "relay" /\ flow'[c] = "established"
        BY <3>2
      <4> QED BY <4>1, <4>2
    <3>3. CASE Goes(c, "dialing", "done") /\ CannotTell(c) /\ Records(c, "error")
      BY <3>1, <3>3 DEF CannotTell
    <3> QED BY <1>20, <2>1, <3>2, <3>3 DEF Dialed
  <2>2. CASE phase[c] = "acknowledged"
    <3>1. phase'[c] = "relay" /\ answers'[c] = <<200>> /\ flow'[c] = "established"
      BY <1>20, <2>2 DEF Dialed
    <3> QED BY <3>1
  <2> QED BY <1>20, <2>1, <2>2 DEF Dialed
<1>21. CASE HandshakeOK(c)
  BY <1>21 DEF HandshakeOK
<1>22. CASE HandshakeFails(c)
  BY <1>22 DEF HandshakeFails
<1>23. CASE UpEnds(c)
  BY <1>23 DEF UpEnds
<1>24. CASE RelayEnds(c)
  BY <1>24 DEF RelayEnds
<1>25. CASE Untrack(c)
  BY <1>25 DEF Untrack
<1> QED
  BY <1>3, <1>4, <1>5, <1>6, <1>7, <1>8, <1>9, <1>10, <1>11, <1>12, <1>13,
     <1>14, <1>15, <1>16, <1>17, <1>18, <1>19, <1>20, <1>21, <1>22, <1>23,
     <1>24, <1>25
  DEF HandlerStep, Client, Proceeds

LEMMA StepTells == TunnelsIInv /\ [Next]_vars => TunnelsIInv'
<1> SUFFICES ASSUME TunnelsIInv, [Next]_vars PROVE TunnelsIInv'
  OBVIOUS
<1>1. Typed'
  BY StepTyped DEF TunnelsIInv
<1>2. CASE Main
  BY <1>1, <1>2, MainTells DEF TunnelsIInv
<1>3. ASSUME NEW c \in Conns, HandlerStep(c) PROVE TunnelsIInv'
  <2>1. \A d \in Conns \ {c} : Same(d)
    BY <1>3, OnlyItsOwn, TypeInHalves DEF TunnelsIInv
  <2>2. ASSUME NEW d \in Conns \ {c} PROVE Told(d)'
    BY <2>1 DEF TunnelsIInv, Told, Same
  <2> QED BY <1>1, <1>3, <2>2, HandlerTells DEF TunnelsIInv
<1>4. CASE UNCHANGED vars
  BY <1>1, <1>4 DEF vars, conn, TunnelsIInv, Told
<1> QED BY <1>2, <1>3, <1>4 DEF Next, HandlerStep

(* Every CONNECT is answered at most once, a tunnel or a session runs only *)
(* after its 200, and the flow of a tunnel is open exactly while the       *)
(* tunnel is: for any number of clients.                                   *)
THEOREM TunnelsAlwaysSettled == Spec => []TunnelsInv
<1>1. TunnelsIInv => TunnelsInv
  BY DEF TunnelsIInv, Told, TunnelsInv, AnswerStands, FlowFollowsTunnel
<1> QED BY <1>1, InitTold, StepTells, PTL DEF Spec
=============================================================================
