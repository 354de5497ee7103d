---------------------------- MODULE Connections ----------------------------
(***************************************************************************)
(* The connections of internal/proxy/proxy.go: the listener and the HTTP   *)
(* server of each address, CONNECT up to the end of its tunnel or of the   *)
(* intercepted TLS session, upgrades, and what the main goroutine does to  *)
(* all of them - Start, Rebind, SetTunnelOnly, Close.                      *)
(*                                                                         *)
(* The goroutines of net/http that serve one connection are one phase each *)
(* here; what happens to a single exchange is the subject of Exchange.     *)
(* Listeners are numbered in the order they were bound; each has a server  *)
(* of its own.  Bytes are left out, but for the ends of the two streams.   *)
(***************************************************************************)
EXTENDS Naturals, Sequences

CONSTANTS
  Conns,        \* client connections
  Asks,         \* Asks[c]: what the client of c may be after
  MaxListeners  \* bound on Start and Rebind together

ASSUME ConnectionsAssumption ==
  /\ MaxListeners \in Nat \ {0}
  /\ Asks \in [Conns -> SUBSET {"local", "plain", "tls", "upgrade"}]

VARIABLES
  main,       \* where the main goroutine is
  ln,         \* Proxy.ln: the number of the current listener
  srv,        \* Proxy.srv: the number of the current server
  listening,  \* the listeners that are open
  tunnelOnly, \* Proxy.tunnelOnly
  authority,  \* Proxy.authority holds a CA
  closing,    \* Close's copy of the tracked connections, those still to close
  owed,       \* history: the connections tracked when Close begins
  phase,      \* phase[c]: where the goroutine that serves c is
  home,       \* home[c]: the listener c connected to, while its server knows c
  sock,       \* sock[c]: who, if anybody, has ended the connection
  conns,      \* Proxy.conns: the tracked connections
  answers,    \* answers[c]: what the client was told about its CONNECT
  flow,       \* flow[c]: the state of the flow of c's tunnel
  relay       \* relay[c]: the two copying goroutines and the upstream end

server == <<main, ln, srv, listening, tunnelOnly, authority, closing, owed>>
conn   == <<phase, home, sock, conns, answers, flow, relay>>
vars   == <<server, conn>>

NoRelay == [up |-> FALSE, down |-> FALSE, peer |-> "none"]

Init ==
  /\ main = "start" /\ ln = 0 /\ srv = 0 /\ listening = {}
  /\ tunnelOnly \in BOOLEAN
  /\ authority = ~tunnelOnly   \* main loads the CA first, but in tunnel mode
  /\ closing = {} /\ owed = {} /\ conns = {}
  /\ phase = [c \in Conns |-> "away"] /\ home = [c \in Conns |-> 0]
  /\ sock = [c \in Conns |-> "none"] /\ answers = [c \in Conns |-> <<>>]
  /\ flow = [c \in Conns |-> "none"] /\ relay = [c \in Conns |-> NoRelay]

-----------------------------------------------------------------------------
(* The main goroutine.                                                     *)

(* Closing a listener resets the connections that wait in its queue.       *)
Waiting(l) == {c \in Conns : phase[c] = "backlog" /\ home[c] \in l}

Ended(cs)    == /\ phase' = [c \in Conns |-> IF c \in cs THEN "done" ELSE phase[c]]
                /\ home' = [c \in Conns |-> IF c \in cs THEN 0 ELSE home[c]]
CutByUs(cs)  == sock' = [c \in Conns |->
                   IF c \in cs /\ sock[c] = "open" THEN "closed" ELSE sock[c]]

(* Start: Listen, then serve.  A failure to bind ends the program.         *)
Start ==
  /\ main = "start" /\ main' = "loop"
  /\ ln' = 1 /\ srv' = 1 /\ listening' = {1}
  /\ UNCHANGED <<tunnelOnly, authority, closing, owed, conn>>

(* Rebind: Listen on the new address, which becomes Proxy.ln.  When Listen *)
(* fails, nothing has changed.                                             *)
RebindListens ==
  /\ main = "loop" /\ ln < MaxListeners
  /\ main' = "bound"
  /\ ln' = ln + 1 /\ listening' = listening \cup {ln + 1}
  /\ UNCHANGED <<srv, tunnelOnly, authority, closing, owed, conn>>

(* Variant: the server that is closed at exit stays the first one.         *)
RebindKeepsServer ==
  /\ main = "bound" /\ main' = "served"
  /\ UNCHANGED <<srv, ln, listening, tunnelOnly, authority, closing, owed, conn>>

(* serve: a fresh server takes the place of the old one, which goes on     *)
(* with the connections it has and is forgotten.                           *)
RebindServes ==
  /\ main = "bound" /\ main' = "served"
  /\ srv' = ln
  /\ UNCHANGED <<ln, listening, tunnelOnly, authority, closing, owed, conn>>

RebindCloses ==
  /\ main = "served" /\ main' = "loop"
  /\ LET cut == Waiting(listening \ {ln})
     IN  Ended(cut) /\ CutByUs(cut)
  /\ listening' = {ln}
  /\ UNCHANGED <<ln, srv, tunnelOnly, authority, closing, owed, conns,
                 answers, flow, relay>>

(* SetTunnelOnly(false) in a run that has had no CA: it is loaded first.   *)
(* When that fails, nothing has changed.                                   *)
LoadsCA ==
  /\ main = "loop" /\ tunnelOnly /\ ~authority
  /\ main' = "switching" /\ authority' = TRUE
  /\ UNCHANGED <<tunnelOnly, ln, srv, listening, closing, owed, conn>>

SetsMode ==
  /\ \/ main = "switching"
     \/ main = "loop" /\ (tunnelOnly => authority)
  /\ main' = "loop" /\ tunnelOnly' = ~tunnelOnly
  /\ UNCHANGED <<authority, ln, srv, listening, closing, owed, conn>>

(* Close copies the tracked connections under the lock ...                 *)
CloseBegins ==
  /\ main = "loop" /\ main' = "closing"
  /\ closing' = conns
  /\ owed' = conns
  /\ UNCHANGED <<ln, srv, listening, tunnelOnly, authority, conn>>

(* ... closes them one by one ...                                          *)
ClosesOne(c) ==
  /\ main = "closing" /\ c \in closing
  /\ closing' = closing \ {c} /\ CutByUs({c})
  /\ UNCHANGED <<main, ln, srv, listening, tunnelOnly, authority, owed, phase, home,
                 conns, answers, flow, relay>>

(* ... and then the server, with the connections it has not given away,    *)
(* and the listener.                                                       *)
ClosesServer ==
  /\ main = "closing" /\ closing = {}
  /\ main' = "closed"
  /\ LET cut == Waiting({ln}) \cup {c \in Conns : phase[c] = "http" /\ home[c] = srv}
     IN  Ended(cut) /\ CutByUs(cut)
  /\ listening' = {}
  /\ UNCHANGED <<ln, srv, tunnelOnly, authority, closing, owed, conns, answers,
                 flow, relay>>

Main == \/ Start \/ RebindListens \/ RebindServes \/ RebindCloses
        \/ LoadsCA \/ SetsMode \/ CloseBegins
        \/ (\E c \in Conns : ClosesOne(c)) \/ ClosesServer

-----------------------------------------------------------------------------
(* The client's end.                                                       *)

Connect(c) ==
  /\ phase[c] = "away"
  /\ \E l \in listening : home' = [home EXCEPT ![c] = l]
  /\ phase' = [phase EXCEPT ![c] = "backlog"]
  /\ sock' = [sock EXCEPT ![c] = "open"]
  /\ UNCHANGED <<conns, answers, flow, relay, server>>

HangsUp(c) ==
  /\ sock[c] = "open" /\ phase[c] # "done"
  /\ sock' = [sock EXCEPT ![c] = "gone"]
  /\ UNCHANGED <<phase, home, conns, answers, flow, relay, server>>

-----------------------------------------------------------------------------
(* The goroutine that serves a connection.                                 *)

Goes(c, from, to) == phase[c] = from /\ phase' = [phase EXCEPT ![c] = to]

(* What is written reaches an open connection; one the client has left may *)
(* take it all the same, one we have closed does not.                      *)
Tells(c, code)  == /\ sock[c] # "closed"
                   /\ answers' = [answers EXCEPT ![c] = Append(@, code)]
CannotTell(c)   == sock[c] # "open" /\ UNCHANGED answers

Leaves(c) == home' = [home EXCEPT ![c] = 0]

Records(c, s) == flow' = [flow EXCEPT ![c] = s]

(* A listener is accepted from as soon as it has its server.               *)
Accept(c) ==
  /\ main = "bound" => home[c] # ln
  /\ Goes(c, "backlog", "http")
  /\ UNCHANGED <<home, sock, conns, answers, flow, relay, server>>

(* The server ends a connection that was left, or one on which no request  *)
(* arrives within ReadHeaderTimeout.                                       *)
HttpEnds(c) ==
  /\ Goes(c, "http", "done") /\ CutByUs({c})
  /\ Leaves(c)
  /\ UNCHANGED <<conns, answers, flow, relay, server>>

(* handleConnect: Hijack, after which no server knows the connection ...   *)
Hijack(c) ==
  /\ Asks[c] # {"upgrade"}
  /\ sock[c] = "open" /\ Goes(c, "http", "hijacked")
  /\ Leaves(c)
  /\ UNCHANGED <<sock, conns, answers, flow, relay, server>>

(* ... and track, which makes it one of Close's.                           *)
Track(c) ==
  /\ Goes(c, "hijacked", "connect")
  /\ conns' = conns \cup {c}
  /\ UNCHANGED <<home, sock, answers, flow, relay, server>>

(* A CONNECT to one of our own names: 409, whether it arrives or not.      *)
RefusesLocal(c) ==
  /\ "local" \in Asks[c]
  /\ Goes(c, "connect", "done") /\ CutByUs({c})
  /\ Tells(c, 409) \/ CannotTell(c)
  /\ UNCHANGED <<home, conns, flow, relay, server>>

(* tunnel, up to the dialling.                                             *)
TunnelBegins(c, from, to) ==
  /\ Goes(c, from, to)
  /\ Records(c, "pending")
  /\ UNCHANGED <<home, sock, conns, answers, relay, server>>

Tunnels(c) == tunnelOnly /\ TunnelBegins(c, "connect", "dialing")

(* With interception on, the tunnel is acknowledged at once, and the first *)
(* byte tells whether the client speaks TLS.                               *)
Acknowledges(c) ==
  /\ ~tunnelOnly
  /\ \/ Tells(c, 200) /\ Goes(c, "connect", "peek") /\ UNCHANGED sock
     \/ CannotTell(c) /\ Goes(c, "connect", "done") /\ CutByUs({c})
  /\ UNCHANGED <<home, conns, flow, relay, server>>

PeeksPlain(c) ==
  /\ "plain" \in Asks[c] /\ sock[c] # "closed"
  /\ TunnelBegins(c, "peek", "acknowledged")

PeeksTLS(c) ==
  /\ "tls" \in Asks[c]
  /\ sock[c] # "closed" /\ Goes(c, "peek", "handshake")
  /\ UNCHANGED <<home, sock, conns, answers, flow, relay, server>>

(* Variant: no deadline on the first byte.                                 *)
PeeksPatiently(c) ==
  /\ sock[c] # "open" /\ Goes(c, "peek", "done") /\ CutByUs({c})
  /\ UNCHANGED <<home, conns, answers, flow, relay, server>>

(* No byte within 20 seconds, or the connection has ended.                 *)
PeekFails(c) ==
  /\ Goes(c, "peek", "done") /\ CutByUs({c})
  /\ UNCHANGED <<home, conns, answers, flow, relay, server>>

(* Variant: a failed dial is reported to a client that has its answer.     *)
DialFailsAloud(c) ==
  /\ \/ Goes(c, "dialing", "done")
     \/ Goes(c, "acknowledged", "done")
  /\ Tells(c, 502) \/ CannotTell(c)
  /\ Records(c, "error") /\ CutByUs({c})
  /\ UNCHANGED <<home, conns, relay, server>>

DialFails(c) ==
  /\ \/ Goes(c, "dialing", "done") /\ (Tells(c, 502) \/ CannotTell(c))
     \/ Goes(c, "acknowledged", "done") /\ UNCHANGED answers
  /\ Records(c, "error") /\ CutByUs({c})
  /\ UNCHANGED <<home, conns, relay, server>>

Relaying == [up |-> TRUE, down |-> TRUE, peer |-> "open"]

(* The upstream answers: 200, if that has not been said yet, and the two   *)
(* copying goroutines; or the client is gone by now.                       *)
Dialed(c) ==
  /\ \/ /\ \/ Goes(c, "dialing", "relay") /\ Tells(c, 200)
           \/ Goes(c, "acknowledged", "relay") /\ UNCHANGED answers
        /\ Records(c, "established") /\ relay' = [relay EXCEPT ![c] = Relaying]
        /\ UNCHANGED sock
     \/ /\ Goes(c, "dialing", "done") /\ CannotTell(c)
        /\ Records(c, "error") /\ CutByUs({c}) /\ UNCHANGED relay
  /\ UNCHANGED <<home, conns, server>>

(* mitm: the handshake with a leaf certificate of our CA, and the server   *)
(* of the one connection.                                                  *)
HandshakeOK(c) ==
  /\ authority /\ sock[c] # "closed" /\ Goes(c, "handshake", "tls")
  /\ UNCHANGED <<home, sock, conns, answers, flow, relay, server>>

HandshakeFails(c) ==
  /\ Goes(c, "handshake", "done")
  /\ Records(c, "error") /\ CutByUs({c})
  /\ UNCHANGED <<home, conns, answers, relay, server>>

(* The inner server ends its connection: StateClosed closes the one-shot   *)
(* listener and lets Serve return.                                         *)
TlsEnds(c) ==
  /\ Goes(c, "tls", "done") /\ CutByUs({c})
  /\ UNCHANGED <<home, conns, answers, flow, relay, server>>

(* handleUpgrade takes the connection from whichever server has it.  It is *)
(* not tracked; StateHijacked makes the inner server return, and with it   *)
(* the handler of the CONNECT, which untracks the connection.              *)
Upgrades(c) ==
  /\ "upgrade" \in Asks[c]
  /\ sock[c] # "closed"
  /\ Goes(c, "http", "upgraded") \/ Goes(c, "tls", "upgraded")
  /\ relay' = [relay EXCEPT ![c] = Relaying]
  /\ Leaves(c)
  /\ UNCHANGED <<sock, conns, answers, flow, server>>

(* Variant: the end of the client's stream is kept from the upstream.      *)
UpEndsSilently(c) ==
  /\ relay[c].up /\ (sock[c] # "open" \/ relay[c].peer = "closed")
  /\ relay' = [relay EXCEPT ![c].up = FALSE]
  /\ UNCHANGED <<phase, home, sock, conns, answers, flow, server>>

(* The copy from client to upstream ends with the client's stream, or when *)
(* the upstream takes no more.  A tunnel passes on the end of the stream,  *)
(* an upgraded connection is closed.                                       *)
UpEnds(c) ==
  /\ relay[c].up /\ (sock[c] # "open" \/ relay[c].peer = "closed")
  /\ relay' = [relay EXCEPT ![c].up = FALSE,
       ![c].peer = IF phase[c] = "relay" /\ @ # "closed" THEN "eof" ELSE "closed"]
  /\ UNCHANGED <<phase, home, sock, conns, answers, flow, server>>

PeerCloses(c) ==
  /\ relay[c].peer \in {"open", "eof"}
  /\ relay' = [relay EXCEPT ![c].peer = "closed"]
  /\ UNCHANGED <<phase, home, sock, conns, answers, flow, server>>

(* The other copy ends with the upstream's stream, or when the client is   *)
(* not there to take what it sends, and closes the client's connection.    *)
DownEnds(c) ==
  /\ relay[c].down /\ (relay[c].peer = "closed" \/ sock[c] # "open")
  /\ relay' = [relay EXCEPT ![c].down = FALSE] /\ CutByUs({c})
  /\ UNCHANGED <<phase, home, conns, answers, flow, server>>

(* Both are done.  The flow of an upgrade is the exchange's.               *)
RelayEnds(c) ==
  /\ relay[c].peer # "none" /\ ~relay[c].up /\ ~relay[c].down
  /\ \/ Goes(c, "relay", "done") /\ Records(c, "complete")
     \/ Goes(c, "upgraded", "done") /\ UNCHANGED flow
  /\ relay' = [relay EXCEPT ![c] = NoRelay]
  /\ UNCHANGED <<home, sock, conns, answers, server>>

(* handleConnect's deferred untrack.                                       *)
Untrack(c) ==
  /\ c \in conns /\ phase[c] \in {"done", "upgraded"}
  /\ conns' = conns \ {c}
  /\ UNCHANGED <<phase, home, sock, answers, flow, relay, server>>

-----------------------------------------------------------------------------
(* What a handler does without anybody's help.                             *)
Proceeds(c) ==
  \/ Track(c) \/ Tunnels(c) \/ Acknowledges(c) \/ RefusesLocal(c)
  \/ PeekFails(c) \/ DialFails(c) \/ Dialed(c) \/ HandshakeOK(c) \/ HandshakeFails(c)
  \/ UpEnds(c) \/ RelayEnds(c) \/ Untrack(c)

Client(c) ==
  \/ Connect(c) \/ HangsUp(c) \/ Hijack(c) \/ PeeksPlain(c) \/ PeeksTLS(c)
  \/ Upgrades(c) \/ PeerCloses(c)

Next == \/ Main
        \/ \E c \in Conns : \/ Client(c) \/ Accept(c) \/ HttpEnds(c) \/ TlsEnds(c)
                            \/ DownEnds(c) \/ Proceeds(c)

Spec == Init /\ [][Next]_vars

(* A server ends a connection that was left; an upstream that is told that *)
(* no more will come ends its own stream.                                  *)
NoticesHangUp(c) == sock[c] # "open" /\ (HttpEnds(c) \/ TlsEnds(c))
PeerAnswersEOF(c) == relay[c].peer = "eof" /\ PeerCloses(c)

(* Handlers run on, dials and handshakes have deadlines, a handler that    *)
(* of the main goroutine once begun comes to its end.                      *)
Fairness ==
  /\ WF_vars(main \in {"bound", "served", "switching", "closing"} /\ Main)
  /\ \A c \in Conns :
       /\ WF_vars(Proceeds(c)) /\ WF_vars(Accept(c)) /\ WF_vars(NoticesHangUp(c))
       /\ WF_vars(PeerAnswersEOF(c)) /\ WF_vars(relay[c].peer = "closed" /\ DownEnds(c))

FairSpec == Spec /\ Fairness

-----------------------------------------------------------------------------
Intercepted == {"peek", "handshake", "tls"}
Tunnelled   == {"dialing", "acknowledged", "relay"}
Phases == Intercepted \cup Tunnelled \cup
  {"away", "backlog", "http", "hijacked", "connect", "upgraded", "done"}

(* Every variable keeps its type, and but for the moment in which a move    *)
(* has a listener and no server yet the two are of the same number.        *)
TypeOK ==
  /\ main \in {"start", "loop", "bound", "served", "switching", "closing", "closed"}
  /\ ln \in 0 .. MaxListeners /\ srv \in 0 .. MaxListeners
  /\ listening \subseteq 1 .. MaxListeners
  /\ ln = IF main = "bound" THEN srv + 1 ELSE srv
  /\ tunnelOnly \in BOOLEAN /\ authority \in BOOLEAN
  /\ closing \subseteq owed /\ owed \subseteq Conns /\ conns \subseteq Conns
  /\ phase \in [Conns -> Phases] /\ home \in [Conns -> 0 .. MaxListeners]
  /\ sock \in [Conns -> {"none", "open", "gone", "closed"}]
  /\ answers \in [Conns -> Seq({200, 409, 502})]
  /\ flow \in [Conns -> {"none", "pending", "established", "complete", "error"}]
  /\ relay \in [Conns -> [up : BOOLEAN, down : BOOLEAN,
                          peer : {"none", "open", "eof", "closed"}]]

(* From Start to Close the address the proxy announces is open, whether a  *)
(* move succeeds or fails, and at every moment in between.                 *)
CurrentIsListening == main \notin {"start", "closed"} => ln \in listening

(* No TLS session is begun without a CA, however the mode is switched      *)
(* between the moment a handler reads it and the handshake.                *)
InterceptionHasCA == \A c \in Conns : phase[c] \in Intercepted => authority

(* A CONNECT is answered once: what comes after the 200 belongs to the     *)
(* tunnel, and a tunnel never starts before it.                            *)
AnswerStands ==
  \A c \in Conns :
    /\ Len(answers[c]) <= 1
    /\ phase[c] \in Intercepted \cup {"acknowledged", "relay"}
         => answers[c] = <<200>>
    /\ flow[c] = "complete" => answers[c] = <<200>>

(* A tunnel's flow is settled when, and only when, its handler is done.    *)
FlowFollowsTunnel ==
  \A c \in Conns : flow[c] \in {"pending", "established"} <=> phase[c] \in Tunnelled

(* Close ends every connection that was tracked when it was called, and    *)
(* every one the current server has not given away, whatever the address   *)
(* has been moved to before and whoever comes and goes meanwhile.          *)
CloseReaches ==
  main = "closed" =>
    \A c \in Conns : sock[c] = "open" =>
      c \notin owed /\ ~(phase[c] = "http" /\ home[c] = ln)

(* A connection that a handler of CONNECT holds is tracked.                *)
HeldIsTracked ==
  \A c \in Conns :
    phase[c] \in {"connect"} \cup Tunnelled \cup Intercepted => c \in conns

(* The server and its connections, at every moment of a move, a switch of  *)
(* the mode and the end: the announced address listens, interception has   *)
(* its CA, and Close reaches what it is bound to.                          *)
ConnectionsInv ==
  TypeOK /\ CurrentIsListening /\ InterceptionHasCA /\ HeldIsTracked /\ CloseReaches

(* What a client is told about its CONNECT and what the list of flows says *)
(* of it are what its handler has made of it.                              *)
TunnelsInv == AnswerStands /\ FlowFollowsTunnel

(* Who hangs up, or is hung up on, at either end, is let go of: no handler *)
(* stays behind.                                                           *)
HangUpEndsHandler ==
  \A c \in Conns : (sock[c] \in {"gone", "closed"} \/ relay[c].peer = "closed")
                     ~> (phase[c] = "done" /\ c \notin conns)

(* A client that says nothing does not keep its handler.                   *)
SilentIsLeft ==
  \A c \in Conns : phase[c] \in {"peek", "handshake"} ~> phase[c] \notin {"peek", "handshake"}

=============================================================================
