-------------------------------- MODULE Proxy --------------------------------
(***************************************************************************)
(* The local HTTP proxy as a whole, src/src/proxy.rs: the accept loop of   *)
(* serve, a task for every browser that connects, and the descriptors that *)
(* they share.  A connection is a tunnel (its bytes are in Tunnel) or one  *)
(* plain request, which is fetched through Tor and answered.               *)
(***************************************************************************)
EXTENDS Naturals, Sequences, FiniteSets, FiniteSetsExt

CONSTANTS
  Conns,     \* the connections that browsers may open
  Limit,     \* the descriptors the process has for them
  NoAnswer   \* a browser that has no answer, or not the whole of it

ASSUME ConnsAssumption == IsFiniteSet(Conns)
ASSUME LimitAssumption == Limit \in Nat

Dirs == {"up", "down"}

\* What a server may answer: the coding of the body, how it is delimited.
Coding   == {"identity", "gzip", "br"}
Response == [coding : Coding, chunked : BOOLEAN]

VARIABLES
  active,   \* the flag that stop() clears
  loop,     \* where serve is
  backlog,  \* connections the kernel holds for accept
  phase,    \* how far each connection is
  open,     \* the directions of its tunnel that are being relayed
  told,     \* the answer its browser has
  exited,   \* the command has returned
  late      \* history: connections accepted since stop()

serverVars == <<active, loop, backlog, exited, late>>
proxyVars  == <<active, loop, backlog, phase, open, told, exited, late>>

Outer     == {"away", "queued"}
Listening == loop \in {"check", "accept"}

\* The sockets of a connection: the browser's, and the one to Tor.
Held(ph) ==
  CASE ph \in Outer \cup {"over"}       -> 0
    [] ph \in {"new", "dial", "fetch"}  -> 1
    [] OTHER                            -> 2

Used == MapThenSumSet(LAMBDA c : Held(phase[c]), Conns)
Free == Used < Limit

ProxyInit ==
  /\ active = TRUE
  /\ loop = "bind"
  /\ backlog = << >>
  /\ phase = [c \in Conns |-> "away"]
  /\ open = [c \in Conns |-> {}]
  /\ told = [c \in Conns |-> NoAnswer]
  /\ exited = FALSE
  /\ late = 0

Move(c, from, to) ==
  /\ phase[c] = from
  /\ phase' = [phase EXCEPT ![c] = to]

-----------------------------------------------------------------------------
(* serve and stop *)

Bind ==
  /\ loop = "bind"
  /\ loop' \in {"check", "ended"}
  /\ UNCHANGED <<active, backlog, phase, open, told, exited, late>>

CheckActive ==
  /\ loop = "check" /\ active
  /\ loop' = "accept"
  /\ UNCHANGED <<active, backlog, phase, open, told, exited, late>>

\* serve returns and drops the listener: who is not accepted yet is refused.
EndLoop ==
  /\ loop = "check" /\ ~active
  /\ loop' = "ended"
  /\ backlog' = << >>
  /\ phase' = [c \in Conns |-> IF phase[c] = "queued" THEN "over" ELSE phase[c]]
  /\ UNCHANGED <<active, open, told, exited, late>>

\* Mutant: the flag is looked at once.
AcceptOnwards ==
  /\ loop = "accept" /\ backlog # << >> /\ Free
  /\ Move(Head(backlog), "queued", "new")
  /\ backlog' = Tail(backlog)
  /\ late' = IF active THEN 0 ELSE late + 1
  /\ UNCHANGED <<active, loop, open, told, exited>>

\* Mutant: the loop awaits the handler instead of spawning a task.
AcceptInline ==
  /\ loop = "accept" /\ backlog # << >> /\ Free
  /\ \A c \in Conns : phase[c] \in Outer \cup {"over"}
  /\ Move(Head(backlog), "queued", "new")
  /\ backlog' = Tail(backlog)
  /\ late' = IF active THEN 0 ELSE late + 1
  /\ loop' = "check"
  /\ UNCHANGED <<active, open, told, exited>>

\* accept, and a task is spawned that owns the socket.
Accept ==
  /\ loop = "accept" /\ backlog # << >> /\ Free
  /\ Move(Head(backlog), "queued", "new")
  /\ backlog' = Tail(backlog)
  /\ late' = IF active THEN 0 ELSE late + 1
  /\ loop' = "check"
  /\ UNCHANGED <<active, open, told, exited>>

\* No descriptor is left, which the kernel finds before it looks for who waits:
\* the error is logged and the loop goes round.
AcceptFails ==
  /\ loop = "accept" /\ ~Free
  /\ loop' = "check"
  /\ UNCHANGED <<active, backlog, phase, open, told, exited, late>>

Serve == Bind \/ CheckActive \/ EndLoop \/ Accept \/ AcceptFails

Stop ==
  /\ active /\ ~exited
  /\ active' = FALSE
  /\ UNCHANGED <<loop, backlog, phase, open, told, exited, late>>

\* The dashboard has ended: the task of serve is aborted, the command returns
\* and takes every task with it.
Exit ==
  /\ ~exited
  /\ exited' = TRUE
  /\ loop' = "ended"
  /\ backlog' = << >>
  /\ phase' = [c \in Conns |-> IF phase[c] = "away" THEN "away" ELSE "over"]
  /\ open' = [c \in Conns |-> {}]
  /\ UNCHANGED <<active, told, late>>

-----------------------------------------------------------------------------
(* handle_connection: the task of one connection *)

Task(c) == UNCHANGED <<serverVars, open, told>>

\* The task returns; its sockets are closed.
GiveUp(c, from) == Move(c, from, "over") /\ Task(c)

\* Mutant: a connection without a second descriptor waits for one.
DialWaits(c) == Free /\ Move(c, "dial", "shake") /\ Task(c)

\* TcpStream::connect in a tunnel: a socket of its own, or an error.
Dial(c) ==
  \/ Free /\ Move(c, "dial", "shake") /\ Task(c)
  \/ GiveUp(c, "dial")

\* reqwest connects to Tor, or cannot.
FetchDial(c) ==
  \/ Free /\ Move(c, "fetch", "wait") /\ Task(c)
  \/ GiveUp(c, "fetch")

\* Mutant: connect_timeout alone.
ConnectTimesOut(c) == GiveUp(c, "fetch")

\* timeout: the whole of the request and of its answer takes too long.
TimesOut(c) == GiveUp(c, "fetch") \/ GiveUp(c, "wait")

\* Mutant: the relays are not joined.
CloseAtOnce(c) == Move(c, "relay", "over") /\ Task(c)

\* Both relays have been joined.
Close(c) == open[c] = {} /\ Move(c, "relay", "over") /\ Task(c)

Poll(c) == Dial(c) \/ FetchDial(c) \/ TimesOut(c) \/ Close(c)

-----------------------------------------------------------------------------
(* Browsers, Tor and servers *)

\* The kernel completes the connection and queues it.
Connect(c) ==
  /\ Listening
  /\ Move(c, "away", "queued")
  /\ backlog' = Append(backlog, c)
  /\ UNCHANGED <<active, loop, open, told, exited, late>>

\* Nothing, half a line, or a request that reqwest does not build.
AskNothing(c) == GiveUp(c, "new")

\* CONNECT and a target.
AskTunnel(c) == Move(c, "new", "dial") /\ Task(c)

\* Anything else: its URL, headers and body are taken over.
AskPlain(c) == Move(c, "new", "fetch") /\ Task(c)

Ask(c) == AskNothing(c) \/ AskTunnel(c) \/ AskPlain(c)

\* The SOCKS handshake ends and the browser is told so, or Tor refuses.
Shake(c) ==
  \/ /\ Move(c, "shake", "relay")
     /\ open' = [open EXCEPT ![c] = Dirs]
     /\ UNCHANGED <<serverVars, told>>
  \/ GiveUp(c, "shake")

\* Mutant: the first direction to end closes the tunnel.
EndDirectionEndsBoth(c) ==
  /\ \E d \in open[c] : open' = [open EXCEPT ![c] = {}]
  /\ Move(c, "relay", "over")
  /\ UNCHANGED <<serverVars, told>>

EndDirection(c) ==
  /\ phase[c] = "relay"
  /\ \E d \in open[c] : open' = [open EXCEPT ![c] = @ \ {d}]
  /\ UNCHANGED <<serverVars, phase, told>>

\* The answer has come with the whole of its body, or the fetch has failed.
Fetched(c) ==
  \/ Move(c, "wait", "answer") /\ Task(c)
  \/ GiveUp(c, "wait")

\* The bytes of a body: coded or not, and none of a HEAD or a 304.
Bytes(bare, coded) == IF bare THEN 0 ELSE IF coded THEN 1 ELSE 2

\* What reqwest makes of an answer.  It undoes brotli, and then removes the
\* headers that speak of it; gzip it leaves alone, as no_gzip() says.
Passed(bare, resp) ==
  [lengths |-> IF resp.chunked \/ resp.coding = "br" THEN {}
               ELSE {Bytes(FALSE, resp.coding = "gzip")},
   body    |-> Bytes(bare, resp.coding = "gzip")]

\* Mutant: transfer-encoding is forwarded like other headers.
ToldChunked(bare, resp) ==
  LET p == Passed(bare, resp)
  IN [bare |-> bare, lengths |-> p.lengths \cup {p.body}, chunked |-> resp.chunked,
      body |-> p.body]

\* What the browser is told: the headers but transfer-encoding and
\* content-encoding, the length of the body, the body.
Told(bare, resp) ==
  LET p == Passed(bare, resp)
  IN [bare |-> bare, lengths |-> p.lengths \cup {p.body}, chunked |-> FALSE,
      body |-> p.body]

\* The browser reads its answer, or leaves.
Read(c) ==
  \/ /\ Move(c, "answer", "over")
     /\ \E bare \in BOOLEAN, resp \in Response :
          told' = [told EXCEPT ![c] = Told(bare, resp)]
     /\ UNCHANGED <<serverVars, open>>
  \/ GiveUp(c, "answer")

Outside(c) ==
  Connect(c) \/ Ask(c) \/ Shake(c) \/ EndDirection(c) \/ Fetched(c) \/ Read(c)

ProxyNext == Serve \/ Stop \/ Exit \/ \E c \in Conns : Poll(c) \/ Outside(c)

\* The runtime polls every task that is ready and fires its timers; nothing is
\* assumed of browsers, of Tor or of servers.
ProxyFairness == WF_proxyVars(Serve) /\ \A c \in Conns : WF_proxyVars(Poll(c))

ProxySpec     == ProxyInit /\ [][ProxyNext]_proxyVars
FairProxySpec == ProxySpec /\ ProxyFairness

-----------------------------------------------------------------------------
(* Properties *)

\* Every variable stays in its range, and the kernel queues who waits, once.
ProxyTypeOK ==
  /\ active \in BOOLEAN /\ exited \in BOOLEAN
  /\ loop \in {"bind", "check", "accept", "ended"}
  /\ phase \in [Conns -> Outer \cup {"new", "dial", "shake", "relay",
                                     "fetch", "wait", "answer", "over"}]
  /\ open \in [Conns -> SUBSET Dirs]
  /\ \A c \in Conns : phase[c] # "relay" => open[c] = {}
  /\ late \in Nat
  /\ backlog \in Seq(Conns)
  /\ \A m, n \in DOMAIN backlog : backlog[m] = backlog[n] => m = n
  /\ {backlog[n] : n \in DOMAIN backlog} = {c \in Conns : phase[c] = "queued"}

\* After stop() the loop, which may be waiting in accept, takes one connection
\* more at most.
StopHolds == late <= 1

\* Whatever server, coding and framing: the one length a browser is told is
\* that of the bytes that follow.  Of a bare head it is told two.
AnswerFramed ==
  \A c \in Conns : told[c] # NoAnswer /\ ~told[c].bare =>
    told[c].lengths = {told[c].body} /\ ~told[c].chunked

\* Every connection goes the way of a connection, whatever the others do.
One(c) == INSTANCE Connection WITH
  phase <- IF phase[c] \in Outer THEN "new" ELSE phase[c], open <- open[c],
  cut <- exited

IsConnection ==
  /\ \A c \in Conns : One(c)!Init
  /\ [][\A c \in Conns : [One(c)!Next]_(One(c)!connectionVars)]_proxyVars

\* Browsers and Tor do not let a connection wait for ever.
Lively ==
  \A c \in Conns : /\ WF_proxyVars(Ask(c))          /\ WF_proxyVars(Shake(c))
                   /\ WF_proxyVars(EndDirection(c)) /\ WF_proxyVars(Read(c))

\* Then every browser that waits is served or refused in the end, although
\* the loop spins on accept while no descriptor is left, and tunnels that hold
\* one each want a second.
Served == Lively => \A c \in Conns : phase[c] = "queued" ~> phase[c] = "over"

\* A connection is accepted if descriptors become free again and again,
\* however long other browsers and Tor leave their tasks waiting.
NotBehindOthers ==
  []<>Free => \A c \in Conns : phase[c] = "queued" ~> phase[c] # "queued"

\* A plain request ends although the server, or Tor, never answers.
PlainEnds ==
  \A c \in Conns : WF_proxyVars(Read(c)) => (phase[c] = "fetch" ~> phase[c] = "over")
==============================================================================
