-------------------------------- MODULE Tunnel --------------------------------
(***************************************************************************)
(* One CONNECT tunnel of the local HTTP proxy, src/src/proxy.rs: the task  *)
(* of handle_connection reads the browser's request, talks SOCKS5 to Tor,  *)
(* answers 200 and then spawns two relay tasks, one for each direction.    *)
(* Bytes travel in pieces; every socket buffer is bounded; the browser and *)
(* Tor may close a direction, close everything or reset at any time.       *)
(***************************************************************************)
EXTENDS Naturals, Sequences

CONSTANTS
  HeadReads,  \* how much of the request's head the first read may return
  MaxSend,    \* bound: pieces in a direction
  Window      \* pieces a socket buffer holds

\* The request's head comes in three pieces: the verb, the rest of the line
\* that names the target, and the headers.
Piece == {"head", "data"} \X Nat
Head3 == <<<<"head", 1>>, <<"head", 2>>, <<"head", 3>>>>

ASSUME HeadReadsAssumption == HeadReads \subseteq 1..3
ASSUME BufferAssumption    == MaxSend \in Nat /\ Window \in Nat \ {0}

Ends     == {"browser", "tor"}
Dirs     == {"up", "down"}
Sender   == [up |-> "browser", down |-> "tor"]
Receiver == [up |-> "tor", down |-> "browser"]
Other    == [up |-> "down", down |-> "up"]

VARIABLES
  hpc,    \* where handle_connection is
  rpc,    \* where the relay of each direction is
  wire,   \* sent by the sender of a direction, not read by the proxy
  buf,    \* read by the relay, not written
  out,    \* written by the relay, not received
  shut,   \* the proxy has closed its writing half of a direction
  conn,   \* the ends that have a connection with the proxy
  fin,    \* the sender of a direction has closed it
  gone,   \* an end has closed its socket, or has reset it
  got,    \* what the receiver of a direction has received
  eof,    \* the receiver of a direction has seen its end
  sent    \* history: what the proxy has to relay in a direction

proxyVars == <<hpc, rpc, buf, shut>>
endVars   == <<conn, fin, gone, got, eof>>
vars      == <<hpc, rpc, wire, buf, out, shut, conn, fin, gone, got, eof, sent>>

Handshake == {"methods", "auth", "command"}

TunnelTypeOK ==
  /\ hpc \in {"head", "dial", "reply", "relay", "done", "failed"} \cup Handshake
  /\ rpc \in [Dirs -> {"off", "read", "write", "ended"}]
  /\ {wire, buf, out, got, sent} \subseteq [Dirs -> Seq(Piece)]
  /\ {shut, fin, eof} \subseteq [Dirs -> BOOLEAN]
  /\ conn \subseteq Ends
  /\ gone \in [Ends -> BOOLEAN]
  /\ \A d \in Dirs : rpc[d] = "write" => buf[d] # << >>

Nothing == [d \in Dirs |-> << >>]
Never   == [d \in Dirs |-> FALSE]

\* A browser that connects has sent its request, or may never send one.
Init ==
  /\ hpc = "head"
  /\ rpc = [d \in Dirs |-> "off"]
  /\ wire \in {Nothing, [Nothing EXCEPT !["up"] = Head3]}
  /\ buf = Nothing /\ out = Nothing /\ got = Nothing /\ sent = Nothing
  /\ shut = Never /\ fin = Never /\ eof = Never
  /\ conn = {"browser"}
  /\ gone = [e \in Ends |-> FALSE]

-----------------------------------------------------------------------------
(* handle_connection and handle_connect_tunnel *)

\* The handler returns: both sockets are closed, and nobody is told why.
Abandon ==
  /\ hpc' = "failed"
  /\ shut' = [d \in Dirs |-> TRUE]
  /\ UNCHANGED <<rpc, wire, buf, out, endVars, sent>>

Proceed(l) ==
  /\ hpc' = l
  /\ UNCHANGED <<rpc, wire, buf, out, shut, endVars, sent>>

\* The one read of the request.  What it leaves in the socket will be relayed.
ReadHead ==
  /\ hpc = "head"
  /\ \E n \in HeadReads \ {1} :
       /\ n <= Len(wire["up"])
       /\ wire' = [wire EXCEPT !["up"] = SubSeq(@, n + 1, Len(@))]
  /\ sent' = [sent EXCEPT !["up"] = wire'["up"]]
  /\ hpc' = "dial"
  /\ UNCHANGED <<rpc, buf, out, shut, endVars>>

\* Too little of the request line: "Invalid CONNECT request", or no CONNECT.
ReadVerbOnly ==
  /\ hpc = "head" /\ 1 \in HeadReads /\ wire["up"] # << >>
  /\ Abandon

ReadNoHead ==
  /\ hpc = "head"
  /\ \/ wire["up"] = << >> /\ fin["up"]
     \/ gone["browser"]
  /\ Abandon

Dial ==
  /\ hpc = "dial"
  /\ hpc' = "methods"
  /\ conn' = Ends
  /\ UNCHANGED <<rpc, wire, buf, out, shut, fin, gone, got, eof, sent>>

DialFails == hpc = "dial" /\ Abandon

\* Tor answers the method negotiation: 2 asks for the credentials, and any
\* other answer, also "none is acceptable", is taken for "none is needed".
MethodsAnswered ==
  /\ hpc = "methods" /\ ~gone["tor"]
  /\ Proceed("auth") \/ Proceed("command")

AuthAnswered ==
  /\ hpc = "auth" /\ ~gone["tor"]
  /\ Proceed("command") \/ Abandon

CommandAnswered ==
  /\ hpc = "command" /\ ~gone["tor"]
  /\ Proceed("reply") \/ Abandon

\* read_exact on a connection that Tor has closed.
HandshakeCut == hpc \in Handshake /\ gone["tor"] /\ Abandon

\* 200 Connection Established, and the two relays are spawned.
Reply200 ==
  /\ hpc = "reply" /\ ~gone["browser"]
  /\ hpc' = "relay"
  /\ rpc' = [d \in Dirs |-> "read"]
  /\ UNCHANGED <<wire, buf, out, shut, endVars, sent>>

ReplyFails == hpc = "reply" /\ gone["browser"] /\ Abandon

\* Mutant: the first relay to end takes the other one with it.
JoinFirst ==
  /\ hpc = "relay" /\ \E d \in Dirs : rpc[d] = "ended"
  /\ hpc' = "done"
  /\ rpc' = [d \in Dirs |-> "ended"]
  /\ shut' = [d \in Dirs |-> TRUE]
  /\ UNCHANGED <<wire, buf, out, endVars, sent>>

\* try_join of the two handles: a relay's own error is inside its result, so
\* that it does not cut the other relay short.
Join ==
  /\ hpc = "relay" /\ \A d \in Dirs : rpc[d] = "ended"
  /\ Proceed("done")

Handler ==
  \/ ReadHead \/ ReadVerbOnly \/ ReadNoHead \/ Dial \/ DialFails
  \/ HandshakeCut \/ Reply200 \/ ReplyFails \/ Join

TorAnswers == MethodsAnswered \/ AuthAnswered \/ CommandAnswered

-----------------------------------------------------------------------------
(* The relays *)

\* Mutant: n = 0 is not looked for, nor is the end.
ReadUnchecked(d) ==
  /\ rpc[d] = "read"
  /\ \E n \in 0..Len(wire[d]) :
       /\ buf' = [buf EXCEPT ![d] = SubSeq(wire[d], 1, n)]
       /\ wire' = [wire EXCEPT ![d] = SubSeq(@, n + 1, Len(@))]
  /\ rpc' = [rpc EXCEPT ![d] = "write"]
  /\ UNCHANGED <<hpc, out, shut, endVars, sent>>

\* Mutant: one loop serves both directions, and reads when nothing is held.
ReadInTurn(d) ==
  /\ rpc[d] = "read" /\ wire[d] # << >> /\ buf[Other[d]] = << >>
  /\ \E n \in 1..Len(wire[d]) :
       /\ buf' = [buf EXCEPT ![d] = SubSeq(wire[d], 1, n)]
       /\ wire' = [wire EXCEPT ![d] = SubSeq(@, n + 1, Len(@))]
  /\ rpc' = [rpc EXCEPT ![d] = "write"]
  /\ UNCHANGED <<hpc, out, shut, endVars, sent>>

Read(d) ==
  /\ rpc[d] = "read" /\ wire[d] # << >>
  /\ \E n \in 1..Len(wire[d]) :
       /\ buf' = [buf EXCEPT ![d] = SubSeq(wire[d], 1, n)]
       /\ wire' = [wire EXCEPT ![d] = SubSeq(@, n + 1, Len(@))]
  /\ rpc' = [rpc EXCEPT ![d] = "write"]
  /\ UNCHANGED <<hpc, out, shut, endVars, sent>>

\* The task ends, and its two halves are dropped: the reading one silently,
\* the writing one with an end of stream.
EndRelay(d) ==
  /\ rpc' = [rpc EXCEPT ![d] = "ended"]
  /\ shut' = [shut EXCEPT ![d] = TRUE]
  /\ UNCHANGED <<hpc, wire, buf, out, endVars, sent>>

ReadEnd(d) == rpc[d] = "read" /\ wire[d] = << >> /\ fin[d] /\ EndRelay(d)

\* Mutant: the writing half outlives the task.
ReadFailsKeepsHalf(d) ==
  /\ rpc[d] = "read" /\ gone[Sender[d]]
  /\ rpc' = [rpc EXCEPT ![d] = "ended"]
  /\ UNCHANGED <<hpc, wire, buf, out, shut, endVars, sent>>

ReadFails(d) == rpc[d] = "read" /\ gone[Sender[d]] /\ EndRelay(d)

\* Mutant: write instead of write_all, a short write loses the remainder.
WriteShort(d) ==
  /\ rpc[d] = "write" /\ ~gone[Receiver[d]] /\ Len(out[d]) < Window
  /\ out' = [out EXCEPT ![d] = Append(@, Head(buf[d]))]
  /\ buf' = [buf EXCEPT ![d] = << >>]
  /\ rpc' = [rpc EXCEPT ![d] = "read"]
  /\ UNCHANGED <<hpc, wire, shut, endVars, sent>>

\* write_all puts a piece into the socket when there is room for it.
Write(d) ==
  /\ rpc[d] = "write" /\ ~gone[Receiver[d]] /\ Len(out[d]) < Window
  /\ out' = [out EXCEPT ![d] = Append(@, Head(buf[d]))]
  /\ buf' = [buf EXCEPT ![d] = Tail(@)]
  /\ rpc' = [rpc EXCEPT ![d] = IF Len(buf[d]) = 1 THEN "read" ELSE "write"]
  /\ UNCHANGED <<hpc, wire, shut, endVars, sent>>

\* The error of a receiver that left may come one write later than here, when
\* the bytes of the first write are lost as well.
WriteFails(d) == rpc[d] = "write" /\ gone[Receiver[d]] /\ EndRelay(d)

Relay(d) == Read(d) \/ ReadEnd(d) \/ ReadFails(d) \/ Write(d) \/ WriteFails(d)

-----------------------------------------------------------------------------
(* The browser and Tor *)

\* The browser waits for the 200, Tor for the end of the handshake.
MayTalk(d) == hpc \in IF d = "up" THEN {"relay"} ELSE {"reply", "relay"}

Send(d) ==
  /\ MayTalk(d) /\ ~gone[Sender[d]] /\ ~fin[d]
  /\ Len(wire[d]) < Window /\ Len(sent[d]) < MaxSend
  /\ wire' = [wire EXCEPT ![d] = Append(@, <<"data", Len(sent[d]) + 1>>)]
  /\ sent' = [sent EXCEPT ![d] = Append(@, <<"data", Len(sent[d]) + 1>>)]
  /\ UNCHANGED <<proxyVars, out, endVars>>

\* An end closes its direction.
CloseDir(d) ==
  /\ Sender[d] \in conn /\ ~gone[Sender[d]] /\ ~fin[d]
  /\ fin' = [fin EXCEPT ![d] = TRUE]
  /\ UNCHANGED <<proxyVars, wire, out, conn, gone, got, eof, sent>>

\* An end closes its socket (its direction has an end) or resets it.
Leave(e) ==
  /\ e \in conn /\ ~gone[e]
  /\ gone' = [gone EXCEPT ![e] = TRUE]
  /\ fin' \in {fin, [d \in Dirs |-> fin[d] \/ Sender[d] = e]}
  /\ UNCHANGED <<proxyVars, wire, out, conn, got, eof, sent>>

Listens(d) == Receiver[d] \in conn /\ ~gone[Receiver[d]] /\ ~eof[d]

Receive(d) ==
  /\ Listens(d) /\ out[d] # << >>
  /\ got' = [got EXCEPT ![d] = Append(@, Head(out[d]))]
  /\ out' = [out EXCEPT ![d] = Tail(@)]
  /\ UNCHANGED <<proxyVars, wire, conn, fin, gone, eof, sent>>

SeeEnd(d) ==
  /\ Listens(d) /\ out[d] = << >> /\ shut[d]
  /\ eof' = [eof EXCEPT ![d] = TRUE]
  /\ UNCHANGED <<proxyVars, wire, out, conn, fin, gone, got, sent>>

\* A socket that is closed with unread data in it is reset: what the
\* receiver has not read yet is lost.
SeeReset(d) ==
  /\ Listens(d) /\ shut[d] /\ shut[Other[d]] /\ wire[Other[d]] # << >>
  /\ eof' = [eof EXCEPT ![d] = TRUE]
  /\ out' = [out EXCEPT ![d] = << >>]
  /\ UNCHANGED <<proxyVars, wire, conn, fin, gone, got, sent>>

Outside ==
  \/ TorAnswers
  \/ \E e \in Ends : Leave(e)
  \/ \E d \in Dirs : Send(d) \/ CloseDir(d) \/ Receive(d) \/ SeeEnd(d) \/ SeeReset(d)

Next == Handler \/ (\E d \in Dirs : Relay(d)) \/ Outside

\* Every task that is ready is polled; nothing is assumed of the two ends.
Fairness == WF_vars(Handler) /\ \A d \in Dirs : WF_vars(Relay(d))

Spec == Init /\ [][Next]_vars

FairSpec == Spec /\ Fairness

-----------------------------------------------------------------------------
(* Properties *)

Broken == gone["browser"] \/ gone["tor"] \/ hpc = "failed"

\* A direction has an end once its sender has closed it and the handler has
\* read what comes before it.
Closed(d) == fin[d] /\ (d = "up" => hpc # "head")

\* Each direction is a stream: Tor receives a prefix of what the browser sent
\* behind the part of the request that the handler has read, and is told of
\* the end when it has all of it, whatever becomes of the other direction.
Up == INSTANCE ByteStream WITH
  sent <- sent["up"], got <- got["up"], closed <- Closed("up"), broken <- Broken,
  ended <- eof["up"]

UpIsStream == Up!Spec

\* The same of the answer: the browser receives a prefix of what Tor sent, and
\* a browser that closes its own direction does not cut the answer short.
Down == INSTANCE ByteStream WITH
  sent <- sent["down"], got <- got["down"], closed <- Closed("down"), broken <- Broken,
  ended <- eof["down"]

DownIsStream == Down!Spec

\* The tunnel as Proxy counts it, with the sockets it holds: how far it is, and
\* the directions whose relay still runs.
Phase ==
  CASE hpc = "head"                      -> "new"
    [] hpc \in Handshake \cup {"reply"}  -> "shake"
    [] hpc \in {"done", "failed"}        -> "over"
    [] OTHER                             -> hpc

Running == {d \in Dirs : rpc[d] \in {"read", "write"}}

Whole == INSTANCE Connection WITH phase <- Phase, open <- Running, cut <- FALSE

\* It goes the way of a connection: above all, it is over, and both its sockets
\* are free again, not before each of its relays has ended.
IsConnection == Whole!Spec

KeepsReading(d) == WF_vars(Receive(d)) /\ WF_vars(SeeEnd(d) \/ SeeReset(d))

\* A receiver that keeps reading comes to the end of a direction its sender
\* has closed, also when nobody reads the other direction and its buffers
\* are full: neither relay ever waits for the other.
Drains ==
  \A d \in Dirs :
    KeepsReading(d) =>
      (hpc = "relay" /\ fin[d] ~> eof[d] \/ gone[Receiver[d]])

\* A browser that leaves takes its tunnel with it, if Tor reads what it is
\* sent and closes when it is told of the end: no relay waits for ever.
LeavingEnds ==
  KeepsReading("up") /\ (eof["up"] ~> fin["down"] \/ gone["tor"]) =>
    (hpc = "relay" /\ gone["browser"] ~> hpc = "done")
===============================================================================
