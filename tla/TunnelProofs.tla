----------------------------- MODULE TunnelProofs -----------------------------
(***************************************************************************)
(* What is proved of a tunnel for every number of pieces, every size of    *)
(* the socket buffers and every way in which the request may arrive: where *)
(* each piece is, that each direction is a byte stream, that the whole is  *)
(* a connection as Proxy counts it, and that no direction waits for the    *)
(* other.                                                                  *)
(***************************************************************************)
EXTENDS Tunnel, SequenceTheorems, TLAPS

-----------------------------------------------------------------------------
(* Sequences *)

\* The head of a sequence, and the sequence behind it, make it up.
LEMMA HeadThenTail ==
  ASSUME NEW S, NEW b \in Seq(S), b # << >>
  PROVE  /\ Head(b) \in S /\ Tail(b) \in Seq(S)
         /\ b = <<Head(b)>> \o Tail(b)
<1>1. Len(b) \in Nat \ {0}
  BY EmptySeq
<1>2. SubSeq(b, 1, Len(b)) = <<b[1]>> \o SubSeq(b, 2, Len(b))
  BY <1>1, SubSeqRecursiveFirst
<1>3. SubSeq(b, 1, Len(b)) = b /\ Tail(b) = SubSeq(b, 2, Len(b))
  BY SubSeqFull, TailIsSubSeq
<1>4. Head(b) = b[1]
  OBVIOUS
<1> QED BY <1>2, <1>3, <1>4, HeadTailProperties

\* Moving the head of a sequence to the end of the one before it changes
\* nothing of their concatenation.
LEMMA MoveHead ==
  ASSUME NEW S, NEW a \in Seq(S), NEW b \in Seq(S), b # << >>
  PROVE  Append(a, Head(b)) \o Tail(b) = a \o b
<1>1. Head(b) \in S /\ Tail(b) \in Seq(S) /\ b = <<Head(b)>> \o Tail(b)
  BY HeadThenTail
<1>2. Append(a, Head(b)) = a \o <<Head(b)>>
  BY <1>1, AppendIsConcat
<1>3. <<Head(b)>> \in Seq(S)
  BY <1>1
<1>4. (a \o <<Head(b)>>) \o Tail(b) = a \o (<<Head(b)>> \o Tail(b))
  BY <1>1, <1>3, ConcatAssociative
<1> QED BY <1>1, <1>2, <1>4

\* A sequence is the part before a place and the part behind it.
LEMMA CutInTwo ==
  ASSUME NEW S, NEW s \in Seq(S), NEW n \in 1..Len(s)
  PROVE  /\ SubSeq(s, 1, n) \in Seq(S) /\ SubSeq(s, n + 1, Len(s)) \in Seq(S)
         /\ SubSeq(s, 1, n) # << >>
         /\ SubSeq(s, 1, n) \o SubSeq(s, n + 1, Len(s)) = s
<1>1. Len(s) \in Nat
  BY LenProperties
<1>2. SubSeq(s, 1, n) \o SubSeq(s, n + 1, Len(s)) = SubSeq(s, 1, Len(s))
  BY <1>1, ConcatAdjacentSubSeq
<1>3. \A i \in 1..Len(s) : s[i] \in S
  BY ElementOfSeq
<1>4. SubSeq(s, 1, n) \in Seq(S) /\ Len(SubSeq(s, 1, n)) = n
  BY <1>1, <1>3, SubSeqProperties
<1>5. SubSeq(s, n + 1, Len(s)) \in Seq(S)
  BY <1>1, <1>3, SubSeqProperties
<1>6. SubSeq(s, 1, n) # << >>
  BY <1>4, EmptySeq
<1> QED BY <1>2, <1>4, <1>5, <1>6, SubSeqFull

\* What is appended to the last of two sequences is appended to both.
LEMMA ConcatAppend ==
  ASSUME NEW S, NEW a \in Seq(S), NEW b \in Seq(S), NEW x \in S
  PROVE  a \o Append(b, x) = Append(a \o b, x)
<1>1. <<x>> \in Seq(S) /\ a \o b \in Seq(S)
  BY ConcatProperties
<1>2. (a \o b) \o <<x>> = a \o (b \o <<x>>)
  BY <1>1, ConcatAssociative
<1> QED BY <1>1, <1>2, AppendIsConcat

\* Three sequences of pieces may be grouped either way.
LEMMA Grouping ==
  \A p, q, r \in Seq(Piece) : (p \o q) \o r = p \o (q \o r)
<1> TAKE p, q, r \in Seq(Piece)
<1> QED BY ConcatAssociative

\* To write the first piece of b leaves the pieces of a direction as they were.
Rewrites(g, o, b, w) ==
  (g \o Append(o, Head(b))) \o (Tail(b) \o w) = (g \o o) \o (b \o w)

\* The pieces of a direction stay the same, and in the same order, when one of
\* them is written ...
LEMMA WriteConserves ==
  \A g, o, b, w \in Seq(Piece) : b # << >> => Rewrites(g, o, b, w)
<1> TAKE g, o, b, w \in Seq(Piece)
<1> HAVE b # << >>
<1> DEFINE a == g \o o
           h == Head(b)
           t == Tail(b)
<1>1. h \in Piece /\ t \in Seq(Piece)
  BY HeadThenTail
<1>2. a \in Seq(Piece)
  BY ConcatProperties
<1>3. Append(a, h) \o t = a \o b
  <2> HIDE DEF a
  <2> QED BY <1>2, MoveHead
<1>4. g \o Append(o, h) = Append(a, h)
  <2> HIDE DEF h
  <2> QED BY <1>1, ConcatAppend
<1>5. Append(a, h) \in Seq(Piece)
  BY <1>1, <1>2
<1> DEFINE c == Append(a, h)
<1> HIDE DEF a, h, t, c
<1>6. (c \o t) \o w = c \o (t \o w)
  <2>1. c \in Seq(Piece)
    BY <1>5 DEF c
  <2> QED BY <1>1, <2>1, Grouping, Zenon
<1>7. (a \o b) \o w = a \o (b \o w)
  BY <1>2, Grouping, Zenon
<1> QED BY <1>3, <1>4, <1>6, <1>7, Zenon DEF Rewrites, a, h, t, c

\* ... and the end of it is what is sent.
LEMMA SendConserves ==
  ASSUME NEW a \in Seq(Piece), NEW b \in Seq(Piece), NEW w \in Seq(Piece),
         NEW x \in Piece
  PROVE  a \o (b \o Append(w, x)) = Append(a \o (b \o w), x)
<1> DEFINE c == b \o w
<1>1. c \in Seq(Piece)
  BY ConcatProperties
<1>2. b \o Append(w, x) = Append(c, x)
  BY ConcatAppend
<1> HIDE DEF c
<1>3. a \o Append(c, x) = Append(a \o c, x)
  BY <1>1, ConcatAppend
<1> QED BY <1>2, <1>3 DEF c

-----------------------------------------------------------------------------
(* Types *)

\* What the type invariant says of each variable.
LEMMA TypeFacts ==
  ASSUME TunnelTypeOK
  PROVE  /\ \A d \in Dirs : /\ wire[d] \in Seq(Piece) /\ buf[d] \in Seq(Piece)
                            /\ out[d] \in Seq(Piece) /\ got[d] \in Seq(Piece)
                            /\ sent[d] \in Seq(Piece)
                            /\ {shut[d], fin[d], eof[d]} \subseteq BOOLEAN
                            /\ {Sender[d], Receiver[d]} \subseteq Ends
                            /\ Other[d] \in Dirs
         /\ wire \in [Dirs -> Seq(Piece)] /\ buf \in [Dirs -> Seq(Piece)]
         /\ out \in [Dirs -> Seq(Piece)] /\ got \in [Dirs -> Seq(Piece)]
         /\ sent \in [Dirs -> Seq(Piece)]
         /\ shut \in [Dirs -> BOOLEAN] /\ fin \in [Dirs -> BOOLEAN]
         /\ eof \in [Dirs -> BOOLEAN]
         /\ rpc \in [Dirs -> {"off", "read", "write", "ended"}]
         /\ gone \in [Ends -> BOOLEAN]
BY DEF TunnelTypeOK, Sender, Receiver, Other, Dirs, Ends

\* A piece that an end sends is a piece.
LEMMA NewPiece ==
  ASSUME TunnelTypeOK, NEW d \in Dirs
  PROVE  <<"data", Len(sent[d]) + 1>> \in Piece
<1>1. Len(sent[d]) \in Nat
  BY TypeFacts, LenProperties
<1> QED BY <1>1 DEF Piece

\* The initial state is typed.
LEMMA InitType == Init => TunnelTypeOK
<1> SUFFICES ASSUME Init PROVE TunnelTypeOK
  OBVIOUS
<1>1. Head3 \in Seq(Piece) /\ << >> \in Seq(Piece)
  BY DEF Head3, Piece
<1>2. wire \in [Dirs -> Seq(Piece)] /\ Nothing \in [Dirs -> Seq(Piece)]
  BY <1>1 DEF Init, Nothing
<1> QED BY <1>2 DEF Init, TunnelTypeOK, Never, Handshake, Ends

-----------------------------------------------------------------------------
(* The invariant *)

\* What has been read of a direction is with the receiver, in the socket, in
\* the relay's buffer or still to be read, in this order.
Total(d) == (got[d] \o out[d]) \o (buf[d] \o wire[d])

Conserved ==
  \A d \in Dirs : hpc \notin {"head", "failed"} /\ ~eof[d] => sent[d] = Total(d)

\* Before the relays, and after a handshake that failed, nothing is relayed.
Quiet ==
  hpc \notin {"relay", "done"} =>
    \A d \in Dirs : /\ rpc[d] = "off"
                    /\ got[d] = << >> /\ out[d] = << >> /\ buf[d] = << >>

Unread ==
  hpc = "head" => /\ sent["up"] = << >>
                  /\ sent["down"] = << >> /\ wire["down"] = << >>

ReadsEmpty == \A d \in Dirs : rpc[d] = "read" => buf[d] = << >>

\* A direction is shut by its relay alone, or by a handshake that failed.
ShutByRelay == \A d \in Dirs : shut[d] => hpc = "failed" \/ rpc[d] = "ended"

\* A relay that ended while both ends were there has relayed everything.
EndedIsComplete ==
  \A d \in Dirs :
    rpc[d] = "ended" /\ ~Broken => fin[d] /\ buf[d] = << >> /\ wire[d] = << >>

EofIsShut == \A d \in Dirs : eof[d] => shut[d]

TunnelInv == /\ TunnelTypeOK
             /\ Conserved
             /\ Quiet
             /\ Unread
             /\ ReadsEmpty
             /\ ShutByRelay
             /\ EndedIsComplete
             /\ EofIsShut

\* The invariant holds at first.
LEMMA InitTunnel == Init => TunnelInv
<1> SUFFICES ASSUME Init PROVE TunnelInv
  OBVIOUS
<1>1. Conserved /\ Quiet /\ Unread
  BY DEF Init, Conserved, Quiet, Unread, Nothing, Dirs
<1>2. ReadsEmpty /\ ShutByRelay /\ EndedIsComplete /\ EofIsShut
  BY DEF Init, ReadsEmpty, ShutByRelay, EndedIsComplete, EofIsShut, Never
<1> QED BY <1>1, <1>2, InitType DEF TunnelInv

\* A handler that gives up keeps the invariant.
LEMMA AbandonInv ==
  ASSUME TunnelInv, hpc \notin {"relay", "done"}, Abandon
  PROVE  TunnelInv'
<1>1. TunnelTypeOK'
  BY DEF TunnelInv, TunnelTypeOK, Abandon, endVars, Handshake
<1>2. Conserved' /\ Quiet' /\ Unread' /\ ReadsEmpty'
  BY DEF TunnelInv, Abandon, endVars, Conserved, Quiet, Unread, ReadsEmpty
<1>3. ShutByRelay' /\ EndedIsComplete' /\ EofIsShut'
  BY DEF TunnelInv, Abandon, endVars, Quiet, ShutByRelay, EndedIsComplete, EofIsShut,
         TunnelTypeOK
<1> QED BY <1>1, <1>2, <1>3 DEF TunnelInv

\* A handler that goes from one point of the handshake to the next keeps it.
LEMMA ProceedInv ==
  ASSUME TunnelInv, hpc \in {"dial"} \cup Handshake, NEW l \in Handshake \cup {"reply"},
         hpc' = l, conn' \subseteq Ends,
         UNCHANGED <<rpc, wire, buf, out, shut, fin, gone, got, eof, sent>>
  PROVE  TunnelInv'
<1>1. TunnelTypeOK'
  BY DEF TunnelInv, TunnelTypeOK
<1>2. Conserved' /\ Quiet' /\ Unread' /\ ReadsEmpty'
  BY DEF TunnelInv, Conserved, Quiet, Unread, ReadsEmpty, Total, Handshake
<1>3. ShutByRelay' /\ EndedIsComplete' /\ EofIsShut'
  BY DEF TunnelInv, Quiet, ShutByRelay, EndedIsComplete, EofIsShut, Handshake
<1> QED BY <1>1, <1>2, <1>3 DEF TunnelInv

\* Every step of the handler, and every answer of Tor's, keeps the invariant.
LEMMA HandlerInv ==
  ASSUME TunnelInv, Handler \/ TorAnswers
  PROVE  TunnelInv'
<1>1. CASE ReadHead
  <2>1. PICK n \in HeadReads \ {1} :
          /\ n <= Len(wire["up"])
          /\ wire' = [wire EXCEPT !["up"] = SubSeq(wire["up"], n + 1, Len(wire["up"]))]
    BY <1>1 DEF ReadHead
  <2>2. "up" \in Dirs /\ "down" \in Dirs /\ wire["up"] \in Seq(Piece)
    BY TypeFacts DEF TunnelInv, Dirs
  <2>3. n \in 1..Len(wire["up"])
    BY <2>1, <2>2, HeadReadsAssumption, LenProperties
  <2>4. SubSeq(wire["up"], n + 1, Len(wire["up"])) \in Seq(Piece)
    BY <2>2, <2>3, CutInTwo
  <2>5. /\ wire' \in [Dirs -> Seq(Piece)] /\ wire'["down"] = wire["down"]
        /\ sent' = [sent EXCEPT !["up"] = wire'["up"]]
        /\ sent' \in [Dirs -> Seq(Piece)] /\ sent'["up"] = wire'["up"]
        /\ sent'["down"] = sent["down"]
        /\ wire'["up"] \in Seq(Piece) /\ wire["down"] \in Seq(Piece)
    <3>1. sent' = [sent EXCEPT !["up"] = wire'["up"]]
      BY <1>1 DEF ReadHead
    <3>2. wire \in [Dirs -> Seq(Piece)] /\ sent \in [Dirs -> Seq(Piece)]
      BY TypeFacts DEF TunnelInv
    <3> QED BY <2>1, <2>2, <2>4, <3>1, <3>2
  <2>6. TunnelTypeOK'
    <3>1. UNCHANGED <<rpc, buf, out, shut, conn, fin, gone, got, eof>> /\ hpc' = "dial"
      BY <1>1 DEF ReadHead, endVars
    <3>2. TunnelTypeOK
      BY DEF TunnelInv
    <3>3. wire' \in [Dirs -> Seq(Piece)] /\ sent' \in [Dirs -> Seq(Piece)]
      BY <2>5
    <3> QED BY <3>1, <3>2, <3>3 DEF TunnelTypeOK
  <2>7. \A s \in Seq(Piece) : (<< >> \o << >>) \o (<< >> \o s) = s
    OBVIOUS
  <2>8. \A d \in Dirs : got[d] = << >> /\ out[d] = << >> /\ buf[d] = << >>
    BY <1>1 DEF ReadHead, TunnelInv, Quiet
  <2>9. sent'["down"] = wire'["down"]
    BY <1>1, <2>5 DEF ReadHead, TunnelInv, Unread
  <2>10. \A d \in Dirs : sent'[d] = wire'[d] /\ wire'[d] \in Seq(Piece)
    BY <2>5, <2>9 DEF Dirs
  <2>11. Conserved'
    BY <1>1, <2>7, <2>8, <2>10 DEF ReadHead, Conserved, Total, endVars
  <2>12. Quiet' /\ Unread' /\ ReadsEmpty'
    BY <1>1, <2>8 DEF ReadHead, TunnelInv, Quiet, Unread, ReadsEmpty, endVars
  <2>13. ShutByRelay' /\ EndedIsComplete' /\ EofIsShut'
    BY <1>1 DEF ReadHead, TunnelInv, Quiet, ShutByRelay, EndedIsComplete, EofIsShut, endVars
  <2> QED BY <2>6, <2>11, <2>12, <2>13 DEF TunnelInv
<1>2. CASE ReadVerbOnly \/ ReadNoHead \/ DialFails \/ HandshakeCut \/ ReplyFails
  BY <1>2, AbandonInv
  DEF ReadVerbOnly, ReadNoHead, DialFails, HandshakeCut, ReplyFails, Handshake
<1>3. CASE Dial
  BY <1>3, ProceedInv DEF Dial, Handshake
<1>4. CASE MethodsAnswered \/ AuthAnswered \/ CommandAnswered
  <2>1. hpc \in Handshake
    BY <1>4 DEF MethodsAnswered, AuthAnswered, CommandAnswered, Handshake
  <2>2. CASE Abandon
    BY <2>1, <2>2, AbandonInv DEF Handshake
  <2>3. ASSUME NEW l \in {"auth", "command", "reply"}, Proceed(l) PROVE TunnelInv'
    <3>1. conn' \subseteq Ends
      BY <2>3 DEF Proceed, endVars, TunnelInv, TunnelTypeOK
    <3> QED BY <2>1, <2>3, <3>1, ProceedInv DEF Proceed, endVars, Handshake
  <2> QED BY <1>4, <2>2, <2>3 DEF MethodsAnswered, AuthAnswered, CommandAnswered
<1>5. CASE Reply200
  <2>1. TunnelTypeOK'
    BY <1>5 DEF Reply200, TunnelInv, TunnelTypeOK, endVars
  <2>2. Conserved'
    BY <1>5 DEF Reply200, TunnelInv, Conserved, Total, endVars
  <2>3. Quiet' /\ Unread' /\ ReadsEmpty'
    BY <1>5 DEF Reply200, TunnelInv, Quiet, Unread, ReadsEmpty, endVars
  <2>4. ShutByRelay' /\ EndedIsComplete' /\ EofIsShut'
    BY <1>5 DEF Reply200, TunnelInv, Quiet, ShutByRelay, EndedIsComplete, EofIsShut, endVars
  <2> QED BY <2>1, <2>2, <2>3, <2>4 DEF TunnelInv
<1>6. CASE Join
  <2>1. TunnelTypeOK'
    BY <1>6 DEF Join, Proceed, TunnelInv, TunnelTypeOK, endVars
  <2>2. Conserved' /\ Quiet' /\ Unread' /\ ReadsEmpty'
    BY <1>6 DEF Join, Proceed, TunnelInv, Conserved, Quiet, Unread, ReadsEmpty, Total, endVars
  <2>3. ShutByRelay' /\ EndedIsComplete' /\ EofIsShut'
    BY <1>6 DEF Join, Proceed, TunnelInv, ShutByRelay, EndedIsComplete, EofIsShut, Broken,
                endVars
  <2> QED BY <2>1, <2>2, <2>3 DEF TunnelInv
<1> QED BY <1>1, <1>2, <1>3, <1>4, <1>5, <1>6 DEF Handler, TorAnswers

\* A relay that ends, with everything relayed or with an end gone, keeps it.
LEMMA EndRelayInv ==
  ASSUME TunnelInv, NEW d \in Dirs, rpc[d] \in {"read", "write"}, EndRelay(d),
         Broken \/ (fin[d] /\ buf[d] = << >> /\ wire[d] = << >>)
  PROVE  TunnelInv'
<1>0. hpc \in {"relay", "done"}
  BY DEF TunnelInv, Quiet
<1>1. TunnelTypeOK'
  BY DEF TunnelInv, TunnelTypeOK, EndRelay, endVars
<1>2. Conserved' /\ Quiet' /\ Unread' /\ ReadsEmpty'
  BY <1>0 DEF TunnelInv, EndRelay, endVars, Conserved, Quiet, Unread, ReadsEmpty, Total,
              TunnelTypeOK
<1>3. ShutByRelay' /\ EndedIsComplete' /\ EofIsShut'
  BY <1>0 DEF TunnelInv, EndRelay, endVars, ShutByRelay, EndedIsComplete, EofIsShut,
              Broken, TunnelTypeOK
<1> QED BY <1>1, <1>2, <1>3 DEF TunnelInv

\* A step that moves pieces along a direction, and changes no end, keeps it.
LEMMA MoveInv ==
  ASSUME TunnelInv, TunnelTypeOK', NEW d \in Dirs, hpc \in {"reply", "relay", "done"},
         UNCHANGED <<hpc, shut, conn, fin, gone, eof>>,
         \A c \in Dirs \ {d} : /\ got'[c] = got[c] /\ out'[c] = out[c]
                               /\ buf'[c] = buf[c] /\ wire'[c] = wire[c]
                               /\ sent'[c] = sent[c] /\ rpc'[c] = rpc[c],
         hpc # "reply" \/ (/\ rpc' = rpc /\ got' = got
                           /\ out' = out /\ buf' = buf),
         rpc'[d] = "read" => buf'[d] = << >>,
         rpc'[d] = "ended" => rpc[d] = "ended" /\ buf' = buf,
         rpc[d] = "ended" => rpc'[d] = "ended" /\ (fin[d] => wire'[d] = wire[d]),
         ~eof[d] /\ sent[d] = Total(d) => sent'[d] = Total(d)'
  PROVE  TunnelInv'
<1>1. Conserved'
  BY DEF TunnelInv, Conserved, Total
<1>2. Quiet' /\ Unread' /\ ReadsEmpty'
  BY DEF TunnelInv, Quiet, Unread, ReadsEmpty
<1>3. ShutByRelay' /\ EofIsShut'
  BY DEF TunnelInv, ShutByRelay, EofIsShut
<1>4. EndedIsComplete'
  BY DEF TunnelInv, EndedIsComplete, Broken
<1> QED BY <1>1, <1>2, <1>3, <1>4 DEF TunnelInv

\* Every step of a relay keeps the invariant.
LEMMA RelayInv ==
  ASSUME TunnelInv, NEW d \in Dirs, Relay(d)
  PROVE  TunnelInv'
<1>0. /\ hpc \in {"relay", "done"}
      /\ TunnelTypeOK
  <2>1. rpc[d] \in {"read", "write"}
    BY DEF Relay, Read, ReadEnd, ReadFails, Write, WriteFails
  <2> QED BY <2>1 DEF TunnelInv, Quiet
<1>1. CASE Read(d)
  <2>1. PICK n \in 1..Len(wire[d]) :
          /\ buf' = [buf EXCEPT ![d] = SubSeq(wire[d], 1, n)]
          /\ wire' = [wire EXCEPT ![d] = SubSeq(wire[d], n + 1, Len(wire[d]))]
    BY <1>1 DEF Read
  <2> DEFINE b == SubSeq(wire[d], 1, n)
             w == SubSeq(wire[d], n + 1, Len(wire[d]))
  <2>2. wire[d] \in Seq(Piece)
    BY <1>0, TypeFacts
  <2>3. b \in Seq(Piece) /\ w \in Seq(Piece) /\ b # << >> /\ b \o w = wire[d]
    BY <2>2, CutInTwo
  <2> HIDE DEF b, w
  <2>4. /\ buf' = [buf EXCEPT ![d] = b] /\ wire' = [wire EXCEPT ![d] = w]
        /\ buf \in [Dirs -> Seq(Piece)] /\ wire \in [Dirs -> Seq(Piece)]
    BY <1>0, <2>1, TypeFacts DEF b, w
  <2>5. /\ buf' \in [Dirs -> Seq(Piece)] /\ wire' \in [Dirs -> Seq(Piece)]
        /\ buf'[d] = b /\ wire'[d] = w
        /\ \A c \in Dirs \ {d} : buf'[c] = buf[c] /\ wire'[c] = wire[c]
    BY <2>3, <2>4
  <2>6. /\ rpc' = [rpc EXCEPT ![d] = "write"] /\ rpc[d] = "read"
        /\ UNCHANGED <<hpc, out, shut, conn, fin, gone, got, eof, sent>>
    BY <1>1 DEF Read, endVars
  <2>7. TunnelTypeOK'
    BY <1>0, <2>3, <2>5, <2>6 DEF TunnelTypeOK
  <2>8. buf[d] = << >> /\ buf[d] \o wire[d] = buf'[d] \o wire'[d]
    BY <2>2, <2>3, <2>5, <2>6, ConcatEmptySeq DEF TunnelInv, ReadsEmpty
  <2>9. rpc'[d] = "write" /\ \A c \in Dirs \ {d} : rpc'[c] = rpc[c]
    BY <1>0, <2>6 DEF TunnelTypeOK
  <2>10. Total(d)' = Total(d)
    BY <2>6, <2>8 DEF Total
  <2> QED BY <1>0, <2>5, <2>6, <2>7, <2>9, <2>10, MoveInv
<1>2. CASE ReadEnd(d)
  BY <1>2, EndRelayInv DEF ReadEnd, TunnelInv, ReadsEmpty
<1>3. CASE ReadFails(d) \/ WriteFails(d)
  <2>1. Broken
    BY <1>3 DEF ReadFails, WriteFails, Broken, Sender, Receiver, Dirs
  <2> QED BY <1>3, <2>1, EndRelayInv DEF ReadFails, WriteFails
<1>4. CASE Write(d)
  <2>1. /\ rpc[d] = "write"
        /\ out' = [out EXCEPT ![d] = Append(out[d], Head(buf[d]))]
        /\ buf' = [buf EXCEPT ![d] = Tail(buf[d])]
        /\ rpc' = [rpc EXCEPT ![d] = IF Len(buf[d]) = 1 THEN "read" ELSE "write"]
        /\ UNCHANGED <<hpc, wire, shut, conn, fin, gone, got, eof, sent>>
    BY <1>4 DEF Write, endVars
  <2>2. /\ got[d] \in Seq(Piece) /\ out[d] \in Seq(Piece) /\ buf[d] \in Seq(Piece)
        /\ wire[d] \in Seq(Piece) /\ buf[d] # << >>
        /\ out \in [Dirs -> Seq(Piece)] /\ buf \in [Dirs -> Seq(Piece)]
        /\ rpc \in [Dirs -> {"off", "read", "write", "ended"}]
    BY <1>0, <2>1, TypeFacts DEF TunnelTypeOK
  <2>3. /\ Head(buf[d]) \in Piece /\ Tail(buf[d]) \in Seq(Piece)
        /\ Len(Tail(buf[d])) = Len(buf[d]) - 1
    BY <2>2, HeadTailProperties
  <2> DEFINE h == Head(buf[d])
             t == Tail(buf[d])
  <2>4. Append(out[d], h) \in Seq(Piece)
    BY <2>2, <2>3
  <2> HIDE DEF h, t
  <2>5. /\ out' \in [Dirs -> Seq(Piece)] /\ buf' \in [Dirs -> Seq(Piece)]
        /\ out'[d] = Append(out[d], h) /\ buf'[d] = t
        /\ \A c \in Dirs \ {d} : out'[c] = out[c] /\ buf'[c] = buf[c] /\ rpc'[c] = rpc[c]
        /\ rpc' \in [Dirs -> {"off", "read", "write", "ended"}]
        /\ rpc'[d] = IF Len(buf[d]) = 1 THEN "read" ELSE "write"
    BY <2>1, <2>2, <2>3, <2>4 DEF h, t
  <2>6. IF Len(buf[d]) = 1 THEN t = << >> ELSE t # << >>
    <3>1. t \in Seq(Piece) /\ Len(t) = Len(buf[d]) - 1 /\ Len(buf[d]) \in Nat \ {0}
      BY <2>2, <2>3, EmptySeq DEF t
    <3>2. t = << >> <=> Len(t) = 0
      BY <3>1, EmptySeq
    <3> QED BY <3>1, <3>2
  <2>7. TunnelTypeOK'
    <3>1. \A c \in Dirs : rpc'[c] = "write" => buf'[c] # << >>
      <4> SUFFICES ASSUME NEW c \in Dirs, rpc'[c] = "write" PROVE buf'[c] # << >>
        OBVIOUS
      <4>1. CASE c = d
        BY <2>5, <2>6, <4>1
      <4>2. CASE c # d
        BY <1>0, <2>5, <4>2 DEF TunnelTypeOK
      <4> QED BY <4>1, <4>2
    <3>2. UNCHANGED <<hpc, wire, shut, conn, fin, gone, got, eof, sent>>
      BY <2>1
    <3> QED BY <1>0, <2>5, <3>1, <3>2 DEF TunnelTypeOK
  <2>8. Total(d)' = Total(d)
    <3>1. Total(d)' = (got[d] \o Append(out[d], h)) \o (t \o wire[d])
      BY <2>1, <2>5 DEF Total
    <3>2. (got[d] \o Append(out[d], Head(buf[d]))) \o (Tail(buf[d]) \o wire[d])
            = (got[d] \o out[d]) \o (buf[d] \o wire[d])
      <4>1. /\ got[d] \in Seq(Piece) /\ out[d] \in Seq(Piece)
            /\ buf[d] \in Seq(Piece) /\ wire[d] \in Seq(Piece) /\ buf[d] # << >>
        BY <2>2
      <4>2. Rewrites(got[d], out[d], buf[d], wire[d])
        BY <4>1, WriteConserves
      <4> QED BY <4>2, Zenon DEF Rewrites
    <3> QED BY <3>1, <3>2 DEF Total, h, t
  <2> QED BY <1>0, <2>1, <2>5, <2>6, <2>7, <2>8, MoveInv
<1> QED BY <1>1, <1>2, <1>3, <1>4 DEF Relay

\* Every step of the browser or of Tor keeps the invariant.
LEMMA OutsideInv ==
  ASSUME TunnelInv, Outside
  PROVE  TunnelInv'
<1>0. TunnelTypeOK
  BY DEF TunnelInv
<1>1. CASE TorAnswers
  BY <1>1, HandlerInv
<1>2. ASSUME NEW e \in Ends, Leave(e) PROVE TunnelInv'
  <2>1. /\ UNCHANGED <<hpc, rpc, buf, shut, wire, out, conn, got, eof, sent>>
        /\ gone' = [gone EXCEPT ![e] = TRUE]
        /\ fin' \in {fin, [d \in Dirs |-> fin[d] \/ Sender[d] = e]}
    BY <1>2 DEF Leave, proxyVars
  <2>2. fin' \in [Dirs -> BOOLEAN] /\ gone' \in [Ends -> BOOLEAN]
    BY <1>0, <2>1, TypeFacts
  <2>3. TunnelTypeOK'
    BY <1>0, <2>1, <2>2 DEF TunnelTypeOK
  <2>4. Broken'
    BY <1>0, <2>1 DEF Broken, Ends, TunnelTypeOK
  <2>5. Conserved' /\ Quiet' /\ Unread' /\ ReadsEmpty' /\ ShutByRelay' /\ EofIsShut'
    BY <2>1 DEF TunnelInv, Conserved, Quiet, Unread, ReadsEmpty, ShutByRelay, EofIsShut,
                Total
  <2> QED BY <2>3, <2>4, <2>5 DEF TunnelInv, EndedIsComplete
<1>3. ASSUME NEW d \in Dirs, CloseDir(d) PROVE TunnelInv'
  <2>1. /\ UNCHANGED <<hpc, rpc, buf, shut, wire, out, conn, gone, got, eof, sent>>
        /\ fin' = [fin EXCEPT ![d] = TRUE]
    BY <1>3 DEF CloseDir, proxyVars
  <2>2. fin' \in [Dirs -> BOOLEAN] /\ \A c \in Dirs : fin[c] => fin'[c]
    BY <1>0, <2>1, TypeFacts
  <2>3. TunnelTypeOK'
    BY <1>0, <2>1, <2>2 DEF TunnelTypeOK
  <2>4. Conserved' /\ Quiet' /\ Unread' /\ ReadsEmpty' /\ ShutByRelay' /\ EofIsShut'
    BY <2>1 DEF TunnelInv, Conserved, Quiet, Unread, ReadsEmpty, ShutByRelay, EofIsShut,
                Total
  <2>5. EndedIsComplete'
    BY <2>1, <2>2 DEF TunnelInv, EndedIsComplete, Broken
  <2> QED BY <2>3, <2>4, <2>5 DEF TunnelInv
<1>4. ASSUME NEW d \in Dirs, Send(d) PROVE TunnelInv'
  <2> DEFINE x == <<"data", Len(sent[d]) + 1>>
  <2>1. /\ hpc \in {"reply", "relay"} /\ ~fin[d]
        /\ wire' = [wire EXCEPT ![d] = Append(wire[d], x)]
        /\ sent' = [sent EXCEPT ![d] = Append(sent[d], x)]
        /\ UNCHANGED <<hpc, rpc, buf, shut, out, conn, fin, gone, got, eof>>
    BY <1>4 DEF Send, MayTalk, proxyVars, endVars
  <2>2. x \in Piece
    BY <1>0, NewPiece
  <2> HIDE DEF x
  <2>3. /\ wire[d] \in Seq(Piece) /\ sent[d] \in Seq(Piece) /\ buf[d] \in Seq(Piece)
        /\ got[d] \o out[d] \in Seq(Piece)
        /\ wire \in [Dirs -> Seq(Piece)] /\ sent \in [Dirs -> Seq(Piece)]
    BY <1>0, TypeFacts, ConcatProperties
  <2>4. Append(wire[d], x) \in Seq(Piece) /\ Append(sent[d], x) \in Seq(Piece)
    BY <2>2, <2>3
  <2>5. /\ wire' \in [Dirs -> Seq(Piece)] /\ sent' \in [Dirs -> Seq(Piece)]
        /\ wire'[d] = Append(wire[d], x) /\ sent'[d] = Append(sent[d], x)
        /\ \A c \in Dirs \ {d} : wire'[c] = wire[c] /\ sent'[c] = sent[c]
    BY <2>1, <2>3, <2>4
  <2>6. TunnelTypeOK'
    BY <1>0, <2>1, <2>5 DEF TunnelTypeOK
  <2>7. sent[d] = Total(d) => sent'[d] = Total(d)'
    <3>1. Total(d)' = (got[d] \o out[d]) \o (buf[d] \o Append(wire[d], x))
      BY <2>1, <2>5 DEF Total
    <3>2. (got[d] \o out[d]) \o (buf[d] \o Append(wire[d], x)) = Append(Total(d), x)
      BY <2>2, <2>3, SendConserves DEF Total
    <3> QED BY <2>5, <3>1, <3>2
  <2>8. (rpc'[d] = "read" => buf'[d] = << >>) /\ rpc' = rpc
    BY <2>1 DEF TunnelInv, ReadsEmpty
  <2> QED BY <2>1, <2>5, <2>6, <2>7, <2>8, MoveInv
<1>5. ASSUME NEW d \in Dirs, Receive(d) PROVE TunnelInv'
  <2>1. /\ out[d] # << >>
        /\ got' = [got EXCEPT ![d] = Append(got[d], Head(out[d]))]
        /\ out' = [out EXCEPT ![d] = Tail(out[d])]
        /\ UNCHANGED <<hpc, rpc, buf, shut, wire, conn, fin, gone, eof, sent>>
    BY <1>5 DEF Receive, proxyVars
  <2>2. hpc \in {"relay", "done"}
    BY <2>1 DEF TunnelInv, Quiet
  <2>3. /\ out[d] \in Seq(Piece) /\ got[d] \in Seq(Piece)
        /\ out \in [Dirs -> Seq(Piece)] /\ got \in [Dirs -> Seq(Piece)]
    BY <1>0, TypeFacts
  <2>4. Head(out[d]) \in Piece /\ Tail(out[d]) \in Seq(Piece)
    BY <2>1, <2>3, HeadTailProperties
  <2>5. Append(got[d], Head(out[d])) \in Seq(Piece)
    BY <2>3, <2>4
  <2>6. /\ got' \in [Dirs -> Seq(Piece)] /\ out' \in [Dirs -> Seq(Piece)]
        /\ got'[d] = Append(got[d], Head(out[d])) /\ out'[d] = Tail(out[d])
        /\ \A c \in Dirs \ {d} : got'[c] = got[c] /\ out'[c] = out[c]
    BY <2>1, <2>3, <2>4, <2>5
  <2>7. TunnelTypeOK'
    BY <1>0, <2>1, <2>6 DEF TunnelTypeOK
  <2>8. Total(d)' = Total(d)
    <3>1. Append(got[d], Head(out[d])) \o Tail(out[d]) = got[d] \o out[d]
      BY <2>1, <2>3, MoveHead
    <3> QED BY <2>1, <2>6, <3>1 DEF Total
  <2>9. (rpc'[d] = "read" => buf'[d] = << >>) /\ rpc' = rpc
    BY <2>1 DEF TunnelInv, ReadsEmpty
  <2> QED BY <2>1, <2>2, <2>6, <2>7, <2>8, <2>9, MoveInv
<1>6. ASSUME NEW d \in Dirs, SeeEnd(d) \/ SeeReset(d) PROVE TunnelInv'
  <2>1. /\ shut[d] /\ eof' = [eof EXCEPT ![d] = TRUE]
        /\ out' = [out EXCEPT ![d] = << >>] \/ out' = out
        /\ UNCHANGED <<hpc, rpc, buf, shut, wire, conn, fin, gone, got, sent>>
    BY <1>6 DEF SeeEnd, SeeReset, proxyVars
  <2>2. /\ eof' \in [Dirs -> BOOLEAN] /\ out' \in [Dirs -> Seq(Piece)]
        /\ \A c \in Dirs : /\ eof'[c] = (eof[c] \/ c = d)
                           /\ c # d => out'[c] = out[c]
                           /\ out'[c] = << >> \/ out'[c] = out[c]
    <3>1. << >> \in Seq(Piece)
      OBVIOUS
    <3>2. eof \in [Dirs -> BOOLEAN] /\ out \in [Dirs -> Seq(Piece)]
      BY <1>0, TypeFacts
    <3>3. eof' \in [Dirs -> BOOLEAN] /\ \A c \in Dirs : eof'[c] = (eof[c] \/ c = d)
      BY <2>1, <3>2
    <3>4. CASE out' = out
      BY <3>2, <3>3, <3>4
    <3>5. CASE out' = [out EXCEPT ![d] = << >>]
      BY <3>1, <3>2, <3>3, <3>5
    <3> QED BY <2>1, <3>4, <3>5
  <2>3. TunnelTypeOK'
    BY <1>0, <2>1, <2>2 DEF TunnelTypeOK
  <2>4. Conserved' /\ Quiet' /\ Unread' /\ ReadsEmpty'
    BY <2>1, <2>2 DEF TunnelInv, Conserved, Quiet, Unread, ReadsEmpty, Total
  <2>5. ShutByRelay' /\ EndedIsComplete' /\ EofIsShut'
    BY <2>1, <2>2 DEF TunnelInv, ShutByRelay, EndedIsComplete, EofIsShut, Broken
  <2> QED BY <2>3, <2>4, <2>5 DEF TunnelInv
<1> QED BY <1>1, <1>2, <1>3, <1>4, <1>5, <1>6 DEF Outside

\* Every step keeps the invariant.
LEMMA StepTunnel == TunnelInv /\ [Next]_vars => TunnelInv'
<1> SUFFICES ASSUME TunnelInv, [Next]_vars PROVE TunnelInv'
  OBVIOUS
<1>1. CASE UNCHANGED vars
  BY <1>1 DEF vars, TunnelInv, TunnelTypeOK, Conserved, Quiet, Unread, ReadsEmpty, Total,
              ShutByRelay, EndedIsComplete, EofIsShut, Broken
<1> QED BY <1>1, HandlerInv, RelayInv, OutsideInv DEF Next

\* Whatever the handler, the relays and the two ends do, what a direction has
\* to carry is with its receiver, on its way or still to be read, in order.
THEOREM TunnelInvariant == Spec => []TunnelInv
BY InitTunnel, StepTunnel, PTL DEF Spec

\* Every reachable state of a tunnel is typed, and no relay ever writes an
\* empty buffer.
THEOREM TunnelTypeCorrect == Spec => []TunnelTypeOK
<1>1. TunnelInv => TunnelTypeOK
  BY DEF TunnelInv
<1> QED BY <1>1, TunnelInvariant, PTL

-----------------------------------------------------------------------------
(***************************************************************************)
(* Each direction of a tunnel implements ByteStream.                       *)
(***************************************************************************)

Stream(d) == INSTANCE ByteStream WITH
  sent <- sent[d], got <- got[d], closed <- Closed(d), broken <- Broken, ended <- eof[d]

\* A step of the tunnel, seen from one direction.
StreamStep(d) == Stream(d)!Next \/ UNCHANGED Stream(d)!vars

-----------------------------------------------------------------------------
(* Sequences *)

\* A sequence is the prefix of what is made by appending to it.
LEMMA AppendExtends ==
  ASSUME NEW S, NEW s \in Seq(S), NEW x \in S
  PROVE  Len(s) < Len(Append(s, x)) /\ SubSeq(Append(s, x), 1, Len(s)) = s
<1>1. Len(s) \in Nat /\ Append(s, x) \in Seq(S) /\ Len(Append(s, x)) = Len(s) + 1
  BY AppendProperties, LenProperties
<1>2. \A i \in 1..Len(s) : Append(s, x)[i] = s[i]
  BY AppendProperties
<1>3. \A i \in 1..Len(s) : s[i] \in S
  BY ElementOfSeq
<1>4. /\ SubSeq(Append(s, x), 1, Len(s)) \in Seq(S)
      /\ Len(SubSeq(Append(s, x), 1, Len(s))) = Len(s)
      /\ \A i \in 1..Len(s) : SubSeq(Append(s, x), 1, Len(s))[i] = Append(s, x)[i]
  BY <1>1, <1>2, <1>3, SubSeqProperties
<1>5. SubSeq(Append(s, x), 1, Len(s)) = s
  BY <1>2, <1>4, SeqEqual
<1> QED BY <1>1, <1>5

\* The empty sequence is a prefix of every other.
LEMMA EmptyExtends ==
  ASSUME NEW S, NEW s \in Seq(S), s # << >>
  PROVE  Len(<< >>) < Len(s) /\ SubSeq(s, 1, Len(<< >>)) = << >>
<1>1. Len(s) \in Nat \ {0}
  BY EmptySeq, LenProperties
<1>2. SubSeq(s, 1, 0) = << >>
  BY SubSeqEmpty
<1> QED BY <1>1, <1>2

\* Behind a prefix comes the head of the next sequence that has one.
LEMMA NextPiece ==
  ASSUME NEW S, NEW g \in Seq(S), NEW o \in Seq(S), NEW r \in Seq(S), o # << >>
  PROVE  /\ Len(g) < Len((g \o o) \o r)
         /\ ((g \o o) \o r)[Len(g) + 1] = Head(o)
<1>1. Len(g) \in Nat /\ Len(o) \in Nat \ {0} /\ Len(r) \in Nat
  BY EmptySeq, LenProperties
<1>2. /\ g \o o \in Seq(S) /\ Len(g \o o) = Len(g) + Len(o)
      /\ (g \o o)[Len(g) + 1] = o[1]
  BY <1>1, ConcatProperties
<1> DEFINE p == g \o o
           k == Len(g) + 1
<1>3. p \in Seq(S) /\ k \in 1..Len(p) /\ Len(p) \in Nat
  BY <1>1, <1>2
<1> HIDE DEF p, k
<1>4. Len(p \o r) = Len(p) + Len(r) /\ (p \o r)[k] = p[k]
  BY <1>1, <1>3, ConcatProperties
<1>5. Head(o) = o[1]
  OBVIOUS
<1> QED BY <1>1, <1>2, <1>4, <1>5 DEF p, k

\* o holds what comes behind g in s.
Continues(s, g, o) == Len(g) < Len(s) /\ s[Len(g) + 1] = Head(o)

\* The first piece in the socket is the next one of what the receiver has.
LEMMA PrefixContinues ==
  \A g, o, r \in Seq(Piece) : o # << >> => Continues((g \o o) \o r, g, o)
<1> TAKE g, o, r \in Seq(Piece)
<1> HAVE o # << >>
<1> QED BY NextPiece DEF Continues

-----------------------------------------------------------------------------
(* Steps *)

\* A step that leaves what a direction is made of as it is does not show.
LEMMA Unseen ==
  ASSUME NEW d \in Dirs, sent'[d] = sent[d], got'[d] = got[d], eof'[d] = eof[d],
         Closed(d)' = Closed(d), Broken' = Broken
  PROVE  StreamStep(d)
BY DEF StreamStep, Stream!vars

\* The handler's steps: what the first read leaves is the first that is sent,
\* and to give up breaks the stream.
LEMMA HandlerStreams ==
  ASSUME TunnelInv, Handler \/ TorAnswers, NEW d \in Dirs
  PROVE  StreamStep(d)
<1>0. TunnelTypeOK
  BY DEF TunnelInv
<1>1. CASE ReadHead
  <2>1. /\ hpc = "head" /\ hpc' = "dial" /\ UNCHANGED <<fin, gone, got, eof>>
        /\ sent' = [sent EXCEPT !["up"] = wire'["up"]]
    BY <1>1 DEF ReadHead, endVars
  <2>2. Broken' = Broken
    BY <2>1 DEF Broken
  <2>3. CASE d = "down"
    BY <2>1, <2>2, <2>3, Unseen DEF Closed
  <2>4. CASE d = "up"
    <3>1. /\ ~Closed(d) /\ Closed(d)' \in BOOLEAN /\ (Closed(d)' <=> fin[d])
      BY <1>0, <2>1, <2>4, TypeFacts DEF Closed
    <3>2. sent \in [Dirs -> Seq(Piece)] /\ TunnelTypeOK'
      BY <1>0, <1>1, HandlerInv, TypeFacts DEF Handler, TunnelInv
    <3>3. sent'[d] = wire'[d] /\ wire'[d] \in Seq(Piece)
      BY <2>1, <2>4, <3>2 DEF TunnelTypeOK
    <3>4. sent[d] = << >>
      BY <2>1, <2>4 DEF TunnelInv, Unread
    <3>5. CASE wire'[d] = << >>
      <4>1. CASE fin[d]
        <5>1. Stream(d)!Close
          BY <2>1, <2>2, <3>1, <3>3, <3>4, <3>5, <4>1 DEF Stream!Close
        <5> QED BY <5>1 DEF StreamStep, Stream!Next
      <4>2. CASE ~fin[d]
        BY <2>1, <2>2, <3>1, <3>3, <3>4, <3>5, <4>2, Unseen DEF Closed
      <4> QED BY <4>1, <4>2
    <3>6. CASE wire'[d] # << >>
      <4>1. Len(sent[d]) < Len(sent'[d]) /\ SubSeq(sent'[d], 1, Len(sent[d])) = sent[d]
        BY <3>3, <3>4, <3>6, EmptyExtends
      <4>2. Stream(d)!Send
        BY <2>1, <2>2, <3>1, <4>1 DEF Stream!Send
      <4> QED BY <4>2 DEF StreamStep, Stream!Next
    <3> QED BY <3>5, <3>6
  <2> QED BY <2>3, <2>4 DEF Dirs
<1>2. CASE Abandon
  <2>1. hpc' = "failed" /\ UNCHANGED <<fin, gone, got, eof, sent>>
    BY <1>2 DEF Abandon, endVars
  <2>2. Broken' = TRUE
    BY <2>1 DEF Broken
  <2>3. Closed(d)' \in {Closed(d), TRUE}
    BY <1>0, <2>1, TypeFacts DEF Closed
  <2>4. Stream(d)!Break
    BY <2>1, <2>2, <2>3 DEF Stream!Break
  <2> QED BY <2>4 DEF StreamStep, Stream!Next
<1>3. CASE Dial \/ Reply200 \/ Join \/ TorAnswers
  <2>1. Abandon \/ (/\ hpc \notin {"head", "failed"} /\ hpc' \notin {"head", "failed"}
                    /\ UNCHANGED <<fin, gone, got, eof, sent>>)
    BY <1>3 DEF Dial, Reply200, Join, TorAnswers, MethodsAnswered, AuthAnswered,
                CommandAnswered, Proceed, endVars
  <2>2. ASSUME hpc \notin {"head", "failed"}, hpc' \notin {"head", "failed"},
               UNCHANGED <<fin, gone, got, eof, sent>>
        PROVE  StreamStep(d)
    BY <2>2, Unseen DEF Closed, Broken
  <2> QED BY <1>2, <2>1, <2>2
<1> QED
  BY <1>1, <1>2, <1>3
  DEF Handler, ReadVerbOnly, ReadNoHead, DialFails, HandshakeCut, ReplyFails

\* The relays only move what has been sent.
LEMMA RelayStreams ==
  ASSUME NEW c \in Dirs, Relay(c), NEW d \in Dirs
  PROVE  StreamStep(d)
<1>1. UNCHANGED <<hpc, fin, gone, got, eof, sent>>
  BY DEF Relay, Read, ReadEnd, ReadFails, Write, WriteFails, EndRelay, endVars
<1> QED BY <1>1, Unseen DEF Closed, Broken

\* What the receiver of a direction has, and what it gets next, is a prefix of
\* what has been sent.
LEMMA ReceiveStreams ==
  ASSUME TunnelInv, NEW c \in Dirs, Receive(c), NEW d \in Dirs
  PROVE  StreamStep(d)
<1>0. TunnelTypeOK
  BY DEF TunnelInv
<1>1. /\ ~eof[c] /\ out[c] # << >>
      /\ got' = [got EXCEPT ![c] = Append(got[c], Head(out[c]))]
      /\ UNCHANGED <<hpc, fin, gone, eof, sent>>
  BY DEF Receive, Listens, proxyVars
<1>2. Closed(d)' = Closed(d) /\ Broken' = Broken
  BY <1>1 DEF Closed, Broken
<1>3. /\ got \in [Dirs -> Seq(Piece)] /\ got[c] \in Seq(Piece) /\ out[c] \in Seq(Piece)
      /\ buf[c] \in Seq(Piece) /\ wire[c] \in Seq(Piece)
  BY <1>0, TypeFacts
<1>4. CASE d # c
  BY <1>1, <1>2, <1>3, <1>4, Unseen
<1>5. CASE d = c
  <2>1. hpc \in {"relay", "done"}
    BY <1>1 DEF TunnelInv, Quiet
  <2>2. sent[c] = (got[c] \o out[c]) \o (buf[c] \o wire[c])
    BY <1>1, <2>1 DEF TunnelInv, Conserved, Total
  <2>3. buf[c] \o wire[c] \in Seq(Piece)
    BY <1>3, ConcatProperties
  <2>4. Len(got[c]) < Len(sent[c]) /\ sent[c][Len(got[c]) + 1] = Head(out[c])
    <3>1. Continues((got[c] \o out[c]) \o (buf[c] \o wire[c]), got[c], out[c])
      BY <1>1, <1>3, <2>3, PrefixContinues
    <3> QED BY <2>2, <3>1, Zenon DEF Continues
  <2>5. got'[c] = Append(got[c], Head(out[c]))
    BY <1>1, <1>3
  <2>6. Stream(d)!Deliver
    BY <1>1, <1>2, <1>5, <2>4, <2>5 DEF Stream!Deliver
  <2> QED BY <2>6 DEF StreamStep, Stream!Next
<1> QED BY <1>4, <1>5

\* The end is told to a receiver that has everything, unless something broke.
LEMMA EndStreams ==
  ASSUME TunnelInv, NEW c \in Dirs, SeeEnd(c) \/ SeeReset(c), NEW d \in Dirs
  PROVE  StreamStep(d)
<1>0. TunnelTypeOK
  BY DEF TunnelInv
<1>1. /\ shut[c] /\ ~eof[c] /\ eof' = [eof EXCEPT ![c] = TRUE]
      /\ UNCHANGED <<hpc, fin, gone, got, sent>>
      /\ out[c] = << >> \/ (shut[Other[c]] /\ wire[Other[c]] # << >>)
  BY DEF SeeEnd, SeeReset, Listens, proxyVars
<1>2. Closed(d)' = Closed(d) /\ Broken' = Broken
  BY <1>1 DEF Closed, Broken
<1>3. /\ eof \in [Dirs -> BOOLEAN] /\ Other[c] \in Dirs
      /\ got[c] \in Seq(Piece)
  BY <1>0, TypeFacts
<1>4. CASE d # c
  BY <1>1, <1>2, <1>3, <1>4, Unseen
<1>5. CASE d = c
  <2>1. Broken \/ (Closed(c) /\ got[c] = sent[c])
    <3> SUFFICES ASSUME ~Broken PROVE Closed(c) /\ got[c] = sent[c]
      OBVIOUS
    <3>1. rpc[c] = "ended" /\ (shut[Other[c]] => rpc[Other[c]] = "ended")
      BY <1>1, <1>3 DEF TunnelInv, ShutByRelay, Broken
    <3>2. /\ fin[c] /\ buf[c] = << >> /\ wire[c] = << >>
          /\ shut[Other[c]] => wire[Other[c]] = << >>
      BY <1>3, <3>1 DEF TunnelInv, EndedIsComplete
    <3>3. hpc \in {"relay", "done"}
      BY <3>1 DEF TunnelInv, Quiet
    <3>4. out[c] = << >>
      BY <1>1, <3>2
    <3>5. sent[c] = (got[c] \o << >>) \o (<< >> \o << >>)
      BY <1>1, <3>2, <3>3, <3>4 DEF TunnelInv, Conserved, Total
    <3>6. \A s \in Seq(Piece) : (s \o << >>) \o (<< >> \o << >>) = s
      OBVIOUS
    <3> QED BY <1>3, <3>2, <3>3, <3>5, <3>6 DEF Closed
  <2>2. eof'[c] = TRUE
    BY <1>1, <1>3
  <2>3. Stream(d)!End
    BY <1>1, <1>2, <1>5, <2>1, <2>2 DEF Stream!End
  <2> QED BY <2>3 DEF StreamStep, Stream!Next
<1> QED BY <1>4, <1>5

\* The ends' own steps: to send, to close a direction and to leave.
LEMMA OutsideStreams ==
  ASSUME TunnelInv, Outside, NEW d \in Dirs
  PROVE  StreamStep(d)
<1>0. TunnelTypeOK
  BY DEF TunnelInv
<1>1. CASE TorAnswers
  BY <1>1, HandlerStreams
<1>2. ASSUME NEW e \in Ends, Leave(e) PROVE StreamStep(d)
  <2>1. /\ UNCHANGED <<hpc, got, eof, sent>>
        /\ gone' = [gone EXCEPT ![e] = TRUE]
        /\ fin' \in {fin, [x \in Dirs |-> fin[x] \/ Sender[x] = e]}
    BY <1>2 DEF Leave, proxyVars
  <2>2. Broken' = TRUE
    BY <1>0, <2>1, TypeFacts DEF Broken, Ends
  <2>3. Closed(d)' \in {Closed(d), TRUE}
    BY <1>0, <2>1, TypeFacts DEF Closed
  <2>4. Stream(d)!Break
    BY <2>1, <2>2, <2>3 DEF Stream!Break
  <2> QED BY <2>4 DEF StreamStep, Stream!Next
<1>3. ASSUME NEW c \in Dirs, CloseDir(c) PROVE StreamStep(d)
  <2>1. fin' = [fin EXCEPT ![c] = TRUE] /\ UNCHANGED <<hpc, gone, got, eof, sent>>
    BY <1>3 DEF CloseDir, proxyVars
  <2>2. Broken' = Broken
    BY <2>1 DEF Broken
  <2>3. Closed(d)' \in {Closed(d), TRUE}
    BY <1>0, <2>1, TypeFacts DEF Closed
  <2>4. CASE Closed(d)' = TRUE
    <3>1. Stream(d)!Close
      BY <2>1, <2>2, <2>4 DEF Stream!Close
    <3> QED BY <3>1 DEF StreamStep, Stream!Next
  <2>5. CASE Closed(d)' = Closed(d)
    BY <2>1, <2>2, <2>5, Unseen
  <2> QED BY <2>3, <2>4, <2>5
<1>4. ASSUME NEW c \in Dirs, Send(c) PROVE StreamStep(d)
  <2> DEFINE x == <<"data", Len(sent[c]) + 1>>
  <2>1. /\ ~fin[c] /\ sent' = [sent EXCEPT ![c] = Append(sent[c], x)]
        /\ UNCHANGED <<hpc, fin, gone, got, eof>>
    BY <1>4 DEF Send, proxyVars, endVars
  <2>2. x \in Piece
    BY <1>0, NewPiece
  <2> HIDE DEF x
  <2>3. sent \in [Dirs -> Seq(Piece)] /\ sent[c] \in Seq(Piece)
    BY <1>0, TypeFacts
  <2>4. Closed(d)' = Closed(d) /\ Broken' = Broken
    BY <2>1 DEF Closed, Broken
  <2>5. CASE d # c
    BY <2>1, <2>3, <2>4, <2>5, Unseen
  <2>6. CASE d = c
    <3>1. sent'[c] = Append(sent[c], x) /\ ~Closed(c) /\ Closed(c) \in BOOLEAN
      BY <2>1, <2>3 DEF Closed
    <3>2. Len(sent[c]) < Len(sent'[c]) /\ SubSeq(sent'[c], 1, Len(sent[c])) = sent[c]
      BY <2>2, <2>3, <3>1, AppendExtends
    <3>3. Stream(d)!Send
      BY <2>1, <2>4, <2>6, <3>1, <3>2 DEF Stream!Send
    <3> QED BY <3>3 DEF StreamStep, Stream!Next
  <2> QED BY <2>5, <2>6
<1> QED BY <1>1, <1>2, <1>3, <1>4, ReceiveStreams, EndStreams DEF Outside

\* Every step of the tunnel is one of the stream's, or does not show in it.
LEMMA StepStreams ==
  ASSUME TunnelInv, [Next]_vars, NEW d \in Dirs
  PROVE  StreamStep(d)
<1>1. CASE UNCHANGED vars
  BY <1>1, Unseen DEF vars, Closed, Broken
<1>2. CASE Next
  BY <1>2, HandlerStreams, RelayStreams, OutsideStreams DEF Next
<1> QED BY <1>1, <1>2

\* A stream begins with nothing sent and nothing received.
LEMMA InitStreams == Init => \A d \in Dirs : Stream(d)!Init
BY DEF Init, Stream!Init, Nothing, Never, Closed, Broken, Ends

-----------------------------------------------------------------------------
(* The two directions *)

\* Tor receives what the browser sent, in order and once, and is told of the
\* end only when it has everything or an end of the tunnel has left.
THEOREM UpStreams == Spec => UpIsStream
<1>1. Init => Up!Init
  BY InitStreams DEF Stream!Init, Up!Init, Dirs
<1>2. TunnelInv /\ [Next]_vars => [Up!Next]_(Up!vars)
  <2> SUFFICES ASSUME TunnelInv, [Next]_vars PROVE Up!Next \/ UNCHANGED Up!vars
    OBVIOUS
  <2>1. StreamStep("up")
    BY StepStreams DEF Dirs
  <2> QED BY <2>1
    DEF StreamStep, Stream!Next, Stream!Send, Stream!Deliver, Stream!Close, Stream!Break,
        Stream!End, Stream!vars, Up!Next, Up!Send, Up!Deliver, Up!Close, Up!Break, Up!End,
        Up!vars
<1> QED BY <1>1, <1>2, TunnelInvariant, PTL DEF Spec, UpIsStream, Up!Spec

\* The browser receives what Tor sent, in order and once, and is told of the
\* end only when it has everything or an end of the tunnel has left.
THEOREM DownStreams == Spec => DownIsStream
<1>1. Init => Down!Init
  BY InitStreams DEF Stream!Init, Down!Init, Dirs
<1>2. TunnelInv /\ [Next]_vars => [Down!Next]_(Down!vars)
  <2> SUFFICES ASSUME TunnelInv, [Next]_vars PROVE Down!Next \/ UNCHANGED Down!vars
    OBVIOUS
  <2>1. StreamStep("down")
    BY StepStreams DEF Dirs
  <2> QED BY <2>1
    DEF StreamStep, Stream!Next, Stream!Send, Stream!Deliver, Stream!Close, Stream!Break,
        Stream!End, Stream!vars, Down!Next, Down!Send, Down!Deliver, Down!Close,
        Down!Break, Down!End, Down!vars
<1> QED BY <1>1, <1>2, TunnelInvariant, PTL DEF Spec, DownIsStream, Down!Spec

-----------------------------------------------------------------------------
(* The whole tunnel *)

\* A step that shows neither in the phase nor in the relays that run.
LEMMA WholeUnseen ==
  ASSUME hpc' = hpc, rpc' = rpc
  PROVE  UNCHANGED Whole!connectionVars
BY DEF Whole!connectionVars, Phase, Running

\* Nothing is relayed before the 200, nor by a handler that has failed.
LEMMA IdleRuns ==
  ASSUME Quiet, hpc \notin {"relay", "done"}
  PROVE  Running = {}
BY DEF Quiet, Running

\* The handler, before the relays: it goes on or gives up.
LEMMA HandlerMoves ==
  ASSUME TunnelInv, hpc \notin {"relay", "done", "failed"}, rpc' = rpc,
         \/ hpc' = "failed"
         \/ hpc = "head" /\ hpc' = "dial"
         \/ hpc = "dial" /\ hpc' = "methods"
         \/ hpc \in Handshake /\ hpc' \in Handshake \cup {"reply"}
  PROVE  [Whole!Next]_(Whole!connectionVars)
<1>1. Running = {} /\ Running' = {}
  BY IdleRuns DEF TunnelInv, Running
<1>2. Phase' = CASE hpc' \in Handshake \cup {"reply"} -> "shake"
                 [] hpc' = "failed" -> "over"
                 [] OTHER -> hpc'
  BY DEF Phase, Handshake
<1>3. Phase \in {"new", "dial", "shake"} /\ (hpc = "head" => Phase = "new")
      /\ (hpc = "dial" => Phase = "dial") /\ (hpc \in Handshake => Phase = "shake")
  BY DEF Phase, Handshake, TunnelInv, TunnelTypeOK
<1> QED BY <1>1, <1>2, <1>3
  DEF Whole!Next, Whole!Begin, Whole!Reach, Whole!GiveUp, Whole!Move,
      Whole!connectionVars, Handshake

\* A step of the handler is a step of the connection, or none.
LEMMA HandlerWhole ==
  ASSUME TunnelInv, Handler \/ TorAnswers
  PROVE  [Whole!Next]_(Whole!connectionVars)
<1>1. CASE Reply200
  <2>1. Phase = "shake" /\ Phase' = "relay" /\ Running' = Dirs
    BY <1>1 DEF Reply200, Phase, Running, Handshake
  <2> QED BY <2>1 DEF Whole!Next, Whole!Establish
<1>2. CASE Join
  <2>1. Phase = "relay" /\ Phase' = "over" /\ Running = {} /\ Running' = {}
    BY <1>2 DEF Join, Proceed, Phase, Running, Handshake
  <2> QED BY <2>1 DEF Whole!Next, Whole!Close, Whole!Move
<1> QED BY <1>1, <1>2, HandlerMoves
  DEF Handler, TorAnswers, ReadHead, ReadVerbOnly, ReadNoHead, Dial, DialFails, HandshakeCut,
      ReplyFails, MethodsAnswered, AuthAnswered, CommandAnswered, Abandon, Proceed, Handshake

\* The handler is done when both relays are.
Finished == hpc = "done" => \A d \in Dirs : rpc[d] = "ended"

\* Every step keeps Finished.
LEMMA StepFinished == Finished /\ [Next]_vars => Finished'
<1> SUFFICES ASSUME Finished, [Next]_vars PROVE Finished'
  OBVIOUS
<1>1. CASE Handler \/ TorAnswers
  BY <1>1 DEF Handler, TorAnswers, ReadHead, ReadVerbOnly, ReadNoHead, Dial, DialFails,
      HandshakeCut, Reply200, ReplyFails, Join, MethodsAnswered, AuthAnswered,
      CommandAnswered, Abandon, Proceed, Finished
<1>2. ASSUME NEW d \in Dirs, Relay(d) PROVE Finished'
  BY <1>2 DEF Relay, Read, ReadEnd, ReadFails, Write, WriteFails, EndRelay, Finished
<1>3. CASE UNCHANGED <<hpc, rpc>>
  BY <1>3 DEF Finished
<1>4. CASE Outside
  BY <1>1, <1>3, <1>4 DEF Outside, Leave, Send, CloseDir, Receive, SeeEnd, SeeReset, proxyVars
<1> QED BY <1>1, <1>2, <1>3, <1>4 DEF Next, vars

\* A step of a relay is the end of its direction, or none.
LEMMA RelayWhole ==
  ASSUME TunnelInv, Finished, NEW d \in Dirs, Relay(d)
  PROVE  [Whole!Next]_(Whole!connectionVars)
<1>1. rpc[d] \in {"read", "write"} /\ hpc' = hpc
  BY DEF Relay, Read, ReadEnd, ReadFails, Write, WriteFails, EndRelay
<1>2. hpc = "relay"
  BY <1>1 DEF TunnelInv, Quiet, Finished
<1>3. rpc \in [Dirs -> {"off", "read", "write", "ended"}]
  BY DEF TunnelInv, TunnelTypeOK
<1>4. CASE \E l \in {"read", "write"} : rpc' = [rpc EXCEPT ![d] = l]
  <2>1. Running' = Running
    BY <1>1, <1>3, <1>4 DEF Running
  <2> QED BY <1>1, <2>1 DEF Phase, Whole!connectionVars
<1>5. CASE EndRelay(d)
  <2>1. d \in Running /\ Running' = Running \ {d}
    BY <1>1, <1>3, <1>5 DEF EndRelay, Running
  <2>2. Phase = "relay" /\ Phase' = "relay"
    BY <1>1, <1>2 DEF Phase, Handshake
  <2> QED BY <2>1, <2>2 DEF Whole!Next, Whole!EndDirection
<1> QED BY <1>4, <1>5 DEF Relay, Read, ReadEnd, ReadFails, Write, WriteFails

\* What the two ends do is no step of the connection.
LEMMA OutsideWhole ==
  ASSUME TunnelInv, Outside
  PROVE  [Whole!Next]_(Whole!connectionVars)
<1>1. CASE TorAnswers
  BY <1>1, HandlerWhole
<1>2. CASE hpc' = hpc /\ rpc' = rpc
  BY <1>2, WholeUnseen
<1> QED BY <1>1, <1>2 DEF Outside, Leave, Send, CloseDir, Receive, SeeEnd, SeeReset, proxyVars

\* A tunnel, with its bytes, its handshake and its two relays, implements
\* Connection: it is over, and its sockets are free, not before each relay ended.
THEOREM TunnelIsConnection == Spec => IsConnection
<1>1. Init => Whole!Init
  <2> SUFFICES ASSUME Init PROVE Whole!Init
    OBVIOUS
  <2>1. Phase = "new"
    BY DEF Init, Phase, Handshake
  <2>2. Running = {}
    BY DEF Init, Running
  <2> QED BY <2>1, <2>2 DEF Whole!Init
<1>2. TunnelInv /\ Finished /\ [Next]_vars => [Whole!Next]_(Whole!connectionVars)
  BY HandlerWhole, RelayWhole, OutsideWhole, WholeUnseen DEF Next, vars
<1>3. Init => Finished
  BY DEF Init, Finished
<1> QED BY <1>1, <1>2, <1>3, StepFinished, TunnelInvariant, PTL DEF Spec, IsConnection, Whole!Spec

-----------------------------------------------------------------------------
(* Liveness is left to TLC.  What Drains rests on is proved: the direction *)
(* itself, never the other one, can go on; and every step of it leaves     *)
(* less to be done.                                                        *)

\* Who talks to whom from the handshake on, and what becomes of the relays.
Connected   == hpc \in Handshake \cup {"reply", "relay", "done"} => conn = Ends
Spawned     == hpc = "relay" => \A d \in Dirs : rpc[d] # "off"
EndedIsShut == \A d \in Dirs : rpc[d] = "ended" => shut[d]

RelayedInv == Connected /\ Spawned /\ EndedIsShut

\* The relay of a direction, or its receiver, has something it can do: to read
\* or to find the end, to write into a socket that has room, to take what is in
\* the socket, to see that it is shut.
CanGoOn(d) ==
  \/ rpc[d] = "read" /\ (wire[d] # << >> \/ fin[d])
  \/ rpc[d] = "write" /\ Len(out[d]) < Window
  \/ Listens(d) /\ (out[d] # << >> \/ shut[d])

\* A direction that its sender has closed, and whose receiver is still there and
\* has not seen the end, can go on by itself, however full the buffers of the
\* other direction are.
NeverStuck ==
  \A d \in Dirs : hpc = "relay" /\ fin[d] /\ ~gone[Receiver[d]] /\ ~eof[d] => CanGoOn(d)

\* The relay has to end, the receiver to see the end.
ToEnd(d) == IF rpc[d] = "ended" THEN 0 ELSE 1
ToSee(d) == IF eof[d] THEN 0 ELSE 1

\* The steps at most, of the relay and of the receiver, until the receiver has
\* seen the end: a piece is read, written and received.
Steps(unread, held, written, end, see) == 3 * unread + 2 * held + written + end + see

ToDrain(d) == Steps(Len(wire[d]), Len(buf[d]), Len(out[d]), ToEnd(d), ToSee(d))

\* What a closed direction has left to do never grows, and each step of its relay
\* or of its receiver lessens it, although a relay reads and writes by pieces.
DrainsSteadily ==
  [][\A d \in Dirs : hpc = "relay" /\ fin[d] =>
       IF Relay(d) \/ Receive(d) \/ SeeEnd(d) \/ SeeReset(d)
       THEN ToDrain(d)' < ToDrain(d) ELSE ToDrain(d)' = ToDrain(d)]_vars

\* Every step keeps what is known of the ends and of the relays.
LEMMA StepRelayed == TunnelTypeOK /\ RelayedInv /\ [Next]_vars => RelayedInv'
<1> SUFFICES ASSUME TunnelTypeOK, RelayedInv, [Next]_vars PROVE RelayedInv'
  OBVIOUS
<1> USE DEF RelayedInv, Connected, Spawned, EndedIsShut
<1>1. CASE Handler \/ TorAnswers
  BY <1>1 DEF Handler, TorAnswers, ReadHead, ReadVerbOnly, ReadNoHead, Dial, DialFails,
      HandshakeCut, Reply200, ReplyFails, Join, MethodsAnswered, AuthAnswered,
      CommandAnswered, Abandon, Proceed, Handshake, endVars, TunnelTypeOK
<1>2. ASSUME NEW d \in Dirs, Relay(d) PROVE RelayedInv'
  <2>1. hpc' = hpc /\ conn' = conn
    BY <1>2 DEF Relay, Read, ReadEnd, ReadFails, Write, WriteFails, EndRelay, endVars
  <2>2. \/ shut' = shut /\ \E l \in {"read", "write"} : rpc' = [rpc EXCEPT ![d] = l]
        \/ EndRelay(d)
    BY <1>2 DEF Relay, Read, ReadEnd, ReadFails, Write, WriteFails
  <2> QED BY <2>1, <2>2 DEF EndRelay, TunnelTypeOK
<1>3. CASE UNCHANGED <<hpc, rpc, shut, conn>>
  BY <1>3
<1>4. CASE Outside
  BY <1>1, <1>3, <1>4 DEF Outside, Leave, Send, CloseDir, Receive, SeeEnd, SeeReset,
                          proxyVars, endVars
<1> QED BY <1>1, <1>2, <1>3, <1>4 DEF Next, vars

\* The room a relay waits for is there, or its receiver can make it.
LEMMA GoesOn ==
  ASSUME TunnelTypeOK, RelayedInv
  PROVE  NeverStuck
<1> SUFFICES ASSUME NEW d \in Dirs, hpc = "relay", fin[d], ~gone[Receiver[d]], ~eof[d]
             PROVE  CanGoOn(d)
  BY DEF NeverStuck
<1>1. Listens(d)
  BY DEF Listens, RelayedInv, Connected, Receiver, Dirs, Ends
<1>2. rpc[d] \in {"read", "write", "ended"}
  BY DEF RelayedInv, Spawned, TunnelTypeOK
<1>3. CASE rpc[d] = "read"
  BY <1>3 DEF CanGoOn
<1>4. CASE rpc[d] = "write"
  <2>1. CASE out[d] = << >>
    <3>1. Len(out[d]) = 0
      BY <2>1
    <3> QED BY <1>4, <3>1, BufferAssumption DEF CanGoOn
  <2>2. CASE out[d] # << >>
    BY <1>1, <2>2 DEF CanGoOn
  <2> QED BY <2>1, <2>2
<1>5. CASE rpc[d] = "ended"
  BY <1>1, <1>5 DEF CanGoOn, RelayedInv, EndedIsShut
<1> QED BY <1>2, <1>3, <1>4, <1>5

\* No direction waits for the other, in any state a tunnel can reach.
THEOREM DirectionsNeverStuck == Spec => []NeverStuck
<1>1. Init => RelayedInv
  BY DEF Init, RelayedInv, Connected, Spawned, EndedIsShut, Handshake
<1>2. TunnelInv => TunnelTypeOK
  BY DEF TunnelInv
<1> QED BY <1>1, <1>2, StepRelayed, GoesOn, TunnelInvariant, PTL DEF Spec

\* Steps that leave the pieces and the ends of a direction alone.
LEMMA DrainSame ==
  ASSUME NEW d \in Dirs, wire'[d] = wire[d], buf'[d] = buf[d], out'[d] = out[d],
         rpc'[d] = rpc[d], eof'[d] = eof[d]
  PROVE  ToDrain(d)' = ToDrain(d)
BY DEF ToDrain, ToEnd, ToSee

\* A piece that goes on leaves one step less, as does an end.
LEMMA FewerSteps ==
  \A w, b, o, e, s, w1, b1, o1, e1, s1 :
    /\ {w, b, o, w1, b1, o1} \subseteq Nat /\ {e, s, e1, s1} \subseteq {0, 1}
    /\ \/ w1 < w /\ w1 + b1 = w + b /\ o1 = o /\ e1 = e /\ s1 = s
       \/ w1 = w /\ b1 = b - 1 /\ o1 = o + 1 /\ e1 = e /\ s1 = s
       \/ w1 = w /\ b1 = b /\ o1 <= o /\ e1 <= e /\ s1 <= s
            /\ (o1 < o \/ e1 < e \/ s1 < s)
    => Steps(w1, b1, o1, e1, s1) < Steps(w, b, o, e, s)
BY DEF Steps

\* A step of the relay leaves less to be done ...
LEMMA RelayDrains ==
  ASSUME TunnelInv, NEW d \in Dirs, Relay(d)
  PROVE  ToDrain(d)' < ToDrain(d)
<1>0. /\ Len(wire[d]) \in Nat /\ Len(buf[d]) \in Nat /\ Len(out[d]) \in Nat
      /\ TunnelTypeOK
  BY TypeFacts, LenProperties DEF TunnelInv
<1>1. CASE Read(d)
  <2>1. PICK n \in 1..Len(wire[d]) :
          /\ buf' = [buf EXCEPT ![d] = SubSeq(wire[d], 1, n)]
          /\ wire' = [wire EXCEPT ![d] = SubSeq(wire[d], n + 1, Len(wire[d]))]
    BY <1>1 DEF Read
  <2>2. buf'[d] = SubSeq(wire[d], 1, n) /\ wire'[d] = SubSeq(wire[d], n + 1, Len(wire[d]))
    BY <1>0, <2>1, TypeFacts
  <2>3. Len(buf'[d]) = n /\ Len(wire'[d]) = Len(wire[d]) - n
    <3>1. wire[d] \in Seq(Piece)
      BY <1>0, TypeFacts
    <3> QED BY <1>0, <2>2, <3>1
  <2>4. buf[d] = << >> /\ Len(buf[d]) = 0
    BY <1>1 DEF Read, TunnelInv, ReadsEmpty
  <2>5. /\ rpc'[d] = "write" /\ rpc[d] = "read"
        /\ out' = out /\ eof' = eof
    BY <1>0, <1>1 DEF Read, endVars, TunnelTypeOK
  <2>6. ToEnd(d)' = ToEnd(d) /\ ToEnd(d) = 1 /\ ToSee(d)' = ToSee(d) /\ ToSee(d) \in {0, 1}
    BY <2>5 DEF ToEnd, ToSee
  <2> QED BY <1>0, <2>3, <2>4, <2>5, <2>6, FewerSteps DEF ToDrain
<1>2. CASE Write(d)
  <2>1. buf[d] \in Seq(Piece) /\ out[d] \in Seq(Piece) /\ buf[d] # << >>
    BY <1>0, <1>2, TypeFacts DEF Write, TunnelTypeOK
  <2>2. buf'[d] = Tail(buf[d]) /\ out'[d] = Append(out[d], Head(buf[d]))
    BY <1>0, <1>2, TypeFacts DEF Write
  <2>3. /\ Len(buf'[d]) \in Nat /\ Len(buf'[d]) = Len(buf[d]) - 1
        /\ Len(out'[d]) \in Nat /\ Len(out'[d]) = Len(out[d]) + 1
    <3>1. /\ Head(buf[d]) \in Piece /\ Tail(buf[d]) \in Seq(Piece)
          /\ Len(Tail(buf[d])) = Len(buf[d]) - 1 /\ Len(Tail(buf[d])) \in Nat
      BY <2>1, HeadTailProperties, LenProperties
    <3>2. Len(Append(out[d], Head(buf[d]))) = Len(out[d]) + 1
      BY <2>1, <3>1, AppendProperties
    <3> QED BY <1>0, <2>2, <3>1, <3>2
  <2>4. /\ rpc'[d] # "ended" /\ rpc[d] # "ended"
        /\ wire' = wire /\ eof' = eof
    BY <1>0, <1>2 DEF Write, endVars, TunnelTypeOK
  <2>5. ToEnd(d)' = ToEnd(d) /\ ToEnd(d) = 1 /\ ToSee(d)' = ToSee(d) /\ ToSee(d) \in {0, 1}
    BY <2>4 DEF ToEnd, ToSee
  <2> QED BY <1>0, <2>3, <2>4, <2>5, FewerSteps DEF ToDrain
<1>3. CASE rpc[d] # "ended" /\ EndRelay(d)
  <2>1. rpc'[d] = "ended" /\ UNCHANGED <<wire, buf, out, eof>>
    BY <1>0, <1>3 DEF EndRelay, endVars, TunnelTypeOK
  <2>2. ToEnd(d)' = 0 /\ ToEnd(d) = 1 /\ ToSee(d)' = ToSee(d) /\ ToSee(d) \in {0, 1}
    BY <1>3, <2>1 DEF ToEnd, ToSee
  <2> QED BY <1>0, <2>1, <2>2, FewerSteps DEF ToDrain
<1> QED BY <1>1, <1>2, <1>3 DEF Relay, ReadEnd, ReadFails, WriteFails

\* ... and so does one of the receiver.
LEMMA ReceiverDrains ==
  ASSUME TunnelInv, NEW d \in Dirs, Receive(d) \/ SeeEnd(d) \/ SeeReset(d)
  PROVE  ToDrain(d)' < ToDrain(d)
<1>0. /\ Len(wire[d]) \in Nat /\ Len(buf[d]) \in Nat /\ Len(out[d]) \in Nat
      /\ TunnelTypeOK
  BY TypeFacts, LenProperties DEF TunnelInv
<1>1. CASE Receive(d)
  <2>1. out[d] \in Seq(Piece) /\ out[d] # << >> /\ out'[d] = Tail(out[d])
    BY <1>0, <1>1, TypeFacts DEF Receive
  <2>2. Len(out'[d]) = Len(out[d]) - 1
    BY <2>1, HeadTailProperties
  <2>3. UNCHANGED <<rpc, wire, buf, eof>>
    BY <1>1 DEF Receive, proxyVars
  <2>4. /\ ToEnd(d)' = ToEnd(d) /\ ToEnd(d) \in {0, 1}
        /\ ToSee(d)' = ToSee(d) /\ ToSee(d) \in {0, 1}
    BY <2>3 DEF ToEnd, ToSee
  <2> QED BY <1>0, <2>2, <2>3, <2>4, FewerSteps DEF ToDrain
<1>2. CASE SeeEnd(d) \/ SeeReset(d)
  <2>1. ~eof[d] /\ eof'[d] /\ UNCHANGED <<rpc, wire, buf>>
    BY <1>0, <1>2, TypeFacts DEF SeeEnd, SeeReset, Listens, proxyVars
  <2>2. out'[d] = out[d] \/ out'[d] = << >>
    BY <1>0, <1>2, TypeFacts DEF SeeEnd, SeeReset
  <2>3. Len(out'[d]) \in Nat /\ Len(out'[d]) <= Len(out[d])
    BY <1>0, <2>2
  <2>4. ToEnd(d)' = ToEnd(d) /\ ToEnd(d) \in {0, 1} /\ ToSee(d)' = 0 /\ ToSee(d) = 1
    BY <2>1 DEF ToEnd, ToSee
  <2> QED BY <1>0, <2>1, <2>3, <2>4, FewerSteps DEF ToDrain
<1> QED BY <1>1, <1>2

\* What the others do leaves a closed direction as it is.
LEMMA OthersDrain ==
  ASSUME TunnelInv, NEW d \in Dirs, hpc = "relay", fin[d], Next,
         ~Relay(d), ~Receive(d), ~SeeEnd(d), ~SeeReset(d)
  PROVE  ToDrain(d)' = ToDrain(d)
<1>0. TunnelTypeOK
  BY DEF TunnelInv
<1>1. CASE Handler \/ TorAnswers
  BY <1>1, DrainSame DEF Handler, TorAnswers, ReadHead, ReadVerbOnly, ReadNoHead, Dial,
     DialFails, HandshakeCut, Reply200, ReplyFails, Join, MethodsAnswered, AuthAnswered,
     CommandAnswered, Proceed, Handshake, endVars
<1>2. ASSUME NEW c \in Dirs, Relay(c) PROVE ToDrain(d)' = ToDrain(d)
  <2>1. c # d
    BY <1>2
  <2>2. wire'[d] = wire[d] /\ buf'[d] = buf[d] /\ out'[d] = out[d] /\ rpc'[d] = rpc[d]
    BY <1>0, <1>2, <2>1, TypeFacts
    DEF Relay, Read, ReadEnd, ReadFails, Write, WriteFails, EndRelay
  <2>3. eof' = eof
    BY <1>2 DEF Relay, Read, ReadEnd, ReadFails, Write, WriteFails, EndRelay, endVars
  <2> QED BY <2>2, <2>3, DrainSame
<1>3. CASE \E e \in Ends : Leave(e)
  BY <1>3, DrainSame DEF Leave, proxyVars
<1>4. ASSUME NEW c \in Dirs, Send(c) \/ CloseDir(c) PROVE ToDrain(d)' = ToDrain(d)
  <2>1. wire'[d] = wire[d]
    BY <1>0, <1>4, TypeFacts DEF Send, CloseDir
  <2>2. UNCHANGED <<rpc, buf, out, eof>>
    BY <1>4 DEF Send, CloseDir, proxyVars, endVars
  <2> QED BY <2>1, <2>2, DrainSame
<1>5. ASSUME NEW c \in Dirs, Receive(c) \/ SeeEnd(c) \/ SeeReset(c)
      PROVE  ToDrain(d)' = ToDrain(d)
  <2>1. c # d
    BY <1>5
  <2>2. out'[d] = out[d] /\ eof'[d] = eof[d]
    BY <1>0, <1>5, <2>1, TypeFacts DEF Receive, SeeEnd, SeeReset
  <2>3. UNCHANGED <<rpc, wire, buf>>
    BY <1>5 DEF Receive, SeeEnd, SeeReset, proxyVars
  <2> QED BY <2>2, <2>3, DrainSame
<1> QED BY <1>1, <1>2, <1>3, <1>4, <1>5 DEF Next, Outside

\* A closed direction only ever comes nearer to its end.
THEOREM DirectionsDrain == Spec => DrainsSteadily
<1> DEFINE Step == \A d \in Dirs : hpc = "relay" /\ fin[d] =>
       IF Relay(d) \/ Receive(d) \/ SeeEnd(d) \/ SeeReset(d)
       THEN ToDrain(d)' < ToDrain(d) ELSE ToDrain(d)' = ToDrain(d)
<1>1. TunnelInv /\ [Next]_vars => [Step]_vars
  BY RelayDrains, ReceiverDrains, OthersDrain
<1>2. [][Step]_vars => DrainsSteadily
  BY DEF DrainsSteadily
<1> QED BY <1>1, <1>2, TunnelInvariant, PTL DEF Spec

-----------------------------------------------------------------------------
(* What LeavingEnds rests on: when the browser has left, nobody but Tor is *)
(* waited for.                                                             *)

\* The relay of a direction has a step: a call on its sockets that returns.
RelayReady(d) ==
  \/ rpc[d] = "read" /\ (wire[d] # << >> \/ fin[d] \/ gone[Sender[d]])
  \/ rpc[d] = "write" /\ (Len(out[d]) < Window \/ gone[Receiver[d]])

\* A browser that has left keeps no relay waiting: both have ended and are
\* joined, or one of them has a step, or Tor has something to take or the end to
\* see, or it has seen the end and has not closed its own direction yet.
LeavingNotStuck ==
  hpc = "relay" /\ gone["browser"] =>
    \/ \A d \in Dirs : rpc[d] = "ended"
    \/ \E d \in Dirs : RelayReady(d)
    \/ Listens("up") /\ (out["up"] # << >> \/ shut["up"])
    \/ eof["up"] /\ ~fin["down"] /\ ~gone["tor"]

\* The relay of the browser's direction fails or ends; then Tor is told, and the
\* relay of the answer ends when Tor has closed or when it has to write.
LEMMA OnlyTorIsAwaited ==
  ASSUME TunnelInv, RelayedInv
  PROVE  LeavingNotStuck
<1> SUFFICES ASSUME hpc = "relay", gone["browser"]
             PROVE  \/ \A d \in Dirs : rpc[d] = "ended"
                    \/ \E d \in Dirs : RelayReady(d)
                    \/ Listens("up") /\ (out["up"] # << >> \/ shut["up"])
                    \/ eof["up"] /\ ~fin["down"] /\ ~gone["tor"]
  BY DEF LeavingNotStuck
<1>1. /\ \A d \in Dirs : rpc[d] \in {"read", "write", "ended"}
      /\ \A d \in Dirs : rpc[d] = "ended" => shut[d]
      /\ \A d \in Dirs : eof[d] => rpc[d] = "ended"
      /\ conn = Ends
  BY DEF RelayedInv, Spawned, EndedIsShut, Connected, TunnelInv, TunnelTypeOK, EofIsShut,
         ShutByRelay
<1>2. /\ "up" \in Dirs /\ "down" \in Dirs
      /\ Sender["up"] = "browser" /\ Receiver["up"] = "tor"
      /\ Sender["down"] = "tor" /\ Receiver["down"] = "browser"
      /\ "tor" \in Ends
  BY DEF Dirs, Sender, Receiver, Ends
<1>3. CASE rpc["up"] = "read"
  BY <1>2, <1>3 DEF RelayReady
<1>4. CASE rpc["up"] = "write"
  <2>1. CASE gone["tor"]
    BY <1>2, <1>4, <2>1 DEF RelayReady
  <2>2. CASE ~gone["tor"] /\ out["up"] # << >>
    BY <1>1, <1>2, <1>4, <2>2 DEF Listens
  <2>3. CASE out["up"] = << >>
    <3>1. Len(out["up"]) = 0
      BY <2>3
    <3> QED BY <1>2, <1>4, <3>1, BufferAssumption DEF RelayReady
  <2> QED BY <2>1, <2>2, <2>3
<1>5. CASE rpc["up"] = "ended" /\ rpc["down"] = "write"
  BY <1>2, <1>5 DEF RelayReady
<1>6. CASE rpc["up"] = "ended" /\ rpc["down"] = "read"
  <2>1. CASE fin["down"] \/ gone["tor"]
    BY <1>2, <1>6, <2>1 DEF RelayReady
  <2>2. CASE ~gone["tor"] /\ ~eof["up"]
    BY <1>1, <1>2, <1>6, <2>2 DEF Listens
  <2> QED BY <2>1, <2>2
<1>7. CASE rpc["up"] = "ended" /\ rpc["down"] = "ended"
  BY <1>7 DEF Dirs
<1> QED BY <1>1, <1>2, <1>3, <1>4, <1>5, <1>6, <1>7

\* A browser that leaves never leaves a relay behind that waits for anyone but
\* Tor, in any state a tunnel can reach.
THEOREM LeavingNeverStuck == Spec => []LeavingNotStuck
<1>1. Init => RelayedInv
  BY DEF Init, RelayedInv, Connected, Spawned, EndedIsShut, Handshake
<1>2. TunnelInv => TunnelTypeOK
  BY DEF TunnelInv
<1> QED BY <1>1, <1>2, StepRelayed, OnlyTorIsAwaited, TunnelInvariant, PTL DEF Spec
===============================================================================
