----------------------------- MODULE ProxyProofs -----------------------------
(***************************************************************************)
(* What is proved of the local HTTP proxy for every number of connections  *)
(* and of descriptors: what stop() stops, how an answer is framed, that    *)
(* every connection goes the way of a connection whatever the others do,   *)
(* that those who wait are accepted in turn, and that each comes to an end *)
(* within eight steps.                                                     *)
(***************************************************************************)
EXTENDS Proxy, SequenceTheorems, TLAPS

AllPhases == Outer \cup {"new", "dial", "shake", "relay", "fetch", "wait", "answer", "over"}

\* What the steps of one connection, and of the loop, rely on.
PhaseInv ==
  /\ active \in BOOLEAN /\ exited \in BOOLEAN
  /\ loop \in {"bind", "check", "accept", "ended"}
  /\ phase \in [Conns -> AllPhases]
  /\ open \in [Conns -> SUBSET Dirs]
  /\ \A c \in Conns : phase[c] # "relay" => open[c] = {}

\* Who waits is in the queue, once.
Waiting   == {c \in Conns : phase[c] = "queued"}
Queued(q) == {q[n] : n \in DOMAIN q}
Once(q)   == \A m, n \in DOMAIN q : q[m] = q[n] => m = n

\* The backlog holds the connections that wait, and no other.
QueueInv ==
  /\ backlog \in Seq(Conns)
  /\ Once(backlog)
  /\ Queued(backlog) = Waiting

\* Only an accept that was entered while the flag was set can still succeed.
LateInv ==
  /\ late \in {0, 1}
  /\ active => late = 0
  /\ loop = "accept" => late = 0

\* Whoever was answered was told what Told says.
ToldInv ==
  told \in [Conns -> {NoAnswer} \cup
                     {Told(bare, resp) : bare \in BOOLEAN, resp \in Response}]

\* The invariants give the types.
LEMMA TypeIsInvariants ==
  PhaseInv /\ QueueInv /\ LateInv => ProxyTypeOK
<1> SUFFICES ASSUME PhaseInv, QueueInv, LateInv PROVE ProxyTypeOK
  OBVIOUS
<1>1. late \in Nat
  BY DEF LateInv
<1> QED BY <1>1 DEF PhaseInv, QueueInv, ProxyTypeOK, AllPhases, Once, Queued, Waiting

-----------------------------------------------------------------------------
(* Phases and directions *)

\* Before the program starts every browser is away and holds nothing.
LEMMA InitPhase == ProxyInit => PhaseInv
BY DEF ProxyInit, PhaseInv, AllPhases, Outer

\* A step of one connection: it changes no other one.
LEMMA MovePhase ==
  ASSUME PhaseInv, NEW c \in Conns, NEW from, NEW to \in AllPhases \ {"relay"},
         from # "relay", Move(c, from, to), open' = open,
         active' = active, exited' = exited, loop' \in {"bind", "check", "accept", "ended"}
  PROVE  PhaseInv'
BY DEF PhaseInv, Move

\* The accept loop keeps PhaseInv.
LEMMA ServePhase == PhaseInv /\ QueueInv /\ Serve => PhaseInv'
<1> SUFFICES ASSUME PhaseInv, QueueInv, Serve PROVE PhaseInv'
  OBVIOUS
<1>1. CASE Bind
  BY <1>1 DEF Bind, PhaseInv
<1>2. CASE CheckActive
  BY <1>2 DEF CheckActive, PhaseInv
<1>3. CASE EndLoop
  BY <1>3 DEF EndLoop, PhaseInv, AllPhases
<1>4. CASE Accept
  <2>1. Head(backlog) \in Conns
    BY <1>4, HeadTailProperties DEF Accept, QueueInv
  <2> QED BY <1>4, <2>1, MovePhase DEF Accept, AllPhases
<1>5. CASE AcceptFails
  BY <1>5 DEF AcceptFails, PhaseInv
<1> QED BY <1>1, <1>2, <1>3, <1>4, <1>5 DEF Serve

\* A task leaves the loop, the queue and the history alone.
LEMMA TaskPhase ==
  ASSUME PhaseInv, NEW c \in Conns, NEW from, NEW to \in AllPhases \ {"relay"},
         from # "relay", Move(c, from, to), Task(c)
  PROVE  PhaseInv'
BY MovePhase DEF Task, serverVars, PhaseInv

\* A task that is polled keeps it.
LEMMA PollPhase ==
  ASSUME PhaseInv, NEW c \in Conns, Poll(c)
  PROVE  PhaseInv'
<1>1. CASE Dial(c)
  BY <1>1, TaskPhase DEF Dial, GiveUp, AllPhases
<1>2. CASE FetchDial(c)
  BY <1>2, TaskPhase DEF FetchDial, GiveUp, AllPhases
<1>3. CASE TimesOut(c)
  BY <1>3, TaskPhase DEF TimesOut, GiveUp, AllPhases
<1>4. CASE Close(c)
  BY <1>4 DEF Close, Move, Task, serverVars, PhaseInv, AllPhases
<1> QED BY <1>1, <1>2, <1>3, <1>4 DEF Poll

\* What comes from outside keeps it.
LEMMA OutsidePhase ==
  ASSUME PhaseInv, NEW c \in Conns, Outside(c)
  PROVE  PhaseInv'
<1>1. CASE Connect(c)
  BY <1>1, MovePhase DEF Connect, AllPhases, Outer, PhaseInv
<1>2. CASE Ask(c)
  BY <1>2, TaskPhase DEF Ask, AskNothing, AskTunnel, AskPlain, GiveUp, AllPhases
<1>3. CASE Shake(c)
  <2>1. CASE GiveUp(c, "shake")
    BY <2>1, TaskPhase DEF GiveUp, AllPhases
  <2>2. CASE /\ Move(c, "shake", "relay")
             /\ open' = [open EXCEPT ![c] = Dirs]
             /\ UNCHANGED <<serverVars, told>>
    BY <2>2 DEF Move, serverVars, PhaseInv, AllPhases
  <2> QED BY <1>3, <2>1, <2>2 DEF Shake
<1>4. CASE EndDirection(c)
  <2>1. PICK d \in open[c] : open' = [open EXCEPT ![c] = @ \ {d}]
    BY <1>4 DEF EndDirection
  <2> QED BY <1>4, <2>1 DEF EndDirection, serverVars, PhaseInv
<1>5. CASE Fetched(c)
  BY <1>5, TaskPhase DEF Fetched, GiveUp, AllPhases
<1>6. CASE Read(c)
  BY <1>6, TaskPhase, MovePhase DEF Read, GiveUp, AllPhases, serverVars, PhaseInv
<1> QED BY <1>1, <1>2, <1>3, <1>4, <1>5, <1>6 DEF Outside

\* Every step keeps PhaseInv.
LEMMA StepPhase == PhaseInv /\ QueueInv /\ [ProxyNext]_proxyVars => PhaseInv'
<1> SUFFICES ASSUME PhaseInv, QueueInv, [ProxyNext]_proxyVars PROVE PhaseInv'
  OBVIOUS
<1>1. CASE Serve
  BY <1>1, ServePhase
<1>2. CASE Stop
  BY <1>2 DEF Stop, PhaseInv
<1>3. CASE Exit
  BY <1>3 DEF Exit, PhaseInv, AllPhases, Outer
<1>4. CASE \E c \in Conns : Poll(c) \/ Outside(c)
  BY <1>4, PollPhase, OutsidePhase
<1>5. CASE UNCHANGED proxyVars
  BY <1>5 DEF proxyVars, PhaseInv
<1> QED BY <1>1, <1>2, <1>3, <1>4, <1>5 DEF ProxyNext

-----------------------------------------------------------------------------
(* The queue *)

\* The backlog is empty, and nobody waits.
LEMMA InitQueue == ProxyInit => QueueInv
<1> SUFFICES ASSUME ProxyInit PROVE QueueInv
  OBVIOUS
<1>1. backlog = << >> /\ DOMAIN backlog = {} /\ backlog \in Seq(Conns)
  BY DEF ProxyInit
<1>2. Waiting = {}
  BY DEF ProxyInit, Waiting
<1> QED BY <1>1, <1>2 DEF QueueInv, Once, Queued

\* An empty queue is right when nobody waits.
LEMMA EmptyQueue ==
  ASSUME backlog' = << >>, Waiting' = {}
  PROVE  QueueInv'
<1>1. << >> \in Seq(Conns) /\ DOMAIN << >> = {}
  OBVIOUS
<1> QED BY <1>1 DEF QueueInv, Once, Queued

\* Whoever joins a queue it is not in is in it once.
LEMMA JoinQueue ==
  ASSUME NEW q \in Seq(Conns), Once(q), NEW c \in Conns, c \notin Queued(q)
  PROVE  /\ Append(q, c) \in Seq(Conns)
         /\ Once(Append(q, c))
         /\ Queued(Append(q, c)) = Queued(q) \cup {c}
<1> DEFINE a == Append(q, c)
<1>1. Len(q) \in Nat /\ DOMAIN q = 1..Len(q)
  BY LenProperties
<1>2. /\ a \in Seq(Conns) /\ DOMAIN a = 1..(Len(q) + 1)
      /\ \A n \in 1..Len(q) : a[n] = q[n]
      /\ a[Len(q) + 1] = c
  BY <1>1, AppendProperties, LenProperties
<1>3. \A n \in DOMAIN a : n \in DOMAIN q \/ n = Len(q) + 1
  BY <1>1, <1>2
<1>4. \A n \in DOMAIN q : n \in DOMAIN a /\ a[n] = q[n] /\ a[n] # c
  BY <1>1, <1>2 DEF Queued
<1> HIDE DEF a
<1>5. Once(a)
  <2> SUFFICES ASSUME NEW m \in DOMAIN a, NEW n \in DOMAIN a, a[m] = a[n] PROVE m = n
    BY DEF Once
  <2> QED BY <1>2, <1>3, <1>4 DEF Once
<1>6. Queued(a) = Queued(q) \cup {c}
  <2>1. \A x \in Queued(a) : x \in Queued(q) \cup {c}
    BY <1>2, <1>3, <1>4 DEF Queued
  <2>2. \A x \in Queued(q) : x \in Queued(a)
    BY <1>4 DEF Queued
  <2>3. Len(q) + 1 \in DOMAIN a
    BY <1>1, <1>2
  <2>4. c \in Queued(a)
    BY <1>2, <2>3 DEF Queued
  <2> QED BY <2>1, <2>2, <2>4
<1> QED BY <1>2, <1>5, <1>6 DEF a

\* Whoever leaves at the head of a queue it is in once is no longer in it.
LEMMA LeaveQueue ==
  ASSUME NEW q \in Seq(Conns), Once(q), q # << >>
  PROVE  /\ Tail(q) \in Seq(Conns)
         /\ Once(Tail(q))
         /\ Head(q) \in Queued(q)
         /\ Queued(Tail(q)) = Queued(q) \ {Head(q)}
<1> DEFINE t == Tail(q)
<1>1. /\ Len(q) \in Nat \ {0} /\ DOMAIN q = 1..Len(q)
      /\ Head(q) = q[1] /\ 1 \in DOMAIN q
  BY LenProperties, EmptySeq
<1>2. /\ t \in Seq(Conns) /\ DOMAIN t = 1..(Len(q) - 1)
      /\ \A n \in 1..(Len(q) - 1) : t[n] = q[n + 1]
  BY <1>1, HeadTailProperties, LenProperties
<1>3. \A n \in DOMAIN t : n \in Nat /\ n + 1 \in DOMAIN q /\ n + 1 # 1 /\ t[n] = q[n + 1]
  BY <1>1, <1>2
<1>4. \A n \in DOMAIN q : n # 1 => n - 1 \in DOMAIN t /\ t[n - 1] = q[n]
  BY <1>1, <1>2
<1> HIDE DEF t
<1>5. Once(t)
  <2> SUFFICES ASSUME NEW m \in DOMAIN t, NEW n \in DOMAIN t, t[m] = t[n] PROVE m = n
    BY DEF Once
  <2>1. m + 1 = n + 1
    BY <1>3 DEF Once
  <2> QED BY <1>3, <2>1
<1>6. Queued(t) = Queued(q) \ {Head(q)}
  <2>1. \A x \in Queued(t) : x \in Queued(q) /\ x # q[1]
    BY <1>1, <1>3 DEF Queued, Once
  <2>2. \A x \in Queued(q) : x # q[1] => x \in Queued(t)
    BY <1>4 DEF Queued
  <2> QED BY <1>1, <2>1, <2>2
<1> QED BY <1>1, <1>2, <1>5, <1>6 DEF t, Queued

\* A connection that is not queued, before or after, leaves the queue right.
LEMMA MoveElsewhere ==
  ASSUME PhaseInv, QueueInv, NEW c \in Conns, NEW from, NEW to,
         from # "queued", to # "queued", Move(c, from, to), backlog' = backlog
  PROVE  QueueInv'
<1>1. Waiting' = Waiting
  BY DEF PhaseInv, Move, Waiting
<1> QED BY <1>1 DEF QueueInv, Once, Queued

\* Neither does a step that changes no phase.
LEMMA StayQueued ==
  ASSUME QueueInv, phase' = phase, backlog' = backlog
  PROVE  QueueInv'
BY DEF QueueInv, Once, Queued, Waiting

\* The accept loop keeps QueueInv.
LEMMA ServeQueue == PhaseInv /\ QueueInv /\ Serve => QueueInv'
<1> SUFFICES ASSUME PhaseInv, QueueInv, Serve PROVE QueueInv'
  OBVIOUS
<1>1. CASE Bind \/ CheckActive \/ AcceptFails
  BY <1>1, StayQueued DEF Bind, CheckActive, AcceptFails
<1>2. CASE EndLoop
  <2>1. Waiting' = {}
    BY <1>2 DEF EndLoop, Waiting
  <2> QED BY <1>2, <2>1, EmptyQueue DEF EndLoop
<1>3. CASE Accept
  <2>1. /\ Tail(backlog) \in Seq(Conns) /\ Once(Tail(backlog))
        /\ Head(backlog) \in Waiting
        /\ Queued(Tail(backlog)) = Waiting \ {Head(backlog)}
    BY <1>3, LeaveQueue DEF Accept, QueueInv
  <2>2. Waiting' = Waiting \ {Head(backlog)}
    BY <1>3, <2>1 DEF Accept, Move, Waiting, PhaseInv
  <2>3. backlog' = Tail(backlog)
    BY <1>3 DEF Accept
  <2>4. Once(backlog)' /\ Queued(backlog)' = Queued(Tail(backlog))
    BY <2>1, <2>3 DEF Once, Queued
  <2> QED BY <2>1, <2>2, <2>3, <2>4 DEF QueueInv
<1> QED BY <1>1, <1>2, <1>3 DEF Serve

\* The tasks do not touch the backlog.
LEMMA TaskQueue ==
  ASSUME PhaseInv, QueueInv, NEW c \in Conns, Poll(c) \/ Ask(c) \/ Shake(c) \/ EndDirection(c)
                                             \/ Fetched(c) \/ Read(c)
  PROVE  QueueInv'
<1>1. CASE Poll(c)
  BY <1>1, MoveElsewhere DEF Poll, Dial, FetchDial, TimesOut, Close, GiveUp, Task, serverVars
<1>2. CASE Ask(c)
  BY <1>2, MoveElsewhere DEF Ask, AskNothing, AskTunnel, AskPlain, GiveUp, Task, serverVars
<1>3. CASE Shake(c) \/ Fetched(c) \/ Read(c)
  BY <1>3, MoveElsewhere DEF Shake, Fetched, Read, GiveUp, Task, serverVars
<1>4. CASE EndDirection(c)
  BY <1>4, StayQueued DEF EndDirection, serverVars
<1> QED BY <1>1, <1>2, <1>3, <1>4

\* Every step keeps QueueInv.
LEMMA StepQueue == PhaseInv /\ QueueInv /\ [ProxyNext]_proxyVars => QueueInv'
<1> SUFFICES ASSUME PhaseInv, QueueInv, [ProxyNext]_proxyVars PROVE QueueInv'
  OBVIOUS
<1>1. CASE Serve
  BY <1>1, ServeQueue
<1>2. CASE Stop \/ UNCHANGED proxyVars
  BY <1>2, StayQueued DEF Stop, proxyVars
<1>3. CASE Exit
  <2>1. Waiting' = {}
    BY <1>3 DEF Exit, Waiting
  <2> QED BY <1>3, <2>1, EmptyQueue DEF Exit
<1>4. ASSUME NEW c \in Conns, Connect(c) PROVE QueueInv'
  <2>1. c \notin Waiting /\ Waiting' = Waiting \cup {c}
    BY <1>4 DEF Connect, Move, Waiting, PhaseInv
  <2>2. /\ Append(backlog, c) \in Seq(Conns) /\ Once(Append(backlog, c))
        /\ Queued(Append(backlog, c)) = Waiting \cup {c}
    BY <2>1, JoinQueue DEF QueueInv
  <2>3. backlog' = Append(backlog, c)
    BY <1>4 DEF Connect
  <2>4. Once(backlog)' /\ Queued(backlog)' = Queued(Append(backlog, c))
    BY <2>2, <2>3 DEF Once, Queued
  <2> QED BY <2>1, <2>2, <2>3, <2>4 DEF QueueInv
<1> QED BY <1>1, <1>2, <1>3, <1>4, TaskQueue DEF ProxyNext, Outside

-----------------------------------------------------------------------------
(* Accepting after stop() *)

\* Nothing has been accepted after a stop() that has not come.
LEMMA InitLate == ProxyInit => LateInv
BY DEF ProxyInit, LateInv

\* Every step keeps LateInv.
LEMMA StepLate == PhaseInv /\ LateInv /\ [ProxyNext]_proxyVars => LateInv'
<1> SUFFICES ASSUME PhaseInv, LateInv, [ProxyNext]_proxyVars PROVE LateInv'
  OBVIOUS
<1>1. CASE Serve
  <2>1. CASE Accept
    BY <1>1, <2>1 DEF Accept, LateInv
  <2> QED BY <1>1, <2>1 DEF Serve, Bind, CheckActive, EndLoop, AcceptFails, LateInv
<1>2. CASE Stop \/ Exit \/ UNCHANGED proxyVars
  BY <1>2 DEF Stop, Exit, proxyVars, LateInv
<1>3. ASSUME NEW c \in Conns, Poll(c) PROVE LateInv'
  BY <1>3 DEF Poll, Dial, FetchDial, TimesOut, Close, GiveUp, Task, serverVars, LateInv
<1>4. ASSUME NEW c \in Conns, Outside(c) PROVE LateInv'
  <2>1. CASE Connect(c)
    BY <2>1 DEF Connect, LateInv
  <2>2. CASE Ask(c)
    BY <2>2 DEF Ask, AskNothing, AskTunnel, AskPlain, GiveUp, Task, serverVars, LateInv
  <2>3. CASE Shake(c) \/ EndDirection(c) \/ Fetched(c) \/ Read(c)
    BY <2>3 DEF Shake, EndDirection, Fetched, Read, GiveUp, Task, serverVars, LateInv
  <2> QED BY <1>4, <2>1, <2>2, <2>3 DEF Outside
<1> QED BY <1>1, <1>2, <1>3, <1>4 DEF ProxyNext

-----------------------------------------------------------------------------
(* What browsers are told *)

\* No browser has been told anything.
LEMMA InitTold == ProxyInit => ToldInv
BY DEF ProxyInit, ToldInv

\* Every step keeps ToldInv.
LEMMA StepTold == ToldInv /\ [ProxyNext]_proxyVars => ToldInv'
<1> SUFFICES ASSUME ToldInv, [ProxyNext]_proxyVars PROVE ToldInv'
  OBVIOUS
<1>1. told' = told => ToldInv'
  BY DEF ToldInv
<1>2. CASE Serve \/ Stop \/ Exit \/ UNCHANGED proxyVars
  BY <1>1, <1>2 DEF Serve, Bind, CheckActive, EndLoop, Accept, AcceptFails, Stop, Exit, proxyVars
<1>3. ASSUME NEW c \in Conns, Poll(c) PROVE ToldInv'
  BY <1>1, <1>3 DEF Poll, Dial, FetchDial, TimesOut, Close, GiveUp, Task
<1>4. ASSUME NEW c \in Conns, Outside(c) PROVE ToldInv'
  <2>1. CASE Read(c)
    <3>1. CASE GiveUp(c, "answer")
      BY <1>1, <3>1 DEF GiveUp, Task
    <3>2. CASE \E bare \in BOOLEAN, resp \in Response :
                 told' = [told EXCEPT ![c] = Told(bare, resp)]
      BY <3>2 DEF ToldInv
    <3> QED BY <2>1, <3>1, <3>2 DEF Read
  <2>2. CASE Connect(c) \/ Ask(c) \/ Shake(c) \/ EndDirection(c) \/ Fetched(c)
    BY <1>1, <2>2 DEF Connect, Ask, AskNothing, AskTunnel, AskPlain, Shake, EndDirection,
                      Fetched, GiveUp, Task
  <2> QED BY <1>4, <2>1, <2>2 DEF Outside
<1> QED BY <1>2, <1>3, <1>4 DEF ProxyNext

\* Of an answer with a body, one length is told, the one of the body.
LEMMA ToldOneLength ==
  ASSUME NEW bare \in BOOLEAN, NEW resp \in Response, ~Told(bare, resp).bare
  PROVE  Told(bare, resp).lengths = {Told(bare, resp).body} /\ ~Told(bare, resp).chunked
BY DEF Told, Passed, Bytes

-----------------------------------------------------------------------------
(* One connection *)

\* A connection, seen on its own.
OneStep(c) == [One(c)!Next]_(One(c)!connectionVars)

\* A step that shows neither in its phase nor in its directions.
LEMMA NotSeen ==
  ASSUME NEW c \in Conns, phase'[c] = phase[c], open'[c] = open[c], exited' = exited
  PROVE  OneStep(c)
BY DEF OneStep, One!connectionVars

\* A connection goes from one of its own phases to the next.
LEMMA Moves ==
  ASSUME PhaseInv, NEW c \in Conns, NEW from \in AllPhases, NEW to \in AllPhases,
         <<from, to>> \in {<<"away", "queued">>, <<"queued", "new">>, <<"queued", "over">>,
           <<"new", "dial">>, <<"new", "fetch">>, <<"new", "over">>, <<"dial", "shake">>,
           <<"dial", "over">>, <<"fetch", "wait">>, <<"fetch", "over">>, <<"shake", "over">>,
           <<"wait", "answer">>, <<"wait", "over">>, <<"answer", "over">>},
         phase[c] = from, phase'[c] = to, open'[c] = open[c], exited' = exited
  PROVE  OneStep(c)
BY DEF OneStep, One!Next, One!Begin, One!Reach, One!Answer, One!GiveUp, One!Move, AllPhases,
       One!connectionVars, Outer
\* A step of another connection does not show.
LEMMA OthersMove ==
  ASSUME PhaseInv, NEW c \in Conns, NEW b \in Conns, b # c, NEW to,
         phase' = phase \/ phase' = [phase EXCEPT ![b] = to],
         open' = open \/ \E s \in SUBSET Dirs : open' = [open EXCEPT ![b] = s],
         exited' = exited
  PROVE  OneStep(c)
<1>1. phase'[c] = phase[c] /\ open'[c] = open[c]
  BY DEF PhaseInv
<1> QED BY <1>1, NotSeen

\* A task that gives up shows as that, or not at all.
LEMMA GivesUp ==
  ASSUME PhaseInv, NEW c \in Conns, NEW b \in Conns,
         NEW from \in {"new", "dial", "fetch", "shake", "wait", "answer"},
         NEW to \in {"dial", "fetch", "shake", "wait", "answer", "over"},
         <<from, to>> \in {<<"new", "dial">>, <<"new", "fetch">>, <<"dial", "shake">>,
                           <<"fetch", "wait">>, <<"wait", "answer">>} \/ to = "over",
         Move(b, from, to), open' = open, exited' = exited
  PROVE  OneStep(c)
<1>1. CASE b = c
  <2>1. phase[c] = from /\ phase'[c] = to /\ open'[c] = open[c]
    BY <1>1 DEF Move, PhaseInv
  <2> QED BY <2>1, Moves DEF AllPhases
<1>2. CASE b # c
  BY <1>2, OthersMove DEF Move
<1> QED BY <1>1, <1>2

\* To one connection, the accept loop is a step of its own or none.
LEMMA ServeOne ==
  ASSUME PhaseInv, QueueInv, Serve, NEW c \in Conns
  PROVE  OneStep(c)
<1>1. CASE Bind \/ CheckActive \/ AcceptFails
  BY <1>1, NotSeen DEF Bind, CheckActive, AcceptFails
<1>2. CASE EndLoop
  <2>1. CASE phase[c] = "queued"
    <3>1. phase'[c] = "over" /\ open'[c] = open[c] /\ exited' = exited
      BY <1>2, <2>1 DEF EndLoop
    <3> QED BY <2>1, <3>1, Moves DEF AllPhases, Outer
  <2>2. CASE phase[c] # "queued"
    BY <1>2, <2>2, NotSeen DEF EndLoop
  <2> QED BY <2>1, <2>2
<1>3. CASE Accept
  <2>1. Head(backlog) \in Conns
    BY <1>3, HeadTailProperties DEF Accept, QueueInv
  <2>2. CASE Head(backlog) = c
    <3>1. phase[c] = "queued" /\ phase'[c] = "new" /\ open'[c] = open[c] /\ exited' = exited
      BY <1>3, <2>2 DEF Accept, Move, PhaseInv
    <3> QED BY <3>1, Moves DEF AllPhases, Outer
  <2>3. CASE Head(backlog) # c
    BY <1>3, <2>1, <2>3, OthersMove DEF Accept, Move
  <2> QED BY <2>2, <2>3
<1> QED BY <1>1, <1>2, <1>3 DEF Serve

\* So is the poll of a task, its own or that of another.
LEMMA PollOne ==
  ASSUME PhaseInv, NEW b \in Conns, Poll(b), NEW c \in Conns
  PROVE  OneStep(c)
<1>1. CASE Dial(b) \/ FetchDial(b) \/ TimesOut(b)
  BY <1>1, GivesUp DEF Dial, FetchDial, TimesOut, GiveUp, Task, serverVars
<1>2. CASE Close(b)
  <2>1. CASE b = c
    <3>1. /\ phase[c] = "relay" /\ phase'[c] = "over"
          /\ open[c] = {} /\ open'[c] = {} /\ exited' = exited
      BY <1>2, <2>1 DEF Close, Move, Task, serverVars, PhaseInv
    <3> QED BY <3>1 DEF OneStep, One!Next, One!Close, One!Move, Outer
  <2>2. CASE b # c
    BY <1>2, <2>2, OthersMove DEF Close, Move, Task, serverVars
  <2> QED BY <2>1, <2>2
<1> QED BY <1>1, <1>2 DEF Poll

\* So is what comes from outside.
LEMMA OutsideOne ==
  ASSUME PhaseInv, NEW b \in Conns, Outside(b), NEW c \in Conns
  PROVE  OneStep(c)
<1>1. CASE Connect(b)
  <2>1. CASE b = c
    <3>1. /\ phase[c] = "away" /\ phase'[c] = "queued"
          /\ open'[c] = open[c] /\ exited' = exited
      BY <1>1, <2>1 DEF Connect, Move, PhaseInv
    <3> QED BY <3>1, Moves DEF AllPhases, Outer
  <2>2. CASE b # c
    BY <1>1, <2>2, OthersMove DEF Connect, Move
  <2> QED BY <2>1, <2>2
<1>2. CASE Ask(b)
  BY <1>2, GivesUp DEF Ask, AskNothing, AskTunnel, AskPlain, GiveUp, Task, serverVars
<1>3. CASE Shake(b)
  <2>1. CASE GiveUp(b, "shake")
    BY <2>1, GivesUp DEF GiveUp, Task, serverVars
  <2>2. CASE /\ Move(b, "shake", "relay")
             /\ open' = [open EXCEPT ![b] = Dirs]
             /\ exited' = exited
    <3>1. CASE b = c
      <4>1. /\ phase[c] = "shake" /\ phase'[c] = "relay"
            /\ open'[c] = Dirs
        BY <2>2, <3>1 DEF Move, PhaseInv
      <4> QED BY <2>2, <4>1 DEF OneStep, One!Next, One!Establish, Outer
    <3>2. CASE b # c
      BY <2>2, <3>2, OthersMove DEF Move
    <3> QED BY <3>1, <3>2
  <2> QED BY <1>3, <2>1, <2>2 DEF Shake, serverVars
<1>4. CASE EndDirection(b)
  <2>1. PICK d \in open[b] : open' = [open EXCEPT ![b] = open[b] \ {d}]
    BY <1>4 DEF EndDirection
  <2>2. /\ phase' = phase /\ exited' = exited /\ phase[b] = "relay"
        /\ open[b] \ {d} \in SUBSET Dirs
    BY <1>4 DEF EndDirection, serverVars, PhaseInv
  <2>3. CASE b = c
    <3>1. phase'[c] = "relay" /\ phase[c] = "relay" /\ open'[c] = open[c] \ {d} /\ d \in open[c]
      BY <2>1, <2>2, <2>3 DEF PhaseInv
    <3> QED BY <2>2, <3>1 DEF OneStep, One!Next, One!EndDirection, Outer
  <2>4. CASE b # c
    BY <2>1, <2>2, <2>4, OthersMove
  <2> QED BY <2>3, <2>4
<1>5. CASE Fetched(b)
  BY <1>5, GivesUp DEF Fetched, GiveUp, Task, serverVars
<1>6. CASE Read(b)
  BY <1>6, GivesUp DEF Read, GiveUp, Task, serverVars
<1> QED BY <1>1, <1>2, <1>3, <1>4, <1>5, <1>6 DEF Outside

\* So is every step.
LEMMA StepOne ==
  ASSUME PhaseInv, QueueInv, [ProxyNext]_proxyVars, NEW c \in Conns
  PROVE  OneStep(c)
<1>1. CASE Serve
  BY <1>1, ServeOne
<1>2. CASE Stop \/ UNCHANGED proxyVars
  BY <1>2, NotSeen DEF Stop, proxyVars
<1>3. CASE Exit
  <2>1. /\ exited' = TRUE /\ exited = FALSE /\ open'[c] = {}
        /\ phase'[c] = IF phase[c] = "away" THEN "away" ELSE "over"
    BY <1>3 DEF Exit, PhaseInv
  <2> QED BY <2>1 DEF OneStep, One!Next, One!Cut, Outer
<1>4. CASE \E b \in Conns : Poll(b) \/ Outside(b)
  BY <1>4, PollOne, OutsideOne
<1> QED BY <1>1, <1>2, <1>3, <1>4 DEF ProxyNext

-----------------------------------------------------------------------------
(* The theorems *)

\* The four parts of the invariant hold together in every reachable state.
LEMMA ProxyInvariant == ProxySpec => [](PhaseInv /\ QueueInv /\ LateInv /\ ToldInv)
<1> DEFINE Inv == PhaseInv /\ QueueInv /\ LateInv /\ ToldInv
<1>1. ProxyInit => Inv
  BY InitPhase, InitQueue, InitLate, InitTold
<1>2. Inv /\ [ProxyNext]_proxyVars => Inv'
  BY StepPhase, StepQueue, StepLate, StepTold
<1> QED BY <1>1, <1>2, PTL DEF ProxySpec

\* Every reachable state of the proxy is typed, and the kernel's queue holds
\* who waits in it, each once, however connections, stop() and the end of the
\* program interleave.
THEOREM ProxyTypeCorrect == ProxySpec => []ProxyTypeOK
BY ProxyInvariant, TypeIsInvariants, PTL

\* After stop() one connection more is accepted at most, in every interleaving
\* with serve's loop and with any number of connections.
THEOREM StopAlwaysHolds == ProxySpec => []StopHolds
<1>1. LateInv => StopHolds
  BY DEF LateInv, StopHolds
<1> QED BY <1>1, ProxyInvariant, PTL

\* A browser is never told two lengths, nor another one than that of the body
\* it is sent, unless what it asked for has no body.
THEOREM AnswersFramed == ProxySpec => []AnswerFramed
<1>1. ToldInv => AnswerFramed
  <2> SUFFICES ASSUME ToldInv, NEW c \in Conns, told[c] # NoAnswer, ~told[c].bare
               PROVE  told[c].lengths = {told[c].body} /\ ~told[c].chunked
    BY DEF AnswerFramed
  <2>1. PICK bare \in BOOLEAN, resp \in Response : told[c] = Told(bare, resp)
    BY DEF ToldInv
  <2> QED BY <2>1, ToldOneLength
<1> QED BY <1>1, ProxyInvariant, PTL

\* The proxy implements Connection for each of its connections, whatever the
\* loop, the other connections and the end of the program do.
THEOREM ConnectionsIndependent == ProxySpec => IsConnection
<1>1. ProxyInit => \A c \in Conns : One(c)!Init
  BY DEF ProxyInit, One!Init, Outer
<1>2. PhaseInv /\ QueueInv /\ [ProxyNext]_proxyVars =>
        [\A c \in Conns : [One(c)!Next]_(One(c)!connectionVars)]_proxyVars
  BY StepOne DEF OneStep
<1> QED BY <1>1, <1>2, ProxyInvariant, PTL DEF ProxySpec, IsConnection

-----------------------------------------------------------------------------
(* Liveness is left to TLC.  What it rests on is proved: the order in which *)
(* browsers are accepted, and that no connection does anything for ever.    *)

\* The place of a browser in the queue.
Waits(c, n) == n \in DOMAIN backlog /\ backlog[n] = c

\* A browser in the queue keeps its place until accept takes the one at the head,
\* whatever the others do: nobody is accepted before those who waited longer, and
\* every accept brings each of them nearer.  The core of NotBehindOthers.
BrowsersInTurn ==
  [][\A c \in Conns, n \in Nat : Waits(c, n) =>
       \/ phase'[c] # "queued"
       \/ IF Accept THEN Waits(c, n - 1)' ELSE Waits(c, n)']_proxyVars

\* The steps at most that a connection has before it.
ToGo(c) ==
  CASE phase[c] = "away"             -> 8
    [] phase[c] = "queued"           -> 7
    [] phase[c] = "new"              -> 6
    [] phase[c] \in {"dial", "fetch"} -> 5
    [] phase[c] \in {"shake", "wait"} -> 4
    [] phase[c] = "relay"            -> IF open[c] = Dirs THEN 3
                                        ELSE IF open[c] = {} THEN 1 ELSE 2
    [] phase[c] = "answer"           -> 1
    [] phase[c] = "over"             -> 0

\* No step of a connection, of its task or of what it talks to, can be taken
\* back or repeated: each leaves it fewer, eight in all, and no other connection
\* adds to them.  The core of Served and of PlainEnds.
ConnectionsRunOut ==
  [][\A c \in Conns : IF Poll(c) \/ Outside(c) THEN ToGo(c)' < ToGo(c)
                                             ELSE ToGo(c)' <= ToGo(c)]_proxyVars

\* A step that leaves queue and phase of all alone.
LEMMA SamePlace ==
  ASSUME NEW c \in Conns, NEW n \in Nat, Waits(c, n), backlog' = backlog
  PROVE  Waits(c, n)'
BY DEF Waits

\* Accepting the head moves the others up, the end of the loop sends all away.
LEMMA ServeInTurn ==
  ASSUME PhaseInv, QueueInv, Serve, NEW c \in Conns, NEW n \in Nat, Waits(c, n)
  PROVE  \/ phase'[c] # "queued"
         \/ IF Accept THEN Waits(c, n - 1)' ELSE Waits(c, n)'
<1>1. CASE Accept
  <2>1. /\ Len(backlog) \in Nat /\ DOMAIN backlog = 1..Len(backlog)
        /\ Head(backlog) = backlog[1] /\ backlog # << >>
    BY <1>1, LenProperties DEF Accept, QueueInv
  <2>2. CASE n = 1
    <3>1. phase'[c] = "new"
      BY <1>1, <2>1, <2>2 DEF Accept, Move, Waits, PhaseInv
    <3> QED BY <3>1
  <2>3. CASE n # 1
    <3>1. n \in 2..Len(backlog) /\ backlog[n] = c
      BY <2>1, <2>3 DEF Waits
    <3>2. /\ DOMAIN Tail(backlog) = 1..(Len(backlog) - 1)
          /\ \A i \in 1..(Len(backlog) - 1) : Tail(backlog)[i] = backlog[i + 1]
      BY <2>1, HeadTailProperties, LenProperties DEF QueueInv
    <3>3. n - 1 \in 1..(Len(backlog) - 1) /\ (n - 1) + 1 = n
      BY <2>1, <3>1
    <3>4. n - 1 \in DOMAIN Tail(backlog) /\ Tail(backlog)[n - 1] = c
      BY <3>1, <3>2, <3>3
    <3>5. backlog' = Tail(backlog)
      BY <1>1 DEF Accept
    <3> QED BY <1>1, <3>4, <3>5 DEF Waits
  <2> QED BY <2>2, <2>3
<1>2. CASE EndLoop
  BY <1>2 DEF EndLoop
<1>3. CASE (Bind \/ CheckActive \/ AcceptFails) /\ ~Accept
  BY <1>3, SamePlace DEF Bind, CheckActive, AcceptFails
<1> QED BY <1>1, <1>2, <1>3 DEF Serve

\* Joining the queue behind them leaves those in it where they are.
LEMMA ConnectInTurn ==
  ASSUME QueueInv, NEW b \in Conns, Connect(b), NEW c \in Conns, NEW n \in Nat, Waits(c, n)
  PROVE  Waits(c, n)'
<1>1. Len(backlog) \in Nat /\ DOMAIN backlog = 1..Len(backlog)
  BY LenProperties DEF QueueInv
<1>2. /\ DOMAIN Append(backlog, b) = 1..(Len(backlog) + 1)
      /\ \A i \in 1..Len(backlog) : Append(backlog, b)[i] = backlog[i]
  BY <1>1, AppendProperties, LenProperties DEF QueueInv
<1>3. n \in DOMAIN Append(backlog, b) /\ Append(backlog, b)[n] = c
  BY <1>1, <1>2 DEF Waits
<1>4. backlog' = Append(backlog, b)
  BY DEF Connect
<1> QED BY <1>3, <1>4 DEF Waits

\* A task, and what it talks to, leave the queue alone, and do not accept.
LEMMA TasksAside ==
  ASSUME PhaseInv, QueueInv, NEW b \in Conns,
         Poll(b) \/ Ask(b) \/ Shake(b) \/ EndDirection(b) \/ Fetched(b) \/ Read(b)
  PROVE  backlog' = backlog /\ ~Accept
<1>1. backlog' = backlog
  BY DEF Poll, Dial, FetchDial, TimesOut, Close, Ask, AskNothing, AskTunnel, AskPlain, Shake,
         EndDirection, Fetched, Read, GiveUp, Task, serverVars
<1>2. Accept => backlog' # backlog
  <2> SUFFICES ASSUME Accept, backlog' = backlog PROVE FALSE
    OBVIOUS
  <2>1. backlog \in Seq(Conns) /\ backlog # << >>
    BY DEF QueueInv, Accept
  <2>2. Len(Tail(backlog)) = Len(backlog) - 1 /\ Len(backlog) \in Nat
    BY <2>1, HeadTailProperties, LenProperties
  <2>3. Tail(backlog) = backlog
    BY DEF Accept
  <2> QED BY <2>2, <2>3
<1> QED BY <1>1, <1>2

\* The backlog is first come, first served, in any interleaving.
THEOREM AcceptedInTurn == ProxySpec => BrowsersInTurn
<1> DEFINE Step == \A c \in Conns, n \in Nat : Waits(c, n) =>
       \/ phase'[c] # "queued"
       \/ IF Accept THEN Waits(c, n - 1)' ELSE Waits(c, n)'
<1>1. PhaseInv /\ QueueInv /\ [ProxyNext]_proxyVars => [Step]_proxyVars
  <2> SUFFICES ASSUME PhaseInv, QueueInv, ProxyNext,
                      NEW c \in Conns, NEW n \in Nat, Waits(c, n)
               PROVE  \/ phase'[c] # "queued"
                      \/ IF Accept THEN Waits(c, n - 1)' ELSE Waits(c, n)'
    OBVIOUS
  <2>1. CASE Serve
    BY <2>1, ServeInTurn
  <2>2. CASE Stop
    BY <2>2, SamePlace DEF Stop, Accept, Move, PhaseInv
  <2>3. CASE Exit
    BY <2>3 DEF Exit
  <2>4. ASSUME NEW b \in Conns, Connect(b) PROVE Waits(c, n)' /\ ~Accept
    BY <2>4, ConnectInTurn DEF Connect, Accept
  <2>5. ASSUME NEW b \in Conns,
               Poll(b) \/ Ask(b) \/ Shake(b) \/ EndDirection(b) \/ Fetched(b) \/ Read(b)
        PROVE  Waits(c, n)' /\ ~Accept
    BY <2>5, TasksAside, SamePlace
  <2> QED BY <2>1, <2>2, <2>3, <2>4, <2>5 DEF ProxyNext, Outside
<1>2. [][Step]_proxyVars => BrowsersInTurn
  BY DEF BrowsersInTurn
<1> QED BY <1>1, <1>2, ProxyInvariant, PTL DEF ProxySpec

\* A connection whose phase and directions stay has as much before it.
LEMMA AsMuch ==
  ASSUME NEW c \in Conns, phase'[c] = phase[c], open'[c] = open[c]
  PROVE  ToGo(c)' = ToGo(c)
BY DEF ToGo

\* It is never more than eight steps.
LEMMA ToGoBound ==
  ASSUME PhaseInv, NEW c \in Conns
  PROVE  ToGo(c) \in 0..8
BY DEF PhaseInv, AllPhases, Outer, ToGo

\* Every move of a connection is one onwards.
Onwards(from, to) ==
  \/ to = "over" /\ from # "over"
  \/ <<from, to>> \in {<<"away", "queued">>, <<"queued", "new">>, <<"new", "dial">>,
       <<"new", "fetch">>, <<"dial", "shake">>, <<"fetch", "wait">>, <<"shake", "relay">>,
       <<"wait", "answer">>}

\* A move onwards leaves the connection fewer steps.
LEMMA MovesOn ==
  ASSUME PhaseInv, NEW c \in Conns, NEW from \in AllPhases, NEW to \in AllPhases,
         Move(c, from, to), Onwards(from, to)
  PROVE  ToGo(c)' < ToGo(c)
<1>1. phase[c] = from /\ phase'[c] = to
  BY DEF Move, PhaseInv
<1> QED BY <1>1 DEF Onwards, ToGo, AllPhases, Outer

\* A direction that ends leaves one less to end.
LEMMA DirectionsRunOut ==
  ASSUME PhaseInv, NEW c \in Conns, EndDirection(c)
  PROVE  ToGo(c)' < ToGo(c)
<1>1. PICK d \in open[c] : open' = [open EXCEPT ![c] = open[c] \ {d}]
  BY DEF EndDirection
<1>2. open'[c] = open[c] \ {d} /\ open[c] \subseteq Dirs /\ d \in Dirs
  BY <1>1 DEF PhaseInv
<1>3. phase[c] = "relay" /\ phase'[c] = "relay"
  BY DEF EndDirection
<1>4. CASE open[c] = Dirs
  <2>1. ToGo(c) = 3
    BY <1>3, <1>4 DEF ToGo
  <2>2. open'[c] # Dirs
    BY <1>2
  <2>3. ToGo(c)' \in {1, 2}
    BY <1>3, <2>2 DEF ToGo
  <2> QED BY <2>1, <2>3
<1>5. CASE open[c] # Dirs
  <2>1. open'[c] = {} /\ open[c] # {}
    BY <1>2, <1>5 DEF Dirs
  <2>2. {} # Dirs
    BY DEF Dirs
  <2>3. ToGo(c) = 2 /\ ToGo(c)' = 1
    BY <1>3, <1>5, <2>1, <2>2 DEF ToGo
  <2> QED BY <2>3
<1> QED BY <1>4, <1>5

\* Each step of a connection is one less for it ...
LEMMA OwnStep ==
  ASSUME PhaseInv, QueueInv, NEW c \in Conns, Poll(c) \/ Outside(c)
  PROVE  ToGo(c)' < ToGo(c)
<1> USE DEF Onwards, AllPhases, Outer
<1>1. CASE Poll(c)
  BY <1>1, MovesOn DEF Poll, Dial, FetchDial, TimesOut, Close, GiveUp
<1>2. CASE Connect(c) \/ Ask(c)
  BY <1>2, MovesOn DEF Connect, Ask, AskNothing, AskTunnel, AskPlain, GiveUp
<1>3. CASE Shake(c) \/ Fetched(c) \/ Read(c)
  BY <1>3, MovesOn DEF Shake, Fetched, Read, GiveUp
<1> QED BY <1>1, <1>2, <1>3, DirectionsRunOut DEF Outside

\* ... and none for the others.
LEMMA OtherStep ==
  ASSUME PhaseInv, NEW b \in Conns, Poll(b) \/ Outside(b), NEW c \in Conns, c # b
  PROVE  ToGo(c)' = ToGo(c)
<1>1. phase'[c] = phase[c]
  BY DEF Poll, Dial, FetchDial, TimesOut, Close, Outside, Connect, Ask, AskNothing,
         AskTunnel, AskPlain, Shake, EndDirection, Fetched, Read, GiveUp, Move, PhaseInv
<1>2. open'[c] = open[c]
  BY DEF Poll, Dial, FetchDial, TimesOut, Close, Outside, Connect, Ask, AskNothing,
         AskTunnel, AskPlain, Shake, EndDirection, Fetched, Read, GiveUp, Task, PhaseInv
<1> QED BY <1>1, <1>2, AsMuch

\* The loop, stop() and the end of the program only cut short.
LEMMA LoopCutsShort ==
  ASSUME PhaseInv, QueueInv, Serve \/ Stop \/ Exit, NEW c \in Conns
  PROVE  ToGo(c)' <= ToGo(c)
<1>0. ToGo(c) \in 0..8
  BY ToGoBound
<1>1. CASE Bind \/ CheckActive \/ AcceptFails \/ Stop
  <2>1. ToGo(c)' = ToGo(c)
    BY <1>1, AsMuch DEF Bind, CheckActive, AcceptFails, Stop
  <2> QED BY <1>0, <2>1
<1>2. CASE EndLoop \/ Exit
  <2>1. CASE phase'[c] = phase[c] /\ phase[c] # "relay"
    <3>1. open'[c] = open[c]
      BY <1>2, <2>1 DEF EndLoop, Exit, PhaseInv
    <3>2. ToGo(c)' = ToGo(c)
      BY <2>1, <3>1, AsMuch
    <3> QED BY <1>0, <3>2
  <2>2. CASE phase'[c] = "over"
    <3>1. ToGo(c)' = 0
      BY <2>2 DEF ToGo
    <3> QED BY <1>0, <3>1
  <2>3. CASE phase[c] = "relay" /\ EndLoop
    <3>1. ToGo(c)' = ToGo(c)
      BY <2>3, AsMuch DEF EndLoop
    <3> QED BY <1>0, <3>1
  <2> QED BY <1>2, <2>1, <2>2, <2>3 DEF EndLoop, Exit
<1>3. CASE Accept
  <2>1. Head(backlog) \in Conns
    BY <1>3, HeadTailProperties DEF Accept, QueueInv
  <2>2. CASE Head(backlog) = c
    <3>1. ToGo(c)' = 6 /\ ToGo(c) = 7
      BY <1>3, <2>2 DEF Accept, Move, PhaseInv, ToGo
    <3> QED BY <3>1
  <2>3. CASE Head(backlog) # c
    <3>1. ToGo(c)' = ToGo(c)
      BY <1>3, <2>1, <2>3, AsMuch DEF Accept, Move, PhaseInv
    <3> QED BY <1>0, <3>1
  <2> QED BY <2>2, <2>3
<1> QED BY <1>1, <1>2, <1>3 DEF Serve

\* Eight steps, and every connection is over.
THEOREM EveryConnectionRunsOut == ProxySpec => ConnectionsRunOut
<1> DEFINE Step == \A c \in Conns : IF Poll(c) \/ Outside(c) THEN ToGo(c)' < ToGo(c)
                                                           ELSE ToGo(c)' <= ToGo(c)
<1>1. PhaseInv /\ QueueInv /\ [ProxyNext]_proxyVars => [Step]_proxyVars
  <2> SUFFICES ASSUME PhaseInv, QueueInv, ProxyNext, NEW c \in Conns
               PROVE  IF Poll(c) \/ Outside(c) THEN ToGo(c)' < ToGo(c)
                                               ELSE ToGo(c)' <= ToGo(c)
    OBVIOUS
  <2>1. CASE Poll(c) \/ Outside(c)
    BY <2>1, OwnStep
  <2>2. ASSUME NEW b \in Conns, b # c, Poll(b) \/ Outside(b) PROVE ToGo(c)' <= ToGo(c)
    <3>1. ToGo(c)' = ToGo(c)
      BY <2>2, OtherStep
    <3> QED BY <3>1, ToGoBound
  <2>3. CASE ~(Poll(c) \/ Outside(c))
    BY <2>2, <2>3, LoopCutsShort DEF ProxyNext
  <2> QED BY <2>1, <2>3
<1>2. [][Step]_proxyVars => ConnectionsRunOut
  BY DEF ConnectionsRunOut
<1> QED BY <1>1, <1>2, ProxyInvariant, PTL DEF ProxySpec
==============================================================================
