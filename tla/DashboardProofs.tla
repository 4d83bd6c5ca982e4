--------------------------- MODULE DashboardProofs ---------------------------
(***************************************************************************)
(* The safety properties of the dashboard, for any control port, any set   *)
(* of addresses and any number of changes, keys and rotations, and what    *)
(* its liveness rests on.                                                  *)
(***************************************************************************)
EXTENDS Dashboard, TLAPS

\* What is fetched is an address and a location.
LEMMA FetchesType ==
  ASSUME NEW e \in Env, NEW w \in Fetches(e)
  PROVE  w \in Web
BY DEF Fetches, Env, Web, Found, NoWeb

\* from_checks gives a level for every combination.
LEMMA LevelType ==
  ASSUME NEW t \in BOOLEAN, NEW d \in BOOLEAN, NEW p \in BOOLEAN
  PROVE  FromChecks(t, d, p) \in Levels
BY DEF FromChecks, Levels

\* The empty status is a status.
LEMMA EmptyType == NoWeb \in Web /\ EmptyStatus \in Status
BY DEF NoWeb, EmptyStatus, Web, Status, Found, Levels

\* The main loop writes the proxy indicator and the flag together, the other
\* tasks write neither.  RotationsCounted is inductive with the types:
\* a key is read only at "loop", so that no rotation of the main loop is under
\* way when the dashboard ends.
DashInv == DashTypeOK /\ FlagAgrees /\ RotationsCounted

\* The invariant holds at first.
LEMMA DashStart ==
  ASSUME DashInit
  PROVE  DashInv
<1> USE DEF DashInit
<1>1. DashTypeOK
  <2>1. env \in Env /\ changes \in 0..MaxChanges /\ presses \in 0..MaxPresses
    BY BoundsAssumption
  <2>2. keys \in Seq(Keys) /\ Len(keys) <= presses
    OBVIOUS
  <2> QED
    BY <2>1, <2>2, EmptyType DEF DashTypeOK
<1>2. FlagAgrees
  BY DEF FlagAgrees, EmptyStatus
<1>3. RotationsCounted
  BY DEF RotationsCounted
<1> QED
  BY <1>1, <1>2, <1>3 DEF DashInv

\* What the outside does leaves the program's variables alone.
LEMMA OutsideStep ==
  ASSUME DashInv, Change \/ \E k \in Keys : Press(k)
  PROVE  DashInv'
<1> USE DEF DashInv, mainVars, pollVars, autoVars, appVars, statVars
<1>1. CASE Change
  <2>1. env' \in Env
    BY <1>1 DEF Change, Env, DashTypeOK
  <2>2. changes' \in 0..MaxChanges
    BY <1>1, BoundsAssumption DEF Change, DashTypeOK
  <2> QED
    BY <1>1, <2>1, <2>2 DEF Change, DashTypeOK, FlagAgrees, RotationsCounted
<1>2. ASSUME NEW k \in Keys, Press(k) PROVE DashInv'
  <2>1. keys' \in Seq(Keys) /\ Len(keys') <= presses' /\ presses' \in 0..MaxPresses
    BY <1>2, BoundsAssumption DEF Press, DashTypeOK
  <2> QED
    BY <1>2, <2>1 DEF Press, DashTypeOK, FlagAgrees, RotationsCounted
<1> QED
  BY <1>1, <1>2

\* A status check, from its first read to the write of its result.
LEMMA CheckStep ==
  ASSUME DashInv, CheckTor \/ CheckWeb \/ CheckProxy \/ ShowCheck \/ CheckTimesOut
  PROVE  DashInv'
<1> USE DEF DashInv, envVars, pollVars, autoVars, appVars, statVars
<1>1. CASE CheckTor
  <2>1. chk' \in Status
    BY <1>1 DEF CheckTor, DashTypeOK, Status, TorAvailable, Env
  <2> QED
    BY <1>1, <2>1 DEF CheckTor, DashTypeOK, FlagAgrees, RotationsCounted
<1>2. CASE CheckWeb
  <2>1. chk' \in Status
    BY <1>2, FetchesType DEF CheckWeb, DashTypeOK, Status
  <2> QED
    BY <1>2, <2>1 DEF CheckWeb, DashTypeOK, FlagAgrees, RotationsCounted
<1>3. CASE CheckProxy
  <2>1. FromChecks(chk.tor, DnsSecure, env.socks) \in Levels
    BY LevelType, SwitchesAssumption DEF DashTypeOK, Status, Env
  <2>2. chk' \in Status
    BY <1>3, <2>1 DEF CheckProxy, DashTypeOK, Status, Env
  <2> QED
    BY <1>3, <2>2 DEF CheckProxy, DashTypeOK, FlagAgrees, RotationsCounted
<1>4. CASE ShowCheck
  BY <1>4, EmptyType
  DEF ShowCheck, AfterCheck, DashTypeOK, Status, FlagAgrees, RotationsCounted
<1>5. CASE CheckTimesOut
  <2>1. shown' \in Status /\ connected' \in BOOLEAN /\ FlagAgrees'
    BY <1>5 DEF CheckTimesOut, DashTypeOK, Status, FlagAgrees
  <2> QED
    BY <1>5, <2>1, EmptyType DEF CheckTimesOut, DashTypeOK, RotationsCounted
<1> QED
  BY <1>1, <1>2, <1>3, <1>4, <1>5

\* A key leaves the queue from the front.
LEMMA TakeKeyType ==
  ASSUME DashTypeOK, NEW k, TakeKey(k)
  PROVE  keys' \in Seq(Keys) /\ Len(keys') <= presses'
BY DEF TakeKey, DashTypeOK

\* The rest of the main loop.
LEMMA LoopStep ==
  ASSUME DashInv,
         \/ KeyQuit \/ LoopFails \/ EndProcess \/ KeyRotate \/ KeyStatus \/ KeyOther
         \/ RotateOk \/ RotateFails \/ Refresh \/ NoRefresh
  PROVE  DashInv'
<1> USE DEF DashInv, envVars, pollVars, autoVars, appVars, statVars
<1>1. CASE KeyQuit
  <2>1. keys' \in Seq(Keys) /\ Len(keys') <= presses'
    BY <1>1, TakeKeyType DEF KeyQuit
  <2> QED
    BY <1>1, <2>1 DEF KeyQuit, TakeKey, DashTypeOK, FlagAgrees, RotationsCounted
<1>2. CASE KeyRotate
  <2>1. keys' \in Seq(Keys) /\ Len(keys') <= presses'
    BY <1>2, TakeKeyType DEF KeyRotate
  <2> QED
    BY <1>2, <2>1 DEF KeyRotate, TakeKey, DashTypeOK, FlagAgrees, RotationsCounted
<1>3. CASE KeyStatus
  <2>1. keys' \in Seq(Keys) /\ Len(keys') <= presses'
    BY <1>3, TakeKeyType DEF KeyStatus
  <2> QED
    BY <1>3, <2>1, EmptyType
    DEF KeyStatus, TakeKey, BeginCheck, DashTypeOK, FlagAgrees, RotationsCounted
<1>4. CASE KeyOther
  <2>1. keys' \in Seq(Keys) /\ Len(keys') <= presses'
    BY <1>4, TakeKeyType DEF KeyOther
  <2> QED
    BY <1>4, <2>1 DEF KeyOther, TakeKey, DashTypeOK, FlagAgrees, RotationsCounted
<1>5. CASE RotateOk
  BY <1>5 DEF RotateOk, DashTypeOK, FlagAgrees, RotationsCounted
<1>6. CASE RotateFails
  BY <1>6 DEF RotateFails, DashTypeOK, FlagAgrees, RotationsCounted
<1>7. CASE Refresh
  BY <1>7, EmptyType
  DEF Refresh, BeginCheck, DashTypeOK, FlagAgrees, RotationsCounted
<1>8. CASE NoRefresh
  BY <1>8 DEF NoRefresh, DashTypeOK, FlagAgrees, RotationsCounted
<1>9. CASE LoopFails
  BY <1>9 DEF LoopFails, DashTypeOK, FlagAgrees, RotationsCounted
<1>10. CASE EndProcess
  BY <1>10 DEF EndProcess, DashTypeOK, FlagAgrees, RotationsCounted
<1> QED
  BY <1>1, <1>2, <1>3, <1>4, <1>5, <1>6, <1>7, <1>8, <1>9, <1>10

\* The poller writes the status of Tor and nothing else of what is shown.
LEMMA PollerStep ==
  ASSUME DashInv, PollStep
  PROVE  DashInv'
<1> USE DEF DashInv, envVars, mainVars, autoVars, appVars, statVars
<1>1. CASE PollTor
  BY <1>1 DEF PollTor, TorAvailable, Env, DashTypeOK, FlagAgrees, RotationsCounted
<1>2. CASE ShowPoll
  <2>1. shown' \in Status /\ shown'.proxy = shown.proxy
    BY <1>2 DEF ShowPoll, DashTypeOK, Status
  <2> QED
    BY <1>2, <2>1 DEF ShowPoll, DashTypeOK, FlagAgrees, RotationsCounted
<1> QED
  BY <1>1, <1>2 DEF PollStep

\* The rotation timer writes the address and its location.
LEMMA TimerStep ==
  ASSUME DashInv, AutoStep
  PROVE  DashInv'
<1> USE DEF DashInv, envVars, mainVars, pollVars, appVars, statVars
<1>1. CASE AutoBegin
  BY <1>1 DEF AutoBegin, DashTypeOK, FlagAgrees, RotationsCounted
<1>2. CASE AutoOk
  BY <1>2 DEF AutoOk, DashTypeOK, FlagAgrees, RotationsCounted
<1>3. CASE AutoFails
  BY <1>3 DEF AutoFails, DashTypeOK, FlagAgrees, RotationsCounted
<1>4. CASE AutoFetch
  <2>1. fetched' \in Web
    BY <1>4, FetchesType DEF AutoFetch, DashTypeOK
  <2> QED
    BY <1>4, <2>1 DEF AutoFetch, DashTypeOK, FlagAgrees, RotationsCounted
<1>5. CASE ShowFetched
  <2>1. shown' \in Status /\ shown'.proxy = shown.proxy
    BY <1>5 DEF ShowFetched, DashTypeOK, Status, Web
  <2> QED
    BY <1>5, <2>1, EmptyType DEF ShowFetched, DashTypeOK, FlagAgrees, RotationsCounted
<1> QED
  BY <1>1, <1>2, <1>3, <1>4, <1>5 DEF AutoStep

\* DashInv is an invariant of the dashboard.
THEOREM DashInvariant == DashSpec => []DashInv
<1>1. DashInit => DashInv
  BY DashStart
<1>2. DashInv /\ [DashNext]_dashVars => DashInv'
  <2> SUFFICES ASSUME DashInv, [DashNext]_dashVars PROVE DashInv'
    OBVIOUS
  <2>1. CASE MainStep
    BY <2>1, CheckStep, LoopStep DEF MainStep
  <2>2. CASE PollStep
    BY <2>2, PollerStep
  <2>3. CASE AutoStep
    BY <2>3, TimerStep
  <2>4. CASE Change \/ \E k \in Keys : Press(k)
    BY <2>4, OutsideStep
  <2>5. CASE UNCHANGED dashVars
    BY <2>5 DEF dashVars, envVars, mainVars, pollVars, autoVars, appVars, statVars,
                DashInv, DashTypeOK, FlagAgrees, RotationsCounted
  <2> QED
    BY <2>1, <2>2, <2>3, <2>4, <2>5 DEF DashNext
<1> QED
  BY <1>1, <1>2, PTL DEF DashSpec

\* CONNECTED and the proxy indicator never contradict one another.
THEOREM FlagAlwaysAgrees == DashSpec => []FlagAgrees
<1>1. DashInv => FlagAgrees
  BY DEF DashInv
<1> QED
  BY <1>1, DashInvariant, PTL

\* Every rotation is counted once, by the task that began it.
THEOREM RotationsAlwaysCounted == DashSpec => []RotationsCounted
<1>1. DashInv => RotationsCounted
  BY DEF DashInv
<1> QED
  BY <1>1, DashInvariant, PTL

\* What the three tasks share and keep stays in range, however they interleave,
\* and no background task outlives the dashboard: q aborts both, and after an error
\* of the terminal they end with the process.
THEOREM DashTypeCorrect == DashSpec => []DashTypeOK
<1>1. DashInv => DashTypeOK
  BY DEF DashInv
<1> QED
  BY <1>1, DashInvariant, PTL

-----------------------------------------------------------------------------
(* Liveness is left to TLC.  What it rests on is proved: no step takes back *)
(* what an earlier one has gained.                                          *)

\* What is right to show.
RightWeb   == [ip |-> env.ip, geo |-> env.ip]
RightLevel == FromChecks(TorAvailable(env), DnsSecure, env.socks)

\* What the tasks have read of Tor and still will write is so.
TorCurrent ==
  /\ mpc \in {"web", "proxy", "write"} => chk.tor = TorAvailable(env)
  /\ ppc = "write" => polled = TorAvailable(env)

\* Nor is anything else stale that is on its way to the display.
Current ==
  /\ TorCurrent
  /\ mpc \in {"proxy", "write"} => chk.web = RightWeb
  /\ mpc = "write" => chk.proxy = env.socks /\ chk.level = RightLevel
  /\ apc = "write" => fetched = RightWeb

\* Once no result read before Tor came or went is on its way, none comes to be
\* while Tor stays as it is: every refresh and every poll shows what it is, and
\* nothing takes it back.  The core of TorNoticed.
TorStaysNoticed ==
  [][TorCurrent /\ TorAvailable(env)' = TorAvailable(env) =>
       /\ TorCurrent'
       /\ shown.tor = TorAvailable(env) => shown'.tor = TorAvailable(env)
       /\ ShowPoll \/ ShowCheck => shown'.tor = TorAvailable(env)]_dashVars

\* The same of the whole display, while the outside rests and the network is
\* fast: one refresh makes it right, and no task makes it wrong again.  The core
\* of DisplaySettles.
DisplayStaysRight ==
  [][Current /\ env' = env /\ env.net = "fast" =>
       /\ Current'
       /\ Truth => Truth'
       /\ ShowCheck => Truth']_dashVars

\* How far the main loop is from taking a key: a rotation, or a check that was
\* asked for, and a periodic check may lie between.
Checking == IF job = "asked" THEN 5 ELSE 0
ToLoop ==
  CASE mpc = "loop" -> 1
    [] mpc = "write" -> 2 + Checking
    [] mpc = "proxy" -> 3 + Checking
    [] mpc = "web" -> 4 + Checking
    [] mpc = "tor" -> 5 + Checking
    [] mpc = "tick" -> 6
    [] mpc = "rotate" -> 7
    [] mpc \in {"failed", "over"} -> 0

\* The key at place i of the queue is a q.
QuitAt(i) == i \in 1..Len(keys) /\ keys[i] = "q"

\* The steps of the main loop, at most, until the key at place i is taken.
Ahead(i) == 10 * i + ToLoop

\* A q is never lost nor overtaken, and every step of the main loop, whatever
\* the keys before it ask for, takes the loop nearer to it, or to the end after an
\* error of the terminal: ten steps a key at most.  The core of QuitServed, which
\* adds that the loop's steps come to pass.
QuitComesNearer ==
  [][\A i \in Nat : QuitAt(i) =>
       \/ mpc' = "over"
       \/ \E j \in Nat : QuitAt(j)' /\ IF MainStep THEN Ahead(j)' < Ahead(i)
                                                  ELSE Ahead(j)' = Ahead(i)]_dashVars

\* What happens in the main loop, the poller and the timer between two writes of
\* the display leaves the display alone.
LEMMA DisplayAlone ==
  ASSUME DashNext, ~ShowCheck, ~ShowPoll, ~ShowFetched, env.net = "fast"
  PROVE  UNCHANGED appVars
BY DEF DashNext, MainStep, PollStep, AutoStep, CheckTor, CheckWeb, CheckProxy,
       CheckTimesOut, KeyQuit, LoopFails, EndProcess, KeyRotate, KeyStatus, KeyOther, TakeKey, RotateOk,
       RotateFails, Refresh, NoRefresh, PollTor, AutoBegin, AutoOk, AutoFails,
       AutoFetch, Change, Press, appVars

\* A refresh or a poll reads Tor and keeps what it has read.
LEMMA TorReading ==
  ASSUME DashTypeOK, TorCurrent, DashNext, TorAvailable(env)' = TorAvailable(env)
  PROVE  TorCurrent'
<1> USE DEF TorCurrent, DashTypeOK, Status
<1>1. CASE CheckTor \/ CheckWeb \/ CheckProxy \/ ShowCheck \/ CheckTimesOut
  BY <1>1 DEF CheckTor, CheckWeb, CheckProxy, ShowCheck, AfterCheck, CheckTimesOut,
              pollVars
<1>2. CASE \/ KeyQuit \/ LoopFails \/ EndProcess \/ KeyRotate \/ KeyStatus \/ KeyOther
           \/ RotateOk \/ RotateFails \/ Refresh \/ NoRefresh
  BY <1>2 DEF KeyQuit, LoopFails, EndProcess, KeyRotate, KeyStatus, KeyOther, RotateOk, RotateFails, Refresh,
              NoRefresh, BeginCheck, pollVars
<1>3. CASE PollStep
  BY <1>3 DEF PollStep, PollTor, ShowPoll, mainVars
<1>4. CASE AutoStep
  BY <1>4 DEF AutoStep, AutoBegin, AutoOk, AutoFails, AutoFetch, ShowFetched,
              mainVars, pollVars
<1>5. CASE Change \/ \E k \in Keys : Press(k)
  BY <1>5 DEF Change, Press, mainVars, pollVars
<1> QED
  BY <1>1, <1>2, <1>3, <1>4, <1>5 DEF DashNext, MainStep

\* Of the steps that write the display, only a refresh and a poll write the
\* status of Tor.
LEMMA TorAlone ==
  ASSUME DashTypeOK, DashNext, ~ShowCheck, ~ShowPoll
  PROVE  shown'.tor = shown.tor
<1> USE DEF DashTypeOK, Status
<1>1. CASE CheckTimesOut
  BY <1>1 DEF CheckTimesOut, appVars
<1>2. CASE ShowFetched
  BY <1>2 DEF ShowFetched
<1>3. CASE ~CheckTimesOut /\ ~ShowFetched
  BY <1>3
  DEF DashNext, MainStep, PollStep, AutoStep, CheckTor, CheckWeb, CheckProxy,
      KeyQuit, LoopFails, EndProcess, KeyRotate, KeyStatus, KeyOther, TakeKey, RotateOk, RotateFails,
      Refresh, NoRefresh, PollTor, AutoBegin, AutoOk, AutoFails, AutoFetch,
      Change, Press, appVars
<1> QED
  BY <1>1, <1>2, <1>3

\* No stale result about Tor comes to be, and every result shown is right.
THEOREM TorStaysShown == DashSpec => TorStaysNoticed
<1> DEFINE Step == TorCurrent /\ TorAvailable(env)' = TorAvailable(env) =>
       /\ TorCurrent'
       /\ shown.tor = TorAvailable(env) => shown'.tor = TorAvailable(env)
       /\ ShowPoll \/ ShowCheck => shown'.tor = TorAvailable(env)
<1>1. DashInv /\ [DashNext]_dashVars => [Step]_dashVars
  <2> SUFFICES ASSUME DashInv, DashNext, TorCurrent,
                      TorAvailable(env)' = TorAvailable(env)
               PROVE  /\ TorCurrent'
                      /\ shown.tor = TorAvailable(env) => shown'.tor = TorAvailable(env)
                      /\ ShowPoll \/ ShowCheck => shown'.tor = TorAvailable(env)
    OBVIOUS
  <2>1. TorCurrent'
    BY TorReading DEF DashInv
  <2>2. CASE ShowCheck
    BY <2>1, <2>2 DEF ShowCheck, TorCurrent
  <2>3. CASE ShowPoll
    BY <2>1, <2>3 DEF ShowPoll, TorCurrent, DashInv, DashTypeOK, Status
  <2>4. CASE ~ShowCheck /\ ~ShowPoll
    BY <2>1, <2>4, TorAlone DEF DashInv
  <2> QED
    BY <2>2, <2>3, <2>4, <2>1
<1>2. [][Step]_dashVars => TorStaysNoticed
  BY DEF TorStaysNoticed
<1> QED
  BY <1>1, <1>2, DashInvariant, PTL DEF DashSpec

\* Nor does any other stale result come to be, while the outside rests.
LEMMA Reading ==
  ASSUME DashTypeOK, Current, DashNext, env' = env, env.net = "fast"
  PROVE  Current'
<1> USE DEF Current, DashTypeOK, Status, RightWeb
<1>1. TorCurrent'
  BY TorReading
<1>2. RightLevel' = RightLevel
  BY DEF RightLevel
<1>3. CASE CheckTor \/ CheckWeb
  BY <1>1, <1>3 DEF CheckTor, CheckWeb, Fetches, autoVars
<1>4. CASE CheckProxy
  BY <1>1, <1>2, <1>4 DEF CheckProxy, TorCurrent, RightLevel, autoVars
<1>5. CASE ShowCheck \/ CheckTimesOut
  BY <1>1, <1>5 DEF ShowCheck, AfterCheck, CheckTimesOut, autoVars
<1>6. CASE \/ KeyQuit \/ LoopFails \/ EndProcess \/ KeyRotate \/ KeyStatus \/ KeyOther
           \/ RotateOk \/ RotateFails \/ Refresh \/ NoRefresh
  BY <1>1, <1>6 DEF KeyQuit, LoopFails, EndProcess, KeyRotate, KeyStatus, KeyOther, RotateOk, RotateFails,
              Refresh, NoRefresh, BeginCheck, autoVars
<1>7. CASE PollStep
  BY <1>1, <1>2, <1>7 DEF PollStep, PollTor, ShowPoll, mainVars, autoVars
<1>8. CASE AutoStep
  BY <1>1, <1>2, <1>8 DEF AutoStep, AutoBegin, AutoOk, AutoFails, AutoFetch, ShowFetched,
              Fetches, mainVars
<1>9. CASE Change \/ \E k \in Keys : Press(k)
  BY <1>1, <1>2, <1>9 DEF Change, Press, mainVars, autoVars
<1> QED
  BY <1>3, <1>4, <1>5, <1>6, <1>7, <1>8, <1>9 DEF DashNext, MainStep

\* What is shown is right after a refresh, and stays right.
LEMMA ShownRight ==
  ASSUME DashTypeOK, Current, DashNext, env' = env, env.net = "fast",
         Truth \/ ShowCheck
  PROVE  Truth'
<1> USE DEF Truth, Current, TorCurrent, RightWeb, RightLevel
<1>1. CASE ShowCheck
  <2>1. chk = [tor |-> chk.tor, proxy |-> chk.proxy, web |-> chk.web,
               level |-> chk.level]
    BY DEF DashTypeOK, Status
  <2> QED
    BY <1>1, <2>1 DEF ShowCheck
<1>2. CASE Truth /\ ShowPoll
  BY <1>2 DEF ShowPoll
<1>3. CASE Truth /\ ShowFetched
  BY <1>3 DEF ShowFetched
<1>4. CASE Truth /\ ~ShowCheck /\ ~ShowPoll /\ ~ShowFetched
  BY <1>4, DisplayAlone DEF appVars
<1> QED
  BY <1>1, <1>2, <1>3, <1>4

\* The display, once right, stays right until the outside moves.
THEOREM DisplayStays == DashSpec => DisplayStaysRight
<1> DEFINE Step == Current /\ env' = env /\ env.net = "fast" =>
       /\ Current'
       /\ Truth => Truth'
       /\ ShowCheck => Truth'
<1>1. DashInv /\ [DashNext]_dashVars => [Step]_dashVars
  BY Reading, ShownRight DEF DashInv
<1>2. [][Step]_dashVars => DisplayStaysRight
  BY DEF DisplayStaysRight
<1> QED
  BY <1>1, <1>2, DashInvariant, PTL DEF DashSpec

\* Taking a key brings those behind it nearer.
LEMMA KeyTaken ==
  ASSUME DashTypeOK, NEW k, TakeKey(k), NEW i \in Nat, QuitAt(i), k # "q"
  PROVE  i - 1 \in Nat /\ QuitAt(i - 1)'
<1>1. keys \in Seq(Keys) /\ keys # << >> /\ keys' = Tail(keys) /\ keys[1] # "q"
  BY DEF TakeKey, DashTypeOK
<1>2. i \in 2..Len(keys) /\ keys[i] = "q"
  BY <1>1 DEF QuitAt
<1>3. Len(keys') = Len(keys) - 1 /\ \A n \in 1..Len(keys') : keys'[n] = keys[n + 1]
  BY <1>1
<1>4. i - 1 \in 1..Len(keys') /\ (i - 1) + 1 = i
  BY <1>1, <1>2, <1>3
<1>5. keys'[i - 1] = "q"
  BY <1>2, <1>3, <1>4
<1> QED
  BY <1>4, <1>5 DEF QuitAt

\* Pressing one leaves them where they are.
LEMMA KeyPressed ==
  ASSUME DashTypeOK, NEW k \in Keys, Press(k), NEW i \in Nat, QuitAt(i)
  PROVE  QuitAt(i)'
BY DEF Press, DashTypeOK, QuitAt

\* Ten steps are enough between two keys.
LEMMA TenSteps ==
  ASSUME NEW i \in Nat, NEW a \in 0..10, NEW b \in 0..10
  PROVE  /\ a < b => 10 * i + a < 10 * i + b
         /\ 10 * (i - 1) + a < 10 * i + 1
OBVIOUS

\* Every step of the main loop is nearer to a key, but the one that takes it.
LEMMA LoopNearer ==
  ASSUME DashTypeOK, MainStep, NEW i \in Nat, QuitAt(i)
  PROVE  \/ mpc' = "over"
         \/ \E j \in Nat : QuitAt(j)' /\ Ahead(j)' < Ahead(i)
<1>1. CASE CheckTor \/ CheckWeb \/ CheckProxy \/ ShowCheck \/ CheckTimesOut
           \/ RotateOk \/ RotateFails \/ Refresh \/ NoRefresh \/ LoopFails
  <2>1. keys # << >>
    BY DEF QuitAt, DashTypeOK
  <2>2. keys' = keys
    BY <1>1 DEF CheckTor, CheckWeb, CheckProxy, ShowCheck, CheckTimesOut, RotateOk,
                RotateFails, Refresh, NoRefresh, LoopFails, envVars
  <2>3. ToLoop \in 0..10 /\ ToLoop' \in 0..10 /\ ToLoop' < ToLoop
    BY <1>1, <2>1 DEF CheckTor, CheckWeb, CheckProxy, ShowCheck, AfterCheck,
                CheckTimesOut, RotateOk, RotateFails, Refresh, NoRefresh, LoopFails,
                BeginCheck, DashTypeOK, ToLoop, Checking
  <2>4. QuitAt(i)'
    BY <2>2 DEF QuitAt
  <2>5. 10 * i + ToLoop' < 10 * i + ToLoop
    BY <2>3, TenSteps
  <2>6. Ahead(i)' < Ahead(i)
    BY <2>5 DEF Ahead
  <2> QED
    BY <2>4, <2>6
<1>2. CASE KeyQuit \/ EndProcess
  BY <1>2 DEF KeyQuit, EndProcess
<1>3. ASSUME NEW k, TakeKey(k), k # "q", mpc' \in {"rotate", "tor", "tick"}
      PROVE  \E j \in Nat : QuitAt(j)' /\ Ahead(j)' < Ahead(i)
  <2>1. i - 1 \in Nat /\ QuitAt(i - 1)'
    BY <1>3, KeyTaken
  <2>2. ToLoop = 1 /\ ToLoop' \in 0..10
    BY <1>3 DEF TakeKey, ToLoop, Checking
  <2>3. 10 * (i - 1) + ToLoop' < 10 * i + ToLoop
    BY <2>2, TenSteps
  <2>4. Ahead(i - 1)' < Ahead(i)
    BY <2>3 DEF Ahead
  <2> QED
    BY <2>1, <2>4
<1>4. CASE KeyRotate \/ KeyStatus \/ KeyOther
  BY <1>3, <1>4 DEF KeyRotate, KeyStatus, KeyOther, BeginCheck
<1> QED
  BY <1>1, <1>2, <1>4 DEF MainStep

\* The steps of the other tasks and of the outside neither hurry nor delay it.
LEMMA OthersAside ==
  ASSUME DashTypeOK, DashNext, ~MainStep, NEW i \in Nat, QuitAt(i)
  PROVE  QuitAt(i)' /\ Ahead(i)' = Ahead(i)
<1>1. CASE PollStep \/ AutoStep \/ Change
  BY <1>1 DEF PollStep, PollTor, ShowPoll, AutoStep, AutoBegin, AutoOk, AutoFails,
              AutoFetch, ShowFetched, Change, envVars, mainVars, QuitAt, Ahead, ToLoop,
              Checking
<1>2. CASE \E k \in Keys : Press(k)
  <2>1. QuitAt(i)'
    BY <1>2, KeyPressed
  <2>2. mpc' = mpc /\ job' = job
    BY <1>2 DEF Press, mainVars
  <2> QED
    BY <2>1, <2>2 DEF Ahead, ToLoop, Checking
<1> QED
  BY <1>1, <1>2 DEF DashNext

\* A q that waits comes nearer with every step of the main loop.
THEOREM QuitApproaches == DashSpec => QuitComesNearer
<1> DEFINE Step == \A i \in Nat : QuitAt(i) =>
       \/ mpc' = "over"
       \/ \E j \in Nat : QuitAt(j)' /\ IF MainStep THEN Ahead(j)' < Ahead(i)
                                                  ELSE Ahead(j)' = Ahead(i)
<1>1. DashInv /\ [DashNext]_dashVars => [Step]_dashVars
  BY LoopNearer, OthersAside DEF DashInv
<1>2. [][Step]_dashVars => QuitComesNearer
  BY DEF QuitComesNearer
<1> QED
  BY <1>1, <1>2, DashInvariant, PTL DEF DashSpec
==============================================================================
