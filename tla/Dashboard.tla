------------------------------ MODULE Dashboard ------------------------------
(***************************************************************************)
(* The dashboard of src/src/ui.rs: three tasks that share one AppState     *)
(* behind a mutex nobody holds across an await.                            *)
(*                                                                         *)
(*   - the main loop draws, takes one key at a time and refreshes the      *)
(*     whole status now and then;                                          *)
(*   - the poller looks at Tor every five seconds;                         *)
(*   - the rotation timer asks Tor for a new circuit and looks up the      *)
(*     address that comes with it.                                         *)
(*                                                                         *)
(* What a task has read of the outside it writes later, under the lock, so *)
(* each of these is a step of its own.  The outside is the variable env.   *)
(* What is shown is AppState: the next draw puts it on the screen, and the *)
(* main loop draws before it waits for a key, at no other time.            *)
(***************************************************************************)
EXTENDS Naturals, Sequences

CONSTANTS
  Controls,    \* what Tor's control port may be like, see ControlKinds
  Addresses,   \* the public addresses of the machine
  NoAddress,
  DnsSecure,   \* a DoH provider is configured
  AutoRotate,  \* the interval of automatic rotation is not zero
  MaxChanges,  \* bound: how often the outside changes
  MaxPresses,  \* bound: how many keys are pressed
  MaxRotations \* bound: how many rotations the timer starts

\* It refuses connections; accepts them and says nothing before a command is
\* sent; greets and obeys; greets and rejects the password.
ControlKinds == {"refuses", "silent", "greets", "denies"}

ASSUME ControlsAssumption  == Controls \subseteq ControlKinds
ASSUME AddressAssumption   == NoAddress \notin Addresses
ASSUME SwitchesAssumption  == DnsSecure \in BOOLEAN /\ AutoRotate \in BOOLEAN
ASSUME BoundsAssumption    == {MaxChanges, MaxPresses, MaxRotations} \subseteq Nat

Keys   == {"q", "r", "s", "other"}
Levels == {"None", "Low", "Medium", "High"}

\* The outside.  On a fast network every fetch succeeds and every status
\* check ends before its timeout; on a slow one either may fail.
Env == [control : Controls, socks : BOOLEAN, net : {"fast", "slow"},
        ip : Addresses]

VARIABLES
  env, changes,       \* the outside, and how often it has changed
  keys, presses,      \* the keys not yet read, and how many were pressed
  mpc, job, chk,      \* main loop: where it is, for what, what it has read
  ppc, polled,        \* poller: where it is, what it has read
  apc, fetched,       \* rotation timer: likewise
  shown, connected,   \* AppState: the privacy status, the connected flag
  asked, ok, failed   \* rotations begun (history), and the two statistics

envVars  == <<env, changes, keys, presses>>
mainVars == <<mpc, job, chk>>
pollVars == <<ppc, polled>>
autoVars == <<apc, fetched>>
appVars  == <<shown, connected>>
statVars == <<asked, ok, failed>>
dashVars == <<envVars, mainVars, pollVars, autoVars, appVars, statVars>>

Found == Addresses \cup {NoAddress}
Web   == [ip : Found, geo : Found]
NoWeb == [ip |-> NoAddress, geo |-> NoAddress]
Status == [tor : BOOLEAN, proxy : BOOLEAN, web : Web, level : Levels]

EmptyStatus == [tor |-> FALSE, proxy |-> FALSE, web |-> NoWeb, level |-> "None"]

FromChecks(tor, dns, proxy) ==
  CASE tor /\ dns /\ proxy -> "High"
    [] tor /\ ~(dns /\ proxy) -> "Medium"
    [] ~tor /\ dns -> "Low"
    [] OTHER -> "None"

\* check_tor_available: an obedient control port or, failing that, an open
\* SOCKS port.  Every wait in it has a timeout.
TorAvailable(e) == e.control = "greets" \/ e.socks

\* What the fetches of the address and of its location may return.
Fetches(e) ==
  IF e.net = "fast"
  THEN {[ip |-> e.ip, geo |-> e.ip]}
  ELSE {NoWeb, [ip |-> e.ip, geo |-> NoAddress], [ip |-> e.ip, geo |-> e.ip]}

\* rotate_circuit has no timeout once it is connected: it waits for the
\* banner of a silent port until that connection is gone.
RotationEnds == env.control # "silent"
RotationMaySucceed == env.control = "greets"

-----------------------------------------------------------------------------
DashInit ==
  /\ env \in Env /\ changes = 0
  /\ keys = << >> /\ presses = 0
  /\ mpc = "tor" /\ job = "initial" /\ chk = EmptyStatus
  /\ ppc = "sleep" /\ polled = FALSE
  /\ apc = (IF AutoRotate THEN "sleep" ELSE "off") /\ fetched = NoWeb
  /\ shown = EmptyStatus /\ connected = FALSE
  /\ asked = 0 /\ ok = 0 /\ failed = 0

(* The outside. *)

Change ==
  /\ changes < MaxChanges
  /\ \/ \E c \in Controls : env' = [env EXCEPT !.control = c]
     \/ env' = [env EXCEPT !.socks = ~@]
     \/ \E n \in {"fast", "slow"} : env' = [env EXCEPT !.net = n]
     \/ \E a \in Addresses : env' = [env EXCEPT !.ip = a]
  /\ env' # env
  /\ changes' = changes + 1
  /\ UNCHANGED <<keys, presses, mainVars, pollVars, autoVars, appVars, statVars>>

Press(k) ==
  /\ presses < MaxPresses
  /\ keys' = Append(keys, k)
  /\ presses' = presses + 1
  /\ UNCHANGED <<env, changes, mainVars, pollVars, autoVars, appVars, statVars>>

(* check_status, as the main loop runs it. *)

BeginCheck(j) ==
  /\ mpc' = "tor"
  /\ job' = j
  /\ chk' = EmptyStatus

CheckTor ==
  /\ mpc = "tor"
  /\ chk' = [chk EXCEPT !.tor = TorAvailable(env)]
  /\ mpc' = "web"
  /\ UNCHANGED <<envVars, job, pollVars, autoVars, appVars, statVars>>

CheckWeb ==
  /\ mpc = "web"
  /\ \E w \in Fetches(env) : chk' = [chk EXCEPT !.web = w]
  /\ mpc' = "proxy"
  /\ UNCHANGED <<envVars, job, pollVars, autoVars, appVars, statVars>>

CheckProxy ==
  /\ mpc = "proxy"
  /\ chk' = [chk EXCEPT !.proxy = env.socks,
                        !.level = FromChecks(chk.tor, DnsSecure, env.socks)]
  /\ mpc' = "write"
  /\ UNCHANGED <<envVars, job, pollVars, autoVars, appVars, statVars>>

\* A check asked for by a key is followed by the test for the periodic one.
AfterCheck == mpc' = IF job = "asked" THEN "tick" ELSE "loop"

\* Mutant: the flag is not refreshed with the status.
ShowCheckKeepsFlag ==
  /\ mpc = "write"
  /\ shown' = chk
  /\ UNCHANGED connected
  /\ AfterCheck /\ job' = "none" /\ chk' = EmptyStatus
  /\ UNCHANGED <<envVars, pollVars, autoVars, statVars>>

\* Mutant: a refresh that finds no proxy leaves the old status in place.
ShowCheckOnlyIfUp ==
  /\ mpc = "write"
  /\ shown' = (IF chk.proxy THEN chk ELSE shown)
  /\ connected' = shown'.proxy
  /\ AfterCheck /\ job' = "none" /\ chk' = EmptyStatus
  /\ UNCHANGED <<envVars, pollVars, autoVars, statVars>>

\* The lock, the replacement of the whole status, the connected flag.
ShowCheck ==
  /\ mpc = "write"
  /\ shown' = chk
  /\ connected' = chk.proxy
  /\ AfterCheck /\ job' = "none" /\ chk' = EmptyStatus
  /\ UNCHANGED <<envVars, pollVars, autoVars, statVars>>

\* The timeout around the initial check and the periodic ones drops the
\* check.  The first one then takes the proxy to be working.
CheckTimesOut ==
  /\ mpc \in {"web", "proxy"} /\ job \in {"initial", "periodic"}
  /\ env.net = "slow"
  /\ IF job = "initial"
     THEN /\ shown' = [shown EXCEPT !.proxy = TRUE]
          /\ connected' = TRUE
     ELSE UNCHANGED appVars
  /\ mpc' = "loop" /\ job' = "none" /\ chk' = EmptyStatus
  /\ UNCHANGED <<envVars, pollVars, autoVars, statVars>>

(* The main loop: at "loop" it waits for a key, after a key comes "tick". *)

TakeKey(k) ==
  /\ mpc = "loop" /\ keys # << >> /\ Head(keys) = k
  /\ keys' = Tail(keys)
  /\ UNCHANGED <<env, changes, presses>>

\* Mutant: the handle of the poller is dropped, which detaches the task.
KeyQuitLeavesPoller ==
  /\ TakeKey("q")
  /\ mpc' = "over" /\ apc' = "over"
  /\ UNCHANGED <<job, chk, pollVars, fetched, appVars, statVars>>

\* q and Esc leave the loop, and both background tasks are aborted.
KeyQuit ==
  /\ TakeKey("q")
  /\ mpc' = "over" /\ ppc' = "over" /\ apc' = "over"
  /\ UNCHANGED <<job, chk, polled, fetched, appVars, statVars>>

\* draw, poll or read of the terminal fails: the ? leaves run_dashboard, and
\* nobody aborts the background tasks ...
LoopFails ==
  /\ mpc = "loop"
  /\ mpc' = "failed"
  /\ UNCHANGED <<envVars, job, chk, pollVars, autoVars, appVars, statVars>>

\* ... which end with the runtime, when main returns the error.
EndProcess ==
  /\ mpc = "failed"
  /\ mpc' = "over" /\ ppc' = "over" /\ apc' = "over"
  /\ UNCHANGED <<envVars, job, chk, polled, fetched, appVars, statVars>>

KeyRotate ==
  /\ TakeKey("r")
  /\ mpc' = "rotate"
  /\ asked' = asked + 1
  /\ UNCHANGED <<job, chk, pollVars, autoVars, appVars, ok, failed>>

\* s runs a check that has no timeout.
KeyStatus ==
  /\ TakeKey("s")
  /\ BeginCheck("asked")
  /\ UNCHANGED <<pollVars, autoVars, appVars, statVars>>

\* c cleans the session, which touches nothing here, and other keys nothing.
KeyOther ==
  /\ TakeKey("other")
  /\ mpc' = "tick"
  /\ UNCHANGED <<job, chk, pollVars, autoVars, appVars, statVars>>

RotateOk ==
  /\ mpc = "rotate" /\ RotationEnds /\ RotationMaySucceed
  /\ ok' = ok + 1
  /\ mpc' = "tick"
  /\ UNCHANGED <<envVars, job, chk, pollVars, autoVars, appVars, asked, failed>>

\* Mutant: the failure is logged and not recorded.
RotateFailsUnrecorded ==
  /\ mpc = "rotate" /\ RotationEnds
  /\ mpc' = "tick"
  /\ UNCHANGED <<envVars, job, chk, pollVars, autoVars, appVars, statVars>>

\* No connection, a rejected password, or a connection lost on the way.
RotateFails ==
  /\ mpc = "rotate" /\ RotationEnds
  /\ failed' = failed + 1
  /\ mpc' = "tick"
  /\ UNCHANGED <<envVars, job, chk, pollVars, autoVars, appVars, asked, ok>>

\* Mutant: a refresh that is due goes before the keys that wait.
RefreshFirst ==
  /\ mpc \in {"tick", "loop"}
  /\ BeginCheck("periodic")
  /\ UNCHANGED <<envVars, pollVars, autoVars, appVars, statVars>>

\* Ten seconds have gone by since the last refresh: seen after a key, or
\* after a quarter of a second without one.
Refresh ==
  /\ mpc = "tick" \/ (mpc = "loop" /\ keys = << >>)
  /\ BeginCheck("periodic")
  /\ UNCHANGED <<envVars, pollVars, autoVars, appVars, statVars>>

\* They have not.
NoRefresh ==
  /\ mpc = "tick"
  /\ mpc' = "loop"
  /\ UNCHANGED <<envVars, job, chk, pollVars, autoVars, appVars, statVars>>

(* poll_status_loop. *)

PollTor ==
  /\ ppc = "sleep"
  /\ polled' = TorAvailable(env)
  /\ ppc' = "write"
  /\ UNCHANGED <<envVars, mainVars, autoVars, appVars, statVars>>

\* Mutant: the poller only ever reports that Tor has come up.
ShowPollUpOnly ==
  /\ ppc = "write"
  /\ shown' = [shown EXCEPT !.tor = @ \/ polled]
  /\ polled' = FALSE
  /\ ppc' = "sleep"
  /\ UNCHANGED <<envVars, mainVars, autoVars, connected, statVars>>

\* Only the status of Tor is replaced: the level is not worked out again.
ShowPoll ==
  /\ ppc = "write"
  /\ shown' = [shown EXCEPT !.tor = polled]
  /\ polled' = FALSE
  /\ ppc' = "sleep"
  /\ UNCHANGED <<envVars, mainVars, autoVars, connected, statVars>>

(* auto_rotate_loop. *)

AutoBegin ==
  /\ apc = "sleep" /\ asked < MaxRotations
  /\ asked' = asked + 1
  /\ apc' = "rotate"
  /\ UNCHANGED <<envVars, mainVars, pollVars, fetched, appVars, ok, failed>>

AutoOk ==
  /\ apc = "rotate" /\ RotationEnds /\ RotationMaySucceed
  /\ ok' = ok + 1
  /\ apc' = "web"
  /\ UNCHANGED <<envVars, mainVars, pollVars, fetched, appVars, asked, failed>>

AutoFails ==
  /\ apc = "rotate" /\ RotationEnds
  /\ failed' = failed + 1
  /\ apc' = "sleep"
  /\ UNCHANGED <<envVars, mainVars, pollVars, fetched, appVars, asked, ok>>

\* After three seconds, the address and then its location.  Without an
\* address there is nothing to write.
AutoFetch ==
  /\ apc = "web"
  /\ \E w \in Fetches(env) :
       /\ fetched' = w
       /\ apc' = (IF w.ip = NoAddress THEN "sleep" ELSE "write")
  /\ UNCHANGED <<envVars, mainVars, pollVars, appVars, statVars>>

\* A location that was not found leaves the one shown as it is.
ShowFetched ==
  /\ apc = "write"
  /\ shown' = [shown EXCEPT !.web = [ip |-> fetched.ip,
                 geo |-> IF fetched.geo = NoAddress THEN @.geo ELSE fetched.geo]]
  /\ fetched' = NoWeb
  /\ apc' = "sleep"
  /\ UNCHANGED <<envVars, mainVars, pollVars, connected, statVars>>

MainStep ==
  \/ CheckTor \/ CheckWeb \/ CheckProxy \/ ShowCheck \/ CheckTimesOut
  \/ KeyQuit \/ LoopFails \/ EndProcess \/ KeyRotate \/ KeyStatus \/ KeyOther
  \/ RotateOk \/ RotateFails \/ Refresh \/ NoRefresh
PollStep == PollTor \/ ShowPoll
AutoStep == AutoBegin \/ AutoOk \/ AutoFails \/ AutoFetch \/ ShowFetched

DashNext == \/ MainStep \/ PollStep \/ AutoStep
            \/ Change \/ \E k \in Keys : Press(k)

\* The runtime polls every task that can go on; what is outside owes nothing.
Fairness == /\ WF_dashVars(MainStep) /\ WF_dashVars(PollStep)
            /\ WF_dashVars(AutoStep)

DashSpec == DashInit /\ [][DashNext]_dashVars /\ Fairness

-----------------------------------------------------------------------------
\* Every variable stays in its range, and no background task is left behind: q
\* takes both with it, and after an error of the terminal the process does.
DashTypeOK ==
  /\ env \in Env /\ changes \in 0..MaxChanges
  /\ keys \in Seq(Keys) /\ Len(keys) <= presses /\ presses \in 0..MaxPresses
  /\ mpc \in {"tor", "web", "proxy", "write", "loop", "tick", "rotate",
             "failed", "over"}
  /\ job \in {"initial", "periodic", "asked", "none"}
  /\ chk \in Status
  /\ ppc \in {"sleep", "write", "over"} /\ polled \in BOOLEAN
  /\ apc \in {"off", "sleep", "rotate", "web", "write", "over"}
  /\ fetched \in Web
  /\ mpc = "over" => ppc = "over" /\ apc = "over"
  /\ shown \in Status /\ connected \in BOOLEAN
  /\ asked \in Nat /\ ok \in Nat /\ failed \in Nat

\* The title bar's CONNECTED and the proxy indicator of the status never
\* contradict one another, whichever task wrote last and whether the check
\* ended or timed out.
FlagAgrees == connected = shown.proxy

\* Every rotation begun, by the key or by the timer, is counted exactly once,
\* as a success or as a failure, when it ends.
RotationsCounted ==
  mpc # "over" =>
    asked = ok + failed + (IF mpc = "rotate" THEN 1 ELSE 0)
                        + (IF apc = "rotate" THEN 1 ELSE 0)

\* Tor going away for good is in AppState in the end, for the next draw to
\* show, whatever stale result a refresh that was on its way still writes: the
\* poller writes it also while the main loop waits on a rotation and draws
\* nothing.  Likewise Tor coming up for good.
TorNoticed ==
  /\ <>[](~TorAvailable(env)) => <>[](~shown.tor \/ mpc = "over")
  /\ <>[](TorAvailable(env)) => <>[](shown.tor \/ mpc = "over")

Truth == /\ shown = [tor |-> TorAvailable(env), proxy |-> env.socks,
                     web |-> [ip |-> env.ip, geo |-> env.ip],
                     level |-> FromChecks(TorAvailable(env), DnsSecure, env.socks)]
         /\ connected = env.socks

\* When the outside has come to rest with a fast network and a control port
\* that is not silent, all that is displayed becomes right and stays right: no
\* result read earlier overwrites a later one for good.
DisplaySettles ==
  <>[](env.net = "fast" /\ env.control # "silent") => <>[](Truth \/ mpc = "over")

QuitPressed == \E i \in 1..Len(keys) : keys[i] = "q"

\* As long as the control port is not silent for ever, q leaves the dashboard,
\* however many rotations and refreshes are in front of it.
QuitServed ==
  <>[](env.control # "silent") => (QuitPressed ~> mpc = "over")

\* What the README says of q: it quits the dashboard.
QuitQuits == QuitPressed ~> mpc = "over"

\* What from_checks says of the highest level: Tor is active.
HighMeansTor == shown.level = "High" => shown.tor
==============================================================================
