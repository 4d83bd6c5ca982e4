# A verification of nofind

nofind is a command-line privacy tool: it sets the firewall of a Linux machine
up so that all traffic goes through Tor, runs a dashboard and a local proxy,
and cleans up after itself. This directory holds TLA+ models of its parts, TLC
runs on small instances, and TLAPS proofs for every instance. Source paths
below are relative to the repository (`src/transparent.rs` is `src/src/…` in
`PROJECT.json`).

Run `tlc -config <Run>.cfg <MCModule>` for a run of `PROJECT.json` and
`tlapm <Module>Proofs.tla` for the proofs.

## The system

| component | state | operations | who it interacts with |
|---|---|---|---|
| transparent proxy (`transparent.rs`) | none of its own: the kernel's iptables chains, the backup file `/tmp/nofind-iptables-backup.rules` | `transparent-start`, `transparent-stop`, `transparent-status`, `transparent-setup` | every command is a process that spawns `iptables`, `iptables-save`, `iptables-restore` one after another |
| session cleaning (`security.rs`) | an error counter | `clean_session`: session directory, every entry of the temp directory named after nofind, three directories at home | called by the command line, by the key `c` and when the dashboard ends; shares the temp directory with the backup file |
| dashboard (`ui.rs`) | `AppState` (status, connected flag, log, statistics) behind a mutex | main loop (keys q r c s, periodic refresh), poller, rotation timer | Tor's control and SOCKS ports, two web services |
| Tor control client (`tor.rs`) | none | `check_tor_available`, `rotate_circuit`, `rotate_identity_command` | the control port, by a line protocol |
| privacy status (`privacy.rs`) | none | `check_status`, `from_checks` | the Tor client, the HTTP fetches, the SOCKS port |
| statistics (`stats.rs`) | counters behind a mutex | `record_*`, `update_exit`, the report | the dashboard |
| local proxy (`proxy.rs`) | the flag of stop(); one task per connection, two relays per tunnel; the descriptors of the process | `serve`, `stop`, CONNECT tunnel, plain request | browser, Tor's SOCKS port |
| vault and RAM mode (`vault.rs`) | the vault file, the key | `seal`, `unseal`, `destroy`, `vault-init`, `vault-destroy` | the file system |
| leak checks and DoH client (`leaks.rs`, `dns.rs`) | a report; a cache behind a mutex | `run_checks`; `resolve`, `leak_test` | an address service, two DoH providers, STUN servers, two echo services |
| MAC changer (`mac.rs`) | none: the interface | `change_mac`, the parser of `ip link` | `ip`, `sudo` |
| HTTP client, fingerprints, configuration, command line, helpers | header set and counter of a client; constants | | |

What is hard in it, and where it bites, is the `hazards` list of
`PROJECT.json`. In short: a start is up to fourteen external programs and a
stop up to five, each may fail and the process may die between two of them;
the order of the rules, of the tables and of the flushes decides what leaks;
the only copy of the user's rules is a file in a directory another command
sweeps; three tasks write one display with results that were read earlier; and
some reads from the control port wait for ever.

What makes each component correct:

- transparent proxy: the user's rules are never lost, a stop brings them back,
  Tor itself always reaches the network, the kill switch lets no TCP packet of
  the user's out between the end of a start and the restoration;
- session cleaning: a cleaning that says Ok has removed what it found, and it
  removes nothing another command relies on;
- dashboard: what is shown agrees with itself and, in the end, with the
  outside; keys are served; every rotation is counted once;
- local proxy: a tunnel delivers each direction's bytes in order, to the end,
  and both relays end; nobody waits behind a connection that hangs, stop() is
  obeyed, and an answer has the length it announces;
- vault: a crash leaves the old vault, the new one or none;
- leak checks: the report says what the answers say, whatever else fails;
- MAC changer: no interface is left down without a failure that explains it, and
  a success that is reported is true.

## The modules

| module | what it is |
|---|---|
| `Netfilter` | packets, the rules a start appends, and the path of a packet through nat OUTPUT and filter OUTPUT. The path is the kernel's and external; which rule matches which packet is read off `start_transparent` |
| `Host` | the chains, the loaded tables, the backup file; what `iptables-save` prints and `iptables-restore` replays |
| `UndoLog` | abstract: the user's rules are in force, or a copy is kept; they change only while it is kept, it is dropped only while they are in force |
| `Transparent` | the two commands, one action per external program and per error path |
| `SessionCleanup` | `clean_session`, one action per file operation |
| `TransparentCleanup` | composition: the commands and a cleaning side by side, sharing `backup` |
| `Dashboard` | the three tasks, the keys and the outside |
| `ByteStream` | abstract: what one direction of a tunnel promises |
| `Connection` | abstract: what becomes of one connection to the local proxy |
| `Tunnel` | a CONNECT connection of the local proxy: the handler, the two relays, the browser and Tor |
| `Proxy` | composition: the accept loop, stop and exit, and all connections, which share the descriptors |
| `Cell` | abstract: a vault is absent, whole or ruined |
| `Vault` | `vault-init`, `vault-destroy` and the load of `connect --vault-password`, one action per call of the file system |
| `IpLink` | the parser of `ip link show` of the MAC changer, as operators |
| `MacChange` | `change-mac`, one action per program it runs and per error path, several commands at once |
| `LeakCheck` | `check-leaks`, one action per probe and outcome |
| `MCTransparent`, `MCTransparentCleanup`, `MCDashboard`, `MCTunnel`, `MCVault`, `MCLeakCheck`, `MCMacChange` | small instances; `Proxy` needs none |
| `TransparentProofs`, `TrafficProofs`, `DashboardProofs`, `TunnelProofs`, `ProxyProofs`, `VaultProofs`, `LeakProofs`, `MacProofs` | theorems |

### How `Transparent` corresponds to the code

`pc` is the point a command has reached. A start goes `save` (iptables-save),
`truncate` and `fill` (the two halves of `fs::write`), then `append`, where
`step` walks `Plan(opt)`, the sequence of rules the options select; a rule in
`Tolerated` is one whose error the code drops (`let _ =`), any other error ends
the command and leaves the rules so far. A stop goes `flushNat`, `flushPre`,
`flushFilter` (only with `kill_switch`, which the command line never passes to
a stop), `look` (`exists()`), `restore`, `unlink`. `ret` is how a command has
ended: `warned` is a stop that printed a warning, `stopped` one that claims
that the network is back to normal. The six DoH rules differ in the address
only and are one rule. The ports are probed before anything changes; only the
answer for DNSPort matters (`opt.dns`). Printing is left out.

`session` and `promise` are history: how far the operator has come, and which
options the last finished start has announced. `Careful` restricts starts only:
an operator who follows the README starts when nothing is started. A stop may be
called at any time, and some of them lose the user's nat rules: those called when no
start has a complete backup ready, because nothing was started, or because the
start was killed, or met a full disk, between truncating and filling the file
(`FillPart` is a disk that takes a part of it). The history `risked` records that
such a stop was called, until the machine restarts. `Recoverable`, `StopRestores`
and `KeepsUserRules` promise nothing after it, and so say that there is no other
way to lose the rules; the finding at `transparent.rs:219` says what happens in this one.
Without the exemption TLC refutes all three.

Tables that are not loaded matter because `iptables-save` does not print them:
`loaded` records them and `Saved` leaves the others out. `iptables-restore`
commits table by table, so `RestoreFails` may have replayed any proper part.

The faults a run admits are the constant `Faults`: `spawn` (program missing),
`save` (iptables-save exits with an error and prints nothing, which the code
does not notice), `write`, `append`, `flush`, `restore`, `unlink`, `crash`,
`reboot`.

### How `Dashboard` corresponds to the code

No task holds the lock across an await, so that reading the outside and writing the
result are separate steps. The main loop's `mpc` goes `tor`, `web`, `proxy`, `write`
through `check_status`; `job` says whether the check is the initial one (10 s timeout,
after which the proxy is taken to be working), a periodic one (8 s, dropped) or one
asked for with `s` (no timeout). `loop` waits for a key, `tick` follows a key,
`rotate` awaits `rotate_circuit`. The poller writes only the status of Tor; the
rotation timer only address and location. `env` is the outside: what the control port
is like, whether SOCKS answers, whether the network is fast (no fetch fails, no check
times out) or slow (either may), and the public address. A check that was asked for
with `s` is followed, like every key, by the test for the periodic one (`AfterCheck`).
When draw, poll or read of the terminal fails (`LoopFails`) nobody aborts the other
tasks: they go on until `main` has returned the error and the runtime ends
(`EndProcess`); `q` aborts them itself. `shown` is `AppState`; the screen has it from
the next draw, which comes before the wait for a key and at no other time. So
`TorNoticed` says that the loss of Tor is in `AppState`, and not that a main loop
which hangs draws it. Time is not modelled: a timeout may strike whenever the network
is slow, a sleep ends at any time. Log lines and rendering are left out; `c` changes
nothing here (see `SessionCleanup`).

### How `Tunnel` corresponds to the code

`hpc` is where `handle_connection` is: `head` (the one read of the request),
`dial` (connect to Tor), `methods`, `auth`, `command` (the answers of the SOCKS
handshake it waits for), `reply` (the 200), `relay` (waiting in `try_join!`).
Every `?` and `bail!` before the relays is `Abandon`: both sockets are closed
and the browser is told nothing. `rpc[d]` is where the relay of a direction is:
in its read, in its `write_all`, or ended. A direction `d` goes from the
sender's socket (`wire[d]`) through the relay's buffer (`buf[d]`) to the
receiver's socket (`out[d]`); a piece stands for any number of bytes, and a
request head is three pieces, because one read may return any part of it.
`write_all` is one step for each piece that finds room, so that a relay blocks
in the middle of a buffer. A relay that ends drops its two halves: the reading
half closes nothing by itself, the writing half ends the stream (`shut`). When
both directions are shut the socket is closed, and closing a socket with unread
bytes in it resets the connection (`SeeReset`). The browser and Tor may at any
time close a direction, close everything, or reset (`Leave`). `sent` is
history: what the handler's first read left in the socket, then what each end
sends. A relay whose read fails ends as one that has read the end does: it drops
its writing half, and the receiver sees an end like any other. The code cannot tell
the two apart, so `UpIsStream` and `DownIsStream` exempt tunnels one end of which
has left or reset: that a stream which ends is complete is claimed of the others
only. That a read may end inside the name of the target, and dial a shorter
one, is not told apart from a read of the whole line.

### How `Proxy` corresponds to the code

`loop` is where `serve` is: `bind`, `check` (the flag at the head of the loop),
`accept`, `ended`. `backlog` is the kernel's queue. `phase` says how far a
connection is: away or queued; `new` (its task waits in the one read); `dial`,
`shake` and `relay` of a tunnel, whose bytes are in `Tunnel`; `fetch`, `wait`
and `answer` of a plain request. `Held` is how many descriptors a phase holds;
`accept` and `connect` fail when none of the `Limit` is left, and `AcceptFails`
is the loop that goes round at once. `Stop` clears the flag that the loop reads
before its next `accept`; `Exit` is the end of the command, which aborts the
loop and drops every task. A plain request is what decides its answer: whether
the answer has a body (`bare`), its coding and whether it is chunked; `Passed`
is what reqwest makes of that, and is external. `Bytes` stands for three
lengths: none, the coded body's, the plain one's. `late` and `told` are
history. URL and headers of a request are left out.

`Connection` states what becomes of one connection. Both modules implement it:
`Proxy` for each of its connections, whatever the others do, and `Tunnel` for
the bytes of one, so that the two levels agree on when a tunnel begins and
ends.

### How `SessionCleanup` corresponds to the code

`cpc` walks through `clean_session`: the session directory, `open` and `scan`
(the temp directory, whose entries are read at once and removed one by one), the
three directories at home, `end`. An entry in `Resisting` may be removed or
refuse; an entry that is gone when the scan comes to it ends the scan as well
(the `?` on the removal), and a temp directory that cannot be read skips it
(`OpenFails`). The backup file of the transparent proxy is an entry
like the others. `doomed` is history: what was there when the cleaning began
and has not gone since.

### How `Vault` corresponds to the code

`vault` and `tmp` say which file the names `vault.enc` and `vault.tmp` stand for,
`data` what a file holds. Files are told apart from their names because a
process keeps the file it has opened when another one renames or removes it.
What a file holds is a sealed configuration, written as its password (the
configuration is always the default one), or something that does not open: it
is empty, a part, or the random bytes of a destroy. The two length checks and
the tag of `unseal` refuse these alike, as they do another password. `fs::write`
is two steps, the truncation and the write. The random bytes are as many as the
file had; their number is left out. A crash is a killed process: what it has written
stays written. The code calls no fsync, and nothing is said of a power loss.
`ConfigVault::destroy` does the same as
`cmd_vault_destroy` and is called by nobody.

### How `IpLink` and `MacChange` correspond to the code

A line is what the parser tells apart in it, and `Told` what it says of the entry it
belongs to. `Take` is one turn of the loop over the lines, `ReadOf` the loop, a
recursive function of the number of lines read, so that theorems can be stated about
the module, and `Parsed` what it has found, with the entry saved behind it. `FirstUp`
is the `iter().find` that takes the first entry that is up. What `ip` prints, two
lines for an interface, is external. Of a link that is up it may say `UP`, `DOWN` (no
carrier) or something the parser does not know, which it lists as `Unknown` (`shows`):
one end of a pair whose other end is down is `LOWERLAYERDOWN`. An address is its first
byte, which decides whether the kernel takes it.

`pc` is the point a `change-mac` has reached: `confirm` (the prompt, then
`is_valid_mac`), `down`, `set`, `up`, the three commands, and `rescue`, the
`up` whose result the code drops. A failure of the second command goes through
`rescue`; an `ip` that cannot be started does not (`SetAddressNotRun`). The kernel
refuses an address of a group, and one for an interface that has none. Interfaces
are not added or removed meanwhile. `excused` and `overtaken` are history: which
links are down for a reason the operator can know, and which command has lost its
address to one that overlapped.

### How `LeakCheck` corresponds to the code

`run_checks` makes one probe after another: `pc` is the next one, `found` the flags of
the report that are raised, `mine` the list `resolve` has returned for the domain at
hand. A reply of a provider is the HTTP status, the status of the resolution and the
records, or `Lost` when no JSON comes; `resolve` looks at both statuses, the second
query of `leak_test` at neither. `replies`, `heard`, `skipped` and `unasked` are
history: what the world has said, which checks had no client, and for which domains
the client for Google could not be made (`NoGoogleClient`, the `?` on its `build()`);
from these the properties tell what the report should be. `EveryProbeTried` is about
requests that fail: a client that cannot be made costs what it would have asked. The
model begins when the configuration is loaded. The cache of the client is left out:
the command makes one client and asks each domain once.

## What the runs show

| run | bounds | shows |
|---|---|---|
| `TransparentSession` | one command at a time, a start only when nothing is started, a stop at any time, all options, every fault but `save`, three chains with a user rule each | `Recoverable`, `StopRestores`, `LanExcluded`; refinement of `UndoLog` (`KeepsUserRules`) |
| `TransparentMisuse` | any sequence of starts and stops, chains up to three rules when a start begins, faults that leave the host half changed; a root user's cleaning between and during them, with an entry in the temp directory and a directory at home that may resist | `TorReachesNetwork`, `Anonymous`, `KillSwitchHolds`, `OkMeansClean` |
| `TransparentRace` | two commands that overlap in every order, plain starts, a save or a restore may fail | `UserFilterKept` |
| `DashboardKeys` | main loop and poller, two keys, one change outside, three kinds of control port | `TorNoticed`, `QuitServed` |
| `DashboardDisplay` | three tasks, one change, one key, two addresses, two rotations, by the key and by the timer, also at the same time | `FlagAgrees`, `RotationsCounted`, `DisplaySettles` |
| `TunnelStreams` | three pieces in a direction behind the head, socket buffers of two, a head in up to three segments; either end leaves at any time | refinement of `ByteStream` in both directions (`UpIsStream`, `DownIsStream`) and of `Connection` (`IsConnection`), `Drains`, `LeavingEnds` |
| `ProxyConnections` | three browsers, three descriptors, every answer of a server; stop and exit at any time | refinement of `Connection` by each connection (`IsConnection`), `StopHolds`, `AnswerFramed`, `Served`, `NotBehindOthers`, `PlainEnds` |
| `VaultSession` | three processes, one of them writing at a time, two passwords, four files (the two names, and two former vaults that loads hold open) | refinement of `Cell` (`IsCell`), `ReadsCurrent` |
| `LeakReport` | two test domains, four lists of records (none, an alias and an address, two addresses in either order), every failure | `DnsLeakReported`, `EveryProbeTried`, `CheckEnds` |
| `MacChange` | two commands that overlap in every order, four machines (with `lo`, a wired interface, one end of a pair and a tunnel without an address), any program may fail or be missing, any command be killed | `DownHasOwner`, `SuccessIsTrue`, `ListingServes` |

Runs that TLC refutes, each a disagreement between the code and a sentence of
the repository, quoted in `findings`:

| run | what happens |
|---|---|
| `CleanupDropsBackup` | start, clean-session, stop: nothing is restored, success is reported |
| `QuitHangs` | `r` with a control port that does not speak first: `q` is never read |

More refutations need only a change of a `.cfg`. In `TransparentSession`,
`StopRestores` with `InitLoaded = {}` and `Own <- MCBareOwn` (on a machine where no
table was loaded the filter rules survive the stop), and with `Careful = FALSE`,
`Faults = {}`, `StopKill = {FALSE}` and `Own <- MCFilterOwn` (two starts, one stop:
the backup holds nofind's rules, and these are restored); `DohBlocked` in place of the
properties of `TransparentMisuse` (nat precedes filter, so that a connection to a DoH
provider is redirected and not rejected); `HighMeansTor` in `DashboardDisplay` (Tor is
lost, the poller shows it, HIGH stays); `IsCell` with `Exclusive = FALSE` (two inits
share `vault.tmp`, and one renames what the other has just emptied); in `LeakReport`,
`GoodMeansChecked` (no network: every probe fails, the verdict is GOOD) and
`SameAddressesAgree` (the same addresses in another order are a leak). The findings
that name no run were met while reading, and state what the code does at the line they
name.

The bounds are enough for what is asked. One command at a time needs one process;
commands that overlap are two, and a pair already meets every race on the backup file.
A chain of three rules lets a start follow one that failed anywhere or a plain one
that ended, so that the rules of one stand behind those of the other; that the number
of starts does not matter is proved (below). One change outside, from any state of it
to any other of one of its parts, lets a stale result of each task meet a fresher one
of each of the others, and what settles in the end is what has come after the last
change, however many there were (`DisplayStays`, below); a key and two rotations let
both kinds of rotation be under way together; two keys put a rotation or a check in
front of `q`. A tunnel of three pieces through buffers of two blocks a relay in front
of, inside and behind a buffer, and leaves bytes behind in each of the three places
when an end goes away. Of three browsers with three descriptors one has a tunnel,
another the last descriptor and dials in vain, and the third is still in the queue:
the loop spins until one of the others ends. Two `change-mac` meet each other at every
pair of places. Every run of the table explores every interleaving within its bounds.

`CHECK_DEADLOCK FALSE` stands only in the dashboard's runs, whose system stops
when the operator quits, in the tunnel's and the proxy's, which are over when
the relays have ended and the program has returned, and in the leak check's,
which ends with its last probe. `VaultSession` uses symmetry of the
processes, passwords and files; its properties are invariants and action
properties, for which that is sound.

Fairness. The commands need none. The dashboard assumes weak fairness of each
of its three tasks: tokio polls every task that is ready, the main future runs
on the main thread, and no task holds the mutex across an await. A task that
waits for an answer without a timeout (`RotationEnds`) is not ready, so
fairness does not help it: this is what `QuitHangs` shows. `check-leaks` is
one task, weakly fair: each of its requests has a timeout, and the kernel gives up
a connection that is not accepted. Nothing is assumed
of the outside; `TorNoticed`, `DisplaySettles` and `QuitServed` state what they
need of it as a premise (`<>[]`). The handler and the two relays of a tunnel are
tasks of the same kind, weakly fair each; nothing is assumed of the browser and
of Tor. `Drains` has as its premise that the receiver of the direction keeps
reading; `LeavingEnds` that Tor does, and that it closes when it is told of the
end. Without the latter the relay from Tor waits in its read for ever, which is
what the code does. In `Proxy` the accept loop is a task, weakly fair, and so is
every connection's where it waits for nothing but the runtime or its own timer
(`Poll`): a dial, the timeout of a plain request, the end of a tunnel whose relays have
ended. What browsers, Tor and servers do is not fair. `Served` has as its
premise that they let no connection wait (`Lively`), `NotBehindOthers` that
descriptors become free again and again, and `PlainEnds` only that the browser
reads its answer.

## What is proved

All for every value of the constants, from the named assumptions in the
modules.

- `TransparentProofs`: `TypeCorrect`; and, under `DocumentedUse` (Careful, all tables
  loaded, no unnoticed failure of iptables-save), `RulesAreRecoverable`,
  `StopRestoresRules` and `ImplementsUndoLog`. The inductive invariant `UndoInv` ties
  each place in the program to the session and to what the rules and the backup hold
  there, as long as no stop has been called that was not prepared for (`~risked`):
  `Recoverable` alone is not inductive, because it says nothing of the time between
  the backup and the first rule, nor that a second start cannot begin.
- `TrafficProofs`: with one command at a time and whatever fails,
  `TorAlwaysReachesNetwork`, `KillSwitchAlwaysHolds` and `AlwaysAnonymous`. The
  invariant `TrafficInv` says of every chain, in force or saved, that a rule that
  redirects or rejects stands behind the one that exempts Tor (`AllGuarded`), of every
  start that the rules it has gone past are laid (`PrefixLaid`), and of what was
  promised that the rule which keeps it is in force (`KillLaid`, `RedirectLaid`). It
  needs no bound on the number of starts. A cleaning touches only the backup, and a
  backup that is gone is never replayed: the three hold next to it as well
  (`TrafficSurvivesCleaning`). `LanAlwaysExcluded` needs `DocumentedUse`: a start
  behind another one finds the redirections of the first in front of its own
  exclusion. It holds after a stop that lost the user's rules too: `UsersInv` says
  that outside a session every chain, and every file a stop may replay, holds rules of
  the user's only.
- Also there: `FilterRulesAlwaysKept`, for any number of commands at once, provided no
  stop is told to lift the kill switch (the command line never does). The invariant
  `RaceInv` extends it to all that a restore may replay: the backup file and what
  every start holds in memory. A cleaning leaves the rules alone, so that the user's
  filter rules are kept next to it as well (`FilterRulesSurviveCleaning`).
  `OkAlwaysClean` and `CleanTypeCorrect` hold for any commands at once and any entries
  that resist. The invariant `CleanInv` says that, as long as no failure is counted,
  what was there at first and still is lies ahead of the cleaning (`DoomedAhead`), and
  how many failures each place has behind it.
- `TunnelProofs`: `TunnelTypeCorrect`, `UpStreams` and `DownStreams`, for any number
  of pieces and any size of the buffers. The invariant `TunnelInv` says that what has
  been sent is, in this order, with the receiver, in its socket, in the relay's buffer
  and unread (`Conserved`), and that a relay that has ended in an unbroken tunnel has
  nothing left (`EndedIsComplete`); the step lemmas map every action to a step of
  `ByteStream` or to a stutter. `TunnelIsConnection` maps the same steps to
  `Connection`. `DirectionsNeverStuck` and `LeavingNeverStuck` say that there is
  always someone who can go on, and who, for any `Window`: in a direction that has
  been closed, its own relay or its own receiver; behind a browser that has left, a
  relay, or Tor. Their invariant `RelayedInv` says that a tunnel has both relays, and
  that one which has ended has shut its half. `DirectionsDrain` says that a closed
  direction has less to do after each of its steps: three for a piece that is unread,
  two for one the relay holds, one for one that is written, and the two ends.
- `ProxyProofs`: `ProxyTypeCorrect`, `StopAlwaysHolds`, `AnswersFramed` and
  `ConnectionsIndependent`, for any number of browsers and descriptors. The backlog
  holds each waiting browser once (`QueueInv`), which `accept` needs to move one
  connection and no other; that one connection more is accepted after stop() follows
  from what `loop` says about the flag (`LateInv`). `AcceptedInTurn` says that nobody
  loses a place in the backlog, `EveryConnectionRunsOut` that a connection has eight
  steps at most (`ToGo`), whatever the others do.
- `VaultProofs`: `VaultTypeCorrect` for any commands at once; `ImplementsCell` and
  `ReadsAreCurrent` when no two commands that write overlap (`Exclusive`). The
  invariant `VaultInv` says which file a process inside a command has open, that the
  two names never stand for one file, and that a former vault which a load still holds
  can no longer be read (`Reading`). The code has no lock, so `CreatedStaysTrue` and
  `NeverReplacesAVault` ask for less: `Spec /\ []OneInit`, in which destroys and loads
  overlap with one another and with an init, and only two inits do not. The invariant
  `SealedAlone` is that no destroy has `vault.tmp` open, that the file which will be
  renamed holds the password that was given, and that whatever stands at `vault.enc`
  while one init is behind its check is not a whole vault. Two inits that overlap do
  break both: see the finding at `vault.rs:278` in `PROJECT.json`.
- `LeakProofs`: `DnsLeakAlwaysReported` and `EveryProbeAlwaysTried`, for any number of
  domains, any answers and any requests or clients that fail. The invariant `LeakInv`
  says what has come about each domain before, in and after its turn (`DomainsInv`),
  that the flag agrees with it all along, and which probes each place has behind it.
  `LeakTypeCorrect` comes with it: `LeakTypeOK` is proved and no run repeats it.
  `CheckRunsOut`: each step takes the check nearer to its end, which it reaches in 2N
  + 7 steps at most.
- `MacProofs`: `MacTypeCorrect`, `NoLinkIsStranded` and `SuccessTold`, for any
  machine, any addresses and any number of commands that overlap, and
  `RandomMacIsLocal` of the arithmetic of a drawn address. `MacInv` adds that the
  address a command has set is still there when it comes to the third step, unless it
  was overtaken (`AddressSet`). `NothingLeftDown`: if ip is there and brings links up,
  and nobody is killed, no link that was up is down once nobody is at work.
- Also there: `ListingAlwaysServes`, for any machine, whatever state ip shows for its
  links, whose interfaces have names that are not empty and differ from one another
  (`MachinesAssumption`, as the kernel ensures). The library's induction theorems
  cannot be used, but that the natural numbers are well founded can: the least number
  of interfaces for which the list would not serve is refuted (`Holds`: the list, with
  the open entry saved behind it, serves the interfaces read so far). The same
  argument gives `ReadIs`, that the loop has a result after every line.
- `DashboardProofs`: `FlagAlwaysAgrees`, `RotationsAlwaysCounted` and
  `DashTypeCorrect`, for any number of keys, changes and rotations. `TorStaysShown`,
  `DisplayStays` and `QuitApproaches` are what the liveness of the dashboard rests on.
  The first two say that results read after the last change of the outside
  (`TorCurrent`, `Current`) are followed by no other, that the write of one of them
  makes the display right and that none makes it wrong; the third that a `q` is a
  number of steps away (`Ahead`, ten for a key: the check it asks for, the periodic
  one behind it, and the steps between) which every step of the main loop lessens.

Every safety property that a passing run checks is proved. The liveness
properties are model-checked: liveness under fairness, and ENABLED, are out of the
prover's reach. What each rests on is proved, for every value of the constants:
that the step it waits for takes it nearer and no other step takes it back, and
for the tunnel that there is such a step.

| liveness, by TLC | the safety at its core, by TLAPS |
|---|---|
| `TorNoticed` | `TorStaysShown` |
| `DisplaySettles` | `DisplayStays` |
| `QuitServed` | `QuitApproaches` |
| `Drains` | `DirectionsNeverStuck`, `DirectionsDrain` |
| `LeavingEnds` | `LeavingNeverStuck` |
| `NotBehindOthers` | `AcceptedInTurn` |
| `Served`, `PlainEnds` | `EveryConnectionRunsOut` |
| `CheckEnds` | `CheckRunsOut` |

## What is not modelled

- The interactive editing of torrc; `transparent-status`, `print_interfaces`, the
  reports, rendering and log lines: they only print, or ask.
- `create_session_dir`, `secure_delete` and `resolve_direct`, which nothing calls;
  `PrivacyClient`, which only the example calls and which changes its headers in one
  critical section; the cache of the DoH client, which no command can hit; RAM
  mode, which makes a directory and never removes it.
- Fingerprints, configuration, argument parsing and the helpers, which keep no
  state and wait for nothing: choices from tables, constants and formatting.
- The cipher of the vault, and the durations of `check_status` against its
  three timeouts: a timeout may strike at any time instead.
- The length of the target's name in a tunnel, which the code sends as one byte:
  a name has at most 255.

Of commands that overlap one another only `UserFilterKept` is claimed: the code
has no lock, and with `Sequential = FALSE` TLC finds Tor's own traffic
redirected.

## Plan

Done, in this order: `Netfilter`, `Host`, `UndoLog`, `Transparent`,
`SessionCleanup`, `TransparentCleanup`; `Dashboard`; `ByteStream`, `Tunnel`;
`Cell`, `Vault`; `LeakCheck`; `IpLink`, `MacChange`; `Connection`, `Proxy`;
each with its proofs.

Left, should the project grow: the durations of `check_status`; the rewriting of
a plain request's head in `Proxy`; jitter, padding and the overwrite loop of
`secure_delete` as operators against reference definitions, once something
calls them.
