-------------------------------- MODULE Vault --------------------------------
(***************************************************************************)
(* The encrypted vault, src/src/vault.rs: the commands vault-init and      *)
(* vault-destroy and the load of connect --vault-password.  Every process  *)
(* runs one command after another; a step is one call of the file system.  *)
(* A process keeps the file it has opened, whatever becomes of its name.   *)
(***************************************************************************)
CONSTANTS
  Procs,      \* processes that run a command
  Passwords,
  Inodes,     \* bound: files that exist at a time, named or only held open
  NoFile,
  Exclusive   \* no two commands that write run at the same time

Unsealed == {"empty", "part", "noise"}

ASSUME PasswordsAssumption == Passwords \cap (Unsealed \cup {"absent", "ruined"}) = {}
ASSUME NoFileAssumption    == NoFile \notin Inodes
ASSUME ExclusiveAssumption == Exclusive \in BOOLEAN

VARIABLES
  vault, tmp,  \* the files vault.enc and vault.tmp
  data,        \* what a file holds: a sealed configuration is its password
  pc, pw,      \* where a process is, and the password it was given
  fd           \* the file a process has opened

files == <<vault, tmp, data>>
vars  == <<vault, tmp, data, pc, pw, fd>>

InInit    == {"check", "open", "fill", "rename"}
InLoad    == {"find", "openRead", "read"}
InDestroy == {"look", "size", "wipe", "noise", "remove"}
Over      == {"idle", "created", "loaded", "destroyed", "failed", "killed"}

VaultTypeOK ==
  /\ {vault, tmp} \subseteq Inodes \cup {NoFile}
  /\ data \in [Inodes -> Passwords \cup Unsealed]
  /\ pc \in [Procs -> InInit \cup InLoad \cup InDestroy \cup Over]
  /\ pw \in [Procs -> Passwords]
  /\ fd \in [Procs -> Inodes \cup {NoFile}]
  /\ \A p \in Procs : pc[p] \in {"fill", "noise", "read"} => fd[p] # NoFile

Init ==
  /\ vault = NoFile /\ tmp = NoFile
  /\ data = [i \in Inodes |-> "empty"]
  /\ pc = [p \in Procs |-> "idle"]
  /\ pw \in [Procs -> Passwords]
  /\ fd = [p \in Procs |-> NoFile]

Writing(p) == pc[p] \in InInit \cup InDestroy

\* A file that has no name and that nobody holds open is not there.
Free == Inodes \ ({vault, tmp} \cup {fd[q] : q \in Procs})

-----------------------------------------------------------------------------
(* Steps *)

Goto(p, from, to) == pc[p] = from /\ pc' = [pc EXCEPT ![p] = to]

\* The process leaves its command, and what it had opened is closed.
End(p, from, how) ==
  /\ Goto(p, from, how)
  /\ fd' = [fd EXCEPT ![p] = NoFile]
  /\ UNCHANGED pw

\* fs::write, first half: the file is created, or what it held is dropped.
Open(p, i) ==
  /\ data' = [data EXCEPT ![i] = "empty"]
  /\ fd' = [fd EXCEPT ![p] = i]
  /\ UNCHANGED pw

\* fs::write, second half.
Fill(p, x) ==
  /\ data' = [data EXCEPT ![fd[p]] = x]
  /\ UNCHANGED <<vault, tmp, pw, fd>>

\* A call returns an error; a write may have written a part.
Fails(p) ==
  /\ pc[p] \in {"open", "fill", "rename", "openRead", "read", "size", "wipe", "noise",
                "remove"}
  /\ End(p, pc[p], "failed")
  /\ IF pc[p] \in {"fill", "noise"}
     THEN data' \in {data, [data EXCEPT ![fd[p]] = "part"]}
     ELSE data' = data
  /\ UNCHANGED <<vault, tmp>>

Crash(p) ==
  /\ pc[p] \notin Over
  /\ End(p, pc[p], "killed")
  /\ UNCHANGED files

\* The operator calls a command.
Begin(p) ==
  /\ pc[p] \in Over
  /\ \/ /\ Exclusive => \A q \in Procs : ~Writing(q)
        /\ pc' \in {[pc EXCEPT ![p] = "check"], [pc EXCEPT ![p] = "look"]}
     \/ pc' = [pc EXCEPT ![p] = "find"]
  /\ pw' \in {[pw EXCEPT ![p] = w] : w \in Passwords}
  /\ UNCHANGED <<files, fd>>

-----------------------------------------------------------------------------
(* vault-init *)

InitChecks(p) ==
  \/ /\ vault = NoFile /\ Goto(p, "check", "open")
     /\ UNCHANGED <<files, pw, fd>>
  \/ vault # NoFile /\ End(p, "check", "failed") /\ UNCHANGED files

\* Mutant: the vault is written in place.
SealInPlace(p) ==
  /\ Goto(p, "open", "fill")
  /\ \E i \in IF vault = NoFile THEN Free ELSE {vault} : vault' = i /\ Open(p, i)
  /\ UNCHANGED tmp

SealOpens(p) ==
  /\ Goto(p, "open", "fill")
  /\ \E i \in IF tmp = NoFile THEN Free ELSE {tmp} : tmp' = i /\ Open(p, i)
  /\ UNCHANGED vault

SealFills(p) == Goto(p, "fill", "rename") /\ Fill(p, pw[p])

\* What vault.tmp names by now takes the place of what vault.enc named.
SealRenames(p) ==
  /\ tmp # NoFile /\ End(p, "rename", "created")
  /\ vault' = tmp /\ tmp' = NoFile
  /\ UNCHANGED data

InitStep(p) == InitChecks(p) \/ SealOpens(p) \/ SealFills(p) \/ SealRenames(p)

-----------------------------------------------------------------------------
(* The load of connect --vault-password *)

LoadFinds(p) ==
  \/ /\ vault # NoFile /\ Goto(p, "find", "openRead")
     /\ UNCHANGED <<files, pw, fd>>
  \/ vault = NoFile /\ End(p, "find", "failed") /\ UNCHANGED files

\* Mutant: a vault that has gone away is not noticed.
LoadOpensUnchecked(p) ==
  /\ Goto(p, "openRead", "read")
  /\ fd' = [fd EXCEPT ![p] = vault]
  /\ UNCHANGED <<files, pw>>

LoadOpens(p) ==
  /\ vault # NoFile /\ Goto(p, "openRead", "read")
  /\ fd' = [fd EXCEPT ![p] = vault]
  /\ UNCHANGED <<files, pw>>

\* Too short, another password or a wrong tag: the file does not open.
LoadReads(p) ==
  \/ End(p, "read", "loaded") /\ data[fd[p]] = pw[p] /\ UNCHANGED files
  \/ End(p, "read", "failed") /\ data[fd[p]] # pw[p] /\ UNCHANGED files

LoadStep(p) == LoadFinds(p) \/ LoadOpens(p) \/ LoadReads(p)

-----------------------------------------------------------------------------
(* vault-destroy *)

DestroyLooks(p) ==
  \/ /\ vault # NoFile /\ Goto(p, "look", "size")
     /\ UNCHANGED <<files, pw, fd>>
  \/ vault = NoFile /\ End(p, "look", "destroyed") /\ UNCHANGED files

\* Mutant: the file is removed and not overwritten.
DestroyJustRemoves(p) ==
  /\ vault # NoFile /\ Goto(p, "size", "remove")
  /\ UNCHANGED <<files, pw, fd>>

DestroySizes(p) ==
  /\ vault # NoFile /\ Goto(p, "size", "wipe")
  /\ UNCHANGED <<files, pw, fd>>

\* A vault that went away since is made anew, empty.
DestroyOpens(p) ==
  /\ Goto(p, "wipe", "noise")
  /\ \E i \in IF vault = NoFile THEN Free ELSE {vault} : vault' = i /\ Open(p, i)
  /\ UNCHANGED tmp

DestroyFills(p) == Goto(p, "noise", "remove") /\ Fill(p, "noise")

DestroyRemoves(p) ==
  /\ vault # NoFile /\ End(p, "remove", "destroyed")
  /\ vault' = NoFile
  /\ UNCHANGED <<tmp, data>>

DestroyStep(p) ==
  DestroyLooks(p) \/ DestroySizes(p) \/ DestroyOpens(p) \/ DestroyFills(p)
    \/ DestroyRemoves(p)

-----------------------------------------------------------------------------
Next ==
  \E p \in Procs :
    Begin(p) \/ InitStep(p) \/ LoadStep(p) \/ DestroyStep(p) \/ Fails(p) \/ Crash(p)

Spec == Init /\ [][Next]_vars

-----------------------------------------------------------------------------
(* Properties *)

\* The vault as whoever opens it finds it.
Stored ==
  IF vault = NoFile THEN "absent"
  ELSE IF data[vault] \in Passwords THEN data[vault] ELSE "ruined"

CellOf == INSTANCE Cell WITH cell <- Stored

\* Whatever fails or is killed, the vault appears whole and at once, with one
\* password, is never replaced by another one, and is spoiled by a destroy only.
IsCell == CellOf!Spec

\* A load that succeeds has read the vault that is there now: once a destroy
\* has overwritten it, no load that opened it before can read it any more.
ReadsCurrent ==
  [][\A p \in Procs : pc[p] = "read" /\ pc'[p] = "loaded" => Stored = pw[p]]_vars
===============================================================================
