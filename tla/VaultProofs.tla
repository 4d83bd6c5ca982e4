----------------------------- MODULE VaultProofs -----------------------------
(***************************************************************************)
(* What is proved of the vault for any number of processes, passwords and  *)
(* files: when no two commands that write run at the same time, it is the  *)
(* cell of Cell, and a load that succeeds has read what is there; when     *)
(* only no two inits do, a vault that is reported created is there, and no *)
(* vault takes the place of another.                                       *)
(***************************************************************************)
EXTENDS Vault, TLAPS

\* At most one process is inside a command that writes.
OneWriter == \A p, q \in Procs : Writing(p) /\ Writing(q) => p = q

\* The two names never stand for one file.
Apart == vault = NoFile \/ vault # tmp

\* While a vault is sealed there is none, and the file that is written is
\* vault.tmp, which holds the whole configuration before it is renamed.
Sealing ==
  \A p \in Procs :
    /\ pc[p] \in {"open", "fill", "rename"} => vault = NoFile
    /\ pc[p] = "fill" => fd[p] = tmp
    /\ pc[p] = "rename" => tmp # NoFile /\ data[tmp] \in Passwords

\* A vault that is destroyed is there until it is removed, overwritten.
Destroying ==
  \A p \in Procs :
    /\ pc[p] \in {"size", "wipe", "noise", "remove"} => vault # NoFile
    /\ pc[p] = "noise" => fd[p] = vault
    /\ pc[p] \in {"noise", "remove"} => data[vault] \notin Passwords

\* A load has the vault open, or a former one that can no longer be read.
Reading ==
  \A p \in Procs :
    pc[p] = "read" => /\ fd[p] # tmp
                      /\ fd[p] = vault \/ data[fd[p]] \notin Passwords

VaultInv == /\ VaultTypeOK
            /\ OneWriter
            /\ Apart
            /\ Sealing
            /\ Destroying
            /\ Reading

-----------------------------------------------------------------------------
(* Types *)

\* What the type invariant says of each variable.
LEMMA VaultTypes ==
  ASSUME VaultTypeOK
  PROVE  /\ vault \in Inodes \cup {NoFile} /\ tmp \in Inodes \cup {NoFile}
         /\ data \in [Inodes -> Passwords \cup Unsealed]
         /\ pc \in [Procs -> InInit \cup InLoad \cup InDestroy \cup Over]
         /\ pw \in [Procs -> Passwords] /\ fd \in [Procs -> Inodes \cup {NoFile}]
         /\ \A p \in Procs : pc[p] \in {"fill", "noise", "read"} => fd[p] \in Inodes
BY DEF VaultTypeOK

\* The initial state is typed.
LEMMA InitVaultType == Init => VaultTypeOK
BY DEF Init, VaultTypeOK, Unsealed, Over

\* Every step of a process keeps the types.
LEMMA StepVaultType ==
  ASSUME VaultTypeOK, NEW p \in Procs,
         Begin(p) \/ InitStep(p) \/ LoadStep(p) \/ DestroyStep(p) \/ Fails(p) \/ Crash(p)
  PROVE  VaultTypeOK'
<1> USE DEF Unsealed
<1> DEFINE Places == InInit \cup InLoad \cup InDestroy \cup Over
<1>1. CASE Begin(p)
  BY <1>1, VaultTypes DEF Begin, VaultTypeOK, files, InInit, InLoad, InDestroy, Over
<1>2. ASSUME NEW from \in Places, NEW how \in Over, End(p, from, how),
             vault' \in Inodes \cup {NoFile}, tmp' \in Inodes \cup {NoFile},
             data' \in [Inodes -> Passwords \cup Unsealed]
      PROVE  VaultTypeOK'
  BY <1>2, VaultTypes DEF End, Goto, VaultTypeOK, Over
<1>3. ASSUME NEW from \in Places, NEW to \in Places \ {"fill", "noise", "read"},
             Goto(p, from, to), UNCHANGED <<pw, fd>>,
             vault' \in Inodes \cup {NoFile}, tmp' \in Inodes \cup {NoFile},
             data' \in [Inodes -> Passwords \cup Unsealed]
      PROVE  VaultTypeOK'
  BY <1>3, VaultTypes DEF Goto, VaultTypeOK
<1>4. ASSUME NEW i \in Inodes, NEW from \in Places, NEW to \in Places,
             Goto(p, from, to), UNCHANGED pw, fd' = [fd EXCEPT ![p] = i],
             vault' \in Inodes \cup {NoFile}, tmp' \in Inodes \cup {NoFile},
             data' \in [Inodes -> Passwords \cup Unsealed]
      PROVE  VaultTypeOK'
  BY <1>4, VaultTypes, NoFileAssumption DEF Goto, VaultTypeOK
<1>5. CASE InitStep(p)
  <2>1. CASE InitChecks(p)
    BY <1>2, <1>3, <2>1, VaultTypes DEF InitChecks, files, InInit, Over
  <2>2. CASE SealOpens(p)
    <3>1. PICK i \in Inodes : tmp' = i /\ Open(p, i)
      BY <2>2, VaultTypes DEF SealOpens, Free
    <3> QED BY <1>4, <2>2, <3>1, VaultTypes DEF SealOpens, Open, InInit
  <2>3. CASE SealFills(p)
    BY <1>3, <2>3, VaultTypes DEF SealFills, Fill, Goto, InInit
  <2>4. CASE SealRenames(p)
    BY <1>2, <2>4, VaultTypes DEF SealRenames, InInit, Over
  <2> QED BY <1>5, <2>1, <2>2, <2>3, <2>4 DEF InitStep
<1>6. CASE LoadStep(p)
  <2>1. CASE LoadFinds(p)
    BY <1>2, <1>3, <2>1, VaultTypes DEF LoadFinds, files, InLoad, Over
  <2>2. CASE LoadOpens(p)
    BY <1>4, <2>2, VaultTypes DEF LoadOpens, files, InLoad
  <2>3. CASE LoadReads(p)
    BY <1>2, <2>3, VaultTypes DEF LoadReads, files, InLoad, Over
  <2> QED BY <1>6, <2>1, <2>2, <2>3 DEF LoadStep
<1>7. CASE DestroyStep(p)
  <2>1. CASE DestroyLooks(p)
    BY <1>2, <1>3, <2>1, VaultTypes DEF DestroyLooks, files, InDestroy, Over
  <2>2. CASE DestroySizes(p)
    BY <1>3, <2>2, VaultTypes DEF DestroySizes, files, InDestroy
  <2>3. CASE DestroyOpens(p)
    <3>1. PICK i \in Inodes : vault' = i /\ Open(p, i)
      BY <2>3, VaultTypes DEF DestroyOpens, Free
    <3> QED BY <1>4, <2>3, <3>1, VaultTypes DEF DestroyOpens, Open, InDestroy
  <2>4. CASE DestroyFills(p)
    BY <1>3, <2>4, VaultTypes DEF DestroyFills, Fill, Goto, InDestroy
  <2>5. CASE DestroyRemoves(p)
    BY <1>2, <2>5, VaultTypes DEF DestroyRemoves, InDestroy, Over
  <2> QED BY <1>7, <2>1, <2>2, <2>3, <2>4, <2>5 DEF DestroyStep
<1>8. CASE Fails(p)
  BY <1>2, <1>8, VaultTypes DEF Fails, InInit, InLoad, InDestroy, Over
<1>9. CASE Crash(p)
  BY <1>2, <1>9, VaultTypes DEF Crash, files, Over
<1> QED BY <1>1, <1>5, <1>6, <1>7, <1>8, <1>9

\* The types hold whatever commands run together.
THEOREM VaultTypeCorrect == Spec => []VaultTypeOK
<1>1. VaultTypeOK /\ [Next]_vars => VaultTypeOK'
  <2> SUFFICES ASSUME VaultTypeOK, [Next]_vars PROVE VaultTypeOK'
    OBVIOUS
  <2>1. CASE UNCHANGED vars
    BY <2>1 DEF vars, VaultTypeOK
  <2> QED BY <2>1, StepVaultType DEF Next
<1> QED BY <1>1, InitVaultType, PTL DEF Spec

-----------------------------------------------------------------------------
(* The invariant *)

\* The invariant holds at first.
LEMMA InitVault == Init => VaultInv
<1> SUFFICES ASSUME Init PROVE VaultInv
  OBVIOUS
<1>1. \A p \in Procs : pc[p] = "idle"
  BY DEF Init
<1>2. OneWriter /\ Apart /\ Sealing /\ Destroying /\ Reading
  BY <1>1 DEF Init, OneWriter, Writing, InInit, InDestroy, Apart, Sealing, Destroying,
              Reading
<1> QED BY <1>2, InitVaultType DEF VaultInv

\* A process that goes on, or stops, without touching a file that others use.
LEMMA QuietStep ==
  ASSUME VaultInv, VaultTypeOK', NEW p \in Procs,
         NEW to \in InInit \cup InLoad \cup InDestroy \cup Over,
         pc' = [pc EXCEPT ![p] = to], UNCHANGED <<vault, tmp, data>>,
         \A q \in Procs \ {p} : fd'[q] = fd[q],
         to \in InInit \cup InDestroy => \A q \in Procs \ {p} : ~Writing(q),
         to \in {"open", "fill", "rename"} => to = "open" /\ vault = NoFile,
         to \in {"size", "wipe", "noise", "remove"} =>
           to \in {"size", "wipe"} /\ vault # NoFile,
         to = "read" => fd'[p] = vault /\ vault # NoFile
  PROVE  VaultInv'
<1>0. VaultTypeOK
  BY DEF VaultInv
<1>1. \A q \in Procs : pc'[q] = IF q = p THEN to ELSE pc[q]
  BY <1>0, VaultTypes
<1>2. OneWriter'
  BY <1>1 DEF VaultInv, OneWriter, Writing
<1>3. Apart'
  BY DEF VaultInv, Apart
<1>4. Sealing'
  BY <1>1 DEF VaultInv, Sealing
<1>5. Destroying'
  BY <1>1 DEF VaultInv, Destroying
<1>6. Reading'
  BY <1>1 DEF VaultInv, Reading, Apart
<1> QED BY <1>2, <1>3, <1>4, <1>5, <1>6 DEF VaultInv

\* The process that writes is alone.
LEMMA Alone ==
  ASSUME VaultInv, NEW p \in Procs, Writing(p), NEW q \in Procs \ {p}
  PROVE  pc[q] \notin InInit \cup InDestroy
BY DEF VaultInv, OneWriter, Writing

\* The steps of an operator, a failure or a kill keep the invariant.
LEMMA OtherInv ==
  ASSUME VaultInv, Exclusive, NEW p \in Procs, Begin(p) \/ Fails(p) \/ Crash(p)
  PROVE  VaultInv'
<1>0. VaultTypeOK /\ VaultTypeOK'
  BY StepVaultType DEF VaultInv
<1>1. CASE Begin(p)
  <2>1. PICK to \in {"check", "look", "find"} :
          /\ pc' = [pc EXCEPT ![p] = to]
          /\ to # "find" => \A q \in Procs : ~Writing(q)
    BY <1>1 DEF Begin
  <2> QED BY <1>0, <1>1, <2>1, QuietStep DEF Begin, files, InInit, InLoad, InDestroy
<1>2. CASE Crash(p)
  <2>1. /\ pc' = [pc EXCEPT ![p] = "killed"] /\ UNCHANGED <<vault, tmp, data>>
        /\ \A q \in Procs \ {p} : fd'[q] = fd[q]
    BY <1>0, <1>2, VaultTypes DEF Crash, End, Goto, files
  <2> QED BY <1>0, <2>1, QuietStep DEF Over, InInit, InDestroy
<1>3. CASE Fails(p)
  <2>1. /\ pc' = [pc EXCEPT ![p] = "failed"] /\ UNCHANGED <<vault, tmp>>
        /\ \A q \in Procs \ {p} : fd'[q] = fd[q]
    BY <1>0, <1>3, VaultTypes DEF Fails, End, Goto
  <2>2. CASE data' = data
    BY <1>0, <2>1, <2>2, QuietStep DEF Over, InInit, InDestroy
  <2>3. CASE pc[p] \in {"fill", "noise"} /\ data' = [data EXCEPT ![fd[p]] = "part"]
    <3>1. \A q \in Procs : pc'[q] = IF q = p THEN "failed" ELSE pc[q]
      BY <1>0, <2>1, VaultTypes
    <3>2. \A q \in Procs \ {p} : pc[q] \notin InInit \cup InDestroy
      BY <2>3, Alone DEF Writing, InInit, InDestroy
    <3>3. \A i \in Inodes : data'[i] \in {data[i], "part"}
      BY <1>0, <2>3, VaultTypes
    <3>4. OneWriter' /\ Sealing' /\ Destroying'
      BY <3>1, <3>2
      DEF OneWriter, Writing, Sealing, Destroying, InInit, InDestroy
    <3>5. Apart'
      BY <2>1 DEF VaultInv, Apart
    <3>6. Reading'
      BY <1>0, <2>1, <3>1, <3>3, VaultTypes, PasswordsAssumption
      DEF VaultInv, Reading, Unsealed
    <3> QED BY <1>0, <3>4, <3>5, <3>6 DEF VaultInv
  <2> QED BY <1>3, <2>2, <2>3 DEF Fails
<1> QED BY <1>1, <1>2, <1>3

\* The steps of vault-init keep the invariant.
LEMMA InitStepInv ==
  ASSUME VaultInv, NEW p \in Procs, InitStep(p)
  PROVE  VaultInv'
<1>0. VaultTypeOK /\ VaultTypeOK'
  BY StepVaultType DEF VaultInv
<1>1. Writing(p) /\ \A q \in Procs \ {p} : pc[q] \notin InInit \cup InDestroy
  <2>1. Writing(p)
    BY DEF InitStep, InitChecks, SealOpens, SealFills, SealRenames, End, Goto, Writing,
           InInit
  <2> QED BY <2>1, Alone
<1>2. CASE InitChecks(p)
  <2>1. CASE vault = NoFile /\ Goto(p, "check", "open") /\ UNCHANGED <<files, pw, fd>>
    BY <1>0, <1>1, <2>1, QuietStep
    DEF Goto, files, Writing, InInit, InDestroy
  <2>2. CASE vault # NoFile /\ End(p, "check", "failed") /\ UNCHANGED files
    <3>1. \A q \in Procs \ {p} : fd'[q] = fd[q]
      BY <1>0, <2>2, VaultTypes DEF End
    <3> QED BY <1>0, <1>1, <2>2, <3>1, QuietStep
        DEF End, Goto, files, Writing, InInit, InDestroy, Over
  <2> QED BY <1>2, <2>1, <2>2 DEF InitChecks
<1>3. CASE SealOpens(p)
  <2>1. PICK i \in Inodes : /\ IF tmp = NoFile THEN i \in Free ELSE i = tmp
                            /\ tmp' = i /\ Open(p, i)
    BY <1>0, <1>3, VaultTypes DEF SealOpens, Free
  <2>2. /\ vault = NoFile /\ UNCHANGED vault
        /\ \A q \in Procs : pc'[q] = IF q = p THEN "fill" ELSE pc[q]
        /\ \A q \in Procs : fd'[q] = IF q = p THEN i ELSE fd[q]
        /\ \A j \in Inodes : data'[j] = IF j = i THEN "empty" ELSE data[j]
    BY <1>0, <1>3, <2>1, VaultTypes DEF SealOpens, Open, Goto, VaultInv, Sealing
  <2>3. OneWriter' /\ Destroying'
    BY <1>1, <2>2 DEF OneWriter, Writing, Destroying, InInit, InDestroy
  <2>4. Apart' /\ Sealing'
    BY <1>1, <2>1, <2>2 DEF Apart, Sealing, InInit, InDestroy
  <2>5. Reading'
    <3> SUFFICES ASSUME NEW q \in Procs, pc'[q] = "read"
                 PROVE  fd'[q] # tmp' /\ (fd'[q] = vault' \/ data'[fd'[q]] \notin Passwords)
      BY DEF Reading
    <3>1. q # p /\ fd'[q] = fd[q] /\ pc[q] = "read" /\ fd[q] \in Inodes
      BY <1>0, <2>2, VaultTypes
    <3>2. fd[q] # tmp /\ data[fd[q]] \notin Passwords
      BY <2>2, <3>1, NoFileAssumption DEF VaultInv, Reading
    <3>3. fd[q] # i
      BY <2>1, <3>1, <3>2 DEF Free
    <3> QED BY <2>1, <2>2, <3>1, <3>2, <3>3
  <2> QED BY <1>0, <2>3, <2>4, <2>5 DEF VaultInv
<1>4. CASE SealFills(p)
  <2>1. pc[p] = "fill" /\ fd[p] = tmp /\ tmp \in Inodes /\ vault = NoFile
    BY <1>0, <1>4, VaultTypes DEF SealFills, Goto, VaultInv, Sealing
  <2>2. /\ UNCHANGED <<vault, tmp, fd>> /\ pw[p] \in Passwords
        /\ \A q \in Procs : pc'[q] = IF q = p THEN "rename" ELSE pc[q]
        /\ \A j \in Inodes : data'[j] = IF j = tmp THEN pw[p] ELSE data[j]
    BY <1>0, <1>4, <2>1, VaultTypes DEF SealFills, Fill, Goto
  <2>3. OneWriter' /\ Destroying'
    BY <1>1, <2>2 DEF OneWriter, Writing, Destroying, InInit, InDestroy
  <2>4. Apart' /\ Sealing'
    BY <1>1, <2>1, <2>2, NoFileAssumption DEF Apart, Sealing, InInit, InDestroy
  <2>5. Reading'
    BY <1>0, <2>1, <2>2, VaultTypes DEF VaultInv, Reading
  <2> QED BY <1>0, <2>3, <2>4, <2>5 DEF VaultInv
<1>5. CASE SealRenames(p)
  <2>1. /\ vault = NoFile /\ tmp # NoFile /\ vault' = tmp /\ tmp' = NoFile
        /\ UNCHANGED data
        /\ \A q \in Procs : pc'[q] = IF q = p THEN "created" ELSE pc[q]
        /\ \A q \in Procs \ {p} : fd'[q] = fd[q]
    BY <1>0, <1>5, VaultTypes DEF SealRenames, End, Goto, VaultInv, Sealing
  <2>2. OneWriter' /\ Destroying' /\ Apart' /\ Sealing'
    BY <1>1, <2>1 DEF OneWriter, Writing, Destroying, Apart, Sealing, InInit, InDestroy
  <2>3. Reading'
    BY <1>0, <2>1, VaultTypes, NoFileAssumption DEF VaultInv, Reading
  <2> QED BY <1>0, <2>2, <2>3 DEF VaultInv
<1> QED BY <1>2, <1>3, <1>4, <1>5 DEF InitStep

\* The steps of a load keep the invariant.
LEMMA LoadStepInv ==
  ASSUME VaultInv, NEW p \in Procs, LoadStep(p)
  PROVE  VaultInv'
<1>0. VaultTypeOK /\ VaultTypeOK'
  BY StepVaultType DEF VaultInv
<1>1. PICK to \in {"openRead", "read", "loaded", "failed"} :
        /\ pc' = [pc EXCEPT ![p] = to] /\ UNCHANGED <<vault, tmp, data>>
        /\ to = "read" => fd'[p] = vault /\ vault # NoFile
        /\ \A q \in Procs \ {p} : fd'[q] = fd[q]
  BY <1>0, VaultTypes DEF LoadStep, LoadFinds, LoadOpens, LoadReads, End, Goto, files
<1> QED BY <1>0, <1>1, QuietStep DEF InInit, InLoad, InDestroy, Over

\* The steps of vault-destroy keep the invariant.
LEMMA DestroyStepInv ==
  ASSUME VaultInv, NEW p \in Procs, DestroyStep(p)
  PROVE  VaultInv'
<1>0. VaultTypeOK /\ VaultTypeOK'
  BY StepVaultType DEF VaultInv
<1>1. Writing(p) /\ \A q \in Procs \ {p} : pc[q] \notin InInit \cup InDestroy
  <2>1. Writing(p)
    BY DEF DestroyStep, DestroyLooks, DestroySizes, DestroyOpens, DestroyFills,
           DestroyRemoves, End, Goto, Writing, InDestroy
  <2> QED BY <2>1, Alone
<1>2. CASE DestroyLooks(p) \/ DestroySizes(p)
  <2>1. PICK to \in {"size", "wipe", "destroyed"} :
          /\ pc' = [pc EXCEPT ![p] = to] /\ UNCHANGED <<vault, tmp, data>>
          /\ to \in {"size", "wipe"} => vault # NoFile
          /\ \A q \in Procs \ {p} : fd'[q] = fd[q]
    BY <1>0, <1>2, VaultTypes DEF DestroyLooks, DestroySizes, End, Goto, files
  <2> QED BY <1>0, <1>1, <2>1, QuietStep DEF Writing, InInit, InDestroy, Over
<1>3. CASE DestroyOpens(p)
  <2>1. /\ vault # NoFile /\ vault \in Inodes /\ vault # tmp
    BY <1>0, <1>3, VaultTypes DEF DestroyOpens, Goto, VaultInv, Destroying, Apart
  <2>2. /\ UNCHANGED <<vault, tmp>>
        /\ \A q \in Procs : pc'[q] = IF q = p THEN "noise" ELSE pc[q]
        /\ \A q \in Procs : fd'[q] = IF q = p THEN vault ELSE fd[q]
        /\ \A j \in Inodes : data'[j] = IF j = vault THEN "empty" ELSE data[j]
    BY <1>0, <1>3, <2>1, VaultTypes DEF DestroyOpens, Open, Goto
  <2>3. OneWriter' /\ Sealing' /\ Apart'
    BY <1>1, <2>1, <2>2 DEF OneWriter, Writing, Sealing, Apart, InInit, InDestroy
  <2>4. Destroying'
    BY <1>1, <2>1, <2>2, PasswordsAssumption DEF Destroying, Unsealed, InDestroy
  <2>5. Reading'
    BY <1>0, <2>1, <2>2, VaultTypes DEF VaultInv, Reading
  <2> QED BY <1>0, <2>3, <2>4, <2>5 DEF VaultInv
<1>4. CASE DestroyFills(p)
  <2>1. pc[p] = "noise" /\ fd[p] = vault /\ vault \in Inodes /\ vault # tmp
    BY <1>0, <1>4, VaultTypes, NoFileAssumption
    DEF DestroyFills, Goto, VaultInv, Destroying, Apart
  <2>2. /\ UNCHANGED <<vault, tmp, fd>>
        /\ \A q \in Procs : pc'[q] = IF q = p THEN "remove" ELSE pc[q]
        /\ \A j \in Inodes : data'[j] = IF j = vault THEN "noise" ELSE data[j]
    BY <1>0, <1>4, <2>1, VaultTypes DEF DestroyFills, Fill, Goto
  <2>3. OneWriter' /\ Sealing' /\ Apart'
    BY <1>1, <2>1, <2>2 DEF OneWriter, Writing, Sealing, Apart, InInit, InDestroy
  <2>4. Destroying'
    BY <1>1, <2>1, <2>2, PasswordsAssumption, NoFileAssumption
    DEF Destroying, Unsealed, InDestroy
  <2>5. Reading'
    BY <1>0, <2>1, <2>2, VaultTypes DEF VaultInv, Reading
  <2> QED BY <1>0, <2>3, <2>4, <2>5 DEF VaultInv
<1>5. CASE DestroyRemoves(p)
  <2>1. /\ vault # NoFile /\ data[vault] \notin Passwords
        /\ vault' = NoFile /\ UNCHANGED <<tmp, data>>
        /\ \A q \in Procs : pc'[q] = IF q = p THEN "destroyed" ELSE pc[q]
        /\ \A q \in Procs \ {p} : fd'[q] = fd[q]
    BY <1>0, <1>5, VaultTypes DEF DestroyRemoves, End, Goto, VaultInv, Destroying
  <2>2. OneWriter' /\ Sealing' /\ Apart' /\ Destroying'
    BY <1>1, <2>1 DEF OneWriter, Writing, Sealing, Apart, Destroying, InInit, InDestroy
  <2>3. Reading'
    BY <2>1 DEF VaultInv, Reading
  <2> QED BY <1>0, <2>2, <2>3 DEF VaultInv
<1> QED BY <1>2, <1>3, <1>4, <1>5 DEF DestroyStep

\* Every step keeps the invariant.
LEMMA StepVault == Exclusive /\ VaultInv /\ [Next]_vars => VaultInv'
<1> SUFFICES ASSUME Exclusive, VaultInv, [Next]_vars PROVE VaultInv'
  OBVIOUS
<1>1. CASE UNCHANGED vars
  BY <1>1 DEF vars, VaultInv, VaultTypeOK, OneWriter, Writing, Apart, Sealing, Destroying,
              Reading
<1>2. CASE Next
  BY <1>2, OtherInv, InitStepInv, LoadStepInv, DestroyStepInv DEF Next
<1> QED BY <1>1, <1>2

-----------------------------------------------------------------------------
(* The cell *)

\* A vault that is renamed appears whole, and nothing else makes one.
LEMMA StepCell ==
  ASSUME Exclusive, VaultInv, [Next]_vars
  PROVE  CellOf!Next \/ UNCHANGED Stored
<1>0. VaultTypeOK /\ VaultInv'
  BY StepVault DEF VaultInv
<1>1. UNCHANGED <<vault, data>> => UNCHANGED Stored
  BY DEF Stored
<1>2. CASE UNCHANGED vars
  BY <1>1, <1>2 DEF vars
<1>3. ASSUME NEW p \in Procs, Begin(p) \/ LoadStep(p) \/ Crash(p) PROVE UNCHANGED Stored
  BY <1>1, <1>3
  DEF Begin, LoadStep, LoadFinds, LoadOpens, LoadReads, Crash, files
<1>4. ASSUME NEW p \in Procs, Fails(p) PROVE CellOf!Next \/ UNCHANGED Stored
  <2>1. CASE data' = data
    BY <1>1, <1>4, <2>1 DEF Fails
  <2>2. CASE pc[p] = "fill" /\ data' = [data EXCEPT ![fd[p]] = "part"]
    BY <1>4, <2>2 DEF Fails, VaultInv, Sealing, Stored
  <2>3. CASE pc[p] = "noise" /\ data' = [data EXCEPT ![fd[p]] = "part"]
    <3>1. /\ vault # NoFile /\ fd[p] = vault /\ vault' = vault /\ vault \in Inodes
          /\ data[vault] \notin Passwords
      BY <1>0, <1>4, <2>3, VaultTypes DEF Fails, VaultInv, Destroying
    <3>2. data'[vault] \notin Passwords
      BY <1>0, <2>3, <3>1, VaultTypes, PasswordsAssumption DEF Unsealed
    <3> QED BY <3>1, <3>2 DEF Stored
  <2> QED BY <1>4, <2>1, <2>2, <2>3 DEF Fails
<1>5. ASSUME NEW p \in Procs, InitStep(p) PROVE CellOf!Next \/ UNCHANGED Stored
  <2>1. CASE InitChecks(p)
    BY <1>1, <2>1 DEF InitChecks, files
  <2>2. CASE SealOpens(p) \/ SealFills(p)
    BY <2>2 DEF SealOpens, SealFills, Fill, Goto, VaultInv, Sealing, Stored
  <2>3. CASE SealRenames(p)
    <3>1. /\ vault = NoFile /\ tmp # NoFile /\ data[tmp] \in Passwords
          /\ vault' = tmp /\ data' = data
      BY <2>3 DEF SealRenames, End, Goto, VaultInv, Sealing
    <3>2. Stored = "absent" /\ Stored' \in Passwords
      BY <3>1 DEF Stored
    <3> QED BY <3>2 DEF CellOf!Next, CellOf!Create
  <2> QED BY <1>5, <2>1, <2>2, <2>3 DEF InitStep
<1>6. ASSUME NEW p \in Procs, DestroyStep(p) PROVE CellOf!Next \/ UNCHANGED Stored
  <2>1. CASE DestroyLooks(p) \/ DestroySizes(p)
    BY <1>1, <2>1 DEF DestroyLooks, DestroySizes, files
  <2>2. CASE DestroyOpens(p)
    <3>1. vault # NoFile /\ vault \in Inodes
      BY <1>0, <2>2, VaultTypes DEF DestroyOpens, Goto, VaultInv, Destroying
    <3>2. vault' = vault /\ data'[vault] = "empty"
      BY <1>0, <2>2, <3>1, VaultTypes DEF DestroyOpens, Open
    <3>3. Stored # "absent" /\ Stored' = "ruined"
      BY <3>1, <3>2, PasswordsAssumption DEF Stored, Unsealed
    <3> QED BY <3>3 DEF CellOf!Next, CellOf!Ruin
  <2>3. CASE DestroyFills(p)
    <3>1. /\ vault # NoFile /\ vault \in Inodes /\ vault' = vault
          /\ data[vault] \notin Passwords /\ data' = [data EXCEPT ![vault] = "noise"]
      BY <1>0, <2>3, VaultTypes DEF DestroyFills, Fill, Goto, VaultInv, Destroying
    <3>2. data'[vault] \notin Passwords
      BY <1>0, <3>1, VaultTypes, PasswordsAssumption DEF Unsealed
    <3> QED BY <3>1, <3>2 DEF Stored
  <2>4. CASE DestroyRemoves(p)
    <3>1. /\ vault # NoFile /\ data[vault] \notin Passwords /\ vault' = NoFile
      BY <2>4 DEF DestroyRemoves, End, Goto, VaultInv, Destroying
    <3>2. Stored = "ruined" /\ Stored' = "absent"
      BY <3>1 DEF Stored
    <3> QED BY <3>2 DEF CellOf!Next, CellOf!Remove
  <2> QED BY <1>6, <2>1, <2>2, <2>3, <2>4 DEF DestroyStep
<1> QED BY <1>2, <1>3, <1>4, <1>5, <1>6 DEF Next

\* With one command that writes at a time, the vault is the cell: it appears
\* whole, is never replaced and is spoiled by a destroy only.
THEOREM ImplementsCell ==
  ASSUME Exclusive
  PROVE  Spec => IsCell
<1>1. Init => CellOf!Init
  BY DEF Init, CellOf!Init, Stored
<1>2. VaultInv /\ [Next]_vars => [CellOf!Next]_Stored
  BY StepCell
<1>3. VaultInv /\ [Next]_vars => VaultInv'
  BY StepVault
<1> QED BY <1>1, <1>2, <1>3, InitVault, PTL DEF Spec, IsCell, CellOf!Spec

\* With one command that writes at a time, a load that succeeds has read the
\* vault that is there at this moment, also next to a destroy.
THEOREM ReadsAreCurrent ==
  ASSUME Exclusive
  PROVE  Spec => ReadsCurrent
<1>1. ASSUME VaultInv, [Next]_vars
      PROVE  [\A p \in Procs : pc[p] = "read" /\ pc'[p] = "loaded" => Stored = pw[p]]_vars
  <2> SUFFICES ASSUME Next, NEW p \in Procs, pc[p] = "read", pc'[p] = "loaded"
               PROVE  Stored = pw[p]
    BY <1>1
  <2>0. VaultTypeOK
    BY <1>1 DEF VaultInv
  <2>1. LoadReads(p)
    <3>1. PICK q \in Procs : Begin(q) \/ InitStep(q) \/ LoadStep(q) \/ DestroyStep(q)
                               \/ Fails(q) \/ Crash(q)
      BY DEF Next
    <3>2. ASSUME NEW to, pc' = [pc EXCEPT ![q] = to] PROVE q = p /\ to = "loaded"
      BY <2>0, <3>2, VaultTypes
    <3>3. CASE Begin(q) \/ Fails(q) \/ Crash(q)
      BY <3>2, <3>3 DEF Begin, Fails, Crash, End, Goto
    <3>4. CASE InitStep(q)
      BY <3>2, <3>4
      DEF InitStep, InitChecks, SealOpens, SealFills, SealRenames, End, Goto
    <3>5. CASE DestroyStep(q)
      BY <3>2, <3>5
      DEF DestroyStep, DestroyLooks, DestroySizes, DestroyOpens, DestroyFills,
          DestroyRemoves, End, Goto
    <3>6. CASE LoadStep(q)
      BY <3>2, <3>6 DEF LoadStep, LoadFinds, LoadOpens, LoadReads, End, Goto
    <3> QED BY <3>1, <3>3, <3>4, <3>5, <3>6
  <2>2. data[fd[p]] = pw[p]
    <3>1. pc' = [pc EXCEPT ![p] = "failed"] => pc'[p] = "failed"
      BY <2>0, VaultTypes
    <3> QED BY <2>1, <3>1 DEF LoadReads, End, Goto
  <2>3. pw[p] \in Passwords /\ fd[p] \in Inodes
    BY <2>0, VaultTypes
  <2>4. fd[p] = vault
    BY <1>1, <2>2, <2>3 DEF VaultInv, Reading
  <2> QED BY <2>2, <2>3, <2>4, NoFileAssumption DEF Stored
<1>2. VaultInv /\ [Next]_vars => VaultInv'
  BY StepVault
<1> QED BY <1>1, <1>2, InitVault, PTL DEF Spec, ReadsCurrent

-----------------------------------------------------------------------------
(* Destroys that overlap.  The code has no lock.  What is left of its promises *)
(* when destroys run at the same time as one another and as an init, and only *)
(* two inits do not?                                                           *)

\* No two processes are inside vault-init.
OneInit == \A p, q \in Procs : pc[p] \in InInit /\ pc[q] \in InInit => p = q

\* "Encrypted vault created" is true when it is printed: the vault is there,
\* sealed with the password that was given.
CreatedIsTrue ==
  [][\A p \in Procs : pc[p] = "rename" /\ pc'[p] = "created" => Stored' = pw[p]]_vars

\* A whole vault is not replaced by another: it stays until it is spoiled or
\* removed.
NeverReplaced ==
  [][(Stored \in Passwords) => Stored' \in {Stored, "ruined", "absent"}]_vars

\* The file that is sealed is vault.tmp, which no destroy has open, and which
\* holds the configuration, under the password that was given, before it is
\* renamed.  A vault that is there meanwhile was made by a destroy and is not
\* whole.
SealedAlone ==
  /\ Apart
  /\ \A p \in Procs :
       /\ pc[p] = "noise" => fd[p] # tmp
       /\ pc[p] \in {"fill", "rename"} => tmp # NoFile /\ fd[p] = tmp
       /\ pc[p] = "rename" => data[tmp] = pw[p]
       /\ pc[p] \in {"open", "fill", "rename"} => Stored \notin Passwords

\* Nothing is sealed at first.
LEMMA InitSealed == Init => SealedAlone
BY DEF Init, SealedAlone, Apart

\* A process that goes on, or stops, without touching a file.
LEMMA QuietSealed ==
  ASSUME VaultTypeOK, SealedAlone, NEW p \in Procs,
         NEW to \in InInit \cup InLoad \cup InDestroy \cup Over,
         pc' = [pc EXCEPT ![p] = to], UNCHANGED <<vault, tmp, data>>,
         \A q \in Procs \ {p} : fd'[q] = fd[q] /\ pw'[q] = pw[q],
         to \notin {"noise", "fill", "rename"},
         to = "open" => vault = NoFile
  PROVE  SealedAlone'
<1>1. \A q \in Procs : pc'[q] = IF q = p THEN to ELSE pc[q]
  BY VaultTypes
<1>2. Stored' = Stored /\ (vault = NoFile => Stored \notin Passwords)
  BY PasswordsAssumption DEF Stored
<1>3. Apart'
  BY DEF SealedAlone, Apart
<1> QED BY <1>1, <1>2, <1>3 DEF SealedAlone

\* A file other than vault.tmp changes and becomes no whole vault.
LEMMA SpoilSealed ==
  ASSUME VaultTypeOK, SealedAlone, Apart', NEW p \in Procs, NEW to,
         \A q \in Procs : pc'[q] = IF q = p THEN to ELSE pc[q],
         \A q \in Procs \ {p} : fd'[q] = fd[q],
         UNCHANGED <<tmp, pw>>,
         tmp # NoFile => data'[tmp] = data[tmp],
         to \notin {"open", "fill", "rename"},
         to = "noise" => fd'[p] # tmp,
         Stored' \in Passwords => Stored \in Passwords
  PROVE  SealedAlone'
BY DEF SealedAlone

\* Spoiling a file that is there makes no whole vault of it.
LEMMA SpoilsNoVault ==
  ASSUME VaultTypeOK, NEW i \in Inodes, NEW x \in Unsealed,
         data' = [data EXCEPT ![i] = x], UNCHANGED vault
  PROVE  Stored' \in {Stored, "ruined"}
<1>1. \A j \in Inodes : data'[j] = IF j = i THEN x ELSE data[j]
  BY VaultTypes
<1>2. x \notin Passwords /\ vault \in Inodes \cup {NoFile}
  BY VaultTypes, PasswordsAssumption
<1> QED BY <1>1, <1>2 DEF Stored

\* Every step of a process keeps the file that is sealed apart.
LEMMA StepSealed ==
  ASSUME VaultTypeOK, SealedAlone, OneInit, OneInit', NEW p \in Procs,
         Begin(p) \/ InitStep(p) \/ LoadStep(p) \/ DestroyStep(p) \/ Fails(p) \/ Crash(p)
  PROVE  SealedAlone'
<1>0. VaultTypeOK'
  BY StepVaultType
<1>1. CASE Begin(p)
  <2>1. PICK to \in {"check", "look", "find"} : pc' = [pc EXCEPT ![p] = to]
    BY <1>1 DEF Begin
  <2>2. \A q \in Procs \ {p} : fd'[q] = fd[q] /\ pw'[q] = pw[q]
    BY <1>1, VaultTypes DEF Begin
  <2> QED BY <1>1, <2>1, <2>2, QuietSealed DEF Begin, files, InInit, InLoad, InDestroy
<1>2. CASE Crash(p)
  <2>1. /\ pc' = [pc EXCEPT ![p] = "killed"] /\ UNCHANGED <<vault, tmp, data>>
        /\ \A q \in Procs \ {p} : fd'[q] = fd[q] /\ pw'[q] = pw[q]
    BY <1>2, VaultTypes DEF Crash, End, Goto, files
  <2> QED BY <2>1, QuietSealed DEF Over
<1>3. CASE Fails(p)
  <2>1. /\ pc' = [pc EXCEPT ![p] = "failed"] /\ UNCHANGED <<vault, tmp, pw>>
        /\ \A q \in Procs \ {p} : fd'[q] = fd[q]
    BY <1>3, VaultTypes DEF Fails, End, Goto
  <2>2. CASE data' = data
    BY <2>1, <2>2, QuietSealed DEF Over
  <2>3. CASE pc[p] \in {"fill", "noise"} /\ data' = [data EXCEPT ![fd[p]] = "part"]
    <3>1. fd[p] \in Inodes
      BY <2>3, VaultTypes
    <3>2. \A q \in Procs : pc'[q] = IF q = p THEN "failed" ELSE pc[q]
      BY <2>1, VaultTypes
    <3>3. Apart' /\ Stored' \in {Stored, "ruined"}
      BY <2>1, <2>3, <3>1, SpoilsNoVault DEF SealedAlone, Apart, Unsealed
    <3>4. Stored' \in Passwords => Stored \in Passwords
      BY <3>3, PasswordsAssumption
    <3>5. CASE pc[p] = "fill"
      <4>1. \A q \in Procs : pc'[q] \notin {"fill", "rename"}
        BY <3>2, <3>5 DEF OneInit, InInit
      <4> QED BY <2>1, <3>2, <3>3, <3>4, <4>1 DEF SealedAlone
    <3>6. CASE pc[p] = "noise"
      <4>1. fd[p] # tmp
        BY <3>6 DEF SealedAlone
      <4>2. tmp # NoFile => data'[tmp] = data[tmp]
        BY <2>3, <4>1, VaultTypes
      <4> QED BY <2>1, <3>2, <3>3, <3>4, <4>2, SpoilSealed
    <3> QED BY <2>3, <3>5, <3>6
  <2> QED BY <1>3, <2>2, <2>3 DEF Fails
<1>4. CASE InitStep(p)
  <2>0. \A q \in Procs \ {p} : pc[q] \notin InInit
    BY <1>4 DEF InitStep, InitChecks, SealOpens, SealFills, SealRenames, End, Goto,
                OneInit, InInit
  <2>1. CASE InitChecks(p)
    <3>1. \A q \in Procs \ {p} : fd'[q] = fd[q] /\ pw'[q] = pw[q]
      BY <2>1, VaultTypes DEF InitChecks, End
    <3> QED BY <2>1, <3>1, QuietSealed DEF InitChecks, End, Goto, files, InInit, Over
  <2>2. CASE SealOpens(p)
    <3>1. PICK i \in Inodes : /\ IF tmp = NoFile THEN i \in Free ELSE i = tmp
                              /\ tmp' = i /\ Open(p, i)
      BY <2>2, VaultTypes DEF SealOpens, Free
    <3>2. /\ UNCHANGED <<vault, pw>> /\ pc[p] = "open"
          /\ \A q \in Procs : pc'[q] = IF q = p THEN "fill" ELSE pc[q]
          /\ \A q \in Procs : fd'[q] = IF q = p THEN i ELSE fd[q]
          /\ \A j \in Inodes : data'[j] = IF j = i THEN "empty" ELSE data[j]
      BY <2>2, <3>1, VaultTypes DEF SealOpens, Open, Goto
    <3>3. vault # i
      BY <3>1, NoFileAssumption DEF Free, SealedAlone, Apart
    <3>4. Stored' = Stored
      BY <3>2, <3>3, VaultTypes DEF Stored
    <3>5. \A q \in Procs \ {p} : pc[q] = "noise" => fd[q] # i
      BY <3>1 DEF Free, SealedAlone
    <3>6. Apart'
      BY <3>1, <3>2, <3>3 DEF Apart
    <3> QED BY <2>0, <3>1, <3>2, <3>4, <3>5, <3>6, NoFileAssumption
        DEF SealedAlone, InInit
  <2>3. CASE SealFills(p)
    <3>1. pc[p] = "fill" /\ fd[p] = tmp /\ tmp \in Inodes
      BY <2>3, VaultTypes DEF SealFills, Goto, SealedAlone
    <3>2. /\ UNCHANGED <<vault, tmp, pw, fd>>
          /\ \A q \in Procs : pc'[q] = IF q = p THEN "rename" ELSE pc[q]
          /\ \A j \in Inodes : data'[j] = IF j = tmp THEN pw[p] ELSE data[j]
      BY <2>3, <3>1, VaultTypes DEF SealFills, Fill, Goto
    <3>3. Apart' /\ Stored' = Stored
      BY <3>2, VaultTypes DEF SealedAlone, Apart, Stored
    <3> QED BY <2>0, <3>1, <3>2, <3>3, NoFileAssumption DEF SealedAlone, InInit
  <2>4. CASE SealRenames(p)
    <3>1. /\ tmp # NoFile /\ vault' = tmp /\ tmp' = NoFile
          /\ \A q \in Procs : pc'[q] = IF q = p THEN "created" ELSE pc[q]
      BY <2>4, VaultTypes DEF SealRenames, End, Goto
    <3>2. \A q \in Procs : pc'[q] = "noise" => fd'[q] # NoFile
      BY <1>0 DEF VaultTypeOK
    <3> QED BY <2>0, <3>1, <3>2 DEF SealedAlone, Apart, InInit
  <2> QED BY <1>4, <2>1, <2>2, <2>3, <2>4 DEF InitStep
<1>5. CASE LoadStep(p)
  <2>1. PICK to \in {"openRead", "read", "loaded", "failed"} :
          /\ pc' = [pc EXCEPT ![p] = to] /\ UNCHANGED <<vault, tmp, data>>
          /\ \A q \in Procs \ {p} : fd'[q] = fd[q] /\ pw'[q] = pw[q]
    BY <1>5, VaultTypes DEF LoadStep, LoadFinds, LoadOpens, LoadReads, End, Goto, files
  <2> QED BY <2>1, QuietSealed DEF InLoad, Over
<1>6. CASE DestroyStep(p)
  <2>1. CASE DestroyLooks(p) \/ DestroySizes(p)
    <3>1. PICK to \in {"size", "wipe", "destroyed"} :
            /\ pc' = [pc EXCEPT ![p] = to] /\ UNCHANGED <<vault, tmp, data>>
            /\ \A q \in Procs \ {p} : fd'[q] = fd[q] /\ pw'[q] = pw[q]
      BY <2>1, VaultTypes DEF DestroyLooks, DestroySizes, End, Goto, files
    <3> QED BY <3>1, QuietSealed DEF InDestroy, Over
  <2>2. CASE DestroyOpens(p)
    <3>1. PICK i \in Inodes : /\ IF vault = NoFile THEN i \in Free ELSE i = vault
                              /\ vault' = i /\ Open(p, i)
      BY <2>2, VaultTypes DEF DestroyOpens, Free
    <3>2. i # tmp
      BY <3>1 DEF Free, SealedAlone, Apart
    <3>3. /\ UNCHANGED <<tmp, pw>>
          /\ \A q \in Procs : pc'[q] = IF q = p THEN "noise" ELSE pc[q]
          /\ \A q \in Procs : fd'[q] = IF q = p THEN i ELSE fd[q]
          /\ \A j \in Inodes : data'[j] = IF j = i THEN "empty" ELSE data[j]
      BY <2>2, <3>1, VaultTypes DEF DestroyOpens, Open, Goto
    <3>4. Apart' /\ Stored' \notin Passwords
      BY <3>1, <3>2, <3>3, PasswordsAssumption DEF Apart, Stored, Unsealed
    <3>5. tmp # NoFile => data'[tmp] = data[tmp]
      BY <3>2, <3>3, VaultTypes
    <3> QED BY <3>2, <3>3, <3>4, <3>5, SpoilSealed
  <2>3. CASE DestroyFills(p)
    <3>1. fd[p] \in Inodes /\ fd[p] # tmp
      BY <2>3, VaultTypes DEF DestroyFills, Goto, SealedAlone
    <3>2. /\ UNCHANGED <<vault, tmp, pw, fd>>
          /\ data' = [data EXCEPT ![fd[p]] = "noise"]
          /\ \A q \in Procs : pc'[q] = IF q = p THEN "remove" ELSE pc[q]
      BY <2>3, VaultTypes DEF DestroyFills, Fill, Goto
    <3>3. Apart' /\ Stored' \in {Stored, "ruined"}
      BY <3>1, <3>2, SpoilsNoVault DEF SealedAlone, Apart, Unsealed
    <3>4. tmp # NoFile => data'[tmp] = data[tmp]
      BY <3>1, <3>2, VaultTypes
    <3> QED BY <3>2, <3>3, <3>4, SpoilSealed, PasswordsAssumption
  <2>4. CASE DestroyRemoves(p)
    <3>1. /\ vault' = NoFile /\ UNCHANGED <<tmp, data, pw>>
          /\ \A q \in Procs : pc'[q] = IF q = p THEN "destroyed" ELSE pc[q]
          /\ \A q \in Procs \ {p} : fd'[q] = fd[q]
      BY <2>4, VaultTypes DEF DestroyRemoves, End, Goto
    <3>2. Apart' /\ Stored' \notin Passwords
      BY <3>1, PasswordsAssumption DEF Apart, Stored
    <3> QED BY <3>1, <3>2, SpoilSealed
  <2> QED BY <1>6, <2>1, <2>2, <2>3, <2>4 DEF DestroyStep
<1> QED BY <1>1, <1>2, <1>3, <1>4, <1>5, <1>6

\* While no two inits overlap, the file that is sealed stays apart.
LEMMA NextSealed ==
  VaultTypeOK /\ SealedAlone /\ OneInit /\ OneInit' /\ [Next]_vars => SealedAlone'
<1> SUFFICES ASSUME VaultTypeOK, SealedAlone, OneInit, OneInit', [Next]_vars
             PROVE  SealedAlone'
  OBVIOUS
<1>1. CASE UNCHANGED vars
  BY <1>1 DEF vars, SealedAlone, Apart, Stored
<1> QED BY <1>1, StepSealed DEF Next

\* An init that says it has created the vault has just renamed it.
LEMMA CreatedByRename ==
  ASSUME VaultTypeOK, Next, NEW p \in Procs, pc[p] = "rename", pc'[p] = "created"
  PROVE  SealRenames(p)
<1>1. PICK q \in Procs : Begin(q) \/ InitStep(q) \/ LoadStep(q) \/ DestroyStep(q)
                           \/ Fails(q) \/ Crash(q)
  BY DEF Next
<1>2. ASSUME NEW to, pc' = [pc EXCEPT ![q] = to] PROVE q = p /\ to = "created"
  BY <1>2, VaultTypes
<1>3. CASE Begin(q) \/ Fails(q) \/ Crash(q)
  BY <1>2, <1>3 DEF Begin, Fails, Crash, End, Goto
<1>4. CASE LoadStep(q)
  BY <1>2, <1>4 DEF LoadStep, LoadFinds, LoadOpens, LoadReads, End, Goto
<1>5. CASE DestroyStep(q)
  BY <1>2, <1>5
  DEF DestroyStep, DestroyLooks, DestroySizes, DestroyOpens, DestroyFills,
      DestroyRemoves, End, Goto
<1>6. CASE InitStep(q)
  BY <1>2, <1>6 DEF InitStep, InitChecks, SealOpens, SealFills, SealRenames, End, Goto
<1> QED BY <1>1, <1>3, <1>4, <1>5, <1>6

\* Whatever destroys and loads run at the same time, and whatever fails or is
\* killed: while no two inits overlap, the vault that vault-init reports is there
\* and opens with the password that was given.
THEOREM CreatedStaysTrue == Spec /\ []OneInit => CreatedIsTrue
<1>1. ASSUME VaultTypeOK, SealedAlone, [Next]_vars
      PROVE  [\A p \in Procs : pc[p] = "rename" /\ pc'[p] = "created" => Stored' = pw[p]]_vars
  <2> SUFFICES ASSUME Next, NEW p \in Procs, pc[p] = "rename", pc'[p] = "created"
               PROVE  Stored' = pw[p]
    BY <1>1
  <2>1. tmp # NoFile /\ vault' = tmp /\ data' = data
    BY <1>1, CreatedByRename DEF SealRenames
  <2>2. data[tmp] = pw[p] /\ pw[p] \in Passwords
    BY <1>1, VaultTypes DEF SealedAlone
  <2> QED BY <2>1, <2>2 DEF Stored
<1>2. VaultTypeOK /\ [Next]_vars => VaultTypeOK'
  <2>1. VaultTypeOK /\ UNCHANGED vars => VaultTypeOK'
    BY DEF vars, VaultTypeOK
  <2> QED BY <2>1, StepVaultType DEF Next
<1> QED BY <1>1, <1>2, InitVaultType, InitSealed, NextSealed, PTL DEF Spec, CreatedIsTrue

\* A step leaves the vault as it was, removes it, or spoils it.
LEMMA StepNeverReplaces ==
  ASSUME VaultTypeOK, SealedAlone, NEW p \in Procs, Stored \in Passwords,
         Begin(p) \/ InitStep(p) \/ LoadStep(p) \/ DestroyStep(p) \/ Fails(p) \/ Crash(p)
  PROVE  Stored' \in {Stored, "ruined", "absent"}
<1>0. vault \in Inodes /\ vault # tmp
  BY VaultTypes, PasswordsAssumption DEF Stored, SealedAlone, Apart
<1>1. UNCHANGED <<vault, data>> => Stored' = Stored
  BY DEF Stored
<1>2. ASSUME NEW i \in Inodes, NEW x, UNCHANGED vault, data' = [data EXCEPT ![i] = x],
             i = tmp \/ i \in Free \/ x \in Unsealed
      PROVE  Stored' \in {Stored, "ruined", "absent"}
  <2>1. CASE x \in Unsealed
    BY <1>2, <2>1, SpoilsNoVault
  <2>2. CASE i # vault
    BY <1>0, <1>2, <2>2, VaultTypes DEF Stored
  <2> QED BY <1>0, <1>2, <2>1, <2>2 DEF Free
<1>3. CASE Begin(p) \/ LoadStep(p) \/ Crash(p)
  BY <1>1, <1>3 DEF Begin, LoadStep, LoadFinds, LoadOpens, LoadReads, Crash, files
<1>4. CASE Fails(p)
  <2>1. CASE data' = data
    BY <1>1, <1>4, <2>1 DEF Fails
  <2>2. CASE pc[p] \in {"fill", "noise"} /\ data' = [data EXCEPT ![fd[p]] = "part"]
    BY <1>2, <1>4, <2>2, VaultTypes DEF Fails, Unsealed
  <2> QED BY <1>4, <2>1, <2>2 DEF Fails
<1>5. CASE InitStep(p)
  <2>1. CASE InitChecks(p)
    BY <1>1, <2>1 DEF InitChecks, files
  <2>2. CASE SealOpens(p)
    BY <1>2, <2>2, VaultTypes DEF SealOpens, Open, Free, Unsealed
  <2>3. CASE SealFills(p)
    BY <1>2, <2>3, VaultTypes DEF SealFills, Fill, Goto, SealedAlone
  <2>4. CASE SealRenames(p)
    BY <2>4 DEF SealRenames, End, Goto, SealedAlone
  <2> QED BY <1>5, <2>1, <2>2, <2>3, <2>4 DEF InitStep
<1>6. CASE DestroyStep(p)
  <2>1. CASE DestroyLooks(p) \/ DestroySizes(p)
    BY <1>1, <2>1 DEF DestroyLooks, DestroySizes, files
  <2>2. CASE DestroyOpens(p)
    BY <1>0, <1>2, <2>2, NoFileAssumption DEF DestroyOpens, Open, Unsealed
  <2>3. CASE DestroyFills(p)
    BY <1>2, <2>3, VaultTypes DEF DestroyFills, Fill, Goto, Unsealed
  <2>4. CASE DestroyRemoves(p)
    BY <2>4 DEF DestroyRemoves, Stored
  <2> QED BY <1>6, <2>1, <2>2, <2>3, <2>4 DEF DestroyStep
<1> QED BY <1>3, <1>4, <1>5, <1>6

\* While no two inits overlap, no vault takes the place of a whole one, also
\* when an init meets a destroy that makes the file anew.
THEOREM NeverReplacesAVault == Spec /\ []OneInit => NeverReplaced
<1>1. ASSUME VaultTypeOK, SealedAlone, [Next]_vars
      PROVE  [(Stored \in Passwords) => Stored' \in {Stored, "ruined", "absent"}]_vars
  BY <1>1, StepNeverReplaces DEF Next
<1>2. VaultTypeOK /\ [Next]_vars => VaultTypeOK'
  <2>1. VaultTypeOK /\ UNCHANGED vars => VaultTypeOK'
    BY DEF vars, VaultTypeOK
  <2> QED BY <2>1, StepVaultType DEF Next
<1> QED BY <1>1, <1>2, InitVaultType, InitSealed, NextSealed, PTL DEF Spec, NeverReplaced
===============================================================================
