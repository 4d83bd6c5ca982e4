--------------------------- MODULE SessionCleanup ---------------------------
(***************************************************************************)
(* clean_session of src/src/security.rs: the removal of everything a       *)
(* session has left on disk.  It runs on the dashboard's 'c' key and on    *)
(* the dashboard's regular exit, in a process of its own, while the         *)
(* transparent-proxy commands may be running: the temp directory it scans  *)
(* for names containing "nofind" is the one that holds their backup file.  *)
(***************************************************************************)
EXTENDS Host

CONSTANTS
  TmpFiles,  \* entries of the temp directory named after nofind, the
             \* session directory and the backup file left aside
  InitFiles, \* what may exist at first
  Resisting  \* entries whose removal may fail

\* The paths, in the order in which the program visits directories at home.
SessionDir == "sessionDir"
Backup     == "backup"
AfterHome  == [cacheDir |-> "dataDir", dataDir |-> "dnsCache", dnsCache |-> "end"]
HomeDirs   == DOMAIN AfterHome
TmpNames   == TmpFiles \cup {SessionDir, Backup}
Paths      == TmpNames \cup HomeDirs

ASSUME TmpFilesAssumption == TmpFiles \cap ({SessionDir, Backup} \cup HomeDirs) = {}
ASSUME ResistingAssumption == Resisting \subseteq Paths
ASSUME InitFilesAssumption == InitFiles \subseteq SUBSET (Paths \ {Backup})

VARIABLES
  files,   \* the paths that exist, the backup file left aside
  cpc,     \* where the cleaning is
  todo,    \* the matching entries that the scan has read and not handled
  errors,  \* the counter of failed removals
  cret,    \* how the last cleaning has ended
  doomed   \* history: what existed when the cleaning began and still does,
           \* until it owns up to a failure

cleanVars == <<files, cpc, todo, errors, cret, doomed>>

Present == files \cup (IF backup = {} THEN {} ELSE {Backup})

CleanTypeOK ==
  /\ files \subseteq Paths \ {Backup}
  /\ cpc \in {"idle", "sessionDir", "open", "scan", "end"} \cup HomeDirs
  /\ todo \subseteq TmpNames
  /\ errors \in 0..5
  /\ cret \in {"none", "ok", "err"}
  /\ doomed \subseteq Present

CleanInit ==
  /\ files \in InitFiles
  /\ cpc = "idle"
  /\ todo = {}
  /\ errors = 0
  /\ cret = "none"
  /\ doomed = {}

\* Remove path f: the backup file is the host's variable.
Remove(f) ==
  /\ files' = files \ {f}
  /\ backup' = IF f = Backup THEN {} ELSE backup

\* One removal that is counted and never stops the cleaning: only a path
\* that exists is tried.
TryRemove(f) ==
  \/ /\ f \in Present
     /\ Remove(f)
     /\ UNCHANGED errors
  \/ /\ f \in Present \cap Resisting
     /\ errors' = errors + 1
     /\ UNCHANGED <<files, backup>>
  \/ /\ f \notin Present
     /\ UNCHANGED <<files, backup, errors>>

CleanBegin ==
  /\ cpc = "idle"
  /\ cpc' = "sessionDir"
  /\ cret' = "none"
  /\ doomed' = Present
  /\ UNCHANGED <<files, backup, todo, errors>>

CleanSessionDir ==
  /\ cpc = "sessionDir"
  /\ TryRemove(SessionDir)
  /\ cpc' = "open"
  /\ doomed' = doomed \cap Present'
  /\ UNCHANGED <<todo, cret>>

\* read_dir of the temp directory, and the filter on the name.
OpenTemp ==
  /\ cpc = "open"
  /\ todo' = Present \cap TmpNames
  /\ cpc' = "scan"
  /\ UNCHANGED <<files, backup, errors, cret, doomed>>

\* read_dir, or the type of the entry it is called on, cannot be had.
OpenFails ==
  /\ cpc = "open"
  /\ errors' = errors + 1
  /\ cpc' = "cacheDir"
  /\ UNCHANGED <<files, backup, todo, cret, doomed>>

\* One entry of the scan, in the order the directory gives them.
ScanEntry ==
  /\ cpc = "scan"
  /\ \E f \in todo :
       /\ f \in Present
       /\ Remove(f)
       /\ todo' = todo \ {f}
  /\ doomed' = doomed \cap Present'
  /\ UNCHANGED <<cpc, errors, cret>>

\* Mutant: the error of the scan is not counted.
ScanAbortsUncounted ==
  /\ cpc = "scan"
  /\ \E f \in todo : f \notin Present \/ f \in Resisting
  /\ todo' = {}
  /\ cpc' = "cacheDir"
  /\ UNCHANGED <<files, backup, errors, cret, doomed>>

\* The ? on a removal: an entry that resists, or is gone since it was read,
\* ends the scan, and the entries after it stay.
ScanAborts ==
  /\ cpc = "scan"
  /\ \E f \in todo : f \notin Present \/ f \in Resisting
  /\ errors' = errors + 1
  /\ todo' = {}
  /\ cpc' = "cacheDir"
  /\ UNCHANGED <<files, backup, cret, doomed>>

ScanEnds ==
  /\ cpc = "scan" /\ todo = {}
  /\ cpc' = "cacheDir"
  /\ UNCHANGED <<files, backup, todo, errors, cret, doomed>>

CleanHomeDir ==
  /\ cpc \in HomeDirs
  /\ TryRemove(cpc)
  /\ cpc' = AfterHome[cpc]
  /\ doomed' = doomed \cap Present'
  /\ UNCHANGED <<todo, cret>>

\* Mutant: the error counter outlives a cleaning.
CleanEndKeepsErrors ==
  /\ cpc = "end"
  /\ cret' = IF errors > 0 THEN "err" ELSE "ok"
  /\ cpc' = "idle"
  /\ doomed' = IF errors > 0 THEN {} ELSE doomed
  /\ UNCHANGED <<files, backup, todo, errors>>

\* The counter, a local, ends with the function.
CleanEnd ==
  /\ cpc = "end"
  /\ cret' = IF errors > 0 THEN "err" ELSE "ok"
  /\ cpc' = "idle"
  /\ errors' = 0
  /\ doomed' = IF errors > 0 THEN {} ELSE doomed
  /\ UNCHANGED <<files, backup, todo>>

CleanStep ==
  /\ \/ CleanBegin \/ CleanSessionDir \/ OpenTemp \/ OpenFails \/ ScanEntry \/ ScanAborts
     \/ ScanEnds \/ CleanHomeDir \/ CleanEnd
  /\ UNCHANGED <<rules, loaded>>

\* A cleaning that ends with Ok has removed everything that existed when it
\* began: no entry that resisted, or that an aborted scan never reached, is
\* passed over in silence.
OkMeansClean == cret = "ok" => doomed = {}
=============================================================================
