------------------------- MODULE MCTransparentCleanup -------------------------
(***************************************************************************)
(* Small instances of TransparentCleanup.                                  *)
(***************************************************************************)
EXTENDS TransparentCleanup, MCTransparent

\* A session directory, one more temporary file and the report directory.
MCInitFiles == {{}, {"sessionDir", "other", "dataDir"}}

\* A temporary file and the report directory.
MCTwoFiles == {{"other", "dataDir"}}
===============================================================================
