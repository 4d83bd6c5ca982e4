------------------------------- MODULE MCVault -------------------------------
(***************************************************************************)
(* Small instances of Vault.                                               *)
(***************************************************************************)
EXTENDS Vault, TLC

\* Neither the passwords nor the files nor the processes differ.
Alike == Permutations(Procs) \cup Permutations(Passwords) \cup Permutations(Inodes)
===============================================================================
