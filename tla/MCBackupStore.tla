----------------------------- MODULE MCBackupStore -----------------------------
(***************************************************************************)
(* Instances of BackupStore for TLC; the cfg files give the constants.     *)
(* Replicas are interchangeable, and so are request slots.                 *)
(***************************************************************************)
EXTENDS BackupStore, TLC

Symmetry == Permutations(Replicas) \cup Permutations(Requests)

=============================================================================
