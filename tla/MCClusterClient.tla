----------------------------- MODULE MCClusterClient -----------------------------
(***************************************************************************)
(* Instances of ClusterClient for TLC: a kubeconfig with two contexts, one *)
(* with a single context, and one that cannot be parsed.                   *)
(***************************************************************************)
EXTENDS ClusterClient, TLC

CONSTANTS two, one, junk, a, b

FileContexts == (two :> {a, b}) @@ (one :> {b}) @@ (junk :> {})
FileCurrent  == (two :> a) @@ (one :> b) @@ (junk :> None)

=============================================================================
