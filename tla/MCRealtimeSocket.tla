---------------------------- MODULE MCRealtimeSocket ----------------------------
(***************************************************************************)
(* Instances of RealtimeSocket for TLC: Layout and a page list the         *)
(* namespaces, another page lists deployments.                             *)
(***************************************************************************)
EXTENDS RealtimeSocket, TLC

CONSTANTS layout, page1, page2, namespaces, deployments

PageWatches == (layout :> namespaces) @@ (page1 :> deployments)
               @@ (page2 :> namespaces)

=============================================================================
