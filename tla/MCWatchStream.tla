------------------------------ MODULE MCWatchStream ------------------------------
(***************************************************************************)
(* An instance of WatchStream for TLC.  A behaviour has one of the pages:  *)
(* one hook without a reconcile interval, where a second object and a      *)
(* second mount may come; one with it, of a cluster-scoped kind; or two    *)
(* hooks of one kind, which stay and mount in their order.                 *)
(***************************************************************************)
EXTENDS WatchStream

CONSTANTS
    Pages,    \* the hooks each page has
    Second,   \* the objects that only pages without a reconcile interval have
    First,    \* tasks are interchangeable: this one is used first
    Beside    \* the hook that only mounts beside another

VARIABLE page

MCInit == Init /\ page \in Pages

Bound ==
    /\ mounted' \subseteq page
    /\ Beside \in page => mounted \subseteq mounted' /\ mounted' # {Beside}
    /\ IF page \cap Reconciled # {}
       THEN mounts' <= 1 /\ \A n \in Second : store'[n] = 0
       ELSE mounts' + errors' + drops' <= 2
    /\ \A t \in Tasks \ {First} : phase'[First] = "idle" => phase'[t] = "idle"

MCNext == Next /\ Bound /\ UNCHANGED page

MCSpec == MCInit /\ [][MCNext]_<<vars, page>> /\ Progress

=============================================================================
