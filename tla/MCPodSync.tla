-------------------------------- MODULE MCPodSync --------------------------------
(***************************************************************************)
(* An instance of PodSync for TLC.  The first cluster starts with every    *)
(* pod and the others with none: a switch then shows whose rows are shown. *)
(***************************************************************************)
EXTENDS PodSync

MCInit ==
    /\ Init
    /\ pods = [c \in Clusters |-> [n \in Names |-> IF c = 0 THEN 1 ELSE 0]]

MCSpec == MCInit /\ [][Next]_vars /\ Fairness

=============================================================================
