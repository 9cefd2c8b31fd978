------------------------------- MODULE MCFrontEnd -------------------------------
(***************************************************************************)
(* The instance of FrontEnd for TLC.  Two objects have the same name, in   *)
(* two namespaces; on a page, once a tab has been opened only a logout     *)
(* follows, and once a YAML is being fetched only its answer or a logout;  *)
(* who is out stays out.  At the backups rows are ticked or shown, not     *)
(* both.  In the cluster picker another context is chosen only while no    *)
(* switch is under way and the dialog waits for no answer.                 *)
(***************************************************************************)
EXTENDS FrontEnd

MCNamed  == {[ns |-> "left", name |-> "x"], [ns |-> "right", name |-> "x"]}
MCGlobal == {[name |-> "x"], [name |-> "y"]}

\* One call of each kind: a query, one that a 401 does not end, a deletion.
MCUsed == {"namespaces", "scale", "deletePod"}

Bound ==
    /\ scene = "pages" => /\ tabs # <<>> => ~authenticated'
                          /\ fetching => ~fetching' \/ ~authenticated'
                          /\ ~authenticated => fetching /\ ~fetching'
    /\ scene = "backups" => selected' = None \/ marked' = {}
    /\ scene = "picker" => \/ context' = context
                           \/ target = None /\ asked["modal"].st # "waiting"

MCSpec == FrontInit /\ [][FrontNext /\ Bound]_frontVars /\ FrontFairness

=============================================================================
