----------------------------- MODULE ClusterPicker -----------------------------
(***************************************************************************)
(* Which cluster the front end says it uses: the status that the layout    *)
(* asks for every five seconds and after a switch, and the dialog that     *)
(* uploads a kubeconfig or selects a context.  A cluster is a number, 0    *)
(* while the server has only its placeholder.  The server is external      *)
(* (ClusterClient has its side); others may switch it too.                 *)
(***************************************************************************)
EXTENDS Naturals, RestCalls

CONSTANTS
    Polls,        \* requests of the layout that may be in flight at one time
    LastCluster,
    MaxFailures,  \* bound on calls that fail
    MaxElsewhere  \* bound on switches made by others

ASSUME PickerAssumption ==
    /\ LastCluster \in Nat \ {0}   \* one at least beside the placeholder
    /\ {MaxFailures, MaxElsewhere} \subseteq Nat
    /\ {"modal", "connect"} \cap Polls = {}

VARIABLES
    served,        \* the cluster the server uses
    status,        \* clusterStatus of the layout
    setup,         \* showClusterSetup
    modalStatus,   \* status of the dialog
    context,       \* the context chosen in it
    target,        \* the cluster it is selecting or uploading (loading)
    asked,         \* requests for the status, and their answers
    failures, elsewhere

pickerVars == <<served, status, setup, modalStatus, context, target, asked,
                failures, elsewhere>>

Clusters == 0 .. LastCluster
Requests == Polls \cup {"modal", "connect"}

Unasked  == [st |-> "idle",     got |-> None]
Waiting  == [st |-> "waiting",  got |-> None]
Got(c)   == [st |-> "answered", got |-> c]

PickerInit ==
    /\ served \in {0, 1}
    /\ status = None /\ setup = FALSE
    /\ modalStatus = None /\ context = None /\ target = None
    /\ asked = [r \in Requests |-> Unasked]
    /\ failures = 0 /\ elsewhere = 0

\* refresh of the layout, which looks at no other request in flight: the bound
\* Polls is in the guards of those that call it.
Asking(req) == [req EXCEPT ![CHOOSE r \in Polls : req[r] = Unasked] = Waiting]
CanAsk      == \E r \in Polls : asked[r] = Unasked

-----------------------------------------------------------------------------
(* The server, external. *)

SwitchedElsewhere(c) ==
    /\ c # served
    /\ elsewhere < MaxElsewhere /\ elsewhere' = elsewhere + 1
    /\ served' = c
    /\ UNCHANGED <<status, setup, modalStatus, context, target, asked, failures>>

StatusServed(r) ==
    /\ asked[r] = Waiting
    /\ asked' = [asked EXCEPT ![r] = Got(served)]
    /\ UNCHANGED <<served, status, setup, modalStatus, context, target,
                   failures, elsewhere>>

-----------------------------------------------------------------------------
(* The layout. *)

\* Mutant of Refresh: only the first call.
RefreshOnce ==
    /\ status = None
    /\ CanAsk
    /\ asked' = Asking(asked)
    /\ UNCHANGED <<served, status, setup, modalStatus, context, target,
                   failures, elsewhere>>

\* The interval of the effect, and its first call.
Refresh ==
    /\ CanAsk
    /\ asked' = Asking(asked)
    /\ UNCHANGED <<served, status, setup, modalStatus, context, target,
                   failures, elsewhere>>

\* The placeholder opens the dialog, which asks in its turn.
LayoutAnswer(r) ==
    /\ r \in Polls /\ asked[r].st = "answered"
    /\ status' = asked[r].got
    /\ setup' = (setup \/ asked[r].got = 0)
    /\ asked' = [asked EXCEPT ![r] = Unasked,
                              !["modal"] = IF setup' /\ ~setup THEN Waiting ELSE @]
    /\ UNCHANGED <<served, modalStatus, context, target, failures, elsewhere>>

-----------------------------------------------------------------------------
(* The dialog: it stays mounted, so what it knows survives its closing. *)

OpenSetup ==
    /\ ~setup /\ setup' = TRUE
    /\ asked' = [asked EXCEPT !["modal"] = Waiting]
    /\ UNCHANGED <<served, status, modalStatus, context, target, failures, elsewhere>>

CloseSetup ==
    /\ setup /\ setup' = FALSE
    /\ asked' = [asked EXCEPT !["modal"] = Unasked]
    /\ UNCHANGED <<served, status, modalStatus, context, target, failures, elsewhere>>

ModalAnswer ==
    /\ asked["modal"].st = "answered"
    /\ asked' = [asked EXCEPT !["modal"] = Unasked]
    /\ modalStatus' = asked["modal"].got
    /\ context' = IF modalStatus' # 0 THEN modalStatus' ELSE context
    /\ UNCHANGED <<served, status, setup, target, failures, elsewhere>>

\* A context, or none: the one a kubeconfig names itself.
ChooseContext(c) ==
    /\ setup /\ context' = (IF c = 0 THEN None ELSE c)
    /\ context' # context
    /\ UNCHANGED <<served, status, setup, modalStatus, target, asked,
                   failures, elsewhere>>

handleSelectContext ==
    /\ setup /\ target = None
    /\ modalStatus \notin {None, 0} /\ context # None
    /\ target' = context
    /\ UNCHANGED <<served, status, setup, modalStatus, context, asked,
                   failures, elsewhere>>

\* A kubeconfig, with the context chosen or the one it names itself.
handleConnect(c) ==
    /\ setup /\ target = None
    /\ c # 0 /\ context \in {None, c}
    /\ target' = c
    /\ UNCHANGED <<served, status, setup, modalStatus, context, asked,
                   failures, elsewhere>>

\* The call succeeds: cluster:switched makes the layout ask, then the dialog
\* asks for the status itself.
Connected ==
    /\ target # None /\ asked["connect"] = Unasked /\ CanAsk
    /\ served' = target
    /\ asked' = [Asking(asked) EXCEPT !["connect"] = Waiting]
    /\ UNCHANGED <<status, setup, modalStatus, context, target, failures, elsewhere>>

\* onConnected and onClose: the status is the layout's as well.
ConnectAnswer ==
    /\ asked["connect"].st = "answered"
    /\ modalStatus' = asked["connect"].got
    /\ status' = modalStatus'
    /\ setup' = FALSE /\ target' = None
    /\ asked' = [asked EXCEPT !["connect"] = Unasked, !["modal"] = Unasked]
    /\ UNCHANGED <<served, context, failures, elsewhere>>

\* The call fails, before the server has switched or after; the dialog stays.
SelectFails ==
    /\ target # None /\ asked["connect"] = Unasked
    /\ failures < MaxFailures /\ failures' = failures + 1
    /\ served' \in {served, target}
    /\ target' = None
    /\ UNCHANGED <<status, setup, modalStatus, context, asked, elsewhere>>

\* A status request fails: the layout keeps what it knows, and the dialog that
\* has just switched stays open.
AskFails(r) ==
    /\ asked[r] # Unasked
    /\ failures < MaxFailures /\ failures' = failures + 1
    /\ asked' = [asked EXCEPT ![r] = Unasked]
    /\ target' = IF r = "connect" THEN None ELSE target
    /\ UNCHANGED <<served, status, setup, modalStatus, context, elsewhere>>

PickerNext ==
    \/ \E c \in Clusters : SwitchedElsewhere(c) \/ ChooseContext(c) \/ handleConnect(c)
    \/ \E r \in Requests : StatusServed(r) \/ LayoutAnswer(r) \/ AskFails(r)
    \/ Refresh \/ OpenSetup \/ CloseSetup \/ ModalAnswer
    \/ handleSelectContext \/ Connected \/ ConnectAnswer \/ SelectFails

\* The interval runs, and what the layout asks is answered; of the dialog nothing
\* is assumed.
PickerFairness ==
    /\ WF_pickerVars(Refresh)
    /\ \A r \in Polls : WF_pickerVars(StatusServed(r)) /\ WF_pickerVars(LayoutAnswer(r))

PickerSpec == PickerInit /\ [][PickerNext]_pickerVars /\ PickerFairness

-----------------------------------------------------------------------------
PickerType ==
    /\ served \in Clusters
    /\ {status, modalStatus, context, target} \subseteq Clusters \cup {None}
    /\ setup \in BOOLEAN
    /\ asked \in [Requests -> [st : {"idle", "waiting", "answered"},
                               got : Clusters \cup {None}]]
    /\ failures \in 0 .. MaxFailures
    /\ elsewhere \in 0 .. MaxElsewhere

\* Once nobody switches any more, the layout comes to name the cluster the server
\* uses, whoever switched it, whatever failed and however late answers came; and
\* as long as there is only the placeholder it goes on asking for a cluster.
StatusSettles ==
    /\ <>[][FALSE]_served => <>[](status = served)
    /\ <>[](served = 0) => []<>setup

=============================================================================
