------------------------------ MODULE ClusterClient ------------------------------
(***************************************************************************)
(* Which cluster the backend talks to: the shared client and the cells     *)
(* beside it (backend/src/main.rs AppState), the kubeconfig on disk, and   *)
(* who writes them - start-up, the upgrade of the placeholder client in    *)
(* the background (backend/src/utils.rs) and the two handlers of           *)
(* backend/src/handlers/cluster.rs.                                        *)
(*                                                                         *)
(* No lock spans two cells and handlers run on several threads, so every   *)
(* write of a cell is an action.  A client is the kubeconfig and the       *)
(* context it was built from.  Left out: the path of the kubeconfig (it    *)
(* never changes, and neither does the cell that holds it), the text of    *)
(* messages, and a failed write of the file.                               *)
(***************************************************************************)
EXTENDS Naturals

CONSTANTS
    Files,       \* kubeconfig contents, unusable ones included
    Contexts,    \* names of contexts
    Has,         \* the contexts each file defines
    Names,       \* the current-context of each file, or None
    Account,     \* the kubeconfig made from the pod's service account, or None
    Deployed,    \* KUBE_CONTEXT values the process may be started with
    Requests,    \* slots for concurrently served requests
    None,
    MaxAttempts, \* attempts of the background upgrade (18 in the code)
    MaxRequests, \* bound on requests served
    MaxFaults    \* bound on clients that fail to build, dropped requests and
                 \* restarts

ASSUME ClusterAssumption ==
    /\ None \notin Files \cup Contexts \cup Requests
    /\ None \notin Files \X Contexts
    /\ Has \in [Files -> SUBSET Contexts]
    /\ Names \in [Files -> Contexts \cup {None}]
    /\ Account \in Files \cup {None}
    /\ Account # None => Names[Account] \in Has[Account]
    /\ Deployed \subseteq Contexts \cup {None}
    /\ {MaxAttempts, MaxRequests, MaxFaults} \subseteq Nat

VARIABLES
    file,      \* the kubeconfig on disk
    env,       \* KUBE_CONTEXT
    client,    \* AppState.client, None while it is the placeholder
    flag,      \* auth_placeholder
    message,   \* auth_message is there
    context,   \* current_context
    pc,        \* where each request is
    want,      \* the context it asks for
    upload,    \* it is an upload
    made,      \* the client it built, or cordoned a node with
    up,        \* where the background upgrade is
    upCtx,     \* the context it resolved
    tries,     \* attempts it has made
    requests, faults,
    alone,     \* history: the switch no other writer ran beside, or None
    calm       \* history: nothing has parted the cells since they last agreed

cellVars == <<client, flag, message, context>>
reqVars  == <<pc, want, upload, made>>
upVars   == <<up, upCtx, tries>>
vars == <<file, env, cellVars, reqVars, upVars, requests, faults, alone, calm>>

Clients == Files \X Contexts
Switching == {"build", "client", "flag", "message", "context", "raise", "explain"}
Steps    == Switching \cup {"idle", "cordon", "kubectl"}
UpWrites == {"load", "flag", "message"}
UpSteps  == UpWrites \cup {"done", "check", "asleep"}

Defined(f) == IF f = None THEN {} ELSE Has[f]
Current(f) == IF f = None THEN None ELSE Names[f]

(* resolve_effective_kube_context                                          *)
Resolve(e, f) == IF e # None THEN e ELSE Current(f)

-----------------------------------------------------------------------------
(* load_kube_client_with_status and main: the client of the resolved       *)
(* context, else that of the service account, else the placeholder, with   *)
(* an upgrade if a context can be resolved by then: ensure_shell_kubeconfig *)
(* has written a kubeconfig for the service account if there is none.      *)
Boot(f, e) ==
    LET c == Resolve(e, f)
        g == IF f = None THEN Account ELSE f
    IN
    IF c # None
    THEN {[file |-> g, client |-> None, up |-> "check"]}
         \cup {[file |-> g, client |-> <<f, x>>, up |-> "done"] :
                  x \in {c} \cap Defined(f)}
    ELSE {[file |-> g, client |-> None,
           up |-> IF Current(g) = None THEN "done" ELSE "check"]}
         \cup {[file |-> g, client |-> <<a, Names[a]>>, up |-> "done"] :
                  a \in {Account} \ {None}}

Fresh(b) == b.client = None \/ b.client[1] = b.file

Init ==
    /\ env \in Deployed
    /\ \E f \in Files \cup {None} : \E b \in Boot(f, env) :
          /\ file = b.file /\ client = b.client /\ up = b.up
          /\ flag = (b.client = None) /\ message = (b.client = None)
          /\ calm = Fresh(b)
    /\ context = env
    /\ pc = [r \in Requests |-> "idle"]
    /\ want = [r \in Requests |-> None]
    /\ upload = [r \in Requests |-> FALSE]
    /\ made = [r \in Requests |-> None]
    /\ upCtx = None /\ tries = 0
    /\ requests = 0 /\ faults = 0
    /\ alone = None

(* The pod restarts: the kubeconfig is all that is left.                   *)
Restart ==
    /\ faults < MaxFaults /\ faults' = faults + 1
    /\ env' \in Deployed
    /\ \E b \in Boot(file, env') :
          /\ file' = b.file /\ client' = b.client /\ up' = b.up
          /\ flag' = (b.client = None) /\ message' = (b.client = None)
          /\ calm' = Fresh(b)
    /\ context' = env'
    /\ pc' = [r \in Requests |-> "idle"]
    /\ want' = [r \in Requests |-> None]
    /\ upload' = [r \in Requests |-> FALSE]
    /\ made' = [r \in Requests |-> None]
    /\ upCtx' = None /\ tries' = 0
    /\ alone' = None
    /\ UNCHANGED requests

-----------------------------------------------------------------------------
(* The two handlers *)

Busy == {r \in Requests : pc[r] \in Switching}

Goto(r, step) == pc' = [pc EXCEPT ![r] = step]

Serve(r, step, c, up_) ==
    /\ pc[r] = "idle"
    /\ requests < MaxRequests /\ requests' = requests + 1
    /\ Goto(r, step)
    /\ want' = [want EXCEPT ![r] = c]
    /\ upload' = [upload EXCEPT ![r] = up_]
    /\ made' = [made EXCEPT ![r] = None]

(* History: a switch begins beside another writer, or alone.               *)
Enter(r) ==
    LET crowded == Busy # {} \/ up \in UpWrites IN
    /\ alone' = IF crowded THEN None ELSE r
    /\ calm' = (calm /\ ~crowded)

(* upload_kubeconfig: the file is replaced before anyone has looked at it. *)
Upload(r, f, c) ==
    /\ Serve(r, "build", c, TRUE)
    /\ file' = f
    /\ Enter(r)
    /\ UNCHANGED <<env, cellVars, upVars, faults>>

(* select_cluster_context: KUBE_CONTEXT is set before the context is known *)
(* to work.                                                                *)
Select(r, c) ==
    /\ file # None
    /\ Serve(r, "build", c, FALSE)
    /\ env' = c
    /\ Enter(r)
    /\ UNCHANGED <<file, cellVars, upVars, faults>>

(* History: a request ends without having connected.                       *)
Leave(r) ==
    /\ alone' = IF alone = r THEN None ELSE alone
    /\ calm' = (calm /\ up = "done")

Wanted(r) == IF want[r] # None THEN want[r] ELSE Current(file)

(* build_client_from_kubeconfig_path                                       *)
Build(r) ==
    /\ pc[r] = "build"
    /\ \/ /\ Wanted(r) \in Defined(file)
          /\ made' = [made EXCEPT ![r] = <<file, Wanted(r)>>]
          /\ Goto(r, "client")
          /\ UNCHANGED <<faults, alone, calm>>
       \/ /\ IF Wanted(r) \in Defined(file)
             THEN faults < MaxFaults /\ faults' = faults + 1
             ELSE UNCHANGED faults
          /\ Goto(r, IF upload[r] THEN "raise" ELSE "idle")
          /\ IF upload[r] THEN UNCHANGED <<alone, calm>> ELSE Leave(r)
          /\ UNCHANGED made
    /\ UNCHANGED <<file, env, cellVars, want, upload, upVars, requests>>

(* Mutant of SetClient: a client that is there is kept.                    *)
SetClientOnce(r) ==
    /\ pc[r] = "client" /\ Goto(r, "flag")
    /\ client' = IF client = None THEN made[r] ELSE client
    /\ UNCHANGED <<file, env, flag, message, context, want, upload, made, upVars,
                   requests, faults, alone, calm>>

(* apply_client                                                            *)
SetClient(r) ==
    /\ pc[r] = "client" /\ Goto(r, "flag")
    /\ client' = made[r]
    /\ UNCHANGED <<file, env, flag, message, context, want, upload, made, upVars,
                   requests, faults, alone, calm>>

LowerFlag(r) ==
    /\ pc[r] = "flag" /\ Goto(r, "message")
    /\ flag' = FALSE
    /\ UNCHANGED <<file, env, client, message, context, want, upload, made, upVars,
                   requests, faults, alone, calm>>

ClearMessage(r) ==
    /\ pc[r] = "message" /\ Goto(r, "context")
    /\ message' = FALSE
    /\ UNCHANGED <<file, env, client, flag, context, want, upload, made, upVars,
                   requests, faults, alone, calm>>

(* Mutant of SetContext: the name is not kept.                             *)
SetContextNot(r) ==
    /\ pc[r] = "context" /\ Goto(r, "idle")
    /\ alone' = IF alone = r THEN None ELSE alone
    /\ calm' = (calm \/ alone = r)
    /\ UNCHANGED <<file, env, cellVars, want, upload, made, upVars, requests, faults>>

SetContext(r) ==
    /\ pc[r] = "context" /\ Goto(r, "idle")
    /\ context' = made[r][2]
    /\ alone' = IF alone = r THEN None ELSE alone
    /\ calm' = (calm \/ alone = r)
    /\ UNCHANGED <<file, env, client, flag, message, want, upload, made, upVars,
                   requests, faults>>

(* The failed upload; the client is left as it was.                        *)
RaiseFlag(r) ==
    /\ pc[r] = "raise" /\ Goto(r, "explain")
    /\ flag' = TRUE
    /\ UNCHANGED <<file, env, client, message, context, want, upload, made, upVars,
                   requests, faults, alone, calm>>

Explain(r) ==
    /\ pc[r] = "explain" /\ Goto(r, "idle")
    /\ message' = TRUE
    /\ Leave(r)
    /\ UNCHANGED <<file, env, client, flag, context, want, upload, made, upVars,
                   requests, faults>>

(* The browser goes away and the handler is dropped where it awaits.       *)
Hangup(r) ==
    /\ pc[r] \in Switching \ {"flag", "raise"}
    /\ faults < MaxFaults /\ faults' = faults + 1
    /\ Goto(r, "idle")
    /\ alone' = IF alone = r THEN None ELSE alone
    /\ calm' = FALSE
    /\ UNCHANGED <<file, env, cellVars, want, upload, made, upVars, requests>>

-----------------------------------------------------------------------------
(* drain_node cordons through the client, then runs kubectl, which reads   *)
(* the kubeconfig and knows nothing of KUBE_CONTEXT.  The cordon may fail. *)
Drain(r) ==
    /\ Serve(r, "cordon", None, FALSE)
    /\ UNCHANGED <<file, env, cellVars, upVars, faults, alone, calm>>

Cordon(r) ==
    /\ pc[r] = "cordon"
    /\ \/ /\ client # None
          /\ made' = [made EXCEPT ![r] = client]
          /\ Goto(r, "kubectl")
       \/ Goto(r, "idle") /\ UNCHANGED made
    /\ UNCHANGED <<file, env, cellVars, want, upload, upVars, requests, faults,
                   alone, calm>>

Kubectl(r) ==
    /\ pc[r] = "kubectl" /\ Goto(r, "idle")
    /\ UNCHANGED <<file, env, cellVars, want, upload, made, upVars, requests,
                   faults, alone, calm>>

-----------------------------------------------------------------------------
(* upgrade_kube_client_in_background *)

(* The head of the loop.                                                   *)
Check ==
    /\ up = "check"
    /\ up' = IF flag /\ tries < MaxAttempts THEN "asleep" ELSE "done"
    /\ tries' = IF flag /\ tries < MaxAttempts THEN tries + 1 ELSE tries
    /\ UNCHANGED <<file, env, cellVars, reqVars, upCtx, requests, faults, alone, calm>>

(* Ten seconds later it resolves the context.                              *)
Wake ==
    /\ up = "asleep"
    /\ upCtx' = Resolve(env, file)
    /\ up' = IF upCtx' = None THEN "check" ELSE "load"
    /\ alone' = IF upCtx' = None THEN alone ELSE None
    /\ calm' = (calm /\ (upCtx' = None \/ (flag /\ Busy = {})))
    /\ UNCHANGED <<file, env, cellVars, reqVars, tries, requests, faults>>

(* Mutant of Load: it gives up when its context cannot be loaded.          *)
LoadOnce ==
    /\ up = "load"
    /\ \/ /\ upCtx \in Defined(file)
          /\ client' = <<file, upCtx>>
          /\ up' = "flag"
          /\ UNCHANGED faults
       \/ /\ IF upCtx \in Defined(file)
             THEN faults < MaxFaults /\ faults' = faults + 1
             ELSE UNCHANGED faults
          /\ up' = "done"
          /\ UNCHANGED client
    /\ UNCHANGED <<file, env, flag, message, context, reqVars, upCtx, tries,
                   requests, alone, calm>>

(* Mutant of Load: it goes on as if every load succeeded.                  *)
LoadAlways ==
    /\ up = "load" /\ up' = "flag"
    /\ client' = IF upCtx \in Defined(file) THEN <<file, upCtx>> ELSE client
    /\ UNCHANGED <<file, env, flag, message, context, reqVars, upCtx, tries,
                   requests, faults, alone, calm>>

(* Config::from_kubeconfig reads the file, and the client is written,      *)
(* whatever the flag says by now; or the next attempt follows.             *)
Load ==
    /\ up = "load"
    /\ \/ /\ upCtx \in Defined(file)
          /\ client' = <<file, upCtx>>
          /\ up' = "flag"
          /\ UNCHANGED faults
       \/ /\ IF upCtx \in Defined(file)
             THEN faults < MaxFaults /\ faults' = faults + 1
             ELSE UNCHANGED faults
          /\ up' = "check"
          /\ UNCHANGED client
    /\ UNCHANGED <<file, env, flag, message, context, reqVars, upCtx, tries,
                   requests, alone, calm>>

UpFlag ==
    /\ up = "flag" /\ up' = "message"
    /\ flag' = FALSE
    /\ UNCHANGED <<file, env, client, message, context, reqVars, upCtx, tries,
                   requests, faults, alone, calm>>

UpMessage ==
    /\ up = "message" /\ up' = "done"
    /\ message' = FALSE
    /\ UNCHANGED <<file, env, client, flag, context, reqVars, upCtx, tries,
                   requests, faults, alone, calm>>

Upgrade == Check \/ Wake \/ Load \/ UpFlag \/ UpMessage

-----------------------------------------------------------------------------
Advance(r) ==
    \/ Build(r)
    \/ SetClient(r) \/ LowerFlag(r) \/ ClearMessage(r) \/ SetContext(r)
    \/ RaiseFlag(r) \/ Explain(r)
    \/ Cordon(r) \/ Kubectl(r)

Next ==
    \/ \E r \in Requests :
          \/ Advance(r) \/ Hangup(r) \/ Drain(r)
          \/ \E f \in Files, c \in Contexts \cup {None} : Upload(r, f, c)
          \/ \E c \in Contexts : Select(r, c)
    \/ Upgrade
    \/ Restart

Spec == Init /\ [][Next]_vars

(* tokio runs the handlers and the upgrade; users switch at will.          *)
FairSpec == Spec /\ WF_vars(Upgrade) /\ \A r \in Requests : WF_vars(Advance(r))

-----------------------------------------------------------------------------
TypeOK ==
    /\ file \in Files \cup {None}
    /\ {env, context, upCtx} \subseteq Contexts \cup {None}
    /\ client \in Clients \cup {None}
    /\ {flag, message, calm} \subseteq BOOLEAN
    /\ pc \in [Requests -> Steps]
    /\ want \in [Requests -> Contexts \cup {None}]
    /\ upload \in [Requests -> BOOLEAN]
    /\ made \in [Requests -> Clients \cup {None}]
    /\ up \in UpSteps
    /\ {tries, requests, faults} \subseteq Nat
    /\ alone \in Requests \cup {None}

(* The backend never says it is connected while it still holds the         *)
(* placeholder client, however switches, the upgrade and hang-ups mix      *)
(* their writes.                                                           *)
ConnectedIsReal == ~flag => client # None

(* What /cluster/status answers as the context.                            *)
Shown == IF context # None THEN context ELSE Current(file)

AtRest == Busy = {} /\ up \notin UpWrites

(* At rest, the client in use is the one of the context that is shown, of  *)
(* the kubeconfig whose contexts are offered, and a message is there when  *)
(* the flag is up; whatever happened before the last switch that ran       *)
(* alone.  What parts the cells until the next one: writers that run side  *)
(* by side, a handler dropped half-way, an upgrade that ends after a user  *)
(* has connected, a failed switch while an upgrade is still to come, and a *)
(* start from the service account beside a kubeconfig without a context.   *)
CellsAgree ==
    AtRest /\ calm =>
        /\ message = flag
        /\ ~flag => client = <<file, Shown>>

(* A process that starts with a context it cannot load yet connects in the *)
(* end, if it has more attempts than builds fail and kubeconfigs are       *)
(* replaced under it, and its context is defined in each of them.          *)
Recovers ==
    up = "check" /\ tries = 0 ~>
        ~flag \/ Resolve(env, file) \notin Defined(file)

(* drain_node of a backend that says it is connected evicts from the       *)
(* cluster in which it cordoned.                                           *)
DrainsWhatItCordoned ==
    [][\A r \in Requests :
         pc[r] = "kubectl" /\ pc'[r] = "idle" /\ AtRest /\ calm /\ ~flag =>
             made[r] = <<file, Current(file)>>]_vars

-----------------------------------------------------------------------------
(* What the proofs need besides.  A request that writes has built a        *)
(* client, and once it has written it the placeholder is gone.             *)
Applying == {"client", "flag", "message", "context"}

ClientIsBuilt ==
    /\ \A r \in Requests : pc[r] \in Applying => made[r] # None
    /\ \A r \in Requests : pc[r] = "flag" => client # None
    /\ up = "flag" => client # None

Agree == message = flag /\ (~flag => client = <<file, Shown>>)

(* A switch that runs alone finds each cell as it left it.                 *)
AloneAt(r) ==
    /\ Busy = {r} /\ up \notin UpWrites
    /\ pc[r] \in Applying => made[r] # None /\ made[r][1] = file
    /\ pc[r] \in {"flag", "message", "context"} => client = made[r]
    /\ pc[r] \in {"message", "context"} => ~flag
    /\ pc[r] = "context" => ~message
    /\ pc[r] \in {"raise", "explain"} => upload[r]
    /\ pc[r] = "explain" => flag

Undisturbed == alone # None => AloneAt(alone)

(* While calm, a switch under way is alone, a select that has written      *)
(* nothing may still turn back, and the upgrade loads what is shown.       *)
Calm ==
    calm =>
        /\ Busy # {} => alone # None
        /\ AtRest => Agree
        /\ alone # None /\ pc[alone] = "build" /\ ~upload[alone] => Agree
        /\ AtRest /\ flag /\ up \in {"check", "asleep"} => env = context
        /\ up \in UpWrites => upCtx = Shown
        /\ up = "load" => flag /\ message /\ env = context
        /\ up \in {"flag", "message"} => client = <<file, Shown>>
        /\ up = "message" => ~flag

IInv == TypeOK /\ ConnectedIsReal /\ ClientIsBuilt /\ Undisturbed /\ Calm

=============================================================================
