------------------------------ MODULE PortForwards ------------------------------
(***************************************************************************)
(* The port-forwards of the backend (backend/src/handlers/portforward.rs): *)
(* a list of rows and a table of kubectl child processes, each behind a    *)
(* lock of its own, and the handlers that create, stop and delete.         *)
(*                                                                         *)
(* A handler is a sequence of critical sections.  Only the one on the      *)
(* process table awaits something inside (the end of the killed child), so *)
(* only that lock is a variable; the other sections are one action each.   *)
(* A row is its status: namespace, resource and ports are never looked at. *)
(***************************************************************************)
EXTENDS Naturals, FiniteSets

CONSTANTS
    Requests,     \* slots for concurrently served requests
    None,
    MaxForwards,  \* bound on PORT_FORWARD_ID
    MaxRequests,  \* bound on requests served
    MaxCancels    \* bound on requests whose client goes away

Ids == 1 .. MaxForwards

ASSUME ForwardAssumption ==
    /\ {MaxForwards, MaxRequests, MaxCancels} \subseteq Nat
    /\ None \notin Requests \cup {"running", "stopped"}

VARIABLES
    rows,      \* forwards: the status of each row, or None
    held,      \* keys of processes
    child,     \* kubectl of each id, as the operating system has it
    lock,      \* request inside the critical section of processes
    pc, on,    \* where each request is, and the id it is about
    nextId,    \* PORT_FORWARD_ID
    requests, cancels,
    deleted,   \* history: ids whose deletion was answered
    disturbed  \* history: ids a cancelled request was about, or which were
               \* stopped or deleted before their creation was answered

tableVars == <<rows, held, child>>
vars == <<tableVars, lock, pc, on, nextId, requests, cancels, deleted, disturbed>>

Steps == {"idle", "insertForward", "insertProcess", "stopKill", "stopWait",
          "mark", "deleteKill", "deleteWait", "remove"}

Init ==
    /\ rows = [i \in Ids |-> None]
    /\ held = {}
    /\ child = [i \in Ids |-> "none"]
    /\ lock = None
    /\ pc = [r \in Requests |-> "idle"] /\ on = [r \in Requests |-> 0]
    /\ nextId = 1
    /\ requests = 0 /\ cancels = 0
    /\ deleted = {} /\ disturbed = {}

About(r, id, steps) == on[r] = id /\ pc[r] \in steps

Creating(id) == \E r \in Requests : About(r, id, {"insertForward", "insertProcess"})

Serve(r, step, id) ==
    /\ pc[r] = "idle"
    /\ requests < MaxRequests /\ requests' = requests + 1
    /\ pc' = [pc EXCEPT ![r] = step]
    /\ on' = [on EXCEPT ![r] = id]

Goto(r, step) == pc' = [pc EXCEPT ![r] = step]

(* create_port_forward: kubectl is started and takes the next id.          *)
Create(r) ==
    /\ nextId \in Ids
    /\ Serve(r, "insertForward", nextId)
    /\ nextId' = nextId + 1
    /\ child' = [child EXCEPT ![nextId] = "alive"]
    /\ UNCHANGED <<rows, held, lock, cancels, deleted, disturbed>>

InsertForward(r) ==
    /\ pc[r] = "insertForward"
    /\ rows' = [rows EXCEPT ![on[r]] = "running"]
    /\ Goto(r, "insertProcess")
    /\ UNCHANGED <<held, child, lock, on, nextId, requests, cancels, deleted, disturbed>>

InsertProcess(r) ==
    /\ pc[r] = "insertProcess" /\ lock = None
    /\ held' = held \cup {on[r]}
    /\ Goto(r, "idle")
    /\ UNCHANGED <<rows, child, lock, on, nextId, requests, cancels, deleted, disturbed>>

(* A client knows an id from the list, or from the answer to its creation; *)
(* it may try one again that another client has deleted.                   *)
Known == {id \in Ids : rows[id] # None} \cup deleted

(* stop_port_forward and delete_port_forward                               *)
Ask(r, step, id) ==
    /\ id \in Known
    /\ Serve(r, step, id)
    /\ disturbed' = IF Creating(id) THEN disturbed \cup {id} ELSE disturbed
    /\ UNCHANGED <<tableVars, lock, nextId, cancels, deleted>>

Stop(r, id)   == Ask(r, "stopKill", id)
Delete(r, id) == Ask(r, "deleteKill", id)

(* Mutant of Killed: the entry is taken, the child is left alone.          *)
KilledNot(id) == UNCHANGED child

(* kill() ends a child that still runs.                                    *)
Killed(id) ==
    child' = [child EXCEPT ![id] = IF @ = "alive" THEN "killed" ELSE @]

(* Mutant of Kill: a table that is busy is passed over.                    *)
KillUnlessBusy(r, step, waiting, next) ==
    /\ pc[r] = step
    /\ IF on[r] \in held /\ lock = None
       THEN /\ held' = held \ {on[r]}
            /\ Killed(on[r])
            /\ lock' = r
            /\ Goto(r, waiting)
       ELSE /\ Goto(r, next)
            /\ UNCHANGED <<held, child, lock>>
    /\ UNCHANGED <<rows, on, nextId, requests, cancels, deleted, disturbed>>

(* The section on processes takes the entry, kills the child and stays     *)
(* inside until it has exited; without an entry it does nothing.           *)
Kill(r, step, waiting, next) ==
    /\ pc[r] = step /\ lock = None
    /\ IF on[r] \in held
       THEN /\ held' = held \ {on[r]}
            /\ Killed(on[r])
            /\ lock' = r
            /\ Goto(r, waiting)
       ELSE /\ Goto(r, next)
            /\ UNCHANGED <<held, child, lock>>
    /\ UNCHANGED <<rows, on, nextId, requests, cancels, deleted, disturbed>>

(* Mutant of Release: the lock stays taken.                                *)
ReleaseNot(r) == lock' = lock

Release(r) == lock' = IF lock = r THEN None ELSE lock

Exited(r, waiting, next) ==
    /\ pc[r] = waiting
    /\ Release(r)
    /\ Goto(r, next)
    /\ UNCHANGED <<tableVars, on, nextId, requests, cancels, deleted, disturbed>>

(* stop_port_forward, the section on forwards.                             *)
Mark(r) ==
    /\ pc[r] = "mark"
    /\ rows' = IF rows[on[r]] = None THEN rows
               ELSE [rows EXCEPT ![on[r]] = "stopped"]
    /\ Goto(r, "idle")
    /\ UNCHANGED <<held, child, lock, on, nextId, requests, cancels, deleted, disturbed>>

(* delete_port_forward, the section on forwards.                           *)
Remove(r) ==
    /\ pc[r] = "remove"
    /\ rows' = [rows EXCEPT ![on[r]] = None]
    /\ deleted' = deleted \cup {on[r]}
    /\ Goto(r, "idle")
    /\ UNCHANGED <<held, child, lock, on, nextId, requests, cancels, disturbed>>

(* kubectl ends by itself: the port is taken, the pod or the API is gone.  *)
ChildExits(id) ==
    /\ child[id] = "alive"
    /\ child' = [child EXCEPT ![id] = "exited"]
    /\ UNCHANGED <<rows, held, lock, pc, on, nextId, requests, cancels, deleted, disturbed>>

(* The client goes away while the handler waits for a lock or for the      *)
(* child: its future is dropped.  A dropped Child is not killed.           *)
Cancel(r) ==
    /\ pc[r] # "idle"
    /\ cancels < MaxCancels /\ cancels' = cancels + 1
    /\ disturbed' = disturbed \cup {on[r]}
    /\ Release(r)
    /\ Goto(r, "idle")
    /\ UNCHANGED <<tableVars, on, nextId, requests, deleted>>

Advance(r) ==
    \/ InsertForward(r) \/ InsertProcess(r)
    \/ Kill(r, "stopKill", "stopWait", "mark") \/ Exited(r, "stopWait", "mark") \/ Mark(r)
    \/ Kill(r, "deleteKill", "deleteWait", "remove") \/ Exited(r, "deleteWait", "remove")
    \/ Remove(r)

Next ==
    \/ \E r \in Requests : Create(r) \/ Advance(r) \/ Cancel(r)
    \/ \E r \in Requests, id \in Ids : Stop(r, id) \/ Delete(r, id)
    \/ \E id \in Ids : ChildExits(id)

Spec == Init /\ [][Next]_vars

(* tokio polls every handler, its locks are fair, a killed child exits.    *)
FairSpec == Spec /\ \A r \in Requests : SF_vars(Advance(r))

-----------------------------------------------------------------------------
TypeOK ==
    /\ rows \in [Ids -> {"running", "stopped", None}]
    /\ held \subseteq Ids
    /\ child \in [Ids -> {"none", "alive", "killed", "exited"}]
    /\ lock \in Requests \cup {None}
    /\ pc \in [Requests -> Steps]
    /\ nextId \in 1 .. MaxForwards + 1
    /\ on \in [Requests -> {0} \cup Ids]
    /\ \A r \in Requests : pc[r] # "idle" => on[r] \in 1 .. nextId - 1
    /\ {requests, cancels} \subseteq Nat
    /\ deleted \subseteq Ids /\ disturbed \subseteq Ids

(* A kubectl that runs can be found and stopped: it has its row and its    *)
(* entry in the process table, unless its creation is not answered yet.    *)
(* The exceptions are the two ways to lose one: a request is dropped at an *)
(* await, or a stop or a delete comes between the two inserts.             *)
NoOrphan ==
    \A id \in Ids \ disturbed :
        child[id] = "alive" => Creating(id) \/ (id \in held /\ rows[id] # None)

Dead(id) == child[id] \in {"killed", "exited"}

(* What the list calls stopped, and what a client was told is deleted,     *)
(* does not run any more, however many requests were about it at once.     *)
GoneIsDead ==
    \A id \in Ids \ disturbed : rows[id] = "stopped" \/ id \in deleted => Dead(id)

(* Nor does the list go on calling running what a request has stopped.     *)
RunningIsNotKilled ==
    \A id \in Ids \ disturbed :
        rows[id] = "running" /\ child[id] = "killed" =>
            \E r \in Requests : About(r, id, {"stopWait", "mark", "deleteWait", "remove"})

(* Every request is answered, though one may wait for a child to exit      *)
(* while it holds the lock all others need.                                *)
AllAnswered == \A r \in Requests : pc[r] # "idle" ~> pc[r] = "idle"

-----------------------------------------------------------------------------
(* What the proofs need besides: a creation is the first request about its *)
(* id and has put nothing in the tables yet, past the section on processes *)
(* the child of a request is dead, and ids are taken in order.             *)
CreationIsFirst ==
    \A r \in Requests :
        pc[r] \in {"insertForward", "insertProcess"} /\ on[r] \notin disturbed =>
            /\ on[r] \notin held \cup deleted
            /\ rows[on[r]] = IF pc[r] = "insertForward" THEN None ELSE "running"
            /\ child[on[r]] \in {"alive", "exited"}
            /\ \A q \in Requests \ {r} : on[q] = on[r] => pc[q] = "idle"

PastKillIsDead ==
    \A r \in Requests :
        /\ pc[r] \in {"stopWait", "mark", "deleteWait", "remove"}
        /\ on[r] \notin disturbed
        => Dead(on[r])

Born ==
    \A id \in Ids :
        IF id < nextId THEN child[id] # "none"
        ELSE child[id] = "none" /\ rows[id] = None /\ id \notin held \cup deleted

Facts == /\ NoOrphan /\ GoneIsDead /\ RunningIsNotKilled
         /\ CreationIsFirst /\ PastKillIsDead /\ Born

IInv == TypeOK /\ Facts

=============================================================================
