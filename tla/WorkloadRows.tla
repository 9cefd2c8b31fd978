------------------------------ MODULE WorkloadRows ------------------------------
(***************************************************************************)
(* The status badge in the row of an object, on each page whose rows come  *)
(* over the socket and have one that is coloured.  It is computed twice    *)
(* from what the API server reports: by the transforms of the hooks, for   *)
(* an object that came over the socket, and by the REST handlers, whose    *)
(* rows the hooks take as they are.  A row shows whichever came last.      *)
(*                                                                         *)
(* The badge is coloured by its status (getStatusColor).  A workload is    *)
(* its counters.  A pod has one container; its reasons are one that is an  *)
(* error and one that is not, or Completed.  Init containers, evictions    *)
(* and the other columns are left out.                                     *)
(***************************************************************************)
EXTENDS Naturals, RestCalls

CONSTANT MaxReplicas   \* bound on every counter

ASSUME RowsAssumption == MaxReplicas \in Nat

VARIABLES
    kind,
    object,
    row,      \* the status shown
    current   \* history: the row was computed from the object as it is

rowsVars == <<kind, object, row, current>>

Fields(k) ==
    CASE k = "deployments"  -> {"desired", "updated", "available"}
      [] k = "statefulsets" -> {"desired", "ready", "current", "updated"}
      [] k = "daemonsets"   -> {"desired", "ready", "available", "current"}
      [] k = "replicasets"  -> {"desired", "ready", "available", "current"}
      [] k = "jobs"         -> {"completions", "succeeded", "failed", "active"}

Counted == {"deployments", "statefulsets", "daemonsets", "replicasets", "jobs"}

\* state and reason are those of the container, or absent before it is made.
PodObjects ==
    {p \in [phase : {"Pending", "Running", "Succeeded", "Failed"},
            deleted : BOOLEAN, scheduled : BOOLEAN, ready : BOOLEAN,
            state : {"absent", "waiting", "running", "terminated"},
            reason : {"none", "CrashLoopBackOff", "ContainerCreating",
                      "Completed", "Error"}] :
        /\ ~p.scheduled => p.phase = "Pending" /\ p.state = "absent"
        /\ p.ready => p.state = "running"
        /\ p.phase = "Pending" => p.state # "terminated"
        /\ p.phase = "Running" => p.state # "absent"
        /\ p.phase \in {"Succeeded", "Failed"} => p.state = "terminated"
        /\ p.state \in {"absent", "running"} <=> p.reason = "none"
        /\ p.state = "waiting" => p.reason \in {"CrashLoopBackOff", "ContainerCreating"}
        /\ p.state = "terminated" => p.reason \in {"Completed", "Error"}
        /\ p.phase = "Succeeded" => p.reason = "Completed"
        /\ p.phase = "Failed" => p.reason = "Error"
        /\ p.phase = "Pending" => p.reason # "CrashLoopBackOff"}

\* A job completes at least once.
CountedObjects(k) ==
    {o \in [Fields(k) -> 0 .. MaxReplicas] : k = "jobs" => o["completions"] > 0}

\* The condition Ready of a node.
NodeObjects == [ready : {"absent", "True", "False", "Unknown"}]

\* What a service has for the outside: addresses, or a load balancer's entries
\* that have neither an address nor a name yet.
ServiceObjects ==
    [type : {"ClusterIP", "NodePort", "LoadBalancer", "ExternalName"},
     headless : BOOLEAN, externals : SUBSET {"address", "blank"}]

\* Of a namespace, a volume or a claim.
PhaseObjects ==
    [phase : {"absent", "Active", "Terminating", "Pending", "Available", "Bound",
              "Released", "Failed", "Lost"}]

Phased == {"namespaces", "persistentvolumes", "persistentvolumeclaims"}

\* Of these both sides say the same in every case.
SameTwice == {"deployments", "nodes", "services"} \cup Phased

RowKinds == Counted \cup SameTwice \cup {"pods"}

WorkloadObjects(k) ==
    CASE k \in Counted  -> CountedObjects(k)
      [] k = "pods"     -> PodObjects
      [] k = "nodes"    -> NodeObjects
      [] k = "services" -> ServiceObjects
      [] k \in Phased   -> PhaseObjects

-----------------------------------------------------------------------------
(* The page's part, for the kinds whose rows carry no status of their own. *)

NodeBadge(ready) == IF ready THEN "Ready" ELSE "NotReady"

getServiceStatus(svc) ==
    CASE svc.type = "ExternalName" -> "ExternalName"
      [] svc.type = "LoadBalancer" -> IF svc.exposed THEN "Exposed" ELSE "Pending"
      [] svc.type = "NodePort"     -> "Exposed"
      [] OTHER -> IF svc.headless THEN "Headless" ELSE "Internal"

-----------------------------------------------------------------------------
(* Over the socket. *)

\* Stopped, Running, Progressing or Pending, by what is up and what has begun.
Ladder(desired, up, begun) ==
    CASE desired = 0 -> "Stopped"
      [] desired # 0 /\ up -> "Running"
      [] desired # 0 /\ ~up /\ begun -> "Progressing"
      [] OTHER -> "Pending"

transformDeployment(o) ==
    Ladder(o.desired, o.updated >= o.desired /\ o.available >= o.desired,
           o.updated > 0 \/ o.available > 0)

transformStatefulSet(o) ==
    Ladder(o.desired, o.ready >= o.desired, o.current > 0 \/ o.updated > 0)

\* Mutant of transformDaemonSet: it looks at what is scheduled.
transformDaemonSetScheduled(o) ==
    Ladder(o.desired, o.current >= o.desired, o.current > 0)

transformDaemonSet(o) ==
    Ladder(o.desired, o.ready >= o.desired /\ o.available >= o.desired, o.current > 0)

transformReplicaSet(o) ==
    Ladder(o.desired, o.ready >= o.desired /\ o.available >= o.desired,
           o.current > 0 \/ o.ready > 0)

transformJob(o) ==
    CASE o.succeeded >= o.completions -> "Complete"
      [] o.succeeded < o.completions /\ o.failed > 0 -> "Failed"
      [] o.succeeded < o.completions /\ o.failed = 0 /\ o.active > 0 -> "Running"
      [] OTHER -> "Pending"

PendingPod(p) ==
    CASE ~p.scheduled -> "Unschedulable"
      [] p.scheduled /\ p.state = "waiting" -> p.reason
      [] p.scheduled /\ p.state = "running" /\ ~p.ready -> "ContainerStarting"
      [] OTHER -> "ContainerCreating"

RunningPod(p) ==
    CASE p.reason \in {"CrashLoopBackOff", "Error"} -> p.reason
      [] p.reason \notin {"CrashLoopBackOff", "Error"} /\ p.ready -> "Running"
      [] OTHER -> "NotReady"

transformPod(p) ==
    CASE p.deleted -> "Terminating"
      [] ~p.deleted /\ p.phase = "Pending"   -> PendingPod(p)
      [] ~p.deleted /\ p.phase = "Running"   -> RunningPod(p)
      [] ~p.deleted /\ p.phase = "Succeeded" -> "Completed"
      [] OTHER -> p.reason

transformNode(o) == NodeBadge(o.ready = "True")

\* The values that say something.
transformService(o) ==
    getServiceStatus([type |-> o.type, headless |-> o.headless,
                      exposed |-> \E e \in o.externals : e # "blank"])

transformNamespace(o)             == IF o.phase = "absent" THEN "Unknown" ELSE o.phase
transformPersistentVolume(o)      == IF o.phase = "absent" THEN "Unknown" ELSE o.phase
transformPersistentVolumeClaim(o) == IF o.phase = "absent" THEN "Unknown" ELSE o.phase

FromSocket(k, o) ==
    CASE k = "deployments"  -> transformDeployment(o)
      [] k = "statefulsets" -> transformStatefulSet(o)
      [] k = "daemonsets"   -> transformDaemonSet(o)
      [] k = "replicasets"  -> transformReplicaSet(o)
      [] k = "jobs"         -> transformJob(o)
      [] k = "pods"         -> transformPod(o)
      [] k = "nodes"        -> transformNode(o)
      [] k = "services"     -> transformService(o)
      [] k = "namespaces"             -> transformNamespace(o)
      [] k = "persistentvolumes"      -> transformPersistentVolume(o)
      [] k = "persistentvolumeclaims" -> transformPersistentVolumeClaim(o)

-----------------------------------------------------------------------------
(* Over REST. *)

list_deployments(o) ==
    Ladder(o.desired, o.updated >= o.desired /\ o.available >= o.desired,
           o.updated > 0 \/ o.available > 0)

list_statefulsets(o) == Ladder(o.desired, o.ready >= o.desired, o.ready > 0)

list_daemonsets(o) ==
    Ladder(o.desired, o.ready >= o.desired, o.ready > 0 \/ o.available > 0)

list_replicasets(o) ==
    Ladder(o.desired, o.ready >= o.desired, o.ready > 0 \/ o.available > 0)

list_jobs(o) ==
    CASE o.failed > 0 -> "Failed"
      [] o.failed = 0 /\ o.succeeded >= o.completions -> "Completed"
      [] o.failed = 0 /\ o.succeeded < o.completions /\ o.active > 0 -> "Running"
      [] OTHER -> "Pending"

list_pods(p) ==
    CASE p.deleted -> "Terminating"
      [] ~p.deleted /\ p.state \in {"waiting", "terminated"} -> p.reason
      [] OTHER -> p.phase

\* The status of the condition itself, which the page compares.
list_nodes(o) == NodeBadge(o.ready = "True")

list_services(o) ==
    getServiceStatus([type |-> o.type, headless |-> o.headless,
                      exposed |-> o.externals \ {"blank"} # {}])

\* list_namespaces, list_persistent_volumes and its like.
ListedPhase(o) == IF o.phase = "absent" THEN "Unknown" ELSE o.phase

FromRest(k, o) ==
    CASE k = "deployments"  -> list_deployments(o)
      [] k = "statefulsets" -> list_statefulsets(o)
      [] k = "daemonsets"   -> list_daemonsets(o)
      [] k = "replicasets"  -> list_replicasets(o)
      [] k = "jobs"         -> list_jobs(o)
      [] k = "pods"         -> list_pods(o)
      [] k = "nodes"        -> list_nodes(o)
      [] k = "services"     -> list_services(o)
      [] k \in Phased       -> ListedPhase(o)

-----------------------------------------------------------------------------
(* What the user sees of either. *)

\* Of the statuses there are here; Complete and Stopped are in no list.  (The page
\* of namespaces has classes of its own.)
getStatusColor(status) ==
    CASE status \in {"Running", "Active", "Completed", "Ready", "Available", "Bound",
                     "Exposed", "Internal", "Headless", "ExternalName"} -> "green"
      [] status \in {"Pending", "Progressing", "ContainerCreating", "NotReady",
                     "ContainerStarting", "Terminating", "Released", "Unknown"} -> "yellow"
      [] status \in {"Failed", "Error", "CrashLoopBackOff", "Unschedulable",
                     "Lost"} -> "red"
      [] OTHER -> "gray"

-----------------------------------------------------------------------------
RowsInit ==
    /\ kind \in RowKinds
    /\ object \in WorkloadObjects(kind)
    /\ row = None /\ current = FALSE

Became(o) ==
    /\ o # object /\ object' = o
    /\ current' = FALSE
    /\ UNCHANGED <<kind, row>>

ReadOverRest ==
    /\ row' = FromRest(kind, object) /\ current' = TRUE
    /\ UNCHANGED <<kind, object>>

HeardOnSocket ==
    /\ row' = FromSocket(kind, object) /\ current' = TRUE
    /\ UNCHANGED <<kind, object>>

RowsNext ==
    \/ \E o \in WorkloadObjects(kind) : Became(o)
    \/ ReadOverRest \/ HeardOnSocket

RowsSpec == RowsInit /\ [][RowsNext]_rowsVars

-----------------------------------------------------------------------------
RowsType ==
    /\ kind \in RowKinds
    /\ object \in WorkloadObjects(kind)
    /\ current => row \in {FromRest(kind, object), FromSocket(kind, object)}

\* The objects to which the two give different colours: ready but not available;
\* a job that succeeded, Complete (gray) on the socket and Completed (green) over
\* REST, or Failed when it had failed at times; a pod that is not ready or whose
\* container has just completed; one that cannot be scheduled.
Disputed ==
    \/ kind \in {"daemonsets", "replicasets"} /\ object.ready >= object.desired
          /\ object.available < object.desired
    \/ kind = "jobs" /\ object.succeeded >= object.completions
    \/ /\ kind = "pods" /\ ~object.deleted
       /\ \/ object.phase = "Running" /\ ~object.ready
                /\ object.state # "waiting" /\ object.reason # "Error"
          \/ ~object.scheduled

\* A row does not change its colour and back while the object stays as it is,
\* because REST and the socket take turns at it; for the kinds in SameTwice the
\* status itself does not change.
RowsAgree ==
    [][current /\ current' /\ ~Disputed
          => /\ getStatusColor(row') = getStatusColor(row)
             /\ kind \in SameTwice => row' = row]_rowsVars

=============================================================================
