------------------------------- MODULE RestCalls -------------------------------
(***************************************************************************)
(* The calls of hooks/useKubernetes.ts by what an answer does to the page: *)
(* whether a 401 is announced (auth:expired, which ends the session), and  *)
(* whether the caller gets a value, an empty value or an exception.  Paths *)
(* and bodies are left out.                                                *)
(***************************************************************************)
CONSTANT None   \* no object, no user, no cluster, nothing in flight

Answers == {"ok", "401", "refused", "dead"}

\* Queries through apiFetch, which announces a 401; the query throws then.
WorkloadQueries == {"namespaces", "pods", "workload-metrics", "deployments",
    "statefulsets", "daemonsets", "replicasets", "jobs", "cronjobs", "events"}

OverviewQueries == {"nodes", "dashboard", "backup-settings", "backup-overview"}

ConfigQueries == {"configmaps", "secrets", "resourcequotas", "limitranges", "hpa",
    "pdb", "priorityclasses", "runtimeclasses", "leases"}

NetworkQueries == {"services", "endpoints", "ingresses", "ingressclasses",
    "networkpolicies", "persistentvolumes", "persistentvolumeclaims", "storageclasses"}

AccessQueries == {"serviceaccounts", "roles", "rolebindings", "clusterroles",
    "clusterrolebindings"}

CustomQueries == {"crds", "custom-resources"}

HelmQueries == {"helm-releases", "helm-charts"}

HistoryQueries == {"helm-history", "helm-resources"}

Queries == {"cluster-status", "port-forwards", "resource-map"}
              \cup WorkloadQueries \cup OverviewQueries \cup ConfigQueries
              \cup NetworkQueries \cup AccessQueries \cup CustomQueries
              \cup HelmQueries \cup HistoryQueries

\* Commands that announce a 401 themselves, and then throw 'Unauthorized'.
SettingsCommands == {"save-settings", "save-s3", "apply-settings", "test-s3"}

ScheduleCommands == {"manual-backup", "restore", "create-schedule",
    "delete-schedule", "run-schedule", "delete-run"}

RunCommands == {"download-run", "delete-runs"}

HelmCommands == {"deleteHelmRelease", "helm-yaml"}

ChartCommands == {"helm-rollback", "helm-values", "helm-readme", "helm-install"}

ForwardCommands == {"create-forward", "stop-forward"}

StrictCommands == SettingsCommands \cup ScheduleCommands \cup RunCommands
                     \cup HelmCommands \cup ChartCommands \cup ForwardCommands

\* apiDelete announces a 401 and returns as if the object were gone.
WorkloadDeletes == {"deletePod", "deleteDeployment", "deleteStatefulSet",
    "deleteDaemonSet", "deleteReplicaSet", "deleteJob", "deleteCronJob"}

OtherDeletes == {"deleteNamespace", "deleteConfigMap", "deleteSecret",
    "deleteResourceQuota", "deleteLimitRange", "deleteHPA", "deletePDB",
    "deleteLease", "deletePriorityClass", "deleteRuntimeClass", "deleteMwc",
    "deleteVwc", "deleteService", "deleteEndpoint", "deleteIngress",
    "deleteNetworkPolicy", "deleteIngressClass", "deleteServiceAccount",
    "deleteRole", "deleteRoleBinding", "deleteClusterRole",
    "deleteClusterRoleBinding", "deletePersistentVolumeClaim",
    "deletePersistentVolume", "deleteStorageClass", "deleteNode"}

LaxDeletes == {"deleteCustomResource", "delete-forward"}
                 \cup WorkloadDeletes \cup OtherDeletes

\* Commands to which a 401 is a failure like any other: the session stays.
ClusterCommands == {"upload-kubeconfig", "select-context"}

DeploymentCommands == {"scale", "restart", "image-tag"}

NodeCommands == {"cordon", "uncordon", "drain"}

DeafCommands == {"run-cronjob"} \cup ClusterCommands \cup DeploymentCommands
                   \cup NodeCommands

\* Queries that answer nothing rather than fail.
SecretData    == {"secret-data"}
ChartVersions == {"chart-versions"}

MildQueries == SecretData \cup ChartVersions

RestCalls == Queries \cup StrictCommands \cup LaxDeletes \cup DeafCommands \cup MildQueries

\* The call hands auth:expired to the session.
Expires(call, answer) == answer = "401" /\ call \notin DeafCommands

Outcome(call, answer) ==
    IF answer = "ok" THEN "value"
    ELSE IF \/ call \in SecretData
            \/ call \in ChartVersions /\ answer # "dead"
         THEN "nothing"
    ELSE IF call \in LaxDeletes /\ answer = "401" THEN "value"
    ELSE "throws"

=============================================================================
