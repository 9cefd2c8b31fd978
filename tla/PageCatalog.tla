------------------------------ MODULE PageCatalog ------------------------------
(***************************************************************************)
(* The pages that list objects and can delete them (pages/*Page.tsx), by   *)
(* what differs between them:                                              *)
(*   hook        the kind its rows come from (HookCatalog)                 *)
(*   drop        the call that deletes one object (RestCalls)              *)
(*   namespaced  its rows have a namespace, which is part of their keys    *)
(*   filtered    it shows the rows of the chosen namespaces only           *)
(*   follow      what its effect on data does to the row it shows          *)
(*   prunes      its effect on data drops ticks of rows that went          *)
(*   bulk, single   it deletes the ticked rows, the row it shows           *)
(*   stays, wipes   the panel stays under the dialog, goes with its object *)
(*   fails       a failed deletion keeps the dialog, or closes it          *)
(*   yaml, opens the panel opens the YAML, tabs of these types             *)
(*   tails       every row has a button that tails logs in a host shell    *)
(* A shell in a node is a tab like a shell in a pod.                       *)
(***************************************************************************)
EXTENDS RestCalls, HookCatalog

\* The selection follows the data, or falls back to the first row.
FirstRow(hook, drop) ==
    [hook |-> hook, drop |-> drop,
     namespaced |-> hook \in SpacedHooks, filtered |-> hook \in SpacedHooks,
     follow |-> "first", prunes |-> FALSE,
     bulk |-> TRUE, single |-> TRUE, stays |-> FALSE, wipes |-> FALSE,
     fails |-> "keep", yaml |-> TRUE, opens |-> {}, tails |-> FALSE]

\* The selection is the row as it was when it was clicked.
Frozen(hook, drop) == [FirstRow(hook, drop) EXCEPT !.follow = "frozen"]

\* Its panel has no YAML button.
Plain(p) == [p EXCEPT !.yaml = FALSE]

ConfigMapsPage == FirstRow("configmaps", "deleteConfigMap")

CronJobsPage == FirstRow("cronjobs", "deleteCronJob")

DaemonSetsPage == FirstRow("daemonsets", "deleteDaemonSet")

DeploymentsPage ==
    [FirstRow("deployments", "deleteDeployment") EXCEPT
                  !.opens = {"host-shell"}, !.tails = TRUE]

HPAPage == FirstRow("hpa", "deleteHPA")

JobsPage == FirstRow("jobs", "deleteJob")

LimitRangesPage == FirstRow("limitranges", "deleteLimitRange")

PDBPage == FirstRow("pdb", "deletePDB")

ReplicaSetsPage == FirstRow("replicasets", "deleteReplicaSet")

ResourceQuotasPage == FirstRow("resourcequotas", "deleteResourceQuota")

SecretsPage == FirstRow("secrets", "deleteSecret")

StatefulSetsPage == FirstRow("statefulsets", "deleteStatefulSet")

LeasesPage == Plain(FirstRow("leases", "deleteLease"))

MWCPage == FirstRow("mwc", "deleteMwc")

VWCPage == FirstRow("vwc", "deleteVwc")

PriorityClassesPage == Plain(FirstRow("priorityclasses", "deletePriorityClass"))

RuntimeClassesPage == Plain(FirstRow("runtimeclasses", "deleteRuntimeClass"))

NamespacesPage ==
    [Plain(FirstRow("namespaces", "deleteNamespace")) EXCEPT !.tails = TRUE]

HelmReleasesPage ==
    [FirstRow("helmreleases", "deleteHelmRelease") EXCEPT
                           !.hook = "useHelmReleases", !.filtered = FALSE,
                           !.wipes = TRUE]

NodesPage ==
    [FirstRow("nodes", "deleteNode") EXCEPT
                  !.bulk = FALSE, !.stays = TRUE, !.wipes = TRUE,
                  !.fails = "close", !.opens = {"pod-exec"}]

PodsPage ==
    [FirstRow("pods", "deletePod") EXCEPT
                 !.namespaced = TRUE, !.filtered = TRUE, !.follow = "clear",
                 !.prunes = TRUE, !.opens = {"pod-exec", "logs"}]

CustomResourcesPage ==
    [FirstRow(useRealtimeCustomResources, "deleteCustomResource") EXCEPT
                  !.namespaced = TRUE, !.filtered = TRUE, !.follow = "sync",
                  !.bulk = FALSE, !.stays = TRUE, !.wipes = TRUE]

ClusterRoleBindingsPage == Frozen("clusterrolebindings", "deleteClusterRoleBinding")

ClusterRolesPage == Frozen("clusterroles", "deleteClusterRole")

IngressClassesPage == Frozen("ingressclasses", "deleteIngressClass")

PersistentVolumesPage == Frozen("persistentvolumes", "deletePersistentVolume")

StorageClassesPage == Frozen("storageclasses", "deleteStorageClass")

EndpointsPage == Frozen("endpoints", "deleteEndpoint")

IngressesPage == Frozen("ingresses", "deleteIngress")

NetworkPoliciesPage == Frozen("networkpolicies", "deleteNetworkPolicy")

PersistentVolumeClaimsPage ==
    Frozen("persistentvolumeclaims", "deletePersistentVolumeClaim")

RoleBindingsPage == Frozen("rolebindings", "deleteRoleBinding")

RolesPage == Frozen("roles", "deleteRole")

ServiceAccountsPage == Frozen("serviceaccounts", "deleteServiceAccount")

ServicesPage == Frozen("services", "deleteService")

Pages == {ConfigMapsPage, CronJobsPage, DaemonSetsPage, DeploymentsPage, HPAPage,
    JobsPage, LimitRangesPage, PDBPage, ReplicaSetsPage, ResourceQuotasPage,
    SecretsPage, StatefulSetsPage, LeasesPage, MWCPage, VWCPage,
    PriorityClassesPage, RuntimeClassesPage, NamespacesPage, HelmReleasesPage,
    NodesPage, PodsPage, CustomResourcesPage, ClusterRoleBindingsPage,
    ClusterRolesPage, IngressClassesPage, PersistentVolumesPage,
    StorageClassesPage, EndpointsPage, IngressesPage, NetworkPoliciesPage,
    PersistentVolumeClaimsPage, RoleBindingsPage, RolesPage, ServiceAccountsPage,
    ServicesPage}

\* What a page does, in the words of ListPages: two pages that differ in their
\* kind only are one.  The hook of pods is
\* PodSync, and the list of releases is a query.
Behaviour(p) ==
    [namespaced |-> p.namespaced, filtered |-> p.filtered, follow |-> p.follow,
     prunes |-> p.prunes, bulk |-> p.bulk, single |-> p.single, stays |-> p.stays,
     wipes |-> p.wipes, fails |-> p.fails, yaml |-> p.yaml, opens |-> p.opens,
     tails |-> p.tails,
     hears |-> p.hook \notin KeepsGhosts,
     deletion |-> [a \in Answers |-> Outcome(p.drop, a)],
     expires |-> Expires(p.drop, "401")]

Behaviours == {Behaviour(p) : p \in Pages}

=============================================================================
