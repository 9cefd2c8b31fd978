------------------------------ MODULE HookCatalog ------------------------------
(***************************************************************************)
(* The list hooks of hooks/useRealtimeResources.ts: one of createRealtime- *)
(* Hook for each kind, named here by its kind, and one for the objects of  *)
(* a custom resource definition.  What differs between them is the key of  *)
(* a row, what the server's DELETED is read as, and whether a REST list    *)
(* is read again and again.                                                *)
(***************************************************************************)

\* Rows are keyed by namespace and name.
SpacedHooks == {"deployments", "statefulsets", "daemonsets", "replicasets", "jobs",
    "cronjobs", "events", "services", "configmaps", "secrets", "resourcequotas",
    "limitranges", "hpa", "pdb", "ingresses", "endpoints", "networkpolicies",
    "persistentvolumeclaims", "serviceaccounts", "roles", "rolebindings", "leases",
    "helmreleases"}

\* Rows are keyed by name alone.
NamedHooks == {"ingressclasses", "persistentvolumes", "storageclasses",
    "clusterroles", "clusterrolebindings", "priorityclasses", "runtimeclasses",
    "mwc", "vwc", "crds", "namespaces", "nodes"}

\* Keyed as each object is; read again every twelve seconds.
useRealtimeCustomResources == "customresources"

ListHooks == SpacedHooks \cup NamedHooks \cup {useRealtimeCustomResources}

\* reconcileIntervalMs is not null.
ReadAgain == {"crds", "helmreleases", "nodes", "ingresses",
              useRealtimeCustomResources}

\* The key a DELETED object is looked for: its name for two kinds, otherwise
\* namespace/name, which no row keyed by name has.
DeletedByName == {"nodes", "namespaces"}

HearsDeleted(h) == h \in NamedHooks => h \in DeletedByName

\* A row whose object is deleted stays until the hook starts anew.
KeepsGhosts == {h \in ListHooks \ ReadAgain : ~HearsDeleted(h)}

=============================================================================
