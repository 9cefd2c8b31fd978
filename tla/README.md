# Formal models of pertisk-kube-web

pertisk-kube-web is a Kubernetes dashboard: a Rust (axum, kube-rs, tokio)
backend that talks to one cluster at a time, and a React front end that lists
resources over a shared WebSocket.  This directory holds TLA+ models of its
stateful parts, back end and front end, the TLC runs that check them, and TLAPS proofs about them.

## 1. The system

| Component | Source | State it keeps | Operations | What is hard |
|---|---|---|---|---|
| Backup scheduler and store | `backend/src/handlers/backup.rs` | one ConfigMap with three JSON documents (settings, schedules, runs), one Secret, S3 objects, Velero `Backup` objects | scheduler round every 30 s in every pod; create/delete/run schedule; manual backup; delete runs; save settings; overview | no lock, no resourceVersion: load - edit - reload map - apply; failed reads look empty; lost answers; several replicas |
| Restore | same file | cluster objects | fetch a snapshot, apply its resources in passes | partial failure, order of kinds |
| Cluster selection | `handlers/cluster.rs`, `utils.rs`, `main.rs` | the client and four companion cells (placeholder flag, message, context, kubeconfig path), each behind its own lock | start-up, background upgrade of the placeholder client, upload of a kubeconfig, context switch, status | writers interleave between the cells |
| Watch sessions | `ws_handler.rs` | per socket: an mpsc queue and one task per subscription | subscribe, unsubscribe, close; list then watch, restart on error | tasks outlive unsubscribe; restarts lose deletions |
| Exec sessions | `ws_handler.rs` | per socket: the shell process, the node-debug pod | open, input, resize, Ctrl-C restart, close | clean-up on every exit path |
| gRPC watch | `grpc_service.rs` | per stream: a map of watcher tasks | subscribe, unsubscribe, end of stream | replaced and aborted tasks, one response queue |
| Port forwards | `handlers/portforward.rs` | a map of forwards, a map of child processes, an id counter | create, list, stop, delete | two locks taken one after the other |
| Shared socket of the front end | `frontend/src/hooks/useRealtimeResources.ts` | module variables: socket, two flags, timers, subscriber counts, callbacks | subscribe, unsubscribe, open, close, error, reconnect timer | every callback may run between any two others |
| Resource list hooks | same file | a map of rows, pending deletions, timers | apply an event, poll, reconcile | stale snapshots against newer events |
| Pods hook | `frontend/src/hooks/useRealtimePods.ts` | its own socket, four timers, the table of pods, marks of deleted pods | poll and merge `/api/pods`, apply an event, reconnect, watchdog, cluster switch, unmount | two sources of one table, each late in its own way; callbacks of replaced sockets |
| Session of the front end | `utils/auth.ts`, `App.tsx`, `LoginPage.tsx` | token and name in local storage, two states of the app, the renewal timer | login, renew, logout, reload; every call reads the token | a renewal or a call answered after logout, or to another user |
| REST client | `frontend/src/hooks/useKubernetes.ts` | a query cache | some 110 calls | what a 401, a refusal or a dead connection turns into |
| Layout, cluster picker, bottom panel | `components/{Layout,ClusterSetupModal,BottomPanel,Terminal}.tsx` | the cluster shown; tabs with terminals, logs, a YAML editor and an install form | poll the status, connect, select; open, close, collapse, edit, apply, install | answers for a tab or a cluster the user has left |
| List pages | `frontend/src/pages/*Page.tsx`, `DataTable.tsx`, `ConfirmDialog.tsx` | the row shown, ticks, the dialog, the deletion under way | click, tick, delete one or many, open tabs | the list changes under the panel and under the dialog; one of several deletions fails |
| Backup pages | `BackupListPage.tsx`, `BackupLifecycleToaster.tsx`, two forms | the overview in the query cache, the page's selection, the toaster's previous answer | poll, delete, announce | an optimistic cache next to older answers |
| Authentication | `auth.rs` | none (signed tokens) | login, refresh, validate | expiry boundary |
| Metrics probe | `utils.rs` | one tri-state atomic | fetch pod/node metrics | a negative answer is never probed again |
| Resource REST handlers | `handlers/{workloads,config,network,storage,rbac,crd,namespaces,helm,resource_map}.rs` | none of their own | list, get, apply YAML, delete, scale, restart, drain | pass-through to the API server; the status of a row is computed here and again in the hooks |
| Other pages | `ResourceMapPage`, `WorkloadsOverviewPage`, `ClusterPage`, `PortForwardingPage`, `Dashboard` | view state | render | none a model would show |

## 2. Plan
Most important behaviour first. Each item is a group of modules with an MC
module, its `.cfg` files and, where the right column says so, a `...Proofs`
module. No module uses `RECURSIVE`.

| # | Module | Question | State |
|---|---|---|---|
| 1 | `BackupStore` over `BackupDocs`, against the abstract `BackupLedger` | are edits atomic, is no backup invented, does every firing run once | done; proved: types, provenance, the cap, the undisturbed edits, one backup per firing, the ledger by serial requests |
| 2 | `RealtimeSocket` | one connection per tab, and does a listener always get one | done; safety proved |
| 3 | `WatchStream` | does a list show what is in the cluster | done; safety proved |
| 4 | `PortForwards` | can every running kubectl be found and stopped | done; safety proved |
| 5 | `ClusterClient` | do client, flag, message, context and kubeconfig agree | done; safety proved |
| 6 | `ExecSession` | do processes, pods, threads and the handler end with a terminal | done; safety proved |
| 7 | `PodSync` | does the pods page have one connection, and does its table become the cluster's | done; safety proved |
| 8 | `Session` over `RestCalls` | is what is stored what is shown, whatever is answered late | done; proved |
| 9 | `ListPages` over `PageCatalog`, `HookCatalog`, `RestCalls` | do the panel and the dialog speak of what was clicked | done; proved |
| 10 | `BottomPanel`, `ClusterPicker` | do late answers find the tab, and the cluster, they are for | done; done; types and the tabs proved |
| 11 | `BackupPages` | is the end of a backup announced once | done; proved |
| 12 | `WorkloadRows` | do REST and the socket say the same of one object | done; proved |
| 13 | `FrontEnd` | 8 to 12 together: one session, unmounted and mounted | done |
| 14 | `Restore` | applied, skipped and warned add up to the snapshot, kinds in order (`backup.rs` 1428-1703, 2419-2583) | open |
| 15 | metrics probe, beside `ClusterClient` | what outlives a switch of the cluster (`utils.rs` 17, 138-280) | open |
| 16 | `GrpcWatch` | `WatchStream` without restarts (`grpc_service.rs` 46-175, 285-365) | open |

Compositions and refinements: `BackupStore` against `BackupLedger`; `FrontEnd` is
the composition of the front end's parts. `WatchStream` takes "the page connects
again" from `RealtimeSocket`'s `EventuallyWatched` as the fairness of its
`Connect`, and `ListPages` takes from `WatchStream` and `PodSync` that its rows
follow the cluster late and in any order; composing them would multiply their
states without a new question.

## 3. Modules
Common conventions. An action is the code that runs between two points where
another actor can get in: between two `.await`s of a handler that shares data,
between two lock sections, or one callback of the browser. Variables named
`requests`, `faults`, `mounts`, ... only count against the bounds `Max...`;
variables marked *history* in the declarations do not influence any guard.
Operators commented "Mutant of ..." are plausible mistakes that the properties
have to catch; no specification uses them.

### BackupDocs, BackupLedger, BackupStore (`handlers/backup.rs`)

* `BackupDocs` has the three documents of the ConfigMap and the pure edits on
  them: `Upsert`, `Remove` and `Mark` of a schedule, `Push` (append and cut to
  `MaxRuns`) and `Retain` of run rows. A run row carries its place `pos`, so a
  list is a set of rows.
* `BackupStore` has the ConfigMap `cm`, the Secret, the S3 objects and the
  Velero `Backup` objects, and one process per scheduler and per request slot.
  `pc` names the await a process is at; `copy` is the document it loaded and
  edited, `map` the data map it read again before the apply. The handlers are
  chains of the shared steps: `LoadSchedules`, `LoadSettings`, `LoadRuns` (load
  and edit), `GetMap`, `Persist...` (apply the whole map), `Upload`,
  `DeleteObject`, `CreateCr`. `Poll`, `CheckSchedule`, `EndPoll` are the worker
  loop. Each API call may succeed, fail, or succeed and lose its answer
  (`Outcome`); `Crash` is a pod restart or a handler future dropped by axum.
* `BackupLedger` is the abstract promise: one book, every request one edit of
  one document.
* Abstractions. A `Target` is endpoint, bucket, prefix and keys together. The
  two reads of the settings (ConfigMap, Secret) are one step. Cron expressions
  are the instants `CronTicks`; the time zone is not in the model because the
  code ignores it. The destination mode is constant. A worker visits its list in
  any order. The deletion of a run's CR and of its S3 object is one step. The
  30 s sleep and the check for the placeholder client are left out.

### RealtimeSocket (`useRealtimeResources.ts`, the `realtimeShared*` variables)

`conn` is what the browser knows of each WebSocket object; `shared`, `inFlight`,
`intent`, `monitor`, `timer`, `mounted` are the module variables of the same
names. `Subscribe`/`Unsubscribe` are a hook's effect and its cleanup, `Refresh`
a cluster switch (all cleanups, then all effects), `Opened`/`OnClose` the
handlers, `Watchdog` and `Reconnect` the timers, `Dropped` and `Stalled` the
network. `detached` records that `safeCloseRealtimeSocket` took a socket's
handlers away.

### WatchStream (`ws_handler.rs` with `createRealtimeHook`)

One resource kind. The cluster is `store` and the `log` of its changes. A watch
task of the server (`List`, `SendItem`, `Watch`, `Deliver`, `WatchFails`) lists,
sends, then follows the log from where the watcher's own list was. All tasks of
one connection share `wire`. A hook has its rows `list`, the flags `received`
and `confirmed`, the two-second timer, and its REST calls `call`: the snapshot
on mount and, if the kind has one, the reconcile interval. `Asked` becomes an
answer (`Answer`) before it is applied (`Arrive`), so answers may be old when
they arrive. `start` says how a hook began: with a subscription of its own
(`served`), beside another hook of its kind and with the snapshot applied
(`joined`), or without even that (`bare`). `ClusterScoped` says that the key made
for a DELETED message does not match the key of the row.

### PortForwards (`handlers/portforward.rs`)

`rows` and `held` are the two maps, `child` is what the operating system knows
of each kubectl, `lock` the lock of the process table, the only one held across
an await. `Create` (id and spawn), `InsertForward`, `InsertProcess`; `Ask`,
`Kill`, `Release`, `Mark`/`Remove` for stop and delete; `ChildExits` for a
kubectl that ends on its own, `Cancel` for a handler that axum drops.

### ClusterClient (`utils.rs`, `handlers/cluster.rs`, `main.rs`)

`client`, `flag`, `message`, `context` are the cells of `AppState`, `file` the
kubeconfig, `env` is `KUBE_CONTEXT`. A client is the pair of kubeconfig and
context it was built from. `Upload` and `Select` begin a switch, `Build` makes
the client, `SetClient` ... `SetContext` are the single writes of
`apply_client`, `RaiseFlag` and `Explain` those of a failed upload. `Check`,
`Wake`, `Load`, `UpFlag`, `UpMessage` are the background upgrade, `Restart` and
`Init` the start. `Drain`, `Cordon`, `Kubectl` are `drain_node`, the one handler
that uses both the client and a kubectl. Abstractions: the path of the
kubeconfig is constant (so is the cell that holds it); a failed `fs::write` and
a file read while it is written are failed builds; starting in the cluster is a
kubeconfig `Account`. The history variables `alone` (the switch no other writer
ran beside) and `calm` (nothing has parted the cells since) say when the cells
must agree.

### ExecSession (`ws_handler.rs`, exec)

One terminal. `loop` is where `handle_exec_socket` (or `handle_pty_session`) is,
`sender` the task `ws_send_task` with its `queue`, `reader` what reads the
output of the shell, `child` the process. Every buffer (the channel, a pipe in
each direction) can be full, and who waits for it waits. `slot` is
`node_debug_pod_name`, filled by `Read` when the line with the pod's name comes
by. kubectl's part is external: `CreatePod` may print that line or not, because
the command is started with `-q` and the code relies on the line all the same.
A pod whose creation is still under way when kubectl is killed is not in the
model, nor is a name cut in two by the end of the 4096-byte buffer.

### PodSync (`useRealtimePods.ts`)

`sock` is what the browser and the server know of each WebSocket: its state, its
handlers (`muted`), the cluster its watch is on, the messages under way. `ws`,
`held` (reconnectTimeoutRef), `guard` (the watchdog), `intentional` are the refs;
`loose` counts timers no ref holds any more. `calls` are the requests for
`/api/pods`, asked, answered by the server (`Serve`) and handled (`Answer`,
`Merge`) in three steps. `rows` is the table, a row the cluster and the version it
came from; `tomb` the pods marked as deleted, `lull` the two-second timer. `told`
is the last cluster the page heard of. The fallback list of pods that a merge
keeps through two misses is not there because the code's `missCount >= 1` never
lets it be used.

### RestCalls, HookCatalog, PageCatalog (`useKubernetes.ts`, `useRealtimeResources.ts` 1613-2039, `pages/`)

Catalogues without variables. `RestCalls` sorts the calls by `Outcome(call,
answer)` (a value, an empty value, an exception) and `Expires` (a 401 that ends
the session). `HookCatalog` sorts the list hooks by what they hear. `PageCatalog`
has a record per list page and its `Behaviour`; two pages that differ in their
kind only have one behaviour. A page's record stands for its whole component,
and "map" names all of it: the flags come from its hook, its effects and its
handlers, from the panel, the selection bar and the dialog in the JSX, and the
columns, the sorting and the search between them are abstracted.

### ListPages (`pages/*Page.tsx`, `DataTable.tsx`, `ConfirmDialog.tsx`, `NamespaceContext.tsx`)

One page, any of the behaviours. `Listed` is the render after the hook has other
rows, with the effects that follow the selection (`Follow`: four ways) and prune
the ticks. `Click`, `Tick`, `toggleNamespace` need the table to be `Reachable`
(not behind a panel or a dialog). `handleDelete...` open the dialog,
`handleConfirmDelete` sends a call per key, `Answered` is each answer, `Settle`
what `Promise.all` makes of it. `handleTailLogs` opens a tab from the row itself,
with no panel open, on the two pages that have the button. `clicked`, `vanished`, `absent` are history.

### Session (`utils/auth.ts`, `App.tsx`, `LoginPage.tsx`)

`token` and `named` are the storage (a token is its user; `Nameless` is a name
that was lost), `lapsed` says the token has expired, `authenticated` and
`authUser` are the states of the app, `timer` the renewal timer. `refreshing` and
`calls` are what is in flight in each slot, with the token it carries. `Fire`,
`Renew`, `RenewalFails` are a renewal; `Issue` and `Reply` any call of
`RestCalls`; `Reload` loses what is in flight. `overtaken` is history: a logout
came while a renewal was in flight.

### ClusterPicker, BottomPanel, BackupPages, WorkloadRows

* `ClusterPicker`: the layout's poll of the status (`Refresh`, `LayoutAnswer`) and
  the dialog (`OpenSetup`, `ChooseContext`, `handleConnect`, ...) next to switches
  by other users; each of the layout's requests is in a slot of `Polls`, two at a
  time in the run, and they are served in any order. Nothing that asks skips its
  request because another is under way: the interval and `cluster:switched` wait
  for a slot (`CanAsk`), a bound of the model.
* `BottomPanel`: `tabs` and what each id is, the wire of a terminal or of logs,
  the text of an editor with what was saved, the install form. `Collapsing`
  unmounts the contents: a terminal's socket is closed; a log that is being fetched
  is not aborted, but nothing is left to show it. `good` is the text the server has.
* `BackupPages`: the overview in the cache, the page's polls and the toaster's
  `previous`; `RemoveBackups` is the bulk deletion with the optimistic cache.
* `WorkloadRows`: one object of a kind (a workload's counters, a pod's container, a
  node's condition, a service's type and addresses, a phase), the status made of it
  by `list_...` (Rust) and `transform...` (TypeScript), and its colour
  (`getStatusColor`, `utils/index.ts:124`). These are the pages whose rows come over
  the socket and have a coloured badge. Of pods, the branch of init containers and
  evictions are left out.

### FrontEnd, MCFrontEnd

The parts with one session around them. They meet where the code has them meet:
a page opens tabs of the panel, a 401 ends the session, logout unmounts the
layout, login mounts it. A behaviour uses one part, its `scene`; the parts share
nothing else, so their interleavings show nothing more. `MCFrontEnd!Bound` limits
the scene of the pages: once a tab is open only a logout follows, and while a
YAML is fetched only its answer or a logout. In the picker another context is
chosen only while no switch is under way and the dialog waits for no answer.

## 4. Runs
| Run | Distinct states | Time | Bounds | Shows |
|---|---|---|---|---|
| `backup_races` | 746,273 | 33 s | 1 schedule, 1 target, 1 worker, 2 request slots, 2 at a time, 1 fault, 1 row, external CRDs | the inductive invariant, the cap, provenance, and that an undisturbed write is one ledger edit |
| `backup_solo` | 409,570 | 45 s | 2 schedules, firings at 1 and 3, clock to 4, 1 worker, 2 faults | one backup per firing, due schedules are handled |
| `socket_pages` | 316,065 | 64 s | 3 hooks on 2 kinds, 3 sockets, 4 mounts, 1 switch, 1 drop, 1 silent connection | one connection, subscribed to what is listened to; no stranded listener but for the known defects |
| `socket_switch` | 939 | 1 s | 2 sockets, 2 mounts, 1 switch, no faults | *violation*: a switch during a connection attempt |
| `watch_page` | 758,601 | 128 s | 2 objects, 2 changes, 2 watch tasks, 1 REST call at a time, 1 error, 1 drop, 2 mounts; a page of one hook, of one hook with a reconcile interval, or of two hooks of one kind | the inductive invariant; at rest no object is missing or old; a page that reads again converges |
| `watch_cluster` | 1,311 | 1 s | 1 cluster-scoped object | *violation*: a DELETED message that removes nothing |
| `forwards` | 147,679 | 53 s | 3 request slots, 2 forwards, 4 requests, 1 dropped | no lost kubectl, what is reported gone is dead, every request is answered |
| `cluster_switch` | 1,293,657 | 110 s | kubeconfigs with two, one and no contexts, a service account, 2 requests, 3 attempts, 1 fault | the cells agree after a switch that ran alone; the upgrade recovers |
| `cluster_drain` | 3,000 | 1 s | 1 request slot, 2 requests, no faults | *violation*: cordoned here, drained there |
| `exec_session` | 27,106 | 6 s | channel of 2, 3 shells, 2 failures, pipes or PTY | processes, pods and the handler end with the terminal; Ctrl-C is answered |
| `pods_sync` | 434,212 | 83 s | 1 pod, 2 clusters, 2 sockets, 2 calls, 1 change, 1 switch, 1 fault | one connection; in the end the table is the cluster's and the page is subscribed to it |
| `front_end` | 1,011,369 | 190 s | 2 users, 2 requests in flight, 3 calls; 3 clusters, 2 polls at a time, 1 failure; 2 tabs, 3 texts, 2 versions; 2 objects, 1 change; 2 backups, 1 fault; counters up to 2 | the session, the panel, the pages, the toaster and the rows keep their promises; the layout names the cluster that is used |

(Times on two cores.)

Deadlock checking is off in every run: once the bounds on users, faults and
changes are used up, an idle system has nothing to do.

**Why the bounds are enough.** The hazards are pairwise: two writers of one
document, an old and a new socket, two watch tasks, two requests about one
forward, a switch and the upgrade, an old and a new shell, an answer and the
user who went on. So every run about interleavings has two
actors that collide plus the one that is always there (the worker, the third
socket that replaces a replaced one, the upgrade). A cap of one or two rows makes `Push`
drop rows in every second behaviour. Two firings are what it takes to tell "one
per firing" from "one in all". One fault can be placed at any await; two faults
in `backup_solo` allow a failed read followed by a crash. Two kubeconfigs whose
contexts differ, one of them without the other's context, and one that does not
parse give every outcome of `build_client_from_kubeconfig_path`. The safety
properties for which the bounds could hide something are those that are proved
(section 5) for all values of the constants.

**Properties that name their exceptions.** Some properties hold only outside
states that a known defect of the code produces. They are written so that the exception is as small as
the defect, and the defect itself is either a violation run or a hazard with a note:

* `NeverStranded`, `EventuallyWatched`: `early` (the page hung up on a socket
  that was connecting or already gone) and `Unmonitored` (an old `onclose`
  cleared the watchdog of the new socket). The first is the run
  `socket_switch`. It also strikes when the last listener leaves while the
  reconnect timer is pending.
* `SettledShowsAll` speaks of objects that exist. The converse fails: an object
  deleted between the two lists of a task, or while a watch restarts, stays as a
  ghost until the page is left. Kinds with a reconcile interval get rid of it
  (`Converges`); for the others `README.md:96` of the repository rules a poll out.
  It excepts what a `bare` hook was never told: a hook that mounts beside another
  of its kind sends no subscribe, and drops its snapshot when one event came first.
* `OneConnection`: `late` (the `onclose` of a replaced socket ran after the new one
  was dialled, and was taken for its close). `Converges` and `Resubscribes` hold all the
  same.
* `StoredIsShown`: `overtaken` (a logout while a renewal is in flight: the answer
  stores a token again).
* `PanelShowsClicked`: `vanished`, on pages that fall back to the first row, when
  the object clicked was not listed for a while. `DialogTells`: pages that close
  the dialog also on a failure, which they report.
* `AnnouncedOnce`: `removed` backups, which an older answer brings back into the cache,
  to end once more.
* `TabsSound`: `raced` tabs, edited while their text was being applied: they are
  marked clean with a text the server does not have.
* `RowsAgree`: `Disputed` objects, whose badge does turn over when REST and the
  socket take turns at it. A daemon set or replica set that is ready and not
  available is Running (green) over REST and Progressing or Pending (yellow) on the
  socket. A job that succeeded is Complete on the socket, which `getStatusColor` does
  not know (gray), and Completed (green) over REST, or Failed (red) if it failed
  before it succeeded. A running pod that is not ready is NotReady
  (yellow) on the socket and Running, or Completed with its container, over REST
  (green); one that cannot be scheduled is Pending (yellow) over REST and
  Unschedulable (red) on the socket.
  That the list is no longer than it must be is the theorem `DisputesAreReal`.
* `NoOrphan`, `GoneIsDead`: `disturbed` forwards (a dropped
  request, or a stop or delete between the two inserts of a create).
* `CellsAgree`: `calm`. Two switches side by side mix their cells; the upgrade
  tests the flag before its ten-second sleep and overwrites a client a user has
  connected meanwhile; a failed selection leaves its context in `KUBE_CONTEXT`,
  so an upgrade still to come loads another context than the one shown; and a
  failed upload raises the placeholder flag although the old client still works.
* `PodsAreDeleted`: pods whose name was never read, pods kubectl did not delete,
  and pods of shells started by Ctrl-C, whose name the code has nowhere to put
  (`ws_handler.rs:607`). `SessionEnds`: a shell that does not read its input keeps
  the handler in `write_all`, even without a browser (`Deaf`). `TerminalsEnd`: a
  silent shell on a PTY stays, and its reader thread with it, because aborting a
  blocking thread does nothing.
* `UndisturbedIsAtomic` is what is left of the ledger when operations overlap: an edit
  whose reads are current, the data map's included. Requests that neither overlap nor fail
  are such edits, so they implement the ledger (`SerialImplementsLedger`).

**Fairness.** Only what a scheduler owes is fair; users, faults and crashes are not.

* `BackupStore`: weak fairness of each process's next step (tokio runs ready
  tasks, and every API call returns or fails) and of the worker's loop. So
  `DueIsHandled` assumes that an upload ends; the code has no timeout on it.
* `RealtimeSocket`: the timers the page holds fire, and handshakes end (`Opened`,
  `Closed`).
* `WatchStream`: tasks run, messages are handled, the page reconnects, and in a
  visible tab the reconcile interval fires and REST calls return.
* `PortForwards`: strong fairness of each request, because a step may wait for
  the lock again and again while others take it: tokio's locks are fair queues. A
  killed child exits.
* `ClusterClient`: weak fairness of the upgrade task and of each handler.
  `Recovers` needs more attempts than there are failures and replaced
  kubeconfigs; the run has 3 (the code 18).
* `ExecSession`: the handler, the reader and `ws_send_task` run, the browser reads
  what it is sent, `kubectl delete` returns. Shells owe nothing: they need not read,
  print or end.
* `PodSync`: the browser runs its timers, callbacks and effects; the network and the
  server deliver what they do not lose. The intervals of five and 45 seconds keep
  firing, as they do in a visible tab.
* `FrontEnd`: the layout's interval fires, and what the layout asks is answered or
  fails. Nothing else there is fair, the dialog's own requests included.

**Violation runs.** `socket_switch` (README.md:96 promises that list pages
receive watch events), `watch_cluster` (the same line, for deletions) and
`cluster_drain` (drain_node's own comments, and the comment at `utils.rs:781`).
Each is a trace of the code as written, with no fault in it.

## 5. Proofs
All proofs are checked by TLAPS (SMT, Zenon, and LS4 for the temporal steps).
They hold for all values of the constants that satisfy the named assumptions of
the module that declares them (`DocsAssumption`, `NoneAssumption`, `StoreAssumption`, `NoneIsNoLabel`,
`SocketAssumption`, `ForwardAssumption`, `ClusterAssumption`, `ExecAssumption`,
`PodSyncAssumption`, `StreamAssumption`, and for the front end `SessionAssumption`, `UserAssumption`,
`PagesAssumption`, `BackupPagesAssumption`, `RowsAssumption`, `PickerAssumption`, `PanelAssumption`, `NoneIsNoKind`): the bounds are
natural numbers, the reserved values are not among the others, and an object is
told from others by its namespace and name. `PickerAssumption` asks for one cluster
besides the placeholder, which a front end outside the picker's scene is using.
No theorem assumes that sets of schedules, hooks, requests or contexts are finite
unless its assumption says so.

| Theorem | States | Along |
|---|---|---|
| `BackupStoreProofs!TypeCorrect` | `TypeOK` and `TaskOK` always | `TypeOK /\ TaskOK` is inductive. Types alone are not: whether `copy[p].schedules[s]` may be marked depends on what the process checked two awaits ago, which `KnownAt` records per `pc` |
| `BackupStoreProofs!ListedBackupsExist` | `ListedWasUploaded` | `Provenance`: a Completed row is backed wherever it is: stored, in a copy, in a data map or still a phase in a task |
| `BackupStoreProofs!RunListIsBounded` | `RunsBounded` | `Bounded`: every held copy is within the cap too, and places are distinct, without which cutting the first row would not bound the set |
| `BackupStoreProofs!StoreStaysInOrder`, `UndisturbedImplementsLedger` | `IInv`, `UndisturbedIsAtomic` | `Current`: what an undisturbed process holds at each await is one edit away from what is stored |
| `BackupStoreProofs!OneBackupPerFiring` | `OncePerFiring`, if `Requests = {}` and there is one replica | `FiringInv`: a process holds a firing only while the stored schedule is not stamped with it and no row and no object is of it (`FiringAt`), and what is stored is stamped for all firings that were made (`Stamped`). The two hypotheses are needed: two schedulers, or an edit of a schedule during a round, make two backups of one firing |
| `BackupStoreProofs!SerialImplementsLedger` | `Spec => Ledger!LedgerSpec`, if `MaxFaults = 0` and `MaxOverlap = 1` | `Serial`: no operation is disturbed and none has failed, so that each persist is the one edit of the ledger and every other step a stutter |
| `WatchStreamProofs!TypeCorrect`, `ListsStayRight`, `SettledListsShowAll` | `TypeOK`, `IInv`, `SettledShowsAll` | `IInv`: where the latest version of an object can still be (see below) |
| `RealtimeSocketProofs!SocketStaysInOrder`, `OneSocketServesAll`, `LiveSocketIsAsked` | `Inv`, `SingleSocket`, `LiveIsSubscribed` | `Inv`: only the shared socket is live, and what was asked on it covers what is listened to |
| `RealtimeSocketProofs!ListenersAreNotStranded` | `NeverStranded` | `Steady`, which relates `inFlight` and `intent` to the sockets whose handlers will clear them |
| `PortForwardsProofs!TablesStayInOrder`, `ForwardsAreReachable`, `StoppedForwardsAreDead` | `IInv`, `NoOrphan`, `GoneIsDead` | `Facts`: with `CreationIsFirst` (nothing about an id happens before its creation is answered), `PastKillIsDead` and `Born` (ids are not reused) |
| `ClusterClientProofs!CellsStayInOrder`, `ConnectionIsReal`, `SwitchesAreWhole` | `IInv`, `ConnectedIsReal`, `CellsAgree` | `IInv`: `ClientIsBuilt`; `Undisturbed` (a switch that runs alone finds each cell as it left it, step by step); `Calm` (which context an upgrade under way will load) |
| `ExecSessionProofs!TerminalsStayInOrder`, `NodeShellsEnd`, `NamedPodsAreDeleted`, `RunningPodsStay` | `IInv`, `NoShellLeft`, `PodsAreDeleted`, `DeletesOnlyDead` | `IInv`: `Phases` (what is dead where), `Slots` (only the first node shell has one), `PodIsKept` (a pod with a known name is still in the slot until it is deleted) |
| `PodSyncProofs!PodsHaveOneConnection` | `OneConnection` | with the shape of `sock`: what listens is `wsRef`, and an effect only waits in a page that is mounted, so that no step dials beside a connection before `late` |
| `FrontEndProofs!StoredSessionIsShown` | `StoredIsShown` | `SInv`: unless a logout overtook one, renewals carry the token that is stored or was (`Renewals`), and the names are the token's (`Holders`) |
| `FrontEndProofs!RowsDoNotTurn` | `RowsAgree` | per kind, the two computations of the status give one colour to an object if and only if it is not `Disputed`, for all counters: an arithmetic lemma each |
| `FrontEndProofs!DisputesAreReal` | `Disputed` implies two colours, always | the other half of the same lemmas: `RowsAgree` excepts nothing that would agree |
| `FrontEndProofs!EndsAreToldOnce` | `AnnouncedOnce` | what is known of each backup, by where it may still be running: in the store, in answers under way, in the cache and in `previous` |
| `FrontEndProofs!PanelIsOfTheRowClicked` | `PanelShowsClicked` | `RowShown`: rows are objects, each found by its key alone (`FindsItself`), and every one of the 35 pages follows its selection in one of four ways (`PageFacts`) |
| `FrontEndProofs!DialogClosesWhenGone` | `DialogTells` | `Answering`: what a deletion does not wait for any more has been gone since; it rests on `BehaviourFacts`, that no page takes a failed call for an answer |
| `FrontEndProofs!TabsKeepTheirPromises` | `TabsSound` | `PInv`: the tabs with a content are the open ones (`Idle`), and unless it was edited meanwhile the text being applied is the one shown (`Texted`), so that its answer leaves the tab clean |
| `FrontEndProofs!FrontTypeCorrect` | `TypeOK` | `Typed`: the invariants above say most of the types; `CallTypes`, `PanelRest`, `BackupRest`, `PagesRest` add the rest, and `PickerType` is inductive by itself |

The theorems of `FrontEndProofs` are about `FrontSpec`, the whole composition.

Two theorems have hypotheses of their own. `OneBackupPerFiring` is about one
scheduler without requests beside it; with two schedulers, or with one request,
TLC finds two backups of one firing (a persist that reverts another's document takes
its stamp away, and two workers find the same schedule due). `SerialImplementsLedger` is
about operations that neither overlap nor fail: the promise of the ledger is
what these give, and `UndisturbedImplementsLedger` says what is left of it otherwise.

**Why `IInv` of `WatchStream` is what it is.** `SettledShowsAll` speaks of the states at
rest only, so the invariant has to say where the latest version of an object is
until then. It is shown, or the wire to the tab still speaks of the object
(`Told`), or a task has it to send (`Owed`): a task that lists, that
has yet to read that far in the log, or that waits after an error. The wire is not
enough by itself, because an older version may follow a newer one when two
tasks share it; `WireIsRight` says that then the last word on the wire is the
current version or a task still owes it. That a task serves a connection with
a page or with messages is `TasksServe`; what a snapshot may still do to rows
that events have filled is `CallsAreFresh`. `LogIsStore` ties the
versions in all of them to the cluster.

Every invariant above is also checked by TLC in a run (`IInv`, `Inv`), except
`Steady`, `FiringInv`, `Serial`, the invariant of `PodSyncProofs` and those of
`FrontEndProofs`, which only the proofs use.

Only model-checked:

* everything temporal under fairness (`DueIsHandled`, `EventuallyWatched`,
  `Converges`, `Resubscribes`, `AllAnswered`, `Recovers`, `SessionEnds`,
  `InterruptIsAnswered`, `TerminalsEnd`, `LayoutSettles`): liveness and
  `ENABLED` are out of the prover's reach;
* what an inductively defined operator computes for every input. No module has
  one that a theorem needs.

## 6. What is not modelled
Open items of the plan are in section 2. Not planned:

* **Authentication** (`auth.rs`) stores nothing: tokens are signed and verified.
* **REST handlers** of configuration, network, storage, RBAC, CRDs,
  namespaces and Helm: one API or subprocess call per request. What crosses two
  of them (drain, and the kubectl and helm children that read the kubeconfig's
  own current-context) is in `ClusterClient`; the status of a row is in
  `WorkloadRows`.
* **Resource map**, **data models**, **generated protocol code**, the **pages that
  only compute a view** (resource map, overviews, cluster, dashboard), **packaging**:
  no shared state.
* In `backup.rs`: restore (open), the Velero BackupStorageLocation and Schedule objects
  made by `apply`, the S3 connection test and the download.
* In `ws_handler.rs` and the hooks: the Error messages, the merge of node
  metrics and ingress addresses, the watches of custom resources (the same loop
  without a restart).
* In the front end: other tabs of the browser (they share the storage), retries
  of queries, sorting and columns of tables, the pruning of chosen namespaces,
  resizing, the pages of backup schedules and settings.

Smaller hazards seen while reading, not in PROJECT.json:

* two-second empty-list timer (`useRealtimeResources.ts:1530`): it can confirm an
  empty list before the server has read the first item, although line 1325 says
  the flag is set only when the list is known to be empty; an object that
  arrives later corrects it;
* the background upgrade stops after 18 attempts (`utils.rs:541`), each of which
  a kubeconfig replaced under it may use up (`Recovers` counts them);
* once one cluster answered 404, metrics are never asked for again, also after a
  switch to a cluster that has them (`utils.rs:141`);
* all watch tasks of a connection share one channel of 100 messages
  (`ws_handler.rs:758`): a slow tab slows all of its watches;
* an Error message without a resource goes to the hooks of every kind
  (`useRealtimeResources.ts:171`);
* a watch error ends a gRPC watch with Ok and no error is sent
  (`grpc_service.rs:317`); aborting a watcher is asynchronous (line 82);
* a failed deletion in S3 is a warning, and the row goes all the same
  (`backup.rs:1771`); the service account is made up on restore (1630); settings
  are a ConfigMap and then a Secret (464), and a failure in between leaves old keys;
* a restart forgets the context chosen in the page (`cluster.rs:61`);
* unsubscribing stops no watch task (`ws_handler.rs:861`): each visit of a page on
  the same connection adds one;
* a write to a PTY (`ws_handler.rs:724`) blocks the thread it runs on, not only the
  task;
* any failed token refresh logs out (`App.tsx:83`), also a session begun
  meanwhile; a token within ten seconds of its expiry gets no timer (77);
* two metric samples may race (`workloads.rs:165`); a drain that fails leaves the
  node cordoned (2862);
* the pie chart of jobs counts `completed` and `succeeded`, so that a job the socket
  calls `Complete` counts as running, and a workload scaled to 0 as degraded
  (`WorkloadsOverviewPage.tsx`);
* the status of a disruption budget is Healthy or Unhealthy over REST
  (`config.rs:316`) and the two counts on the socket (`useRealtimeResources.ts:913`),
  and the replicas and targets of an autoscaler are counted differently (`config.rs:245`,
  `useRealtimeResources.ts:886`): text without a colour, not in `WorkloadRows`;
* Helm repository names are made from the millisecond (`helm.rs:843`).

Found while modelling and kept as exceptions of properties rather than runs of
their own: see "Properties that name their exceptions". A kubectl that exits by
itself stays listed as running (`portforward.rs:132`).
