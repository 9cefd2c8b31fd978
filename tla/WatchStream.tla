------------------------------- MODULE WatchStream -------------------------------
(***************************************************************************)
(* How the list of one resource kind travels from the Kubernetes API to    *)
(* the hooks of one tab: the watch tasks of the server                     *)
(* (backend/src/ws_handler.rs, handle_socket and create_watch_fn!), the    *)
(* socket they all write to, and the list hook made by createRealtimeHook  *)
(* (frontend/src/hooks/useRealtimeResources.ts), which also reads the list *)
(* over REST.                                                              *)
(*                                                                         *)
(* An object is its name and a version; the versions are positions in the  *)
(* log of changes.  Left out: the shape of the objects, the Error messages *)
(* a task sends before it gives up or restarts, the merge of node metrics  *)
(* and ingress addresses, and the pods and nodes special cases.            *)
(***************************************************************************)
EXTENDS Naturals, Sequences, FiniteSets

CONSTANTS
    Names,         \* keys of objects of this kind
    Hooks,         \* hook instances of the kind in the tab
    Tasks,         \* identities for watch tasks of the server
    Polls,         \* reconcile requests a hook may have in flight
    Reconciled,    \* the hooks that have a reconcile interval
    None, Asked,   \* a REST request that was not made, or not answered yet
    ClusterScoped, \* the hooks whose objects have no namespace, nodes,
                   \* namespaces and helmreleases apart
    MaxChanges,    \* bound on changes of the cluster
    MaxErrors,     \* bound on failed API and REST calls
    MaxDrops,      \* bound on lost connections
    MaxMounts      \* bound on mounts of hooks

Initial == "initial"
Calls   == Polls \cup {Initial}

ASSUME StreamAssumption ==
    /\ Initial \notin Polls
    /\ Reconciled \subseteq Hooks /\ ClusterScoped \subseteq Hooks
    /\ None # Asked /\ {None, Asked} \cap [Names -> Nat] = {}
    /\ {MaxChanges, MaxErrors, MaxDrops, MaxMounts} \subseteq Nat

VARIABLES
    log,        \* changes of the cluster, each <<name, present>>
    store,      \* version of each object, 0 when there is none
    \* each watch task
    phase,      \* where it is
    pending,    \* objects of the list it read that it still has to send
    cursor,     \* changes its watch has delivered
    \* the connection
    connected,
    wire,       \* messages sent and not handled
    \* each hook
    mounted,
    list,       \* data
    received,   \* receivedRealtimeEvent
    emptyTimer, \* emptyListTimeout is pending
    confirmed,  \* emptyListConfirmed
    call,       \* its REST requests: None, Asked or the answer
    start,      \* history: a task was started for the hook (or since it came),
                \* it joined others, or it did and then had no snapshot
    errors, drops, mounts

clusterVars == <<log, store>>
taskVars    == <<phase, pending, cursor>>
linkVars    == <<connected, wire>>
hookVars    == <<list, received, emptyTimer, confirmed>>
boundVars   == <<errors, drops, mounts>>
vars == <<clusterVars, taskVars, linkVars, mounted, hookVars, call, start, boundVars>>

Versions == 0 .. MaxChanges
View     == [Names -> Versions]
Empty    == [n \in Names |-> 0]
Items(v) == {[kind |-> "update", name |-> n, version |-> v[n]] :
                n \in {m \in Names : v[m] # 0}}

Subscribed == [kind |-> "subscribed"]
Update(n, v) == [kind |-> "update", name |-> n, version |-> v]
Delete(n)    == [kind |-> "delete", name |-> n]

Updates  == {Update(n, v) : n \in Names, v \in Versions}
Messages == {Subscribed} \cup Updates \cup {Delete(n) : n \in Names}

Phases == {"idle", "list", "send", "stream", "backoff", "stopped"}

Init ==
    /\ log = <<>> /\ store = Empty
    /\ phase = [t \in Tasks |-> "idle"]
    /\ pending = [t \in Tasks |-> {}]
    /\ cursor = [t \in Tasks |-> 0]
    /\ connected = TRUE /\ wire = <<>>
    /\ mounted = {}
    /\ list = [h \in Hooks |-> Empty]
    /\ received = [h \in Hooks |-> FALSE]
    /\ emptyTimer = [h \in Hooks |-> FALSE]
    /\ confirmed = [h \in Hooks |-> FALSE]
    /\ call = [h \in Hooks |-> [c \in Calls |-> None]]
    /\ start = [h \in Hooks |-> "served"]
    /\ errors = 0 /\ drops = 0 /\ mounts = 0

-----------------------------------------------------------------------------
(* The cluster *)

Put(n) ==
    /\ Len(log) < MaxChanges
    /\ log' = Append(log, <<n, TRUE>>)
    /\ store' = [store EXCEPT ![n] = Len(log) + 1]
    /\ UNCHANGED <<taskVars, linkVars, mounted, hookVars, call, start, boundVars>>

Remove(n) ==
    /\ store[n] # 0
    /\ Len(log) < MaxChanges
    /\ log' = Append(log, <<n, FALSE>>)
    /\ store' = [store EXCEPT ![n] = 0]
    /\ UNCHANGED <<taskVars, linkVars, mounted, hookVars, call, start, boundVars>>

-----------------------------------------------------------------------------
(* The server *)

(* ClientMessage::Subscribe: the confirmation, and a task of its own.      *)
StartTask(t) ==
    /\ phase[t] = "idle"
    /\ phase' = [phase EXCEPT ![t] = "list"]
    /\ wire' = Append(wire, Subscribed)

(* api.list.  An error ends the task; nothing starts it again.             *)
List(t) ==
    /\ phase[t] = "list"
    /\ \/ /\ pending' = [pending EXCEPT ![t] = Items(store)]
          /\ phase' = [phase EXCEPT ![t] = "send"]
          /\ UNCHANGED errors
       \/ /\ errors < MaxErrors /\ errors' = errors + 1
          /\ phase' = [phase EXCEPT ![t] = "stopped"]
          /\ UNCHANGED pending
    /\ UNCHANGED <<clusterVars, cursor, linkVars, mounted, hookVars, call, start, drops, mounts>>

(* One object of a list it read: ADDED after api.list, MODIFIED after      *)
(* Event::Restarted.                                                       *)
SendItem(t) ==
    /\ phase[t] \in {"send", "stream"}
    /\ \E m \in pending[t] :
          /\ wire' = Append(wire, m)
          /\ pending' = [pending EXCEPT ![t] = @ \ {m}]
    /\ UNCHANGED <<clusterVars, phase, cursor, connected, mounted, hookVars, call, start, boundVars>>

(* Mutant of Watch: it watches from one change too far.                    *)
WatchSkipsOne(t) ==
    /\ phase[t] \in {"send", "backoff"} /\ pending[t] = {}
    /\ pending' = [pending EXCEPT ![t] = Items(store)]
    /\ cursor' = [cursor EXCEPT ![t] = Len(log) + 1]
    /\ phase' = [phase EXCEPT ![t] = "stream"]
    /\ UNCHANGED <<clusterVars, linkVars, mounted, hookVars, call, start, boundVars>>

(* watcher(): it lists again, hands the objects over as Event::Restarted,  *)
(* and watches from there.                                                 *)
Watch(t) ==
    /\ phase[t] \in {"send", "backoff"} /\ pending[t] = {}
    /\ pending' = [pending EXCEPT ![t] = Items(store)]
    /\ cursor' = [cursor EXCEPT ![t] = Len(log)]
    /\ phase' = [phase EXCEPT ![t] = "stream"]
    /\ UNCHANGED <<clusterVars, linkVars, mounted, hookVars, call, start, boundVars>>

Event(i) == IF log[i][2] THEN Update(log[i][1], i) ELSE Delete(log[i][1])

(* Event::Applied and Event::Deleted                                       *)
Deliver(t) ==
    /\ phase[t] = "stream" /\ pending[t] = {}
    /\ cursor[t] < Len(log)
    /\ cursor' = [cursor EXCEPT ![t] = @ + 1]
    /\ wire' = Append(wire, Event(cursor[t] + 1))
    /\ UNCHANGED <<clusterVars, phase, pending, connected, mounted, hookVars, call, start, boundVars>>

(* The watch ends with an error: the task stops when the API is forbidden  *)
(* or gone, and otherwise sleeps and watches anew.                         *)
WatchFails(t) ==
    /\ phase[t] \in {"send", "backoff", "stream"} /\ pending[t] = {}
    /\ errors < MaxErrors /\ errors' = errors + 1
    /\ \E p \in {"backoff", "stopped"} : phase' = [phase EXCEPT ![t] = p]
    /\ UNCHANGED <<clusterVars, pending, cursor, linkVars, mounted, hookVars, call, start, drops, mounts>>

-----------------------------------------------------------------------------
(* The connection *)

(* The socket is lost with what it carried; tasks end at their next send.  *)
Disconnect ==
    /\ connected
    /\ drops < MaxDrops /\ drops' = drops + 1
    /\ connected' = FALSE /\ wire' = <<>>
    /\ phase' = [t \in Tasks |-> "idle"]
    /\ pending' = [t \in Tasks |-> {}]
    /\ cursor' = [t \in Tasks |-> 0]
    /\ UNCHANGED <<clusterVars, mounted, hookVars, call, start, errors, mounts>>

(* onopen subscribes to what is listened to (RealtimeSocket).              *)
Connect ==
    /\ ~connected
    /\ connected' = TRUE
    /\ IF mounted = {} THEN UNCHANGED <<phase, wire>>
       ELSE \E t \in Tasks : StartTask(t)
    /\ start' = [h \in Hooks |-> "served"]
    /\ UNCHANGED <<clusterVars, pending, cursor, mounted, hookVars, call, boundVars>>

-----------------------------------------------------------------------------
(* The hook *)

(* The effect: it subscribes, for which only the first hook of the kind    *)
(* sends anything, and asks for a snapshot over REST.                      *)
Mount(h) ==
    /\ h \notin mounted
    /\ mounts < MaxMounts /\ mounts' = mounts + 1
    /\ mounted' = mounted \cup {h}
    /\ list' = [list EXCEPT ![h] = Empty]
    /\ received' = [received EXCEPT ![h] = FALSE]
    /\ emptyTimer' = [emptyTimer EXCEPT ![h] = FALSE]
    /\ confirmed' = [confirmed EXCEPT ![h] = FALSE]
    /\ call' = [call EXCEPT ![h][Initial] = Asked]
    /\ IF mounted = {} /\ connected
       THEN \E t \in Tasks : StartTask(t)
       ELSE UNCHANGED <<phase, wire>>
    /\ start' = [start EXCEPT ![h] = IF mounted = {} \/ ~connected
                                    THEN "served" ELSE "joined"]
    /\ UNCHANGED <<clusterVars, pending, cursor, connected, errors, drops>>

(* The cleanup aborts the requests and the timers.  The unsubscribe        *)
(* message changes nothing on the server: tasks go on.                     *)
Unmount(h) ==
    /\ h \in mounted
    /\ mounted' = mounted \ {h}
    /\ call' = [call EXCEPT ![h] = [c \in Calls |-> None]]
    /\ emptyTimer' = [emptyTimer EXCEPT ![h] = FALSE]
    /\ UNCHANGED <<clusterVars, taskVars, linkVars, list, received, confirmed, start, boundVars>>

(* Mutant of Upsert: an object that is not in the list is not added.       *)
UpsertKnown(view, m) ==
    IF view[m.name] = 0 THEN view ELSE [view EXCEPT ![m.name] = m.version]

Upsert(view, m) == [view EXCEPT ![m.name] = m.version]

(* The key of a DELETED object is built as namespace/name, which matches   *)
(* no item of a kind whose key is the name alone.                          *)
Drop(h, view, m) ==
    IF h \in ClusterScoped THEN view ELSE [view EXCEPT ![m.name] = 0]

(* handleRealtimeMessage, called for every listener of the kind.           *)
Handle ==
    /\ wire # <<>> /\ wire' = Tail(wire)
    /\ LET m == Head(wire) IN
       IF m.kind = "subscribed"
       THEN /\ emptyTimer' = [h \in Hooks |-> emptyTimer[h] \/ h \in mounted]
            /\ UNCHANGED <<list, received>>
       ELSE /\ emptyTimer' = [h \in Hooks |-> emptyTimer[h] /\ h \notin mounted]
            /\ received' = [h \in Hooks |-> received[h] \/ h \in mounted]
            /\ list' = [h \in Hooks |->
                  IF h \notin mounted THEN list[h]
                  ELSE IF m.kind = "update" THEN Upsert(list[h], m)
                                            ELSE Drop(h, list[h], m)]
    /\ UNCHANGED <<clusterVars, taskVars, connected, mounted, confirmed, call, start, boundVars>>

(* emptyListTimeout, two seconds after "subscribed".                       *)
ConfirmEmpty(h) ==
    /\ emptyTimer[h]
    /\ emptyTimer' = [emptyTimer EXCEPT ![h] = FALSE]
    /\ confirmed' = [confirmed EXCEPT ![h] = TRUE]
    /\ UNCHANGED <<clusterVars, taskVars, linkVars, mounted, list, received, call, start, boundVars>>

(* reconcileInterval                                                       *)
Poll(h, c) ==
    /\ h \in mounted \cap Reconciled
    /\ call[h][c] = None
    /\ call' = [call EXCEPT ![h][c] = Asked]
    /\ UNCHANGED <<clusterVars, taskVars, linkVars, mounted, hookVars, start, boundVars>>

(* The REST handler lists the objects.                                     *)
Answer(h, c) ==
    /\ call[h][c] = Asked
    /\ call' = [call EXCEPT ![h][c] = store]
    /\ UNCHANGED <<clusterVars, taskVars, linkVars, mounted, hookVars, start, boundVars>>

(* A hook that joined others is left without a list.                       *)
Unlisted(h) == [start EXCEPT ![h] = IF @ = "joined" THEN "bare" ELSE @]

CallFails(h, c) ==
    /\ call[h][c] = Asked
    /\ errors < MaxErrors /\ errors' = errors + 1
    /\ call' = [call EXCEPT ![h][c] = None]
    /\ start' = IF c = Initial THEN Unlisted(h) ELSE start
    /\ UNCHANGED <<clusterVars, taskVars, linkVars, mounted, hookVars, drops, mounts>>

(* Mutant of Usable: a reconcile is dropped after an event as well.        *)
UsableOnlyFirst(h, c) == ~received[h]

(* The snapshot is dropped when an event came first; a reconcile replaces  *)
(* the list whatever came meanwhile.                                       *)
Usable(h, c) == c = Initial => ~received[h]

Arrive(h, c) ==
    /\ call[h][c] \notin {None, Asked}
    /\ call' = [call EXCEPT ![h][c] = None]
    /\ IF Usable(h, c)
       THEN /\ list' = [list EXCEPT ![h] = call[h][c]]
            /\ confirmed' = [confirmed EXCEPT ![h] = (call[h][c] = Empty)]
            /\ UNCHANGED start
       ELSE start' = Unlisted(h) /\ UNCHANGED <<list, confirmed>>
    /\ UNCHANGED <<clusterVars, taskVars, linkVars, mounted, received, emptyTimer, boundVars>>

Next ==
    \/ \E n \in Names : Put(n) \/ Remove(n)
    \/ \E t \in Tasks : List(t) \/ SendItem(t) \/ Watch(t) \/ Deliver(t) \/ WatchFails(t)
    \/ Disconnect \/ Connect \/ Handle
    \/ \E h \in Hooks : Mount(h) \/ Unmount(h) \/ ConfirmEmpty(h)
    \/ \E h \in Hooks, c \in Polls : Poll(h, c)
    \/ \E h \in Hooks, c \in Calls : Answer(h, c) \/ CallFails(h, c) \/ Arrive(h, c)

Spec == Init /\ [][Next]_vars

(* Tasks run, messages are handled, the page reconnects (RealtimeSocket's  *)
(* EventuallyWatched), and in a visible tab the reconcile interval fires   *)
(* and its requests are answered.  Nothing fails or changes of necessity.  *)
Progress ==
    /\ \A t \in Tasks : WF_vars(List(t)) /\ WF_vars(SendItem(t))
                       /\ WF_vars(Watch(t)) /\ WF_vars(Deliver(t))
    /\ WF_vars(Connect) /\ WF_vars(Handle)
    /\ \A h \in Hooks : \A c \in Polls : WF_vars(Poll(h, c))
    /\ \A h \in Hooks : \A c \in Calls : WF_vars(Answer(h, c)) /\ WF_vars(Arrive(h, c))

FairSpec == Spec /\ Progress

-----------------------------------------------------------------------------
(* Types; in particular a watch is never ahead of the cluster.             *)
TypeOK ==
    /\ log \in Seq(Names \X BOOLEAN) /\ Len(log) <= MaxChanges
    /\ store \in View
    /\ phase \in [Tasks -> Phases]
    /\ pending \in [Tasks -> SUBSET Updates]
    /\ cursor \in [Tasks -> 0 .. Len(log)]
    /\ connected \in BOOLEAN
    /\ mounted \subseteq Hooks
    /\ list \in [Hooks -> View]
    /\ {received, emptyTimer, confirmed} \subseteq [Hooks -> BOOLEAN]
    /\ call \in [Hooks -> [Calls -> View \cup {None, Asked}]]
    /\ start \in [Hooks -> {"served", "joined", "bare"}]

CaughtUp(t) ==
    phase[t] = "stream" /\ pending[t] = {} /\ cursor[t] = Len(log)

(* The server has sent all there is to send, and the tab has handled it.   *)
Settled ==
    /\ connected /\ wire = <<>>
    /\ \E t \in Tasks : CaughtUp(t)
    /\ \A t \in Tasks : phase[t] = "idle" \/ CaughtUp(t)
    /\ \A h \in Hooks, c \in Calls : call[h][c] = None

(* A list page shows every object there is, in its latest version,         *)
(* whatever was created between two lists, before the snapshot arrived,    *)
(* during a restart of the watch or while the page was away; and so does   *)
(* another hook of the kind beside it, which is sent no list, unless it    *)
(* also lost its snapshot (bare): what it was told of it then has right.   *)
SettledShowsAll ==
    Settled => \A h \in mounted \ Reconciled, n \in Names :
                  store[n] # 0 => \/ list[h][n] = store[n]
                                  \/ start[h] = "bare" /\ list[h][n] = 0

(* With a reconcile interval the list equals the cluster in the end,       *)
(* whatever was lost, doubled or answered late.                            *)
Converges == <>[](\A h \in mounted \cap Reconciled : list[h] = store)

(* An object whose DELETED message a page handled is off its list.         *)
DeletedLeaves ==
    [][Handle /\ Head(wire).kind = "delete" =>
          \A h \in mounted : list'[h][Head(wire).name] = 0]_vars

-----------------------------------------------------------------------------
(* The inductive invariant *)

(* A version is the place of the last change of its object.                *)
LogIsStore ==
    \A n \in Names : store[n] # 0 =>
        /\ store[n] \in 1 .. Len(log) /\ log[store[n]] = <<n, TRUE>>
        /\ \A i \in store[n] + 1 .. Len(log) : log[i][1] # n

About(m, n) == m.kind # "subscribed" /\ m.name = n

Told(n) == \E i \in DOMAIN wire : About(wire[i], n)

(* The last that is said of n on the wire is its version now.              *)
EndsRight(n) ==
    \E i \in DOMAIN wire :
        /\ wire[i] = Update(n, store[n])
        /\ \A j \in i + 1 .. Len(wire) : ~About(wire[j], n)

(* The task has to send n once more, or it stopped and cannot.             *)
Owing(t, n) ==
    \/ phase[t] \in {"list", "send", "backoff", "stopped"}
    \/ /\ phase[t] = "stream"
       /\ cursor[t] < store[n] \/ \E m \in pending[t] : m.name = n

Owed(n) == \E t \in Tasks : Owing(t, n)

(* Tasks run while the tab shows the kind or has messages of it.  A watch  *)
(* that hands over an old version comes to the change that replaced it.    *)
TasksServe ==
    /\ connected /\ (mounted # {} \/ wire # <<>>) => \E t \in Tasks : phase[t] # "idle"
    /\ ~connected => wire = <<>> /\ \A t \in Tasks : phase[t] = "idle"
    /\ \A t \in Tasks : phase[t] = "stream" =>
          \A m \in pending[t] : store[m.name] # 0 =>
              m.version = store[m.name] \/ cursor[t] < store[m.name]

WireIsRight ==
    /\ wire \in Seq(Messages)
    /\ \A n \in Names :
          store[n] # 0 /\ Told(n) => EndsRight(n) \/ Owed(n)

(* Until the snapshot comes, what was not received is not shown.           *)
CallFresh(h) ==
    /\ \A c \in Polls : call[h][c] = None
    /\ h \notin mounted \/ start[h] = "bare" => call[h][Initial] = None
    /\ h \in mounted /\ ~received[h] /\ call[h][Initial] # None => list[h] = Empty

CallsAreFresh == \A h \in Hooks \ Reconciled : CallFresh(h)

(* What a hook shows, or will be told, of an object.                       *)
Shows(view, n) == view[n] = store[n] \/ Owed(n) \/ Told(n)

ListRight(h, n) ==
    /\ list[h][n] = 0 \/ Shows(list[h], n)
    /\ start[h] = "served" => Shows(list[h], n)
    /\ start[h] = "joined" /\ call[h][Initial] = None => Shows(list[h], n)
    /\ start[h] = "joined" /\ call[h][Initial] \notin {None, Asked} /\ ~received[h]
          => Shows(call[h][Initial], n)

ListsAreRight ==
    connected => \A h \in mounted \ Reconciled, n \in Names :
                    store[n] # 0 => ListRight(h, n)

IInv == /\ TypeOK /\ LogIsStore /\ TasksServe /\ WireIsRight
        /\ CallsAreFresh /\ ListsAreRight

=============================================================================
