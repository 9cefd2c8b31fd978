-------------------------------- MODULE PodSync --------------------------------
(***************************************************************************)
(* The hook useRealtimePods: a table of pods that one page keeps from two  *)
(* sources at once, its own web socket (one watch on the server) and       *)
(* /api/pods, asked every five seconds and whenever the socket opens.      *)
(* The page lives through cluster switches; sockets fail with and without  *)
(* a word; answers overtake each other.                                    *)
(*                                                                         *)
(* A pod is its version, 0 when there is none; a row is the cluster and    *)
(* the version it came from.  The columns of a row, logging, the ping and  *)
(* the length of the delays are left out.  The server is external: it      *)
(* answers /api/pods from the cluster it uses at that moment, and its      *)
(* watch keeps the cluster it was started with (WatchStream has its        *)
(* failures).                                                              *)
(***************************************************************************)
EXTENDS Naturals, FiniteSets, Sequences, SequencesExt

CONSTANTS
    Names,        \* pods
    Sockets,      \* connections that may exist at one time
    Calls,        \* requests for /api/pods that may be in flight at one time
    None,
    MaxChanges,   \* bound on changes of the clusters
    MaxSwitches,  \* bound on cluster switches
    MaxFaults     \* bound on lost and silent connections and failed calls

ASSUME PodSyncAssumption ==
    /\ None \notin Sockets
    /\ {MaxChanges, MaxSwitches, MaxFaults} \subseteq Nat

VARIABLES
    pods,         \* what each cluster holds: pods[c][n] is a version
    changes,      \* versions given out
    home,         \* the cluster the server uses
    told,         \* the switch the page has heard of
    rerun,        \* clusterSwitchVersion rose, its effect has not run yet
    mounted,
    sock,         \* connections: state, the cluster watched, messages under way
    ws,           \* wsRef
    intentional,  \* intentionalCloseRef
    held,         \* the timer that reconnectTimeoutRef holds is pending
    loose,        \* pending connect timers that no reference holds any more
    guard,        \* the socket that the watchdog interval looks after
    calls,
    rows,         \* data
    tomb,         \* deletedPodsRef
    loading, empty, error,
    lull,         \* the two-second timer of emptyListTimeoutRef is pending
    faults,
    late          \* history: a socket's onclose ran when wsRef had moved on

server == <<pods, changes, home>>
link   == <<sock, ws, intentional, held, loose, guard, late>>
table  == <<rows, tomb, loading, empty, error, lull>>
vars   == <<pods, changes, home, told, rerun, mounted, sock, ws, intentional,
            held, loose, guard, calls, rows, tomb, loading, empty,
            error, lull, faults, late>>

Clusters == 0 .. MaxSwitches
Versions == 0 .. MaxChanges + 1

Free == [st |-> "none", muted |-> FALSE, on |-> None, chan |-> <<>>]
Ack  == [pod |-> None, from |-> 0, v |-> 0]
Fail == [pod |-> None, from |-> 0, v |-> 1]

Idle  == [st |-> "idle",  from |-> None, list |-> None]
Asked == [st |-> "asked", from |-> None, list |-> None]

Row(c, v) == IF v = 0 THEN None ELSE [from |-> c, v |-> v]
NoRows    == [n \in Names |-> None]
World     == [n \in Names |-> Row(home, pods[home][n])]

\* Sockets whose handlers still listen to a connection, established or not.
Live == {s \in Sockets : /\ sock[s].st \in {"connecting", "open", "silent"}
                         /\ ~sock[s].muted}

Init ==
    /\ pods \in [Clusters -> [Names -> {0, 1}]]
    /\ changes = 1 /\ home = 0 /\ told = 0 /\ rerun = FALSE /\ mounted = TRUE
    /\ sock = [s \in Sockets |-> Free]
    /\ ws = None /\ intentional = FALSE /\ guard = None
    /\ held = TRUE /\ loose = 0
    /\ calls = [k \in Calls |-> Idle]
    /\ rows = NoRows /\ tomb = {}
    /\ loading = TRUE /\ empty = FALSE /\ error = FALSE
    /\ lull = FALSE /\ faults = 0 /\ late = FALSE

-----------------------------------------------------------------------------
(* The server and the clusters, external. *)

Notice(n, c, v) == [pod |-> n, from |-> c, v |-> v]

\* A pod of a cluster is created, modified or deleted.
Change(c, n) ==
    /\ changes <= MaxChanges
    /\ changes' = changes + 1
    /\ \E v \in {0, changes'} :
          /\ v # pods[c][n]
          /\ pods' = [pods EXCEPT ![c][n] = v]
          /\ sock' = [s \in Sockets |->
                IF sock[s].st = "open" /\ sock[s].on = c
                THEN [sock[s] EXCEPT !.chan = Append(@, Notice(n, c, v))]
                ELSE sock[s]]
    /\ UNCHANGED <<home, told, rerun, mounted, ws, intentional, held, loose,
                   guard, calls, table, faults, late>>

\* The subscription arrives: an acknowledgement, then the pods there are, or
\* an error message.
Watch(s) ==
    /\ sock[s].st = "open" /\ sock[s].on = None
    /\ LET list == SetToSeq({n \in Names : pods[home][n] # 0})
           news == [i \in DOMAIN list |->
                        Notice(list[i], home, pods[home][list[i]])]
       IN  \/ /\ sock' = [sock EXCEPT ![s].on = home, ![s].chan = <<Ack>> \o news]
              /\ UNCHANGED faults
           \/ /\ faults < MaxFaults /\ faults' = faults + 1
              /\ sock' = [sock EXCEPT ![s].on = home,
                                      ![s].chan = <<Ack, Fail>> \o news]
    /\ UNCHANGED <<server, told, rerun, mounted, ws, intentional, held, loose,
                   guard, calls, table, late>>

\* The server selects another cluster; the page hears of it by Switched.
Switch ==
    /\ home < MaxSwitches /\ told = home /\ ~rerun
    /\ home' = home + 1
    /\ UNCHANGED <<pods, changes, told, rerun, mounted, link, calls, table, faults>>

\* The server answers /api/pods, or something on the way does: with a list,
\* with 500 to 504 or not at all (transient), or with another error.
Serve(k) ==
    /\ calls[k] = Asked
    /\ \/ /\ calls' = [calls EXCEPT ![k] =
                [st |-> "list", from |-> home, list |-> pods[home]]]
          /\ UNCHANGED faults
       \/ \E e \in {"transient", "refused"} :
             /\ faults < MaxFaults /\ faults' = faults + 1
             /\ calls' = [calls EXCEPT ![k] = [Asked EXCEPT !.st = e]]
    /\ UNCHANGED <<server, told, rerun, mounted, link, table>>

\* A connection, or an attempt, ends; the page learns of it by OnClose.
Lose(s) ==
    /\ sock[s].st \in {"connecting", "open"}
    /\ faults < MaxFaults /\ faults' = faults + 1
    /\ sock' = [sock EXCEPT ![s].st = "closing", ![s].chan = <<>>]
    /\ UNCHANGED <<server, told, rerun, mounted, ws, intentional, held, loose,
                   guard, calls, table, late>>

\* Nothing comes through any more, and nobody is told.
FallSilent(s) ==
    /\ sock[s].st = "open"
    /\ faults < MaxFaults /\ faults' = faults + 1
    /\ sock' = [sock EXCEPT ![s].st = "silent", ![s].chan = <<>>]
    /\ UNCHANGED <<server, told, rerun, mounted, ws, intentional, held, loose,
                   guard, calls, table, late>>

-----------------------------------------------------------------------------
(* The connection of the page. *)

\* reconnectTimeoutRef takes a new timer; one it held goes on ticking.
Schedule ==
    /\ held' = TRUE
    /\ loose' = IF held THEN loose + 1 ELSE loose

\* connect: whoever calls it, whatever connections there are.
Connect(s) ==
    /\ s = CHOOSE r \in Sockets : sock[r] = Free
    /\ sock[s] = Free
    /\ sock' = [sock EXCEPT ![s].st = "connecting"]
    /\ ws' = s
    /\ intentional' = FALSE

Dial(s) ==
    /\ \/ held /\ held' = FALSE /\ UNCHANGED loose
       \/ loose > 0 /\ loose' = loose - 1 /\ UNCHANGED held
    /\ Connect(s)
    /\ UNCHANGED <<server, told, rerun, mounted, guard, calls, table, faults, late>>

\* syncPodDetails starts; a call beyond the bound is one of those in flight.
Ask == IF \E k \in Calls : calls[k] = Idle
       THEN LET k == CHOOSE k \in Calls : calls[k] = Idle
            IN  calls' = [calls EXCEPT ![k] = Asked]
       ELSE UNCHANGED calls

\* Mutant of OnOpen: the watchdog interval is not started.
OnOpenUnguarded(s) ==
    /\ sock[s].st = "connecting"
    /\ sock' = [sock EXCEPT ![s].st = IF sock[s].muted \/ intentional
                                      THEN "closing" ELSE "open"]
    /\ IF sock[s].muted \/ intentional THEN UNCHANGED <<error, calls>>
                                       ELSE error' = FALSE /\ Ask
    /\ UNCHANGED <<server, told, rerun, mounted, ws, intentional, held, loose,
                   guard, rows, tomb, loading, empty, lull, faults, late>>

\* onopen: a socket that was hung up on while it connected is closed.
OnOpen(s) ==
    /\ sock[s].st = "connecting"
    /\ IF sock[s].muted \/ intentional
       THEN /\ sock' = [sock EXCEPT ![s].st = "closing"]
            /\ UNCHANGED <<guard, error, calls>>
       ELSE /\ sock' = [sock EXCEPT ![s].st = "open"]
            /\ guard' = s
            /\ error' = FALSE
            /\ Ask
    /\ UNCHANGED <<server, told, rerun, mounted, ws, intentional, held, loose,
                   rows, tomb, loading, empty, lull, faults, late>>

\* onclose: unless the page hung up, forget the socket and try again.
OnClose(s) ==
    /\ sock[s].st = "closing"
    /\ sock' = [sock EXCEPT ![s] = Free]
    /\ IF sock[s].muted \/ intentional
       THEN UNCHANGED <<ws, guard, held, loose, late>>
       ELSE /\ ws' = None
            /\ guard' = None
            /\ Schedule
            /\ late' = (late \/ ws # s)
    /\ UNCHANGED <<server, told, rerun, mounted, intentional, calls, table, faults>>

\* The watchdog interval: 45 seconds without a message.
Watchdog ==
    /\ guard # None
    /\ sock[guard].st = "silent"
    /\ sock' = [sock EXCEPT ![guard].st = "closing"]
    /\ UNCHANGED <<server, told, rerun, mounted, ws, intentional, held, loose,
                   guard, calls, table, faults, late>>

\* Mutant of HangUp: a socket that is still connecting is left as it is.
HangUpEstablished(s) ==
    [sock[s] EXCEPT !.st   = IF @ = "connecting" THEN @ ELSE "closing",
                    !.chan = <<>>]

\* disconnect: hang up on wsRef, and stop the timers the references hold.
HangUp(s) == [sock[s] EXCEPT !.muted = sock[s].st = "connecting",
                             !.st    = IF @ = "connecting" THEN @ ELSE "closing",
                             !.chan  = <<>>]

Disconnect ==
    /\ intentional' = TRUE
    /\ guard' = None
    /\ sock' = IF ws = None THEN sock ELSE [sock EXCEPT ![ws] = HangUp(ws)]
    /\ ws' = None
    /\ lull' = FALSE

-----------------------------------------------------------------------------
(* The rows. *)

Upsert(n, r) == IF n \in tomb THEN rows ELSE [rows EXCEPT ![n] = r]

\* onmessage of one pod.
OnPod(m) ==
    /\ loading' = FALSE /\ empty' = FALSE /\ lull' = FALSE
    /\ IF m.v = 0
       THEN /\ rows' = [rows EXCEPT ![m.pod] = None]
            /\ tomb' = tomb \cup {m.pod}
       ELSE /\ rows' = Upsert(m.pod, Row(m.from, m.v))
            /\ UNCHANGED tomb
    /\ UNCHANGED error

\* onmessage of the acknowledgement, and of an error.
OnAck   == lull' = TRUE /\ UNCHANGED <<rows, tomb, loading, empty, error>>
OnError == error' = TRUE /\ loading' = FALSE /\ UNCHANGED <<rows, tomb, empty, lull>>

OnMessage(s) ==
    /\ sock[s].st = "open" /\ sock[s].chan # <<>>
    /\ LET m == Head(sock[s].chan)
       IN  IF ~mounted THEN UNCHANGED table
           ELSE CASE m = Ack  -> OnAck
                  [] m = Fail -> OnError
                  [] OTHER    -> OnPod(m)
    /\ sock' = [sock EXCEPT ![s].chan = Tail(@)]
    /\ UNCHANGED <<server, told, rerun, mounted, ws, intentional, held, loose,
                   guard, calls, faults, late>>

\* Mutant of Merge: a row that is not in the list is kept.
MergeKeeps(list, from) ==
    [n \in Names |-> IF list[n] = 0 \/ (rows[n] = None /\ n \in tomb)
                    THEN rows[n] ELSE Row(from, list[n])]

\* The list answered by /api/pods decides which rows there are, except that a
\* pod just deleted is neither dropped nor added (missCount >= 1 always holds).
Merge(list, from) ==
    [n \in Names |->
        IF list[n] # 0
        THEN IF rows[n] = None /\ n \in tomb THEN None ELSE Row(from, list[n])
        ELSE IF n \in tomb THEN rows[n] ELSE None]

\* The rest of syncPodDetails, after its await.
Answer(k) ==
    /\ calls[k].st \notin {"idle", "asked"}
    /\ calls' = [calls EXCEPT ![k] = Idle]
    /\ IF ~mounted THEN UNCHANGED table
       ELSE IF calls[k].st = "list"
       THEN /\ rows' = Merge(calls[k].list, calls[k].from)
            /\ empty' = \A n \in Names : calls[k].list[n] = 0
            /\ loading' = FALSE /\ lull' = FALSE
            /\ UNCHANGED <<tomb, error>>
       ELSE /\ error' = (calls[k].st = "refused")
            /\ loading' = FALSE
            /\ UNCHANGED <<rows, tomb, empty, lull>>
    /\ UNCHANGED <<server, told, rerun, mounted, link, faults>>

-----------------------------------------------------------------------------
(* The page's timers and effects. *)

Poll ==
    /\ mounted
    /\ \E k \in Calls : calls[k] = Idle
    /\ Ask
    /\ UNCHANGED <<server, told, rerun, mounted, link, table, faults>>

\* 500 ms after a deletion its mark goes.
Unmark(n) ==
    /\ n \in tomb
    /\ tomb' = tomb \ {n}
    /\ UNCHANGED <<server, told, rerun, mounted, link, calls, rows, loading,
                   empty, error, lull, faults>>

\* Two seconds after the acknowledgement nothing has come: the list is empty.
Lull ==
    /\ lull
    /\ lull' = FALSE
    /\ loading' = FALSE /\ empty' = TRUE
    /\ UNCHANGED <<server, told, rerun, mounted, link, calls, rows, tomb, error, faults>>

\* The event cluster:switched.
Switched ==
    /\ mounted /\ told < home
    /\ told' = home
    /\ rows' = NoRows /\ tomb' = {}
    /\ loading' = TRUE /\ empty' = FALSE /\ error' = FALSE
    /\ rerun' = TRUE
    /\ UNCHANGED <<server, mounted, link, calls, lull, faults>>

\* The effect runs again: its cleanup, then a timer of 180 ms.
Effect ==
    /\ rerun /\ rerun' = FALSE
    /\ Disconnect
    /\ held' = TRUE
    /\ loading' = TRUE /\ empty' = FALSE
    /\ UNCHANGED <<server, told, mounted, loose, calls, rows, tomb, error, faults, late>>

Unmount ==
    /\ mounted /\ mounted' = FALSE
    /\ rerun' = FALSE
    /\ Disconnect
    /\ held' = FALSE
    /\ rows' = NoRows /\ tomb' = {}
    /\ loading' = TRUE /\ empty' = FALSE /\ error' = FALSE
    /\ UNCHANGED <<server, told, loose, calls, faults, late>>

Page(s) == Dial(s) \/ OnOpen(s) \/ OnClose(s) \/ OnMessage(s)

Next ==
    \/ \E c \in 0 .. home, n \in Names : Change(c, n)
    \/ Switch
    \/ \E s \in Sockets : Watch(s) \/ Lose(s) \/ FallSilent(s) \/ Page(s)
    \/ \E k \in Calls : Serve(k) \/ Answer(k)
    \/ \E n \in Names : Unmark(n)
    \/ Poll \/ Watchdog \/ Lull \/ Switched \/ Effect \/ Unmount

Spec == Init /\ [][Next]_vars

\* The browser runs its timers, callbacks and effects; the network and the
\* server deliver what they do not lose.  Nobody must change a pod, switch or leave.
Fairness ==
    /\ \A s \in Sockets : /\ WF_vars(Dial(s)) /\ WF_vars(OnOpen(s))
                          /\ WF_vars(OnClose(s)) /\ WF_vars(OnMessage(s))
                          /\ WF_vars(Watch(s))
    /\ \A k \in Calls : WF_vars(Serve(k)) /\ WF_vars(Answer(k))
    /\ \A n \in Names : WF_vars(Unmark(n))
    /\ WF_vars(Poll) /\ WF_vars(Watchdog) /\ WF_vars(Lull)
    /\ WF_vars(Switched) /\ WF_vars(Effect)

FairSpec == Spec /\ Fairness

-----------------------------------------------------------------------------
Notices == [pod : Names, from : Clusters, v : Versions] \cup {Ack, Fail}

TypeOK ==
    /\ pods \in [Clusters -> [Names -> Versions]]
    /\ changes \in 1 .. MaxChanges + 1
    /\ home \in Clusters /\ told \in Clusters /\ told <= home
    /\ {rerun, mounted, intentional, held, loading, empty, error, lull, late}
          \subseteq BOOLEAN
    /\ sock \in [Sockets -> [st : {"none", "connecting", "open", "silent", "closing"},
                             muted : BOOLEAN, on : Clusters \cup {None},
                             chan : Seq(Notices)]]
    /\ ws \in Sockets \cup {None} /\ guard \in Sockets \cup {None}
    /\ loose \in Nat
    /\ calls \in [Calls -> [st : {"idle", "asked", "list", "transient", "refused"},
                            from : Clusters \cup {None},
                            list : [Names -> Versions] \cup {None}]]
    /\ rows \in [Names -> [from : Clusters, v : Versions] \cup {None}]
    /\ tomb \subseteq Names
    /\ faults \in 0 .. MaxFaults

\* The page has one connection: unless the close of an old socket was handled
\* as if it were the new one's (late), wsRef is the only socket that listens,
\* no second connect is pending, and a page that was left keeps neither
\* socket nor timer.
OneConnection ==
    ~late => /\ Live \subseteq {ws}
             /\ loose = 0
             /\ held => ws = None
             /\ ~mounted => ws = None /\ ~held

\* At the end of all changes and faults the table is the cluster's: no ghost of
\* a deleted pod or of another cluster, none missing, none old, no spinner, and
\* "no pods" only when there are none -- whatever order the watch, the polls,
\* the marks of deletions and the switches came in.
Converges ==
    <>[](mounted => /\ rows = World
                    /\ ~loading
                    /\ empty => \A n \in Names : pods[home][n] = 0)

\* A page that stays is in the end subscribed to the cluster that is selected,
\* over a connection that is not silent.
Resubscribes ==
    <>[](mounted => \E s \in Sockets : sock[s].st = "open" /\ sock[s].on = home)

=============================================================================
