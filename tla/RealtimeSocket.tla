----------------------------- MODULE RealtimeSocket -----------------------------
(***************************************************************************)
(* The WebSocket every list hook of one browser tab shares                 *)
(* (frontend/src/hooks/useRealtimeResources.ts, the realtimeShared*        *)
(* module variables).                                                      *)
(*                                                                         *)
(* JavaScript runs one callback at a time, so each action is one callback: *)
(* a hook's effect or its cleanup, a socket's onopen or onclose, a timer.  *)
(* What interleaves is the order the browser delivers them in, and         *)
(* callbacks of a socket that has been replaced still run.                 *)
(*                                                                         *)
(* Left out: messages and what they carry (WatchStream), the retry delay   *)
(* (only the pending timer is kept), onerror (it only logs), and the       *)
(* catch around the constructor (the URL is built from window.location).   *)
(***************************************************************************)
EXTENDS Naturals, FiniteSets

CONSTANTS
    Hooks,        \* hook instances that may be mounted
    Resources,    \* resource kinds
    Watches,      \* the resource each hook instance subscribes to
    Sockets,      \* identities for WebSocket objects, recycled once closed
    None,
    MaxMounts,    \* bound on subscriptions ever made
    MaxRefreshes, \* bound on cluster switches
    MaxDrops,     \* bound on connections the network or the server ends
    MaxStalls     \* bound on connections that go silent without closing

ASSUME SocketAssumption ==
    /\ Watches \in [Hooks -> Resources]
    /\ None \notin Sockets
    /\ {MaxMounts, MaxRefreshes, MaxDrops, MaxStalls} \subseteq Nat

VARIABLES
    conn,      \* each WebSocket object
    shared,    \* realtimeSharedSocket
    inFlight,  \* realtimeSharedConnectInFlight
    intent,    \* realtimeSharedClosingIntentional
    monitor,   \* the socket the heartbeat and watchdog intervals close over
    timer,     \* realtimeSharedReconnectTimer is pending
    mounted,   \* hooks in realtimeResourceListeners
    mounts, refreshes, drops, stalls,
    early      \* history: the page hung up on a socket that was still
               \* connecting or already gone

pageVars  == <<shared, inFlight, intent, monitor, timer, mounted>>
boundVars == <<mounts, refreshes, drops, stalls>>
vars == <<conn, pageVars, boundVars, early>>

(* detached: safeCloseRealtimeSocket removed its handlers while it was     *)
(* connecting.  asked: subscribe messages the server received on it, each  *)
(* of which started a watch task there; an unsubscribe message stops none. *)
Conn == [state    : {"closed", "connecting", "open", "closing"},
         detached : BOOLEAN,
         silent   : BOOLEAN,
         asked    : [Resources -> Nat]]

Unused  == [state |-> "closed", detached |-> FALSE, silent |-> FALSE,
            asked |-> [r \in Resources |-> 0]]
Dialled == [Unused EXCEPT !.state = "connecting"]

Init ==
    /\ conn = [s \in Sockets |-> Unused]
    /\ shared = None /\ monitor = None
    /\ inFlight = FALSE /\ intent = FALSE /\ timer = FALSE
    /\ mounted = {} /\ early = FALSE
    /\ mounts = 0 /\ refreshes = 0 /\ drops = 0 /\ stalls = 0

Listened(hooks) == {Watches[h] : h \in hooks}
Is(s, states)   == s # None /\ conn[s].state \in states
Free            == {s \in Sockets : conn[s].state = "closed"}

(* safeCloseRealtimeSocket                                                 *)
SafeClose(k) ==
    CASE k.state = "connecting" -> [k EXCEPT !.detached = TRUE]
      [] k.state = "open"       -> [k EXCEPT !.state = "closing"]
      [] OTHER                  -> k

(* Mutant of MayDial: a socket that is still connecting does not count.    *)
MayDialUnlessOpen(hooks) ==
    ~Is(shared, {"open"}) /\ ~inFlight /\ hooks # {}

(* The three early returns of openRealtimeSharedSocket; hooks is what the  *)
(* listener map holds when it is called.                                   *)
MayDial(hooks) ==
    /\ ~Is(shared, {"open", "connecting"})
    /\ ~inFlight
    /\ hooks # {}

Dial(s) ==
    /\ conn' = [conn EXCEPT ![s] = Dialled]
    /\ shared' = s
    /\ inFlight' = TRUE

OpenShared(hooks) ==
    IF MayDial(hooks)
    THEN \E s \in Free : Dial(s)
    ELSE UNCHANGED <<conn, shared, inFlight>>

(* Mutant of AskFor: nothing is sent on a socket that is already open.     *)
AskForNothing(k, r) == k

(* One subscribe message, which starts one watch task on the server.       *)
AskFor(k, r) == [k EXCEPT !.asked[r] = @ + 1]

(* subscribeRealtimeResource: only the first listener of a resource asks   *)
(* the server for it, and only on an open socket.                          *)
Subscribe(h) ==
    /\ h \notin mounted
    /\ mounts < MaxMounts /\ mounts' = mounts + 1
    /\ mounted' = mounted \cup {h}
    /\ \/ /\ Is(shared, {"open"})
          /\ conn' = IF Watches[h] \in Listened(mounted) THEN conn
                     ELSE [conn EXCEPT ![shared] = AskFor(@, Watches[h])]
          /\ UNCHANGED <<shared, inFlight>>
       \/ ~Is(shared, {"open"}) /\ OpenShared(mounted')
    /\ UNCHANGED <<intent, monitor, timer, refreshes, drops, stalls, early>>

(* The tail of the cleanup subscribeRealtimeResource returns, once no      *)
(* listener is left.                                                       *)
HangUp ==
    /\ intent' = TRUE
    /\ timer' = FALSE /\ monitor' = None
    /\ early' = (early \/ ~Is(shared, {"open", "closing"}))

(* Mutant of Unsubscribe: the last listener leaves the socket running.     *)
UnsubscribeKeepsSocket(h) ==
    /\ h \in mounted
    /\ mounted' = mounted \ {h}
    /\ IF mounted' = {} /\ shared # None
       THEN HangUp /\ shared' = None /\ UNCHANGED conn
       ELSE UNCHANGED <<conn, shared, intent, timer, monitor, early>>
    /\ UNCHANGED <<inFlight, boundVars>>

Unsubscribe(h) ==
    /\ h \in mounted
    /\ mounted' = mounted \ {h}
    /\ IF mounted' = {} /\ shared # None
       THEN /\ HangUp
            /\ conn' = [conn EXCEPT ![shared] = SafeClose(@)]
            /\ shared' = None
       ELSE UNCHANGED <<conn, shared, intent, timer, monitor, early>>
    /\ UNCHANGED <<inFlight, boundVars>>

(* "cluster:switched" (ClusterSetupModal.tsx) bumps every hook's version:  *)
(* React runs all cleanups of the commit, then all effects again.          *)
Refresh ==
    /\ mounted # {}
    /\ refreshes < MaxRefreshes /\ refreshes' = refreshes + 1
    /\ IF shared = None
       THEN /\ OpenShared(mounted)
            /\ UNCHANGED <<intent, timer, monitor, early>>
       ELSE LET hung == [conn EXCEPT ![shared] = SafeClose(@)] IN
            /\ HangUp
            /\ IF inFlight
               THEN conn' = hung /\ shared' = None /\ UNCHANGED inFlight
               ELSE \E s \in Free : /\ conn' = [hung EXCEPT ![s] = Dialled]
                                    /\ shared' = s /\ inFlight' = TRUE
    /\ UNCHANGED <<mounted, mounts, drops, stalls>>

(* onopen.  The handler safeCloseRealtimeSocket leaves on a detached       *)
(* socket only closes it.                                                  *)
Opened(s) ==
    /\ conn[s].state = "connecting"
    /\ IF conn[s].detached \/ intent
       THEN /\ conn' = [conn EXCEPT ![s].state = "closing"]
            /\ inFlight' = (inFlight /\ conn[s].detached)
            /\ UNCHANGED <<monitor, timer>>
       ELSE /\ conn' = [conn EXCEPT ![s].state = "open",
                ![s].asked = [r \in Resources |->
                                IF r \in Listened(mounted) THEN 1 ELSE 0]]
            /\ inFlight' = FALSE
            /\ monitor' = s /\ timer' = FALSE
    /\ UNCHANGED <<shared, intent, mounted, boundVars, early>>

(* Mutant of OnClose: no reconnect is scheduled.                           *)
OnCloseNoRetry(s) ==
    IF conn[s].detached
    THEN UNCHANGED <<inFlight, intent, monitor, timer>>
    ELSE inFlight' = FALSE /\ intent' = FALSE /\ timer' = FALSE /\ monitor' = None

(* onclose; a detached socket has none.                                    *)
OnClose(s) ==
    IF conn[s].detached
    THEN UNCHANGED <<inFlight, intent, monitor, timer>>
    ELSE /\ inFlight' = FALSE
         /\ monitor' = None
         /\ timer' = (~intent /\ mounted # {})
         /\ intent' = FALSE

Ended(s) == conn' = [conn EXCEPT ![s] = Unused]

(* The closing handshake of a socket the page closed ends.                 *)
Closed(s) ==
    /\ conn[s].state = "closing"
    /\ Ended(s)
    /\ OnClose(s)
    /\ UNCHANGED <<shared, mounted, boundVars, early>>

(* The network, a proxy or the server ends a connection or refuses it.     *)
Dropped(s) ==
    /\ conn[s].state \in {"connecting", "open"}
    /\ drops < MaxDrops /\ drops' = drops + 1
    /\ Ended(s)
    /\ OnClose(s)
    /\ UNCHANGED <<shared, mounted, mounts, refreshes, stalls, early>>

(* A connection stops carrying messages without being closed.              *)
Stalled(s) ==
    /\ conn[s].state = "open" /\ ~conn[s].silent
    /\ stalls < MaxStalls /\ stalls' = stalls + 1
    /\ conn' = [conn EXCEPT ![s].silent = TRUE]
    /\ UNCHANGED <<pageVars, mounts, refreshes, drops, early>>

(* realtimeSharedStaleWatchdogTimer, once nothing came for 45 s.           *)
Watchdog ==
    /\ Is(monitor, {"open"}) /\ conn[monitor].silent
    /\ conn' = [conn EXCEPT ![monitor].state = "closing"]
    /\ UNCHANGED <<pageVars, boundVars, early>>

(* realtimeSharedReconnectTimer                                            *)
Reconnect ==
    /\ timer
    /\ timer' = FALSE
    /\ OpenShared(mounted)
    /\ UNCHANGED <<intent, monitor, mounted, boundVars, early>>

Next ==
    \/ \E h \in Hooks : Subscribe(h) \/ Unsubscribe(h)
    \/ \E s \in Sockets : Opened(s) \/ Closed(s) \/ Dropped(s) \/ Stalled(s)
    \/ Refresh \/ Watchdog \/ Reconnect

Spec == Init /\ [][Next]_vars

(* The browser fires the timers it holds, and ends a handshake: an attempt *)
(* to connect opens unless something drops it, a close completes.  Nothing *)
(* makes users mount, unmount or switch.                                   *)
Browser ==
    /\ WF_vars(Watchdog)
    /\ WF_vars(Reconnect)
    /\ \A s \in Sockets : WF_vars(Opened(s)) /\ WF_vars(Closed(s))

FairSpec == Spec /\ Browser

-----------------------------------------------------------------------------
TypeOK ==
    /\ conn \in [Sockets -> Conn]
    /\ shared \in Sockets \cup {None} /\ monitor \in Sockets \cup {None}
    /\ {inFlight, intent, timer, early} \subseteq BOOLEAN
    /\ mounted \subseteq Hooks
    /\ {mounts, refreshes, drops, stalls} \subseteq Nat

Live(s) == conn[s].state \in {"connecting", "open"} /\ ~conn[s].detached

Watched(h) ==
    /\ Is(shared, {"open"})
    /\ ~conn[shared].silent
    /\ conn[shared].asked[Watches[h]] > 0

(* The tab never has two connections whose messages reach the listeners,   *)
(* whatever late onclose of a replaced socket resets the in-flight flag:   *)
(* a second one would deliver every event twice, and nothing could close   *)
(* it.                                                                     *)
SingleSocket == \A s \in Sockets : Live(s) => s = shared

(* On the open shared socket the server was asked for every resource a     *)
(* mounted hook listens to, whether the hook came before the socket        *)
(* opened, after, or instead of another one that left.                     *)
LiveIsSubscribed ==
    Is(shared, {"open"}) =>
        \A h \in mounted : conn[shared].asked[Watches[h]] >= 1

(* The inductive invariant behind both.                                    *)
Inv == TypeOK /\ SingleSocket /\ LiveIsSubscribed

Closing(s) == conn[s].state = "closing" /\ ~conn[s].detached

(* While a hook listens something is under way that leads to a connection: *)
(* one is open or connecting, a retry is scheduled, or a socket is closing *)
(* whose onclose will schedule it - two, when the first of them will take  *)
(* its close for the deliberate one.  The exception is a page that hung up *)
(* early: the flags it raised then are lowered by the handlers it removed. *)
NeverStranded ==
    mounted # {} /\ ~early =>
        \/ Is(shared, {"connecting", "open"})
        \/ timer
        \/ \E s \in Sockets :
              /\ Closing(s)
              /\ ~intent \/ \E t \in Sockets \ {s} : Closing(t)

(* A mounted hook receives watch events sooner or later, through drops,    *)
(* silent connections and cluster switches.                                *)
AlwaysWatched ==
    \A h \in Hooks : h \in mounted ~> Watched(h) \/ h \notin mounted

(* The onclose of an older socket took the watchdog of the one that went   *)
(* silent.                                                                 *)
Unmonitored ==
    Is(shared, {"open"}) /\ conn[shared].silent /\ monitor # shared

(* The two ways in which AlwaysWatched fails are the only ones.            *)
EventuallyWatched ==
    \A h \in Hooks :
        h \in mounted ~> Watched(h) \/ h \notin mounted \/ early \/ Unmonitored

=============================================================================
