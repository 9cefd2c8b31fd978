-------------------------- MODULE RealtimeSocketProofs --------------------------
(***************************************************************************)
(* Theorems about the shared WebSocket, for every number of hooks, sockets *)
(* and faults.                                                             *)
(*                                                                         *)
(* Inv is inductive: what the handlers of a replaced socket can do to the  *)
(* flags does not matter for SingleSocket, because dialling looks at the   *)
(* state of the shared socket itself, and LiveIsSubscribed needs           *)
(* SingleSocket, because onopen subscribes on the socket that opened.      *)
(***************************************************************************)
EXTENDS RealtimeSocket, TLAPS

(* What the page stores in the connection table is always a connection.    *)
LEMMA ConnTyped ==
    /\ Unused \in Conn
    /\ Dialled \in Conn
    /\ \A k \in Conn : SafeClose(k) \in Conn
    /\ \A k \in Conn, r \in Resources : AskFor(k, r) \in Conn
    /\ \A k \in Conn, r \in Resources, q \in Resources :
          AskFor(k, r).asked[q] = IF q = r THEN k.asked[q] + 1 ELSE k.asked[q]
  <1>1. Unused \in Conn
    BY DEF Conn, Unused
  <1>2. Dialled \in Conn
    BY <1>1 DEF Conn, Dialled
  <1>3. \A k \in Conn : SafeClose(k) \in Conn
    BY DEF Conn, SafeClose
  <1>4. ASSUME NEW k \in Conn, NEW r \in Resources
        PROVE  /\ AskFor(k, r) \in Conn
               /\ \A q \in Resources : AskFor(k, r).asked[q] =
                     IF q = r THEN k.asked[q] + 1 ELSE k.asked[q]
    BY DEF Conn, AskFor
  <1> QED
    BY <1>1, <1>2, <1>3, <1>4

(* A connection that was closed by the page is no longer live.             *)
LEMMA SafeCloseEnds ==
    ASSUME NEW k \in Conn
    PROVE  /\ SafeClose(k).state # "open"
           /\ SafeClose(k).state = "connecting" => SafeClose(k).detached
           /\ SafeClose(k).detached = k.detached \/ SafeClose(k).detached
  BY DEF Conn, SafeClose

LEMMA InitInv == Init => Inv
  <1> SUFFICES ASSUME Init PROVE Inv
    OBVIOUS
  <1>1. \A s \in Sockets : conn[s].state = "closed"
    BY DEF Init, Unused
  <1>2. TypeOK
    <2>1. conn \in [Sockets -> Conn]
      BY ConnTyped DEF Init
    <2>2. /\ {inFlight, intent, timer, early} \subseteq BOOLEAN
          /\ shared \in Sockets \cup {None} /\ monitor \in Sockets \cup {None}
      BY DEF Init
    <2>3. {mounts, refreshes, drops, stalls} \subseteq Nat /\ mounted \subseteq Hooks
      BY DEF Init
    <2> QED
      BY <2>1, <2>2, <2>3 DEF TypeOK
  <1> QED
    BY <1>1, <1>2 DEF Init, Inv, SingleSocket, Live, LiveIsSubscribed, Is

(* A dial happens only when no connection is live, so the new socket is    *)
(* the only live one, and it is not open yet.                              *)
LEMMA DialInv ==
    ASSUME Inv, NEW s \in Free, Dial(s), ~Is(shared, {"open", "connecting"})
    PROVE  /\ conn' \in [Sockets -> Conn] /\ shared' \in Sockets
           /\ SingleSocket' /\ ~Is(shared, {"open"})'
  <1>1. conn' = [conn EXCEPT ![s] = Dialled] /\ shared' = s /\ s \in Sockets
    BY DEF Dial, Free
  <1>2. conn \in [Sockets -> Conn]
    BY DEF Inv, TypeOK
  <1>3. \A t \in Sockets : ~Live(t)
    BY SocketAssumption DEF Inv, SingleSocket, Live, Is
  <1>4. conn' \in [Sockets -> Conn]
    BY <1>1, <1>2, ConnTyped
  <1>5. conn'[s].state = "connecting"
    BY <1>1, <1>2 DEF Dialled, Unused
  <1>6. SingleSocket'
    BY <1>1, <1>2, <1>3 DEF SingleSocket, Live
  <1> QED
    BY <1>1, <1>4, <1>5, <1>6, SocketAssumption DEF Is

(* The same of the call every caller makes.                                *)
LEMMA OpenSharedInv ==
    ASSUME Inv, NEW hooks, OpenShared(hooks)
    PROVE  /\ conn' \in [Sockets -> Conn] /\ shared' \in Sockets \cup {None}
           /\ inFlight' \in BOOLEAN
           /\ SingleSocket'
           /\ Is(shared, {"open"})' => UNCHANGED <<conn, shared>>
  <1>1. CASE MayDial(hooks)
    <2>1. PICK s \in Free : Dial(s)
      BY <1>1 DEF OpenShared
    <2> QED
      BY <1>1, <2>1, DialInv DEF MayDial, Dial
  <1>2. CASE ~MayDial(hooks)
    BY <1>2 DEF OpenShared, Inv, TypeOK, SingleSocket, Live
  <1> QED
    BY <1>1, <1>2

(* Hanging up leaves no live connection.                                   *)
LEMMA HangUpInv ==
    ASSUME Inv, shared # None
    PROVE  LET hung == [conn EXCEPT ![shared] = SafeClose(@)] IN
           /\ hung \in [Sockets -> Conn]
           /\ \A t \in Sockets : ~(/\ hung[t].state \in {"connecting", "open"}
                                   /\ ~hung[t].detached)
  <1> DEFINE hung == [conn EXCEPT ![shared] = SafeClose(@)]
  <1>1. conn \in [Sockets -> Conn] /\ shared \in Sockets
    BY DEF Inv, TypeOK
  <1>2. hung \in [Sockets -> Conn]
    BY <1>1, ConnTyped
  <1>3. ASSUME NEW t \in Sockets
        PROVE  ~(/\ hung[t].state \in {"connecting", "open"} /\ ~hung[t].detached)
    <2>1. CASE t = shared
      BY <1>1, <2>1, SafeCloseEnds
    <2>2. CASE t # shared
      BY <1>1, <2>2 DEF Inv, SingleSocket, Live
    <2> QED
      BY <2>1, <2>2
  <1> QED
    BY <1>2, <1>3

LEMMA SubscribeInv ==
    ASSUME Inv, NEW h \in Hooks, Subscribe(h)
    PROVE  Inv'
  <1>1. mounted' = mounted \cup {h} /\ mounts' \in Nat
    BY DEF Subscribe, Inv, TypeOK
  <1>2. UNCHANGED <<intent, monitor, timer, refreshes, drops, stalls, early>>
    BY DEF Subscribe
  <1>3. CASE Is(shared, {"open"})
    <2> DEFINE r == Watches[h]
               asks == r \notin Listened(mounted)
    <2>1. /\ conn' = IF asks THEN [conn EXCEPT ![shared] = AskFor(@, r)] ELSE conn
          /\ UNCHANGED <<shared, inFlight>>
      BY <1>3 DEF Subscribe, OpenShared
    <2>2. /\ conn \in [Sockets -> Conn] /\ shared \in Sockets /\ r \in Resources
          /\ Watches \in [Hooks -> Resources] /\ mounted \subseteq Hooks
      BY <1>3, SocketAssumption DEF Inv, TypeOK, Is
    <2>3. conn' \in [Sockets -> Conn]
      BY <2>1, <2>2, ConnTyped
    <2>4. \A s \in Sockets : /\ conn'[s].state = conn[s].state
                             /\ conn'[s].detached = conn[s].detached
      BY <2>1, <2>2 DEF Conn, AskFor
    <2>5. \A q \in Resources :
              conn'[shared].asked[q] = IF asks /\ q = r THEN conn[shared].asked[q] + 1
                                       ELSE conn[shared].asked[q]
      BY <2>1, <2>2, ConnTyped
    <2>6. conn[shared].asked \in [Resources -> Nat]
      BY <2>2 DEF Conn
    <2>7. LiveIsSubscribed'
      <3>1. \A g \in mounted : conn[shared].asked[Watches[g]] >= 1
        BY <1>3 DEF Inv, LiveIsSubscribed
      <3>2. ~asks => \E g \in mounted : Watches[g] = r
        BY DEF Listened
      <3>3. \A g \in mounted' : conn'[shared].asked[Watches[g]] >= 1
        BY <1>1, <2>2, <2>5, <2>6, <3>1, <3>2
      <3> QED
        BY <2>1, <3>3 DEF LiveIsSubscribed
    <2> QED
      BY <1>1, <1>2, <2>1, <2>2, <2>3, <2>4, <2>7
         DEF Inv, TypeOK, SingleSocket, Live
  <1>4. CASE ~Is(shared, {"open"})
    <2>1. OpenShared(mounted')
      BY <1>4 DEF Subscribe
    <2>2. ~Is(shared, {"open"})'
      BY <1>4, <2>1, OpenSharedInv DEF Is
    <2> QED
      BY <1>1, <1>2, <2>1, <2>2, OpenSharedInv DEF Inv, TypeOK, LiveIsSubscribed
  <1> QED
    BY <1>3, <1>4

LEMMA UnsubscribeInv ==
    ASSUME Inv, NEW h \in Hooks, Unsubscribe(h)
    PROVE  Inv'
  <1>1. mounted' \subseteq mounted /\ UNCHANGED <<inFlight, boundVars>>
    BY DEF Unsubscribe
  <1>2. CASE mounted' = {} /\ shared # None
    <2>1. HangUp /\ conn' = [conn EXCEPT ![shared] = SafeClose(@)] /\ shared' = None
      BY <1>2 DEF Unsubscribe
    <2> QED
      BY <1>1, <1>2, <2>1, HangUpInv
         DEF HangUp, Inv, TypeOK, SingleSocket, Live, LiveIsSubscribed, Is, boundVars
  <1>3. CASE ~(mounted' = {} /\ shared # None)
    <2>1. UNCHANGED <<conn, shared, intent, timer, monitor, early>>
      BY <1>3 DEF Unsubscribe
    <2> QED
      BY <1>1, <2>1
         DEF Inv, TypeOK, SingleSocket, Live, LiveIsSubscribed, Is, boundVars
  <1> QED
    BY <1>2, <1>3

LEMMA RefreshInv ==
    ASSUME Inv, Refresh
    PROVE  Inv'
  <1>1. refreshes' \in Nat /\ UNCHANGED <<mounted, mounts, drops, stalls>>
    BY DEF Refresh, Inv, TypeOK
  <1>2. CASE shared = None
    <2>1. OpenShared(mounted) /\ UNCHANGED <<intent, timer, monitor, early>>
      BY <1>2 DEF Refresh
    <2>2. ~Is(shared, {"open"})'
      BY <1>2, <2>1, OpenSharedInv DEF Is
    <2> QED
      BY <1>1, <2>1, <2>2, OpenSharedInv DEF Inv, TypeOK, LiveIsSubscribed
  <1>3. CASE shared # None
    <2> DEFINE hung == [conn EXCEPT ![shared] = SafeClose(@)]
    <2>1. intent' = TRUE /\ timer' = FALSE /\ monitor' = None /\ early' \in BOOLEAN
      BY <1>3 DEF Refresh, HangUp
    <2>2. /\ hung \in [Sockets -> Conn]
          /\ \A t \in Sockets : ~(/\ hung[t].state \in {"connecting", "open"}
                                  /\ ~hung[t].detached)
      BY <1>3, HangUpInv
    <2> HIDE DEF hung
    <2>3. CASE inFlight
      <3>1. conn' = hung /\ shared' = None /\ inFlight' = inFlight
        BY <1>3, <2>3 DEF Refresh, hung
      <3> QED
        BY <1>1, <2>1, <2>2, <3>1
           DEF Inv, TypeOK, SingleSocket, Live, LiveIsSubscribed, Is
    <2>4. CASE ~inFlight
      <3>1. PICK s \in Free : /\ conn' = [hung EXCEPT ![s] = Dialled]
                              /\ shared' = s /\ inFlight' = TRUE
        BY <1>3, <2>4 DEF Refresh, hung
      <3>2. s \in Sockets
        BY DEF Free
      <3>3. conn' \in [Sockets -> Conn] /\ conn'[s] = Dialled
        BY <2>2, <3>1, <3>2, ConnTyped
      <3>4. Dialled.state = "connecting"
        BY DEF Dialled, Unused
      <3>5. SingleSocket'
        BY <2>2, <3>1, <3>2 DEF SingleSocket, Live
      <3>6. LiveIsSubscribed'
        BY <3>1, <3>3, <3>4 DEF LiveIsSubscribed, Is
      <3> QED
        BY <1>1, <2>1, <3>1, <3>2, <3>3, <3>5, <3>6 DEF Inv, TypeOK
    <2> QED
      BY <2>3, <2>4
  <1> QED
    BY <1>2, <1>3

LEMMA OpenedInv ==
    ASSUME Inv, NEW s \in Sockets, Opened(s)
    PROVE  Inv'
  <1>1. /\ conn \in [Sockets -> Conn] /\ mounted \subseteq Hooks
        /\ Watches \in [Hooks -> Resources] /\ conn[s].state = "connecting"
        /\ UNCHANGED <<shared, intent, mounted, boundVars, early>>
    BY SocketAssumption DEF Inv, TypeOK, Opened
  <1>2. CASE conn[s].detached \/ intent
    <2>1. /\ conn' = [conn EXCEPT ![s].state = "closing"]
          /\ inFlight' = (inFlight /\ conn[s].detached)
          /\ UNCHANGED <<monitor, timer>>
      BY <1>2 DEF Opened
    <2>2. conn' \in [Sockets -> Conn]
      BY <1>1, <2>1 DEF Conn
    <2>3. conn[s].detached \in BOOLEAN
      BY <1>1 DEF Conn
    <2>4. inFlight' \in BOOLEAN
      BY <2>1
    <2> QED
      BY <1>1, <2>1, <2>2, <2>4
         DEF Inv, TypeOK, SingleSocket, Live, LiveIsSubscribed, Is, boundVars
  <1>3. CASE ~(conn[s].detached \/ intent)
    <2> DEFINE all == [r \in Resources |-> IF r \in Listened(mounted) THEN 1 ELSE 0]
    <2>1. /\ conn' = [conn EXCEPT ![s].state = "open", ![s].asked = all]
          /\ inFlight' = FALSE /\ monitor' = s /\ timer' = FALSE
      BY <1>3 DEF Opened
    <2>2. all \in [Resources -> Nat] /\ \A h \in mounted : all[Watches[h]] >= 1
      BY <1>1 DEF Listened
    <2> HIDE DEF all
    <2>3. conn' \in [Sockets -> Conn]
      BY <1>1, <2>1, <2>2 DEF Conn
    <2>4. s = shared
      BY <1>1, <1>3 DEF Inv, SingleSocket, Live
    <2>5. conn'[s].asked = all
      BY <1>1, <2>1 DEF Conn
    <2> QED
      BY <1>1, <2>1, <2>2, <2>3, <2>4, <2>5
         DEF Inv, TypeOK, SingleSocket, Live, LiveIsSubscribed, Is, boundVars
  <1> QED
    BY <1>2, <1>3

(* Closed and Dropped: the socket ends and its onclose runs.               *)
LEMMA EndedInv ==
    ASSUME Inv, NEW s \in Sockets, Ended(s), OnClose(s),
           UNCHANGED <<shared, mounted, early>>,
           {mounts', refreshes', drops', stalls'} \subseteq Nat
    PROVE  Inv'
  <1>1. conn \in [Sockets -> Conn] /\ conn' = [conn EXCEPT ![s] = Unused]
    BY DEF Inv, TypeOK, Ended
  <1>2. conn' \in [Sockets -> Conn] /\ conn'[s] = Unused /\ Unused.state = "closed"
    BY <1>1, ConnTyped DEF Unused
  <1>3. /\ monitor' \in Sockets \cup {None}
        /\ {inFlight', intent', timer'} \subseteq BOOLEAN
    BY DEF OnClose, Inv, TypeOK
  <1> QED
    BY <1>1, <1>2, <1>3 DEF Inv, TypeOK, SingleSocket, Live, LiveIsSubscribed, Is

LEMMA NextInv == Inv /\ [Next]_vars => Inv'
  <1> SUFFICES ASSUME Inv, [Next]_vars PROVE Inv'
    OBVIOUS
  <1> USE DEF boundVars
  <1>1. ASSUME NEW h \in Hooks, Subscribe(h) \/ Unsubscribe(h) PROVE Inv'
    BY <1>1, SubscribeInv, UnsubscribeInv
  <1>2. CASE Refresh
    BY <1>2, RefreshInv
  <1>3. ASSUME NEW s \in Sockets, Opened(s) PROVE Inv'
    BY <1>3, OpenedInv
  <1>4. ASSUME NEW s \in Sockets, Closed(s) \/ Dropped(s) PROVE Inv'
    <2>1. {mounts', refreshes', drops', stalls'} \subseteq Nat
      BY <1>4 DEF Closed, Dropped, Inv, TypeOK
    <2> QED
      BY <1>4, <2>1, EndedInv DEF Closed, Dropped
  <1>5. ASSUME NEW s \in Sockets, Stalled(s) PROVE Inv'
    <2>1. /\ conn' = [conn EXCEPT ![s].silent = TRUE] /\ stalls' \in Nat
          /\ UNCHANGED <<pageVars, mounts, refreshes, drops, early>>
      BY <1>5 DEF Stalled, Inv, TypeOK
    <2>2. conn \in [Sockets -> Conn] /\ conn' \in [Sockets -> Conn]
      BY <2>1 DEF Inv, TypeOK, Conn
    <2>3. \A t \in Sockets : /\ conn'[t].state = conn[t].state
                             /\ conn'[t].detached = conn[t].detached
                             /\ conn'[t].asked = conn[t].asked
      BY <2>1, <2>2 DEF Conn
    <2> QED
      BY <2>1, <2>2, <2>3
         DEF Inv, TypeOK, SingleSocket, Live, LiveIsSubscribed, Is, pageVars
  <1>6. CASE Watchdog
    <2>1. /\ conn' = [conn EXCEPT ![monitor].state = "closing"]
          /\ UNCHANGED <<pageVars, boundVars, early>>
      BY <1>6 DEF Watchdog
    <2>2. conn \in [Sockets -> Conn] /\ conn' \in [Sockets -> Conn]
      BY <2>1 DEF Inv, TypeOK, Conn
    <2> QED
      BY <2>1, <2>2
         DEF Inv, TypeOK, SingleSocket, Live, LiveIsSubscribed, Is, pageVars
  <1>7. CASE Reconnect
    <2>1. /\ timer' = FALSE /\ OpenShared(mounted)
          /\ UNCHANGED <<intent, monitor, mounted, boundVars, early>>
      BY <1>7 DEF Reconnect
    <2>2. LiveIsSubscribed'
      BY <2>1, OpenSharedInv DEF Inv, LiveIsSubscribed, Is
    <2> QED
      BY <2>1, <2>2, OpenSharedInv DEF Inv, TypeOK
  <1>8. CASE UNCHANGED vars
    BY <1>8 DEF vars, pageVars, Inv, TypeOK, SingleSocket, Live, LiveIsSubscribed, Is
  <1> QED
    BY <1>1, <1>2, <1>3, <1>4, <1>5, <1>6, <1>7, <1>8 DEF Next

(* The types and both of the following hold together, for any hooks.       *)
THEOREM SocketStaysInOrder == Spec => []Inv
  BY InitInv, NextInv, PTL DEF Spec

(* At most one connection of the tab is live, however connections overlap. *)
THEOREM OneSocketServesAll == Spec => []SingleSocket
  <1>1. Inv => SingleSocket
    BY DEF Inv
  <1> QED
    BY <1>1, SocketStaysInOrder, PTL

(* On the connection that is live the server was asked for everything that *)
(* is listened to.                                                         *)
THEOREM LiveSocketIsAsked == Spec => []LiveIsSubscribed
  <1>1. Inv => LiveIsSubscribed
    BY DEF Inv
  <1> QED
    BY <1>1, SocketStaysInOrder, PTL

-----------------------------------------------------------------------------
(* As long as the page never hung up early, no socket is detached, the     *)
(* in-flight flag means a connection is being opened, and while the        *)
(* closing flag is up some deliberate close is still going on: its onclose *)
(* lowers the flag, and nothing that relies on a reconnect is open or      *)
(* scheduled meanwhile.                                                    *)
NoneDetached   == \A s \in Sockets : ~conn[s].detached
FlightIsReal   == inFlight => Is(shared, {"connecting"})
IntentIsServed == intent => /\ \E s \in Sockets : Closing(s)
                            /\ ~timer /\ ~Is(shared, {"open"})

Steady == ~early => NoneDetached /\ FlightIsReal /\ IntentIsServed /\ NeverStranded

LEMMA InitSteady == Init => Steady
  <1>1. \A s \in Sockets : Init => ~conn[s].detached
    BY DEF Init, Unused
  <1> QED
    BY <1>1 DEF Init, Steady, NoneDetached, FlightIsReal, IntentIsServed, NeverStranded

(* Dialling takes an unused socket, so those that are closing go on.       *)
LEMMA OpenSharedSteady ==
    ASSUME Inv, NoneDetached, FlightIsReal, NEW hooks, hooks # {}, OpenShared(hooks)
    PROVE  /\ NoneDetached' /\ FlightIsReal'
           /\ Is(shared, {"connecting", "open"})'
           /\ Is(shared, {"open"})' => Is(shared, {"open"})
           /\ \A s \in Sockets : Closing(s) => Closing(s)'
  <1>1. CASE MayDial(hooks)
    <2>1. PICK s \in Free : Dial(s)
      BY <1>1 DEF OpenShared
    <2>2. /\ s \in Sockets /\ conn \in [Sockets -> Conn] /\ conn[s].state = "closed"
          /\ conn' = [conn EXCEPT ![s] = Dialled] /\ shared' = s
      BY <2>1 DEF Dial, Free, Inv, TypeOK
    <2>3. Dialled.state = "connecting" /\ ~Dialled.detached
      BY DEF Dialled, Unused
    <2> QED
      BY <2>2, <2>3, SocketAssumption DEF Is, NoneDetached, FlightIsReal, Closing
  <1>2. CASE ~MayDial(hooks)
    BY <1>2 DEF OpenShared, MayDial, NoneDetached, FlightIsReal, Is, Closing
  <1> QED
    BY <1>1, <1>2

(* Hanging up on a socket that is open or closing leaves it closing.       *)
LEMMA HangUpSteady ==
    ASSUME Inv, NoneDetached, Is(shared, {"open", "closing"})
    PROVE  LET hung == [conn EXCEPT ![shared] = SafeClose(@)] IN
           /\ \A s \in Sockets : ~hung[s].detached
           /\ hung[shared].state = "closing"
  BY DEF Inv, TypeOK, Conn, NoneDetached, Is, SafeClose

LEMMA SubscribeSteady ==
    ASSUME Inv, Steady, NEW h \in Hooks, Subscribe(h)
    PROVE  Steady'
  <1> SUFFICES ASSUME ~early
               PROVE  (NoneDetached /\ FlightIsReal /\ IntentIsServed /\ NeverStranded)'
    BY DEF Steady, Subscribe
  <1>1. /\ mounted' = mounted \cup {h} /\ UNCHANGED <<intent, timer>>
        /\ conn \in [Sockets -> Conn]
        /\ NoneDetached /\ FlightIsReal /\ IntentIsServed /\ NeverStranded
    BY DEF Subscribe, Steady, Inv, TypeOK
  <1>2. CASE Is(shared, {"open"})
    <2>1. /\ UNCHANGED <<shared, inFlight>>
          /\ \/ conn' = conn
             \/ conn' = [conn EXCEPT ![shared] = AskFor(@, Watches[h])]
      BY <1>2 DEF Subscribe, OpenShared
    <2>2. shared \in Sockets
      BY <1>2 DEF Is, Inv, TypeOK
    <2>3. \A s \in Sockets : /\ conn'[s].state = conn[s].state
                             /\ conn'[s].detached = conn[s].detached
      BY <1>1, <2>1, <2>2 DEF AskFor, Conn
    <2> QED
      BY <1>1, <1>2, <2>1, <2>2, <2>3
         DEF NoneDetached, FlightIsReal, IntentIsServed, NeverStranded, Closing, Is
  <1>3. CASE ~Is(shared, {"open"})
    <2>1. OpenShared(mounted') /\ mounted' # {}
      BY <1>1, <1>3 DEF Subscribe
    <2> QED
      BY <1>1, <2>1, OpenSharedSteady DEF IntentIsServed, NeverStranded
  <1> QED
    BY <1>2, <1>3

LEMMA UnsubscribeSteady ==
    ASSUME Inv, Steady, NEW h \in Hooks, Unsubscribe(h)
    PROVE  Steady'
  <1> SUFFICES ASSUME ~early'
               PROVE  (NoneDetached /\ FlightIsReal /\ IntentIsServed /\ NeverStranded)'
    BY DEF Steady
  <1>1. CASE mounted' = {} /\ shared # None
    <2>1. /\ ~early /\ Is(shared, {"open", "closing"}) /\ shared \in Sockets
          /\ intent' = TRUE /\ timer' = FALSE /\ shared' = None /\ inFlight' = inFlight
          /\ conn' = [conn EXCEPT ![shared] = SafeClose(@)]
      BY <1>1 DEF Unsubscribe, HangUp, Inv, TypeOK
    <2>2. NoneDetached /\ FlightIsReal
      BY <2>1 DEF Steady
    <2>3. NoneDetached'
      BY <2>1, <2>2, HangUpSteady DEF NoneDetached, Closing
    <2>4. ~inFlight
      BY <2>1, <2>2 DEF FlightIsReal, Is
    <2>5. \E s \in Sockets : Closing(s)'
      BY <2>1, <2>2, HangUpSteady DEF Closing
    <2> QED
      BY <1>1, <2>1, <2>3, <2>4, <2>5 DEF FlightIsReal, IntentIsServed, NeverStranded, Is
  <1>2. CASE ~(mounted' = {} /\ shared # None)
    <2>1. UNCHANGED <<conn, shared, intent, timer, inFlight, early>> /\ mounted' \subseteq mounted
      BY <1>2 DEF Unsubscribe
    <2> QED
      BY <2>1 DEF Steady, NoneDetached, FlightIsReal, IntentIsServed, NeverStranded,
                  Closing, Is
  <1> QED
    BY <1>1, <1>2

LEMMA RefreshSteady ==
    ASSUME Inv, Steady, Refresh
    PROVE  Steady'
  <1> SUFFICES ASSUME ~early'
               PROVE  (NoneDetached /\ FlightIsReal /\ IntentIsServed /\ NeverStranded)'
    BY DEF Steady
  <1>1. CASE shared = None
    <2>1. OpenShared(mounted) /\ mounted # {} /\ UNCHANGED <<intent, timer, mounted, early>>
      BY <1>1 DEF Refresh
    <2>2. NoneDetached /\ FlightIsReal /\ IntentIsServed
      BY <2>1 DEF Steady
    <2> QED
      BY <2>1, <2>2, OpenSharedSteady DEF IntentIsServed, NeverStranded
  <1>2. CASE shared # None
    <2> DEFINE hung == [conn EXCEPT ![shared] = SafeClose(@)]
    <2>1. /\ ~early /\ Is(shared, {"open", "closing"}) /\ shared \in Sockets
          /\ intent' = TRUE /\ timer' = FALSE /\ mounted' = mounted
      BY <1>2 DEF Refresh, HangUp, Inv, TypeOK
    <2>2. NoneDetached /\ ~inFlight
      BY <2>1 DEF Steady, FlightIsReal, Is
    <2>3. PICK s \in Free : /\ conn' = [hung EXCEPT ![s] = Dialled]
                            /\ shared' = s /\ inFlight' = TRUE
      BY <1>2, <2>2 DEF Refresh
    <2>4. s \in Sockets /\ s # shared
      BY <2>1, <2>3 DEF Free, Is
    <2>5. /\ \A t \in Sockets : ~hung[t].detached
          /\ hung[shared].state = "closing" /\ DOMAIN hung = Sockets
      BY <2>1, <2>2, HangUpSteady DEF Inv, TypeOK
    <2> HIDE DEF hung
    <2>6. Dialled.state = "connecting" /\ ~Dialled.detached
      BY DEF Dialled, Unused
    <2>7. /\ conn'[s] = Dialled /\ conn'[shared] = hung[shared]
          /\ \A t \in Sockets : ~conn'[t].detached
      BY <2>1, <2>3, <2>4, <2>5, <2>6
    <2>8. \E t \in Sockets : Closing(t)'
      BY <2>1, <2>5, <2>7 DEF Closing
    <2> QED
      BY <2>1, <2>3, <2>4, <2>6, <2>7, <2>8, SocketAssumption
         DEF NoneDetached, FlightIsReal, IntentIsServed, NeverStranded, Is
  <1> QED
    BY <1>1, <1>2

LEMMA OpenedSteady ==
    ASSUME Inv, Steady, NEW s \in Sockets, Opened(s)
    PROVE  Steady'
  <1> SUFFICES ASSUME ~early
               PROVE  (NoneDetached /\ FlightIsReal /\ IntentIsServed /\ NeverStranded)'
    BY DEF Steady, Opened
  <1>1. /\ NoneDetached /\ FlightIsReal /\ IntentIsServed /\ NeverStranded
        /\ conn \in [Sockets -> Conn] /\ conn[s].state = "connecting"
        /\ UNCHANGED <<shared, intent, mounted>>
    BY DEF Steady, Opened, Inv, TypeOK
  <1>2. s = shared /\ ~conn[s].detached
    BY <1>1 DEF Inv, SingleSocket, Live, NoneDetached
  <1>3. CASE intent
    <2>1. /\ conn' = [conn EXCEPT ![s].state = "closing"]
          /\ inFlight' = FALSE /\ UNCHANGED timer
      BY <1>2, <1>3 DEF Opened
    <2>2. NoneDetached' /\ Closing(s)' /\ ~Closing(s)
          /\ \A t \in Sockets : Closing(t) => Closing(t)'
      BY <1>1, <2>1 DEF NoneDetached, Closing, Conn
    <2>3. PICK t \in Sockets : Closing(t)
      BY <1>1, <1>3 DEF IntentIsServed
    <2>4. t # s /\ Closing(t)'
      BY <2>2, <2>3
    <2>5. conn'[s].state = "closing"
      BY <2>2 DEF Closing
    <2> QED
      BY <1>1, <1>2, <1>3, <2>1, <2>2, <2>4, <2>5
         DEF FlightIsReal, IntentIsServed, NeverStranded, Is
  <1>4. CASE ~intent
    <2> DEFINE all == [r \in Resources |-> IF r \in Listened(mounted) THEN 1 ELSE 0]
    <2>1. /\ conn' = [conn EXCEPT ![s].state = "open", ![s].asked = all]
          /\ inFlight' = FALSE
      BY <1>2, <1>4 DEF Opened
    <2> HIDE DEF all
    <2>2. conn'[s].state = "open" /\ NoneDetached'
      BY <1>1, <2>1 DEF NoneDetached, Conn
    <2> QED
      BY <1>1, <1>2, <1>4, <2>1, <2>2, SocketAssumption
         DEF FlightIsReal, IntentIsServed, NeverStranded, Is
  <1> QED
    BY <1>3, <1>4

(* One onclose: it schedules a retry, or it takes its close for the        *)
(* deliberate one, and then something else is open or closing.             *)
LEMMA EndedSteady ==
    ASSUME Inv, Steady, NEW s \in Sockets, Ended(s), OnClose(s),
           conn[s].state # "closed", UNCHANGED <<shared, mounted, early>>
    PROVE  Steady'
  <1> SUFFICES ASSUME ~early
               PROVE  (NoneDetached /\ FlightIsReal /\ IntentIsServed /\ NeverStranded)'
    BY DEF Steady
  <1>1. /\ NoneDetached /\ FlightIsReal /\ IntentIsServed /\ NeverStranded
        /\ conn \in [Sockets -> Conn] /\ conn' = [conn EXCEPT ![s] = Unused]
    BY DEF Steady, Ended, Inv, TypeOK
  <1>2. /\ inFlight' = FALSE /\ intent' = FALSE
        /\ timer' = (~intent /\ mounted # {})
    BY <1>1 DEF OnClose, NoneDetached
  <1>3. NoneDetached' /\ \A t \in Sockets \ {s} : Closing(t) => Closing(t)'
    BY <1>1 DEF NoneDetached, Closing, Unused
  <1>4. CASE ~intent
    BY <1>2, <1>3, <1>4 DEF FlightIsReal, IntentIsServed, NeverStranded
  <1>5. CASE intent /\ shared = s /\ conn[s].state = "connecting"
    <2>1. PICK t \in Sockets : Closing(t)
      BY <1>1, <1>5 DEF IntentIsServed
    <2>2. t # s
      BY <1>5, <2>1 DEF Closing
    <2>3. Closing(t)'
      BY <1>3, <2>1, <2>2
    <2> QED
      BY <1>2, <1>3, <2>3 DEF FlightIsReal, IntentIsServed, NeverStranded
  <1>6. CASE intent /\ ~(shared = s /\ conn[s].state = "connecting")
    <2>1. ~timer /\ ~Is(shared, {"open"})
      BY <1>1, <1>6 DEF IntentIsServed
    <2>2. Is(shared, {"connecting"}) => Is(shared, {"connecting"})'
      BY <1>1, <1>6 DEF Is, Inv, TypeOK
    <2>3. CASE mounted # {} /\ ~Is(shared, {"connecting"})
      <3>1. PICK t \in Sockets : Closing(t) /\ \E u \in Sockets \ {t} : Closing(u)
        BY <1>1, <1>6, <2>1, <2>3 DEF NeverStranded, Is
      <3>2. \E u \in Sockets \ {s} : Closing(u)
        BY <3>1
      <3>3. \E u \in Sockets : Closing(u)'
        BY <1>3, <3>2
      <3> QED
        BY <1>2, <1>3, <3>3 DEF FlightIsReal, IntentIsServed, NeverStranded
    <2>4. CASE ~(mounted # {} /\ ~Is(shared, {"connecting"}))
      BY <1>2, <1>3, <2>2, <2>4 DEF FlightIsReal, IntentIsServed, NeverStranded, Is
    <2> QED
      BY <2>3, <2>4
  <1> QED
    BY <1>4, <1>5, <1>6

LEMMA NextSteady == Inv /\ Steady /\ [Next]_vars => Steady'
  <1> SUFFICES ASSUME Inv, Steady, [Next]_vars PROVE Steady'
    OBVIOUS
  <1>0. conn \in [Sockets -> Conn] /\ shared \in Sockets \cup {None}
    BY DEF Inv, TypeOK
  <1>1. ASSUME NEW h \in Hooks, Subscribe(h) \/ Unsubscribe(h) PROVE Steady'
    BY <1>1, SubscribeSteady, UnsubscribeSteady
  <1>2. CASE Refresh
    BY <1>2, RefreshSteady
  <1>3. ASSUME NEW s \in Sockets, Opened(s) PROVE Steady'
    BY <1>3, OpenedSteady
  <1>4. ASSUME NEW s \in Sockets, Closed(s) \/ Dropped(s) PROVE Steady'
    BY <1>4, EndedSteady DEF Closed, Dropped
  <1>5. ASSUME NEW s \in Sockets, Stalled(s) PROVE Steady'
    <2>1. conn' = [conn EXCEPT ![s].silent = TRUE] /\ UNCHANGED <<pageVars, early>>
      BY <1>5 DEF Stalled
    <2>2. \A t \in Sockets : /\ conn'[t].state = conn[t].state
                             /\ conn'[t].detached = conn[t].detached
      BY <1>0, <2>1 DEF Conn
    <2> QED
      BY <1>0, <2>1, <2>2 DEF Steady, NoneDetached, FlightIsReal, IntentIsServed,
                              NeverStranded, Closing, Is, pageVars
  <1>6. CASE Watchdog
    <2>1. /\ conn' = [conn EXCEPT ![monitor].state = "closing"]
          /\ UNCHANGED <<pageVars, early>> /\ monitor \in Sockets
          /\ conn[monitor].state = "open"
      BY <1>6 DEF Watchdog, Is, Inv, TypeOK
    <2> SUFFICES ASSUME ~early
                 PROVE  (NoneDetached /\ FlightIsReal /\ IntentIsServed /\ NeverStranded)'
      BY <2>1 DEF Steady
    <2>2. NoneDetached /\ FlightIsReal /\ IntentIsServed /\ NeverStranded
      BY <2>1 DEF Steady
    <2>3. monitor = shared
      BY <2>1, <2>2 DEF Inv, SingleSocket, Live, NoneDetached
    <2>4. ~intent
      BY <2>1, <2>2, <2>3, SocketAssumption DEF IntentIsServed, Is
    <2>5. NoneDetached' /\ conn'[monitor].state = "closing"
      BY <1>0, <2>1, <2>2 DEF NoneDetached, Conn
    <2>6. ~inFlight
      BY <2>1, <2>2, <2>3 DEF FlightIsReal, Is
    <2>7. \E t \in Sockets : Closing(t)'
      BY <2>1, <2>5 DEF Closing, NoneDetached
    <2> QED
      BY <2>1, <2>4, <2>5, <2>6, <2>7 DEF FlightIsReal, IntentIsServed, NeverStranded, pageVars
  <1>7. CASE Reconnect
    <2>1. OpenShared(mounted) /\ timer' = FALSE /\ UNCHANGED <<intent, mounted, early>>
      BY <1>7 DEF Reconnect
    <2>2. CASE mounted # {}
      BY <2>1, <2>2, OpenSharedSteady DEF Steady, IntentIsServed, NeverStranded
    <2>3. CASE mounted = {}
      BY <2>1, <2>3 DEF OpenShared, MayDial, Steady, NoneDetached, FlightIsReal,
                        IntentIsServed, NeverStranded, Closing, Is
    <2> QED
      BY <2>2, <2>3
  <1>8. CASE UNCHANGED vars
    BY <1>8 DEF vars, pageVars, Steady, NoneDetached, FlightIsReal, IntentIsServed,
                NeverStranded, Closing, Is
  <1> QED
    BY <1>1, <1>2, <1>3, <1>4, <1>5, <1>6, <1>7, <1>8 DEF Next

(* A tab with listeners has a connection or a pending step towards one,    *)
(* unless it once hung up on a socket that was not open yet or already     *)
(* gone.                                                                   *)
THEOREM ListenersAreNotStranded == Spec => []NeverStranded
  <1>1. Inv /\ Steady /\ [Next]_vars => Inv' /\ Steady'
    BY NextInv, NextSteady
  <1>2. Steady => NeverStranded
    BY DEF Steady, NeverStranded
  <1> QED
    BY <1>1, <1>2, InitInv, InitSteady, PTL DEF Spec

=============================================================================
