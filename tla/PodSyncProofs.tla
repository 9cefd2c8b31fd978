------------------------------ MODULE PodSyncProofs ------------------------------
(***************************************************************************)
(* Proofs about PodSync, for any number of pods, connections, requests,    *)
(* switches and faults: the pods page has one connection.                  *)
(***************************************************************************)
EXTENDS PodSync, TLAPS

\* What the proof needs to know of sock.
SockShape ==
    /\ DOMAIN sock = Sockets
    /\ \A s \in Sockets : DOMAIN sock[s] = {"st", "muted", "on", "chan"}

Refs ==
    /\ ws \in Sockets \cup {None}
    /\ {held, mounted, rerun, late} \subseteq BOOLEAN
    /\ loose \in Nat

\* An effect only waits in a page that is mounted.
IInv == SockShape /\ Refs /\ (rerun => mounted) /\ OneConnection

\* A step that neither dials nor lets go of wsRef keeps OneConnection as long as
\* no socket starts to listen.
LEMMA QuietStep ==
    ASSUME OneConnection,
           UNCHANGED <<ws, held, loose, mounted, late>>,
           Live' \subseteq Live
    PROVE  OneConnection'
  BY DEF OneConnection

LEMMA InitIInv == Init => IInv
  <1> SUFFICES ASSUME Init PROVE IInv
    OBVIOUS
  <1>1. SockShape /\ Live = {}
    BY DEF Init, SockShape, Live, Free
  <1>2. Refs /\ (rerun => mounted)
    BY DEF Init, Refs
  <1>3. OneConnection
    BY <1>1 DEF Init, OneConnection
  <1>4. QED
    BY <1>1, <1>2, <1>3 DEF IInv

-----------------------------------------------------------------------------
(* The server and the network: a message more or less, a connection less. *)

LEMMA ServerIInv ==
    ASSUME IInv,
           \/ \E c \in 0 .. home, n \in Names : Change(c, n)
           \/ Switch
           \/ \E s \in Sockets : Watch(s) \/ Lose(s) \/ FallSilent(s)
           \/ \E k \in Calls : Serve(k)
    PROVE  IInv'
  <1> USE DEF IInv, SockShape
  <1>1. ASSUME NEW c \in 0 .. home, NEW n \in Names, Change(c, n) PROVE IInv'
    <2>1. SockShape' /\ Live' \subseteq Live
      BY <1>1 DEF Change, Live
    <2>2. QED
      BY <2>1, <1>1, QuietStep DEF Change, Refs
  <1>2. CASE Switch
    BY <1>2, QuietStep DEF Switch, link, Live, Refs
  <1>3. ASSUME NEW s \in Sockets, Watch(s) PROVE IInv'
    <2>1. PICK chan : sock' = [sock EXCEPT ![s].on = home, ![s].chan = chan]
      BY <1>3, Zenon DEF Watch
    <2>2. SockShape' /\ Live' \subseteq Live
      BY <2>1 DEF Live
    <2>3. QED
      BY <2>2, <1>3, QuietStep DEF Watch, Refs
  <1>4. ASSUME NEW s \in Sockets, Lose(s) PROVE IInv'
    <2>1. SockShape' /\ Live' \subseteq Live
      BY <1>4 DEF Lose, Live
    <2>2. QED
      BY <2>1, <1>4, QuietStep DEF Lose, Refs
  <1>5. ASSUME NEW s \in Sockets, FallSilent(s) PROVE IInv'
    <2>1. SockShape' /\ Live' \subseteq Live
      BY <1>5 DEF FallSilent, Live
    <2>2. QED
      BY <2>1, <1>5, QuietStep DEF FallSilent, Refs
  <1>6. ASSUME NEW k \in Calls, Serve(k) PROVE IInv'
    BY <1>6, QuietStep DEF Serve, link, Live, Refs
  <1>7. QED
    BY <1>1, <1>2, <1>3, <1>4, <1>5, <1>6

-----------------------------------------------------------------------------
(* The connection of the page. *)

\* A timer dials: when it is the one reconnectTimeoutRef holds there was no
\* socket, and there are no others.
LEMMA DialIInv == ASSUME NEW s \in Sockets, IInv, Dial(s) PROVE IInv'
  <1> USE DEF IInv, SockShape
  <1>1. sock[s] = Free /\ sock' = [sock EXCEPT ![s].st = "connecting"] /\ ws' = s
    BY DEF Dial, Connect
  <1>2. \/ held /\ held' = FALSE /\ loose' = loose
        \/ loose > 0 /\ loose' = loose - 1 /\ held' = held
    BY DEF Dial
  <1>3. SockShape' /\ Refs'
    <2>1. SockShape' /\ loose' \in Nat
      BY <1>1, <1>2 DEF Refs
    <2>2. QED
      BY <1>1, <1>2, <2>1 DEF Dial, Refs
  <1>4. Live' \subseteq Live \cup {s}
    BY <1>1 DEF Live
  <1>5. OneConnection'
    <2> SUFFICES ASSUME ~late PROVE OneConnection'
      BY DEF Dial, OneConnection
    <2>1. loose = 0 /\ held
      BY <1>2 DEF OneConnection
    <2>2. mounted /\ Live = {}
      BY <2>1, PodSyncAssumption DEF OneConnection, Live
    <2>3. held' = FALSE /\ loose' = 0
      BY <1>2, <2>1
    <2>4. QED
      BY <1>1, <1>4, <2>2, <2>3 DEF Dial, OneConnection
  <1>6. QED
    BY <1>3, <1>5 DEF Dial

LEMMA OnOpenIInv == ASSUME NEW s \in Sockets, IInv, OnOpen(s) PROVE IInv'
  <1> USE DEF IInv, SockShape
  <1>1. SockShape' /\ Live' \subseteq Live
    BY DEF OnOpen, Live
  <1>2. QED
    BY <1>1, QuietStep DEF OnOpen, Refs

\* Unless it is late, it is wsRef that closed: then nothing listens, and no
\* timer was pending.
LEMMA OnCloseIInv == ASSUME NEW s \in Sockets, IInv, OnClose(s) PROVE IInv'
  <1> USE DEF IInv, SockShape
  <1>1. s \notin Live /\ sock' = [sock EXCEPT ![s] = Free]
    BY DEF OnClose, Live
  <1>2. SockShape' /\ Live' \subseteq Live
    BY <1>1 DEF Live, Free
  <1>3. CASE sock[s].muted \/ intentional
    BY <1>2, <1>3, QuietStep DEF OnClose, Refs
  <1>4. CASE ~(sock[s].muted \/ intentional)
    <2>1. ws' = None /\ held' = TRUE /\ late' = (late \/ ws # s)
      BY <1>4 DEF OnClose, Schedule
    <2>2. loose' = IF held THEN loose + 1 ELSE loose
      BY <1>4 DEF OnClose, Schedule
    <2>3. Refs'
      BY <2>1, <2>2 DEF OnClose, Refs
    <2>4. OneConnection'
      <3> SUFFICES ASSUME ~late, ws = s PROVE OneConnection'
        BY <2>1 DEF OneConnection, Refs
      <3>1. Live' = {}
        BY <1>1, <1>2 DEF OneConnection
      <3>2. ~held /\ mounted
        BY PodSyncAssumption DEF OneConnection
      <3>3. QED
        BY <3>1, <3>2, <2>1, <2>2 DEF OnClose, OneConnection
    <2>5. QED
      BY <1>2, <2>3, <2>4 DEF OnClose
  <1>5. QED
    BY <1>3, <1>4

LEMMA OnMessageIInv == ASSUME NEW s \in Sockets, IInv, OnMessage(s) PROVE IInv'
  <1> USE DEF IInv, SockShape
  <1>1. SockShape' /\ Live' \subseteq Live
    BY DEF OnMessage, Live
  <1>2. QED
    BY <1>1, QuietStep DEF OnMessage, Refs

LEMMA WatchdogIInv == ASSUME IInv, Watchdog PROVE IInv'
  <1> USE DEF IInv, SockShape
  <1>1. SockShape' /\ Live' \subseteq Live
    BY DEF Watchdog, Live
  <1>2. QED
    BY <1>1, QuietStep DEF Watchdog, Refs

\* Whoever hangs up is left with no socket that listens.
LEMMA DisconnectSilences ==
    ASSUME IInv, Disconnect
    PROVE  SockShape' /\ ws' = None /\ (~late => Live' = {})
  <1> USE DEF IInv, SockShape
  <1>1. CASE ws = None
    BY <1>1, PodSyncAssumption DEF Disconnect, Live, OneConnection, Refs
  <1>2. ASSUME ws \in Sockets PROVE SockShape' /\ (~late => Live' = {})
    <2>1. sock' = [sock EXCEPT ![ws] = HangUp(ws)]
      BY <1>2, PodSyncAssumption DEF Disconnect
    <2>2. SockShape'
      BY <1>2, <2>1 DEF HangUp
    <2>3. ws \notin Live'
      BY <1>2, <2>1 DEF HangUp, Live
    <2>4. Live' \subseteq Live \cup {ws}
      BY <1>2, <2>1 DEF Live
    <2>5. QED
      BY <2>2, <2>3, <2>4 DEF OneConnection
  <1>3. QED
    BY <1>1, <1>2 DEF Disconnect, Refs

-----------------------------------------------------------------------------
(* The rows, the timers and the effects of the page. *)

LEMMA RowsIInv ==
    ASSUME IInv,
           \/ \E k \in Calls : Answer(k)
           \/ Poll \/ Lull \/ Switched
           \/ \E n \in Names : Unmark(n)
    PROVE  IInv'
  <1>1. UNCHANGED <<sock, ws, held, loose, mounted, late>>
    BY DEF Answer, Poll, Lull, Switched, Unmark, link
  <1>2. rerun' \in BOOLEAN /\ (rerun' => mounted)
    <2>1. CASE Switched
      BY <2>1 DEF Switched
    <2>2. CASE rerun' = rerun
      BY <2>2 DEF IInv, Refs
    <2>3. QED
      BY <2>1, <2>2 DEF Answer, Poll, Lull, Unmark
  <1>3. SockShape' /\ Refs' /\ Live' = Live
    BY <1>1, <1>2 DEF IInv, SockShape, Refs, Live
  <1>4. OneConnection'
    BY <1>1, <1>3, QuietStep DEF IInv
  <1>5. QED
    BY <1>1, <1>2, <1>3, <1>4 DEF IInv

LEMMA EffectIInv == ASSUME IInv, Effect PROVE IInv'
  <1>1. SockShape' /\ ws' = None /\ (~late => Live' = {})
    BY DisconnectSilences DEF Effect
  <1>2. mounted /\ UNCHANGED <<mounted, loose, late>> /\ held' = TRUE /\ rerun' = FALSE
    BY DEF Effect, IInv
  <1>3. QED
    BY <1>1, <1>2 DEF IInv, Refs, OneConnection

LEMMA UnmountIInv == ASSUME IInv, Unmount PROVE IInv'
  <1>1. SockShape' /\ ws' = None /\ (~late => Live' = {})
    BY DisconnectSilences DEF Unmount
  <1>2. /\ UNCHANGED <<loose, late>>
        /\ held' = FALSE /\ rerun' = FALSE /\ mounted' = FALSE
    BY DEF Unmount
  <1>3. QED
    BY <1>1, <1>2 DEF IInv, Refs, OneConnection

LEMMA NextIInv == IInv /\ [Next]_vars => IInv'
  <1> SUFFICES ASSUME IInv, [Next]_vars PROVE IInv'
    OBVIOUS
  <1>1. CASE UNCHANGED vars
    BY <1>1 DEF vars, IInv, SockShape, Refs, OneConnection, Live
  <1>2. ASSUME NEW s \in Sockets, Page(s) PROVE IInv'
    BY <1>2, DialIInv, OnOpenIInv, OnCloseIInv, OnMessageIInv DEF Page
  <1>3. CASE Next
    BY <1>2, <1>3, ServerIInv, RowsIInv, WatchdogIInv, EffectIInv, UnmountIInv DEF Next
  <1>4. QED
    BY <1>1, <1>3

\* The pods page has one connection, however sockets, timers, switches and its
\* end interleave, up to the first close that is handled late.
THEOREM PodsHaveOneConnection == Spec => []OneConnection
  <1>1. IInv => OneConnection
    BY DEF IInv
  <1>2. QED
    BY InitIInv, NextIInv, <1>1, PTL DEF Spec

=============================================================================
