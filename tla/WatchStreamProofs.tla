---------------------------- MODULE WatchStreamProofs ----------------------------
(***************************************************************************)
(* Proofs about WatchStream, for any objects, hooks, watch tasks and       *)
(* bounds: a list page that has caught up shows every object in its latest *)
(* version.                                                                *)
(***************************************************************************)
EXTENDS WatchStream, SequenceTheorems, TLAPS

WireType == wire \in Seq(Messages)

Typed == TypeOK /\ WireType

-----------------------------------------------------------------------------
(* Types *)

LEMMA AskedIsNoAnswer == None # Asked /\ \A v \in View : v # None /\ v # Asked
  BY StreamAssumption DEF View, Versions

LEMMA NewViews ==
    /\ Empty \in View
    /\ \A v \in View, n \in Names, x \in Versions : [v EXCEPT ![n] = x] \in View
    /\ 0 \in Versions
  BY StreamAssumption DEF Empty, View, Versions

LEMMA ItemsAreUpdates ==
    ASSUME TypeOK
    PROVE  /\ Items(store) \subseteq Updates
           /\ \A m \in Items(store) : m.version = store[m.name] /\ m.name \in Names
           /\ \A n \in Names : store[n] # 0 => \E m \in Items(store) : m.name = n
  <1>1. \A n \in Names : store[n] \in Versions
    BY DEF TypeOK, View
  <1>2. \A n \in Names, v \in Versions : Update(n, v) \in Updates
    BY DEF Updates
  <1>3. Items(store) = {Update(n, store[n]) : n \in {m \in Names : store[m] # 0}}
    BY DEF Items, Update
  <1>4. \A n, v : Update(n, v).name = n /\ Update(n, v).version = v
    BY DEF Update
  <1>5. QED
    BY <1>1, <1>2, <1>3, <1>4

\* The fields of a message, and that each is told from the others by its kind.
LEMMA MessageFields ==
    /\ \A m \in Updates : /\ m.kind = "update" /\ m.name \in Names /\ m.version \in Versions
                          /\ m = Update(m.name, m.version) /\ m \in Messages
    /\ \A n \in Names, v \in Versions :
          /\ Update(n, v) \in Updates
          /\ Update(n, v).kind = "update" /\ Update(n, v).name = n
          /\ Update(n, v).version = v
    /\ \A n \in Names : /\ Delete(n) \in Messages /\ Delete(n).kind = "delete"
                        /\ Delete(n).name = n
    /\ Subscribed \in Messages /\ Subscribed.kind = "subscribed"
    /\ \A m \in Messages : \/ m = Subscribed
                           \/ m \in Updates
                           \/ \E n \in Names : m = Delete(n)
  <1>1. \A n, v : /\ Update(n, v).kind = "update" /\ Update(n, v).name = n
                  /\ Update(n, v).version = v
    BY DEF Update
  <1>2. \A m \in Updates : \E n \in Names, v \in Versions : m = Update(n, v)
    BY DEF Updates
  <1>3. \A n \in Names, v \in Versions : Update(n, v) \in Updates
    BY DEF Updates
  <1>4. \A n : Delete(n).kind = "delete" /\ Delete(n).name = n
    BY DEF Delete
  <1>5. Subscribed.kind = "subscribed"
    BY DEF Subscribed
  <1>6. QED
    BY <1>1, <1>2, <1>3, <1>4, <1>5 DEF Messages

LEMMA EventTold ==
    ASSUME TypeOK, NEW i \in 1 .. Len(log)
    PROVE  /\ log[i][1] \in Names /\ log[i][2] \in BOOLEAN
           /\ Event(i) \in Messages
           /\ \A n \in Names : About(Event(i), n) <=> log[i][1] = n
  <1>1. log[i] \in Names \X BOOLEAN
    BY ElementOfSeq DEF TypeOK
  <1>2. i \in Versions
    BY StreamAssumption DEF TypeOK, Versions
  <1>3. QED
    BY <1>1, <1>2, MessageFields DEF Event, About

LEMMA InitType == Init => Typed
  BY NewViews, StreamAssumption DEF Init, Typed, TypeOK, WireType, Phases

LEMMA StartTaskType ==
    ASSUME Typed, NEW t \in Tasks, StartTask(t)
    PROVE  phase' \in [Tasks -> Phases] /\ WireType'
  BY MessageFields DEF Typed, TypeOK, WireType, StartTask, Phases

LEMMA ClusterType ==
    ASSUME Typed, NEW n \in Names, Put(n) \/ Remove(n) PROVE Typed'
  <1>1. Len(log) \in Nat /\ Len(log') = Len(log) + 1 /\ log' \in Seq(Names \X BOOLEAN)
    <2>1. <<n, TRUE>> \in Names \X BOOLEAN /\ <<n, FALSE>> \in Names \X BOOLEAN
      OBVIOUS
    <2>2. \E b \in BOOLEAN : log' = Append(log, <<n, b>>)
      BY DEF Put, Remove
    <2>3. QED
      BY <2>1, <2>2, AppendProperties DEF Typed, TypeOK
  <1>2. Len(log) + 1 \in Versions /\ 0 \in Versions /\ Len(log') <= MaxChanges
    <2>1. MaxChanges \in Nat /\ Len(log) < MaxChanges
      BY StreamAssumption DEF Put, Remove
    <2>2. QED
      BY <1>1, <2>1 DEF Versions
  <1>3. store' \in View
    <2>1. \E x \in Versions : store' = [store EXCEPT ![n] = x]
      BY <1>2 DEF Put, Remove
    <2>2. QED
      <3>1. store \in View
        BY DEF Typed, TypeOK
      <3>2. QED
        BY <2>1, <3>1, NewViews
  <1>4. cursor' \in [Tasks -> 0 .. Len(log')]
    <2>1. cursor' = cursor /\ cursor \in [Tasks -> 0 .. Len(log)]
      BY DEF Typed, TypeOK, Put, Remove, taskVars
    <2>2. 0 .. Len(log) \subseteq 0 .. Len(log')
      BY <1>1
    <2>3. QED
      BY <2>1, <2>2
  <1>5. QED
    BY <1>1, <1>2, <1>3, <1>4
    DEF Typed, TypeOK, WireType, Put, Remove, taskVars, linkVars, hookVars

LEMMA TaskType ==
    ASSUME Typed, NEW t \in Tasks,
           List(t) \/ SendItem(t) \/ Watch(t) \/ Deliver(t) \/ WatchFails(t)
    PROVE  Typed'
  <1>1. CASE List(t)
    BY <1>1, ItemsAreUpdates
    DEF List, Typed, TypeOK, WireType, Phases, clusterVars, linkVars, hookVars
  <1>2. CASE SendItem(t)
    BY <1>2, MessageFields
    DEF SendItem, Typed, TypeOK, WireType, clusterVars, hookVars
  <1>3. CASE Watch(t)
    BY <1>3, ItemsAreUpdates
    DEF Watch, Typed, TypeOK, WireType, Phases, clusterVars, linkVars, hookVars
  <1>4. CASE Deliver(t)
    <2>1. cursor[t] + 1 \in 1 .. Len(log) /\ cursor[t] \in Nat
      BY <1>4 DEF Deliver, Typed, TypeOK
    <2>2. Event(cursor[t] + 1) \in Messages
      BY <2>1, EventTold DEF Typed
    <2>3. QED
      BY <1>4, <2>1, <2>2
      DEF Deliver, Typed, TypeOK, WireType, clusterVars, hookVars
  <1>5. CASE WatchFails(t)
    BY <1>5
    DEF WatchFails, Typed, TypeOK, WireType, Phases, clusterVars, linkVars, hookVars
  <1>6. QED
    BY <1>1, <1>2, <1>3, <1>4, <1>5

LEMMA LinkType == ASSUME Typed, Disconnect \/ Connect PROVE Typed'
  <1>1. CASE Disconnect
    <2>1. Len(log) \in Nat
      BY DEF Typed, TypeOK
    <2>2. QED
      <3>1. /\ cursor' \in [Tasks -> 0 .. Len(log)] /\ phase' \in [Tasks -> Phases]
            /\ pending' \in [Tasks -> SUBSET Updates] /\ wire' \in Seq(Messages)
        BY <1>1, <2>1 DEF Disconnect, Phases
      <3>2. QED
        BY <1>1, <3>1 DEF Disconnect, Typed, TypeOK, WireType, clusterVars, hookVars
  <1>2. CASE Connect
    BY <1>2, StartTaskType
    DEF Connect, Typed, TypeOK, WireType, clusterVars, hookVars
  <1>3. QED
    BY <1>1, <1>2

LEMMA CallsType ==
    ASSUME Typed, NEW h \in Hooks, NEW c \in Calls,
           NEW a \in View \cup {None, Asked}, call' = [call EXCEPT ![h][c] = a]
    PROVE  call' \in [Hooks -> [Calls -> View \cup {None, Asked}]]
  BY DEF Typed, TypeOK

LEMMA HookType ==
    ASSUME Typed, NEW h \in Hooks, Mount(h) \/ Unmount(h) \/ ConfirmEmpty(h)
    PROVE  Typed'
  <1>1. CASE Mount(h)
    <2>1. call' \in [Hooks -> [Calls -> View \cup {None, Asked}]]
      BY <1>1, CallsType DEF Mount, Calls
    <2>2. phase' \in [Tasks -> Phases] /\ WireType'
      BY <1>1, StartTaskType DEF Mount, Typed, TypeOK, WireType
    <2>3. QED
      BY <1>1, <2>1, <2>2, NewViews DEF Mount, Typed, TypeOK, clusterVars
  <1>2. CASE Unmount(h)
    BY <1>2 DEF Unmount, Typed, TypeOK, WireType, clusterVars, taskVars, linkVars
  <1>3. CASE ConfirmEmpty(h)
    BY <1>3 DEF ConfirmEmpty, Typed, TypeOK, WireType, clusterVars, taskVars, linkVars
  <1>4. QED
    BY <1>1, <1>2, <1>3

LEMMA CallType ==
    ASSUME Typed, NEW h \in Hooks, NEW c \in Calls,
           Poll(h, c) \/ Answer(h, c) \/ CallFails(h, c) \/ Arrive(h, c)
    PROVE  Typed'
  <1>1. call' \in [Hooks -> [Calls -> View \cup {None, Asked}]]
    BY CallsType DEF Poll, Answer, CallFails, Arrive, Typed, TypeOK
  <1>2. Unlisted(h) \in [Hooks -> {"served", "joined", "bare"}]
    BY DEF Unlisted, Typed, TypeOK
  <1>3. CASE Arrive(h, c)
    <2>1. call[h][c] \in View
      BY <1>3 DEF Arrive, Typed, TypeOK
    <2>2. /\ list' \in [Hooks -> View] /\ confirmed' \in [Hooks -> BOOLEAN]
          /\ start' \in [Hooks -> {"served", "joined", "bare"}]
      BY <1>2, <1>3, <2>1 DEF Arrive, Typed, TypeOK
    <2>3. QED
      BY <1>1, <1>3, <2>2
      DEF Arrive, Typed, TypeOK, WireType, clusterVars, taskVars, linkVars
  <1>4. CASE CallFails(h, c)
    BY <1>1, <1>2, <1>4
    DEF CallFails, Typed, TypeOK, WireType, clusterVars, taskVars, linkVars, hookVars
  <1>5. QED
    BY <1>1, <1>3, <1>4
    DEF Poll, Answer, Typed, TypeOK, WireType, clusterVars, taskVars, linkVars, hookVars

\* What the hooks make of the message m.
LEMMA HandleType == ASSUME Typed, Handle PROVE Typed'
  <1>1. Head(wire) \in Messages /\ wire' \in Seq(Messages)
    BY HeadTailProperties DEF Handle, Typed, WireType
  <1>2. list' \in [Hooks -> View]
    <2>1. CASE Head(wire).kind = "subscribed"
      BY <2>1 DEF Handle, Typed, TypeOK
    <2>2. CASE Head(wire) \in Updates
      <3>1. \A h \in Hooks : Upsert(list[h], Head(wire)) \in View
        BY <2>2, MessageFields, NewViews DEF Upsert, Typed, TypeOK
      <3>2. list' = [h \in Hooks |-> IF h \notin mounted THEN list[h]
                                     ELSE Upsert(list[h], Head(wire))]
        <4>1. Head(wire).kind = "update"
          BY <2>2, MessageFields
        <4>2. QED
          BY <4>1 DEF Handle
      <3>3. QED
        BY <3>1, <3>2 DEF Typed, TypeOK
    <2>3. CASE \E n \in Names : Head(wire) = Delete(n)
      <3>1. \A h \in Hooks : Drop(h, list[h], Head(wire)) \in View
        BY <2>3, MessageFields, NewViews DEF Drop, Typed, TypeOK
      <3>2. list' = [h \in Hooks |-> IF h \notin mounted THEN list[h]
                                     ELSE Drop(h, list[h], Head(wire))]
        <4>1. Head(wire).kind = "delete"
          BY <2>3, MessageFields
        <4>2. QED
          BY <4>1 DEF Handle
      <3>3. QED
        BY <3>1, <3>2 DEF Typed, TypeOK
    <2>4. QED
      BY <1>1, <2>1, <2>2, <2>3, MessageFields
  <1>3. {received', emptyTimer'} \subseteq [Hooks -> BOOLEAN]
    <2>1. /\ received' \in [Hooks -> BOOLEAN]
          /\ emptyTimer' \in [Hooks -> BOOLEAN]
      <3>1. CASE Head(wire).kind = "subscribed"
        BY <3>1 DEF Handle, Typed, TypeOK
      <3>2. CASE Head(wire).kind # "subscribed"
        BY <3>2 DEF Handle, Typed, TypeOK
      <3>3. QED
        BY <3>1, <3>2
    <2>2. QED
      BY <2>1
  <1>4. QED
    BY <1>1, <1>2, <1>3 DEF Handle, Typed, TypeOK, WireType, clusterVars, taskVars

LEMMA NextType == Typed /\ [Next]_vars => Typed'
  <1> SUFFICES ASSUME Typed, [Next]_vars PROVE Typed'
    OBVIOUS
  <1>1. CASE UNCHANGED vars
    BY <1>1 DEF vars, clusterVars, taskVars, linkVars, hookVars, Typed, TypeOK, WireType
  <1>2. CASE \E h \in Hooks, c \in Polls : Poll(h, c)
    BY <1>2, CallType DEF Calls
  <1>3. QED
    BY <1>1, <1>2, ClusterType, TaskType, LinkType, HookType, CallType, HandleType DEF Next

\* Types, for any constants.
THEOREM TypeCorrect == Spec => []TypeOK
  <1>1. Spec => []Typed
    BY InitType, NextType, PTL DEF Spec
  <1>2. QED
    BY <1>1, PTL DEF Typed

-----------------------------------------------------------------------------
(* The wire *)

\* A message sent comes last.
LEMMA Sent ==
    ASSUME WireType, NEW m \in Messages, wire' = Append(wire, m), NEW n
    PROVE  /\ Told(n)' <=> Told(n) \/ About(m, n)
           /\ About(m, n) /\ m = Update(n, store'[n]) => EndsRight(n)'
           /\ ~About(m, n) /\ store'[n] = store[n] /\ EndsRight(n) => EndsRight(n)'
  <1>1. /\ Len(wire) \in Nat /\ Len(wire') = Len(wire) + 1
        /\ DOMAIN wire = 1 .. Len(wire) /\ DOMAIN wire' = 1 .. Len(wire) + 1
        /\ \A i \in 1 .. Len(wire) : wire'[i] = wire[i]
        /\ wire'[Len(wire) + 1] = m
    BY AppendProperties DEF WireType
  <1>2. Told(n)' <=> Told(n) \/ About(m, n)
    BY <1>1 DEF Told
  <1>3. ASSUME About(m, n), m = Update(n, store'[n])
        PROVE  EndsRight(n)'
    BY <1>1, <1>3 DEF EndsRight
  <1>4. ASSUME ~About(m, n), store'[n] = store[n], EndsRight(n)
        PROVE  EndsRight(n)'
    <2>1. PICK i \in 1 .. Len(wire) :
             /\ wire[i] = Update(n, store[n])
             /\ \A j \in i + 1 .. Len(wire) : ~About(wire[j], n)
      BY <1>1, <1>4 DEF EndsRight
    <2>2. \A j \in i + 1 .. Len(wire') : ~About(wire'[j], n)
      BY <1>1, <1>4, <2>1
    <2>3. i \in DOMAIN wire' /\ wire'[i] = Update(n, store'[n])
      BY <1>1, <1>4, <2>1
    <2>4. EndsRight(n)' <=> \E k \in DOMAIN wire' :
             /\ wire'[k] = Update(n, store'[n])
             /\ \A j \in k + 1 .. Len(wire') : ~About(wire'[j], n)
      BY DEF EndsRight, Update
    <2>5. QED
      BY <2>2, <2>3, <2>4
  <1>5. QED
    BY <1>2, <1>3, <1>4

\* The first message is handled.
LEMMA Taken ==
    ASSUME WireType, wire # <<>>, wire' = Tail(wire), NEW n, store'[n] = store[n]
    PROVE  /\ Told(n)' => Told(n)
           /\ Told(n) => Told(n)' \/ About(Head(wire), n)
           /\ EndsRight(n) => EndsRight(n)' \/ Head(wire) = Update(n, store[n])
           /\ EndsRight(n) /\ Told(n)' => EndsRight(n)'
           /\ EndsRight(n)' => Told(n)' \/ ~About(Update(n, store[n]), n)
  <1>1. /\ Len(wire) \in Nat \ {0} /\ Len(wire') = Len(wire) - 1
        /\ DOMAIN wire = 1 .. Len(wire) /\ DOMAIN wire' = 1 .. Len(wire) - 1
        /\ \A i \in 1 .. Len(wire) - 1 : wire'[i] = wire[i + 1]
        /\ Head(wire) = wire[1]
    BY HeadTailProperties, EmptySeq DEF WireType
  <1>2. Told(n)' => Told(n)
    <2>1. ASSUME NEW i \in 1 .. Len(wire) - 1, About(wire'[i], n) PROVE Told(n)
      <3>1. i + 1 \in 1 .. Len(wire) /\ wire[i + 1] = wire'[i]
        BY <1>1
      <3>2. QED
        BY <1>1, <2>1, <3>1 DEF Told
    <2>2. QED
      BY <1>1, <2>1 DEF Told
  <1>3. Told(n) => Told(n)' \/ About(Head(wire), n)
    <2>1. ASSUME NEW i \in 1 .. Len(wire), About(wire[i], n), i # 1 PROVE Told(n)'
      <3>1. i - 1 \in 1 .. Len(wire) - 1 /\ wire'[i - 1] = wire[i]
        BY <1>1, <2>1
      <3>2. QED
        BY <1>1, <2>1, <3>1 DEF Told
    <2>2. QED
      BY <1>1, <2>1 DEF Told
  <1>4. ASSUME EndsRight(n)
        PROVE  /\ EndsRight(n)' \/ Head(wire) = Update(n, store[n])
               /\ Told(n)' => EndsRight(n)'
    <2>1. PICK i \in 1 .. Len(wire) :
             /\ wire[i] = Update(n, store[n])
             /\ \A j \in i + 1 .. Len(wire) : ~About(wire[j], n)
      BY <1>1, <1>4 DEF EndsRight
    <2>2. CASE i = 1
      <3>1. \A j \in 1 .. Len(wire) - 1 : ~About(wire'[j], n)
        <4> SUFFICES ASSUME NEW j \in 1 .. Len(wire) - 1 PROVE ~About(wire'[j], n)
          OBVIOUS
        <4>1. j + 1 \in i + 1 .. Len(wire) /\ wire'[j] = wire[j + 1]
          BY <1>1, <2>2
        <4>2. QED
          BY <2>1, <4>1
      <3>2. QED
        BY <1>1, <2>1, <2>2, <3>1 DEF Told
    <2>3. CASE i # 1
      <3>1. i - 1 \in 1 .. Len(wire) - 1 /\ wire'[i - 1] = wire[i]
        BY <1>1, <2>3
      <3>2. \A j \in (i - 1) + 1 .. Len(wire') : ~About(wire'[j], n)
        <4> SUFFICES ASSUME NEW j \in (i - 1) + 1 .. Len(wire') PROVE ~About(wire'[j], n)
          OBVIOUS
        <4>1. j + 1 \in i + 1 .. Len(wire) /\ wire'[j] = wire[j + 1]
          BY <1>1
        <4>2. QED
          BY <2>1, <4>1
      <3>3. EndsRight(n)'
        BY <1>1, <2>1, <3>1, <3>2 DEF EndsRight
      <3>4. QED
        BY <3>3
    <2>4. QED
      BY <2>2, <2>3
  <1>5. EndsRight(n)' => Told(n)' \/ ~About(Update(n, store[n]), n)
    BY DEF EndsRight, Told
  <1>6. QED
    BY <1>2, <1>3, <1>4, <1>5

-----------------------------------------------------------------------------
(* What an action leaves of what a hook shows or will be told *)

\* What an action has to keep when it leaves the hooks alone.
LEMMA HooksLeft ==
    ASSUME Typed, ListsAreRight, CallsAreFresh,
           UNCHANGED <<connected, mounted, hookVars, call, start>>,
           \A n \in Names : store'[n] # 0 =>
              \/ Owed(n)'
              \/ store[n] # 0 /\ \A v \in View : Shows(v, n) => Shows(v, n)'
    PROVE  ListsAreRight' /\ CallsAreFresh'
  <1>1. CallsAreFresh'
    BY DEF CallsAreFresh, CallFresh, hookVars
  <1>2. ASSUME connected', NEW h \in mounted' \ Reconciled, NEW n \in Names, store'[n] # 0
        PROVE  ListRight(h, n)'
    <2>1. CASE Owed(n)'
      BY <2>1 DEF ListRight, Shows
    <2>2. CASE store[n] # 0 /\ \A v \in View : Shows(v, n) => Shows(v, n)'
      <3>1. /\ h \in Hooks /\ list[h] \in View
            /\ call[h][Initial] \notin {None, Asked} => call[h][Initial] \in View
        BY <1>2 DEF Typed, TypeOK, Calls
      <3>2. /\ list[h][n] = 0 \/ Shows(list[h], n)
            /\ start[h] = "served" => Shows(list[h], n)
            /\ start[h] = "joined" /\ call[h][Initial] = None => Shows(list[h], n)
            /\ start[h] = "joined" /\ call[h][Initial] \notin {None, Asked}
                  /\ ~received[h] => Shows(call[h][Initial], n)
        BY <1>2, <2>2 DEF ListsAreRight, ListRight
      <3>3. \A v \in View : Shows(v, n) => Shows(v, n)'
        BY <2>2
      <3>4. list' = list /\ start' = start /\ call' = call /\ received' = received
        BY DEF hookVars
      <3>5. Shows(list[h], n) => Shows(list[h], n)'
        BY <3>1, <3>3, <3>4
      <3>6. call[h][Initial] \notin {None, Asked} /\ Shows(call[h][Initial], n)
              => Shows(call[h][Initial], n)'
        BY <3>1, <3>3, <3>4
      <3>7. QED
        BY <3>2, <3>4, <3>5, <3>6 DEF ListRight
    <2>3. QED
      BY <1>2, <2>1, <2>2
  <1>3. QED
    BY <1>1, <1>2 DEF ListsAreRight

\* What a step of a task keeps of the object n.
Served(n) ==
    /\ \A v \in View : Shows(v, n) => Shows(v, n)'
    /\ (Told(n) => EndsRight(n) \/ Owed(n)) /\ Told(n)' => EndsRight(n)' \/ Owed(n)'

\* When every task that owed n still does and the wire is left alone.
LEMMA StillOwing ==
    ASSUME NEW n, UNCHANGED <<store, wire>>,
           \A u \in Tasks : Owing(u, n) => Owing(u, n)'
    PROVE  Served(n)
  BY DEF Served, Shows, Owed, Told, EndsRight

LEMMA OwedServed == ASSUME NEW n, Owed(n)' PROVE Served(n)
  BY DEF Served, Shows

\* When a message that is not about n is sent.
LEMMA BesideServed ==
    ASSUME NEW n, WireType, NEW m \in Messages, wire' = Append(wire, m), ~About(m, n),
           store' = store, \A u \in Tasks : Owing(u, n) => Owing(u, n)'
    PROVE  Served(n)
  <1>1. /\ Told(n)' <=> Told(n)
        /\ EndsRight(n) => EndsRight(n)'
    BY Sent
  <1>2. Owed(n) => Owed(n)'
    BY DEF Owed
  <1>3. QED
    BY <1>1, <1>2 DEF Served, Shows

\* When n's version now is sent.
LEMMA SentServed ==
    ASSUME NEW n \in Names, WireType, store[n] \in Versions, store' = store,
           wire' = Append(wire, Update(n, store[n]))
    PROVE  Served(n)
  <1>1. /\ Update(n, store[n]) \in Messages /\ About(Update(n, store[n]), n)
    BY MessageFields DEF About
  <1>2. Told(n)' /\ EndsRight(n)'
    BY <1>1, Sent
  <1>3. QED
    BY <1>2 DEF Served, Shows

LEMMA ListServed ==
    ASSUME Typed, NEW t \in Tasks, List(t), NEW n \in Names PROVE Served(n)
  <1>1. phase' \in [Tasks -> Phases] /\ phase'[t] \in {"send", "stopped"}
        /\ \A u \in Tasks : u # t => phase'[u] = phase[u] /\ pending'[u] = pending[u]
    BY DEF List, Typed, TypeOK, Phases
  <1>2. Owing(t, n)'
    BY <1>1 DEF Owing
  <1>3. QED
    BY <1>2, OwedServed DEF Owed

LEMMA WatchServed ==
    ASSUME Typed, NEW t \in Tasks, Watch(t), NEW n \in Names, store[n] # 0 PROVE Served(n)
  <1>1. phase'[t] = "stream" /\ pending'[t] = Items(store)
    BY DEF Watch, Typed, TypeOK
  <1>2. \E m \in Items(store) : m.name = n
    BY ItemsAreUpdates DEF Typed
  <1>3. Owing(t, n)'
    BY <1>1, <1>2 DEF Owing
  <1>4. QED
    BY <1>3, OwedServed DEF Owed

LEMMA WatchFailsServed ==
    ASSUME Typed, NEW t \in Tasks, WatchFails(t), NEW n \in Names PROVE Served(n)
  <1>1. phase'[t] \in {"backoff", "stopped"}
    BY DEF WatchFails, Typed, TypeOK
  <1>2. Owing(t, n)'
    BY <1>1 DEF Owing
  <1>3. QED
    BY <1>2, OwedServed DEF Owed

LEMMA SendItemServed ==
    ASSUME Typed, TasksServe, NEW t \in Tasks, SendItem(t), NEW n \in Names, store[n] # 0
    PROVE  Served(n)
  <1>1. PICK m \in pending[t] :
          /\ wire' = Append(wire, m)
          /\ pending' = [pending EXCEPT ![t] = @ \ {m}]
    BY DEF SendItem
  <1>2. /\ UNCHANGED <<store, phase, cursor>> /\ phase[t] \in {"send", "stream"}
        /\ pending'[t] = pending[t] \ {m}
        /\ \A u \in Tasks : u # t => pending'[u] = pending[u]
    BY <1>1 DEF SendItem, clusterVars, Typed, TypeOK
  <1>3. m \in Updates /\ m \in Messages /\ m.name \in Names /\ m = Update(m.name, m.version)
    BY <1>1, MessageFields DEF Typed, TypeOK
  <1>4. CASE phase[t] = "send"
    BY <1>2, <1>4, OwedServed DEF Owed, Owing
  <1>5. CASE phase[t] = "stream" /\ m.name # n
    <2>1. ~About(m, n)
      BY <1>5 DEF About
    <2>2. \A u \in Tasks : Owing(u, n) => Owing(u, n)'
      BY <1>2, <1>5 DEF Owing
    <2>3. QED
      BY <1>1, <1>2, <1>3, <2>1, <2>2, BesideServed DEF Typed
  <1>6. CASE phase[t] = "stream" /\ m.name = n /\ m.version = store[n]
    BY <1>1, <1>2, <1>3, <1>6, SentServed DEF Typed, TypeOK, View
  <1>7. CASE phase[t] = "stream" /\ m.name = n /\ cursor[t] < store[n]
    BY <1>2, <1>7, OwedServed DEF Owed, Owing
  <1>8. QED
    BY <1>1, <1>2, <1>4, <1>5, <1>6, <1>7 DEF TasksServe

LEMMA DeliverServed ==
    ASSUME Typed, LogIsStore, NEW t \in Tasks, Deliver(t), NEW n \in Names, store[n] # 0
    PROVE  Served(n)
  <1> DEFINE i == cursor[t] + 1
  <1>1. /\ wire' = Append(wire, Event(i)) /\ UNCHANGED <<store, phase, pending>>
        /\ phase[t] = "stream" /\ pending[t] = {}
        /\ cursor[t] \in Nat /\ cursor'[t] = i
        /\ \A u \in Tasks : u # t => cursor'[u] = cursor[u]
        /\ i \in 1 .. Len(log) /\ Len(log) \in Nat
    BY DEF Deliver, clusterVars, Typed, TypeOK
  <1>2. /\ store[n] \in 1 .. Len(log) /\ log[store[n]] = <<n, TRUE>>
        /\ \A j \in store[n] + 1 .. Len(log) : log[j][1] # n
    BY DEF LogIsStore
  <1>3. Event(i) \in Messages /\ (About(Event(i), n) <=> log[i][1] = n)
    BY <1>1, EventTold DEF Typed
  <1>4. CASE i < store[n]
    BY <1>1, <1>4, OwedServed DEF Owed, Owing
  <1>5. CASE i = store[n]
    <2>1. Event(i) = Update(n, store[n])
      <3>1. log[i] = <<n, TRUE>>
        BY <1>2, <1>5
      <3>2. log[i][1] = n /\ log[i][2] = TRUE
        BY <3>1
      <3>3. Event(i) = IF log[i][2] THEN Update(log[i][1], i) ELSE Delete(log[i][1])
        BY DEF Event
      <3>4. QED
        BY <1>5, <3>2, <3>3
    <2>2. QED
      BY <1>1, <2>1, SentServed DEF Typed, TypeOK, View
  <1>6. CASE i > store[n]
    <2>1. i \in store[n] + 1 .. Len(log)
      BY <1>1, <1>2, <1>6
    <2>2. ~About(Event(i), n)
      BY <1>2, <1>3, <2>1
    <2>3. \A u \in Tasks : Owing(u, n) => Owing(u, n)'
      BY <1>1, <1>2, <1>6 DEF Owing
    <2>4. QED
      BY <1>1, <1>3, <2>2, <2>3, BesideServed DEF Typed
  <1>7. QED
    BY <1>1, <1>2, <1>4, <1>5, <1>6

-----------------------------------------------------------------------------
(* The parts of the invariant, action by action *)

LEMMA InvTyped == IInv => Typed
  BY DEF IInv, Typed, WireType, WireIsRight

LEMMA InitInv == Init => IInv
  <1> SUFFICES ASSUME Init PROVE IInv
    OBVIOUS
  <1>1. TypeOK /\ wire \in Seq(Messages)
    BY InitType DEF Typed, WireType
  <1>2. \A n \in Names : ~Told(n)
    <2>1. wire = <<>>
      BY DEF Init
    <2>2. DOMAIN wire = {}
      BY <2>1
    <2>3. QED
      BY <2>2 DEF Told
  <1>3. LogIsStore /\ TasksServe
    BY DEF Init, LogIsStore, TasksServe, Empty
  <1>4. CallsAreFresh /\ ListsAreRight
    BY DEF Init, CallsAreFresh, CallFresh, ListsAreRight, ListRight, Calls, Empty
  <1>5. QED
    BY <1>1, <1>2, <1>3, <1>4 DEF IInv, WireIsRight

LEMMA TaskInv ==
    ASSUME IInv, NEW t \in Tasks,
           List(t) \/ SendItem(t) \/ Watch(t) \/ Deliver(t) \/ WatchFails(t)
    PROVE  IInv'
  <1>1. Typed /\ Typed'
    BY InvTyped, TaskType
  <1>2. UNCHANGED <<log, store, connected, mounted, hookVars, call, start>>
    BY DEF List, SendItem, Watch, Deliver, WatchFails, clusterVars, linkVars
  <1>3. \A n \in Names : store[n] # 0 => Served(n)
    BY <1>1, ListServed, SendItemServed, WatchServed, DeliverServed, WatchFailsServed
    DEF IInv
  <1>4. LogIsStore'
    BY <1>2 DEF IInv, LogIsStore
  <1>5. TasksServe'
    <2>1. connected
      BY DEF IInv, TasksServe, List, SendItem, Watch, Deliver, WatchFails
    <2>2. phase'[t] # "idle"
      BY <1>1 DEF Typed, TypeOK, List, SendItem, Watch, Deliver, WatchFails
    <2>3. ASSUME NEW u \in Tasks, phase'[u] = "stream", NEW m \in pending'[u], store[m.name] # 0
          PROVE  m.version = store[m.name] \/ cursor'[u] < store[m.name]
      <3>1. CASE Watch(t) /\ u = t
        BY <1>1, <2>3, <3>1, ItemsAreUpdates DEF Watch, Typed, TypeOK
      <3>2. CASE Deliver(t) /\ u = t
        BY <1>1, <2>3, <3>2 DEF Deliver, Typed, TypeOK
      <3>3. CASE (List(t) \/ WatchFails(t)) /\ u = t
        BY <1>1, <2>3, <3>3 DEF List, WatchFails, Typed, TypeOK
      <3>4. CASE u # t \/ SendItem(t)
        <4>1. phase[u] = "stream" /\ m \in pending[u] /\ cursor'[u] = cursor[u]
          BY <1>1, <2>3, <3>4
          DEF List, SendItem, Watch, Deliver, WatchFails, Typed, TypeOK
        <4>2. QED
          BY <2>3, <4>1 DEF IInv, TasksServe
      <3>5. QED
        BY <3>1, <3>2, <3>3, <3>4
    <2>4. QED
      BY <1>2, <2>1, <2>2, <2>3 DEF TasksServe
  <1>6. WireIsRight'
    BY <1>1, <1>2, <1>3 DEF IInv, WireIsRight, Served, Typed, WireType
  <1>7. ListsAreRight' /\ CallsAreFresh'
    <2>1. \A n \in Names : store'[n] # 0 =>
             store[n] # 0 /\ \A v \in View : Shows(v, n) => Shows(v, n)'
      BY <1>2, <1>3 DEF Served
    <2>2. QED
      BY <1>1, <1>2, <2>1, HooksLeft DEF IInv
  <1>8. QED
    BY <1>1, <1>4, <1>5, <1>6, <1>7 DEF IInv, Typed

\* A change of the cluster: every task that runs still has to send it.
LEMMA ClusterInv ==
    ASSUME IInv, NEW k \in Names, Put(k) \/ Remove(k) PROVE IInv'
  <1>1. Typed /\ Typed'
    BY InvTyped, ClusterType
  <1>2. UNCHANGED <<phase, pending, cursor, wire, connected, mounted, hookVars, call, start>>
    BY DEF Put, Remove, taskVars, linkVars
  <1>3. /\ Len(log) \in Nat /\ Len(log') = Len(log) + 1
        /\ \A i \in 1 .. Len(log) : log'[i] = log[i]
        /\ log'[Len(log) + 1][1] = k
        /\ Put(k) => log'[Len(log) + 1] = <<k, TRUE>>
    <2>1. CASE Put(k)
      <3> DEFINE e == <<k, TRUE>>
      <3>1. log' = Append(log, e)
        BY <2>1 DEF Put
      <3>2. e \in Names \X BOOLEAN /\ e[1] = k
        OBVIOUS
      <3>3. log \in Seq(Names \X BOOLEAN)
        BY <1>1 DEF Typed, TypeOK
      <3> HIDE DEF e
      <3>4. /\ Len(log) \in Nat /\ Len(log') = Len(log) + 1
            /\ \A i \in 1 .. Len(log) : log'[i] = log[i]
            /\ log'[Len(log) + 1] = e
        BY <3>1, <3>2, <3>3, AppendProperties
      <3>5. QED
        BY <2>1, <3>2, <3>4 DEF e
    <2>2. CASE Remove(k) /\ ~Put(k)
      <3> DEFINE e == <<k, FALSE>>
      <3>1. log' = Append(log, e)
        BY <2>2 DEF Remove
      <3>2. e \in Names \X BOOLEAN /\ e[1] = k
        OBVIOUS
      <3>3. log \in Seq(Names \X BOOLEAN)
        BY <1>1 DEF Typed, TypeOK
      <3> HIDE DEF e
      <3>4. /\ Len(log) \in Nat /\ Len(log') = Len(log) + 1
            /\ \A i \in 1 .. Len(log) : log'[i] = log[i]
            /\ log'[Len(log) + 1] = e
        BY <3>1, <3>2, <3>3, AppendProperties
      <3>5. QED
        BY <2>2, <3>2, <3>4 DEF e
    <2>3. QED
      BY <2>1, <2>2
  <1>4. /\ \A n \in Names : n # k => store'[n] = store[n]
        /\ store'[k] # 0 => Put(k) /\ store'[k] = Len(log) + 1
        /\ \A n \in Names : store[n] \in Nat
    <2>1. store \in [Names -> Nat]
      BY <1>1, StreamAssumption DEF Typed, TypeOK, View, Versions
    <2>2. CASE Put(k)
      BY <2>1, <2>2 DEF Put
    <2>3. CASE Remove(k)
      BY <2>1, <2>3 DEF Remove
    <2>4. QED
      BY <2>1, <2>2, <2>3
  <1>5. LogIsStore'
    <2> SUFFICES ASSUME NEW n \in Names, store'[n] # 0
                 PROVE  /\ store'[n] \in 1 .. Len(log') /\ log'[store'[n]] = <<n, TRUE>>
                        /\ \A i \in store'[n] + 1 .. Len(log') : log'[i][1] # n
      BY DEF LogIsStore
    <2>1. CASE n = k
      <3>1. store'[n] = Len(log) + 1 /\ log'[Len(log) + 1] = <<n, TRUE>>
        BY <1>3, <1>4, <2>1
      <3>2. store'[n] \in 1 .. Len(log') /\ store'[n] + 1 .. Len(log') = {}
        BY <1>3, <3>1
      <3>3. QED
        BY <3>1, <3>2
    <2>2. CASE n # k
      <3>1. /\ store[n] \in 1 .. Len(log) /\ log[store[n]] = <<n, TRUE>>
            /\ \A i \in store[n] + 1 .. Len(log) : log[i][1] # n
        BY <1>4, <2>2 DEF IInv, LogIsStore
      <3>2. ASSUME NEW i \in store'[n] + 1 .. Len(log') PROVE log'[i][1] # n
        <4>1. i = Len(log) + 1 \/ i \in store[n] + 1 .. Len(log)
          BY <1>3, <1>4, <2>2, <3>1
        <4>2. QED
          BY <1>3, <2>2, <3>1, <4>1
      <3>3. store'[n] = store[n] /\ store[n] \in 1 .. Len(log')
        BY <1>3, <1>4, <2>2, <3>1
      <3>4. log'[store'[n]] = <<n, TRUE>>
        BY <1>3, <3>1, <3>3
      <3>5. QED
        BY <3>2, <3>3, <3>4
    <2>3. QED
      BY <2>1, <2>2
  <1>6. \A u \in Tasks : phase[u] # "idle" /\ store'[k] # 0 => Owing(u, k)'
    <2> SUFFICES ASSUME NEW u \in Tasks, phase[u] # "idle", store'[k] # 0
                 PROVE  Owing(u, k)'
      OBVIOUS
    <2>1. cursor[u] \in 0 .. Len(log) /\ phase[u] \in Phases
      BY <1>1 DEF Typed, TypeOK
    <2>2. cursor'[u] < store'[k]
      BY <1>2, <1>3, <1>4, <2>1
    <2>3. QED
      BY <1>2, <2>1, <2>2 DEF Owing, Phases
  <1>7. connected /\ (mounted # {} \/ wire # <<>>) /\ store'[k] # 0 => Owed(k)'
    BY <1>6 DEF IInv, TasksServe, Owed
  <1>8. \A n \in Names : n # k => /\ Owed(n)' <=> Owed(n)
                                  /\ Told(n)' <=> Told(n)
                                  /\ EndsRight(n)' <=> EndsRight(n)
                                  /\ \A v \in View : Shows(v, n)' <=> Shows(v, n)
    BY <1>2, <1>4 DEF Owed, Owing, Told, EndsRight, Shows
  <1>9. TasksServe'
    <2>1. ASSUME NEW u \in Tasks, phase'[u] = "stream", NEW m \in pending'[u],
                 store'[m.name] # 0
          PROVE  m.version = store'[m.name] \/ cursor'[u] < store'[m.name]
      <3>1. m.name \in Names
        BY <1>1, <1>2, <2>1, MessageFields DEF Typed, TypeOK
      <3>2. CASE m.name = k
        <4>1. cursor[u] \in 0 .. Len(log)
          BY <1>1 DEF Typed, TypeOK
        <4>2. QED
          BY <1>2, <1>3, <1>4, <2>1, <3>2, <4>1
      <3>3. CASE m.name # k
        BY <1>2, <1>4, <2>1, <3>1, <3>3 DEF IInv, TasksServe
      <3>4. QED
        BY <3>2, <3>3
    <2>2. QED
      BY <1>2, <2>1 DEF IInv, TasksServe
  <1>10. WireIsRight'
    <2>1. ASSUME NEW n \in Names, store'[n] # 0, Told(n)' PROVE EndsRight(n)' \/ Owed(n)'
      <3>1. wire # <<>> /\ connected
        <4>1. wire # <<>>
          BY <1>2, <2>1 DEF Told
        <4>2. QED
          BY <4>1 DEF IInv, TasksServe, Typed, TypeOK
      <3>2. CASE n = k
        BY <1>7, <2>1, <3>1, <3>2
      <3>3. CASE n # k
        BY <1>4, <1>8, <2>1, <3>3 DEF IInv, WireIsRight
      <3>4. QED
        BY <3>2, <3>3
    <2>2. QED
      BY <1>1, <2>1 DEF WireIsRight, Typed, WireType
  <1>11. CallsAreFresh' /\ ListsAreRight'
    <2>1. CASE connected /\ mounted # {}
      <3>1. \A n \in Names : store'[n] # 0 =>
               \/ Owed(n)'
               \/ store[n] # 0 /\ \A v \in View : Shows(v, n) => Shows(v, n)'
        BY <1>4, <1>7, <1>8, <2>1
      <3>2. QED
        BY <1>1, <1>2, <3>1, HooksLeft DEF IInv
    <2>2. CASE ~(connected /\ mounted # {})
      <3>1. CallsAreFresh'
        BY <1>2 DEF IInv, CallsAreFresh, CallFresh, hookVars
      <3>2. ListsAreRight'
        BY <1>2, <2>2 DEF ListsAreRight, ListRight
      <3>3. QED
        BY <3>1, <3>2
    <2>3. QED
      BY <2>1, <2>2
  <1>12. QED
    BY <1>1, <1>5, <1>9, <1>10, <1>11 DEF IInv, Typed

\* A task that starts owes every object.
LEMMA Started ==
    ASSUME Typed, NEW t \in Tasks, StartTask(t), store' = store
    PROVE  /\ \A n : Owed(n)'
           /\ phase'[t] # "idle"
           /\ \A u \in Tasks : phase'[u] = "stream" => phase[u] = "stream"
  <1>1. /\ phase'[t] = "list"
        /\ \A u \in Tasks : u # t => phase'[u] = phase[u]
    BY DEF StartTask, Typed, TypeOK
  <1>2. QED
    BY <1>1 DEF Owed, Owing

LEMMA LinkInv == ASSUME IInv, Disconnect \/ Connect PROVE IInv'
  <1>1. Typed /\ Typed'
    BY InvTyped, LinkType
  <1>2. UNCHANGED <<log, store, mounted, hookVars, call>>
    BY DEF Disconnect, Connect, clusterVars
  <1>3. LogIsStore'
    BY <1>2 DEF IInv, LogIsStore
  <1>4. CASE Disconnect
    <2>1. ~connected' /\ wire' = <<>> /\ \A u \in Tasks : phase'[u] = "idle"
      BY <1>4 DEF Disconnect
    <2>2. TasksServe'
      BY <2>1 DEF TasksServe
    <2>3. WireIsRight'
      <3>1. DOMAIN wire' = {}
        BY <2>1
      <3>2. QED
        BY <1>1, <3>1 DEF WireIsRight, Told, Typed, WireType
    <2>4. CallsAreFresh' /\ ListsAreRight'
      <3>1. start' = start
        BY <1>4 DEF Disconnect
      <3>2. QED
        BY <1>2, <2>1, <3>1 DEF IInv, CallsAreFresh, CallFresh, ListsAreRight, ListRight, hookVars
    <2>5. QED
      BY <1>1, <1>3, <2>2, <2>3, <2>4 DEF IInv, Typed
  <1>5. CASE Connect
    <2>1. wire = <<>> /\ \A u \in Tasks : phase[u] = "idle"
      BY <1>5 DEF Connect, IInv, TasksServe
    <2>2. CallsAreFresh'
      BY <1>2, <1>5 DEF Connect, IInv, CallsAreFresh, CallFresh, hookVars
    <2>3. CASE mounted = {}
      <3>1. wire' = <<>> /\ phase' = phase /\ connected'
        BY <1>5, <2>1, <2>3 DEF Connect
      <3>2. DOMAIN wire' = {}
        BY <3>1
      <3>3. TasksServe' /\ WireIsRight' /\ ListsAreRight'
        BY <1>1, <1>2, <2>1, <2>3, <3>1, <3>2
        DEF TasksServe, WireIsRight, Told, ListsAreRight, ListRight, Typed, WireType
      <3>4. QED
        BY <1>1, <1>3, <2>2, <3>3 DEF IInv, Typed
    <2>4. CASE mounted # {}
      <3>1. PICK t \in Tasks : StartTask(t)
        BY <1>5, <2>4 DEF Connect
      <3>2. /\ \A n : Owed(n)'
            /\ phase'[t] # "idle" /\ \A u \in Tasks : phase'[u] # "stream"
        BY <1>1, <1>2, <2>1, <3>1, Started
      <3>3. connected'
        BY <1>5 DEF Connect
      <3>4. TasksServe' /\ WireIsRight' /\ ListsAreRight'
        BY <1>1, <3>2, <3>3
        DEF TasksServe, WireIsRight, ListsAreRight, ListRight, Shows, Typed, WireType
      <3>5. QED
        BY <1>1, <1>3, <2>2, <3>4 DEF IInv, Typed
    <2>5. QED
      BY <2>3, <2>4
  <1>6. QED
    BY <1>4, <1>5

LEMMA MountInv == ASSUME IInv, NEW k \in Hooks, Mount(k) PROVE IInv'
  <1>1. Typed /\ Typed'
    BY InvTyped, HookType
  <1>2. UNCHANGED <<log, store, pending, cursor, connected>> /\ mounted' = mounted \cup {k}
    BY DEF Mount, clusterVars
  <1>3. LogIsStore'
    BY <1>2 DEF IInv, LogIsStore
  <1>4. /\ list'[k] = Empty
        /\ call'[k][Initial] = Asked /\ \A c \in Polls : call'[k][c] = call[k][c]
        /\ start'[k] \in {"served", "joined"}
        /\ start'[k] = "served" => mounted = {} \/ ~connected
        /\ \A h \in Hooks : h # k => /\ list'[h] = list[h] /\ received'[h] = received[h]
                                    /\ call'[h] = call[h] /\ start'[h] = start[h]
    <2>1. list \in [Hooks -> View] /\ received \in [Hooks -> BOOLEAN]
          /\ start \in [Hooks -> {"served", "joined", "bare"}]
      BY <1>1 DEF Typed, TypeOK
    <2>2. call \in [Hooks -> [Calls -> View \cup {None, Asked}]]
      BY <1>1 DEF Typed, TypeOK
    <2>3. /\ call'[k][Initial] = Asked /\ \A c \in Polls : call'[k][c] = call[k][c]
          /\ \A h \in Hooks : h # k => call'[h] = call[h]
      BY <2>2, StreamAssumption DEF Mount, Calls
    <2>4. QED
      BY <2>1, <2>3 DEF Mount
  <1>5. CallsAreFresh'
    <2> SUFFICES ASSUME NEW h \in Hooks \ Reconciled
                 PROVE  CallFresh(h)'
      BY DEF CallsAreFresh
    <2>1. CASE h = k
      BY <1>2, <1>4, <2>1 DEF IInv, CallsAreFresh, CallFresh
    <2>2. CASE h # k
      BY <1>2, <1>4, <2>2 DEF IInv, CallsAreFresh, CallFresh
    <2>3. QED
      BY <2>1, <2>2
  <1>6. CASE mounted = {} /\ connected
    <2>1. PICK t \in Tasks : StartTask(t)
      BY <1>6 DEF Mount
    <2>2. /\ \A n : Owed(n)'
          /\ phase'[t] # "idle"
          /\ \A u \in Tasks : phase'[u] = "stream" => phase[u] = "stream"
      BY <1>1, <1>2, <2>1, Started
    <2>3. TasksServe' /\ WireIsRight' /\ ListsAreRight'
      BY <1>1, <1>2, <1>6, <2>2
      DEF IInv, TasksServe, WireIsRight, ListsAreRight, ListRight, Shows, Typed, WireType
    <2>4. QED
      BY <1>1, <1>3, <1>5, <2>3 DEF IInv, Typed
  <1>7. CASE ~(mounted = {} /\ connected)
    <2>1. UNCHANGED <<phase, wire>>
      BY <1>7 DEF Mount
    <2>2. \A n : /\ Owed(n)' <=> Owed(n)
                 /\ Told(n)' <=> Told(n)
                 /\ EndsRight(n)' <=> EndsRight(n)
      BY <1>2, <2>1 DEF Owed, Owing, Told, EndsRight
    <2>3. TasksServe' /\ WireIsRight'
      BY <1>1, <1>2, <1>7, <2>1, <2>2 DEF IInv, TasksServe, WireIsRight, Typed, WireType
    <2>4. ListsAreRight'
      <3> SUFFICES ASSUME connected', NEW h \in mounted' \ Reconciled, NEW n \in Names,
                          store'[n] # 0
                   PROVE  ListRight(h, n)'
        BY DEF ListsAreRight
      <3>1. CASE h = k
        <4>1. list'[h][n] = 0
          BY <1>4, <3>1 DEF Empty
        <4>2. start'[h] # "served"
          BY <1>2, <1>4, <1>7, <3>1
        <4>3. QED
          BY <1>4, <3>1, <4>1, <4>2, AskedIsNoAnswer DEF ListRight
      <3>2. CASE h # k
        <4>1. h \in mounted \ Reconciled /\ h \in Hooks
          BY <1>1, <1>2, <3>2 DEF Typed, TypeOK
        <4>2. \A v : Shows(v, n)' <=> Shows(v, n)
          BY <1>2, <2>2 DEF Shows
        <4>3. /\ Shows(list[h], n)' <=> Shows(list[h], n)
              /\ Shows(call[h][Initial], n)' <=> Shows(call[h][Initial], n)
          BY <1>2, <1>4, <2>2, <3>2, <4>1 DEF Shows
        <4>4. QED
          BY <1>2, <1>4, <3>2, <4>1, <4>3 DEF IInv, ListsAreRight, ListRight
      <3>3. QED
        BY <3>1, <3>2
    <2>5. QED
      BY <1>1, <1>3, <1>5, <2>3, <2>4 DEF IInv, Typed
  <1>8. QED
    BY <1>6, <1>7

\* What a step of the tab alone leaves of the rest.
LEMMA TabStep ==
    ASSUME IInv, UNCHANGED <<log, store, taskVars, wire, connected>>, mounted' \subseteq mounted
    PROVE  /\ LogIsStore' /\ TasksServe'
           /\ Typed' => WireIsRight'
           /\ \A n : /\ Owed(n)' <=> Owed(n)
                     /\ Told(n)' <=> Told(n)
           /\ \A n, v : Shows(v, n)' <=> Shows(v, n)
  <1>1. \A n : /\ Owed(n)' <=> Owed(n)
               /\ Told(n)' <=> Told(n)
               /\ EndsRight(n)' <=> EndsRight(n)
    BY DEF Owed, Owing, Told, EndsRight, taskVars
  <1>2. LogIsStore' /\ TasksServe' /\ (Typed' => WireIsRight')
    BY <1>1 DEF IInv, LogIsStore, TasksServe, WireIsRight, Typed, WireType, taskVars
  <1>3. \A n, v : Shows(v, n)' <=> Shows(v, n)
    BY <1>1 DEF Shows
  <1>4. QED
    BY <1>1, <1>2, <1>3

LEMMA LeaveInv == ASSUME IInv, NEW k \in Hooks, Unmount(k) \/ ConfirmEmpty(k) PROVE IInv'
  <1>1. Typed /\ Typed'
    BY InvTyped, HookType
  <1>2. /\ UNCHANGED <<log, store, taskVars, wire, connected, list, received, start>>
        /\ mounted' \subseteq mounted
    BY DEF Unmount, ConfirmEmpty, clusterVars, linkVars
  <1>3. /\ \A h \in mounted' : call'[h] = call[h]
        /\ \A h \in Hooks : \/ call'[h] = call[h]
                            \/ h \notin mounted' /\ \A c \in Calls : call'[h][c] = None
    <2>1. CASE Unmount(k)
      <3>1. /\ call' = [call EXCEPT ![k] = [c \in Calls |-> None]] /\ mounted' = mounted \ {k}
            /\ call \in [Hooks -> [Calls -> View \cup {None, Asked}]] /\ mounted \subseteq Hooks
        BY <1>1, <2>1 DEF Unmount, Typed, TypeOK
      <3>2. /\ \A h \in Hooks : h # k => call'[h] = call[h]
            /\ \A c \in Calls : call'[k][c] = None
        BY <3>1
      <3>3. QED
        BY <3>1, <3>2
    <2>2. CASE ConfirmEmpty(k)
      BY <2>2 DEF ConfirmEmpty
    <2>3. QED
      BY <2>1, <2>2
  <1>4. /\ LogIsStore' /\ TasksServe' /\ WireIsRight'
        /\ \A n, v : Shows(v, n)' <=> Shows(v, n)
    BY <1>1, <1>2, TabStep
  <1>5. CallsAreFresh'
    <2>1. \A h \in Hooks : h \notin mounted' =>
             h \notin mounted \/ \A c \in Calls : call'[h][c] = None
      BY <1>1 DEF Unmount, ConfirmEmpty, Typed, TypeOK
    <2>2. QED
      BY <1>2, <1>3, <2>1 DEF IInv, CallsAreFresh, CallFresh, Calls
  <1>6. ListsAreRight'
    <2> SUFFICES ASSUME connected', NEW h \in mounted' \ Reconciled, NEW n \in Names,
                        store'[n] # 0
                 PROVE  ListRight(h, n)'
      BY DEF ListsAreRight
    <2>1. h \in mounted \ Reconciled /\ call'[h] = call[h]
      BY <1>2, <1>3
    <2>2. /\ Shows(list[h], n)' <=> Shows(list[h], n)
          /\ Shows(call[h][Initial], n)' <=> Shows(call[h][Initial], n)
      BY <1>2, <1>4, <2>1
    <2>3. QED
      BY <1>2, <2>1, <2>2 DEF IInv, ListsAreRight, ListRight
  <1>7. QED
    BY <1>1, <1>4, <1>5, <1>6 DEF IInv, Typed

\* A request of the hook k, and its answer.
LEMMA CallInv ==
    ASSUME IInv, NEW k \in Hooks, NEW c \in Calls,
           Poll(k, c) \/ Answer(k, c) \/ CallFails(k, c) \/ Arrive(k, c)
    PROVE  IInv'
  <1>1. Typed /\ Typed'
    BY InvTyped, CallType
  <1>2. UNCHANGED <<log, store, taskVars, wire, connected, mounted, received>>
    BY DEF Poll, Answer, CallFails, Arrive, clusterVars, linkVars, hookVars
  <1>3. /\ LogIsStore' /\ TasksServe' /\ WireIsRight'
        /\ \A n, v : Shows(v, n)' <=> Shows(v, n)
        /\ \A n : (Owed(n)' <=> Owed(n)) /\ (Told(n)' <=> Told(n))
    BY <1>1, <1>2, TabStep
  <1>4. \A h \in Hooks : h # k =>
           call'[h] = call[h] /\ list'[h] = list[h] /\ start'[h] = start[h]
    BY <1>1 DEF Poll, Answer, CallFails, Arrive, Unlisted, hookVars, Typed, TypeOK
  <1>5. k \notin Reconciled => c = Initial /\ ~Poll(k, c) /\ k \in mounted /\ start[k] # "bare"
    BY <1>1, AskedIsNoAnswer
    DEF IInv, CallsAreFresh, CallFresh, Poll, Answer, CallFails, Arrive, Calls, Typed, TypeOK
  <1>6. /\ \A d \in Calls : d # c => call'[k][d] = call[k][d]
        /\ Answer(k, c) => call[k][c] = Asked /\ call'[k][c] = store /\ store \in View
        /\ CallFails(k, c) \/ Arrive(k, c) => call'[k][c] = None
        /\ Arrive(k, c) => call[k][c] \in View
    BY <1>1 DEF Poll, Answer, CallFails, Arrive, Typed, TypeOK
  <1>7. ASSUME k \notin Reconciled, Answer(k, c)
        PROVE  /\ CallFresh(k) => CallFresh(k)'
               /\ \A n \in Names : store[n] # 0 /\ CallFresh(k) /\ ListRight(k, n)
                                      => ListRight(k, n)'
    <2>1. UNCHANGED <<list, start>>
      BY <1>7 DEF Answer, hookVars
    <2>2. \A d \in Polls : call'[k][d] = call[k][d]
      BY <1>5, <1>6, <1>7, StreamAssumption DEF Calls
    <2>3. CallFresh(k) => CallFresh(k)'
      BY <1>2, <1>5, <1>6, <1>7, <2>1, <2>2, StreamAssumption DEF CallFresh
    <2>4. ASSUME NEW n \in Names, ListRight(k, n) PROVE ListRight(k, n)'
      <3>1. call'[k][Initial] = store /\ call'[k][Initial] # None
        BY <1>5, <1>6, <1>7, AskedIsNoAnswer
      <3>2. Shows(list[k], n)' <=> Shows(list[k], n)
        BY <1>2, <1>3, <2>1
      <3>3. Shows(call[k][Initial], n)'
        BY <1>2, <3>1 DEF Shows
      <3>4. QED
        BY <1>2, <2>1, <2>4, <3>1, <3>2, <3>3 DEF ListRight
    <2>5. QED
      BY <2>3, <2>4
  <1>8. ASSUME k \notin Reconciled, CallFails(k, c)
        PROVE  /\ CallFresh(k) => CallFresh(k)'
               /\ \A n \in Names : store[n] # 0 /\ CallFresh(k) /\ ListRight(k, n)
                                      => ListRight(k, n)'
    <2>1. list' = list /\ start'[k] = IF start[k] = "joined" THEN "bare" ELSE start[k]
      BY <1>1, <1>5, <1>8 DEF CallFails, Unlisted, hookVars, Typed, TypeOK
    <2>2. call'[k][Initial] = None /\ \A d \in Polls : call'[k][d] = call[k][d]
      BY <1>5, <1>6, <1>8, StreamAssumption DEF Calls
    <2>3. CallFresh(k) => CallFresh(k)'
      BY <1>2, <2>1, <2>2 DEF CallFresh
    <2>4. ASSUME NEW n \in Names, ListRight(k, n) PROVE ListRight(k, n)'
      <3>1. Shows(list[k], n)' <=> Shows(list[k], n)
        BY <1>2, <1>3, <2>1
      <3>2. QED
        BY <1>2, <2>1, <2>4, <3>1 DEF ListRight
    <2>5. QED
      BY <2>3, <2>4
  <1>9. ASSUME k \notin Reconciled, Arrive(k, c)
        PROVE  /\ CallFresh(k) => CallFresh(k)'
               /\ \A n \in Names : store[n] # 0 /\ CallFresh(k) /\ ListRight(k, n)
                                      => ListRight(k, n)'
    <2>1. call'[k][Initial] = None /\ \A d \in Polls : call'[k][d] = call[k][d]
      BY <1>5, <1>6, <1>9, StreamAssumption DEF Calls
    <2>2. call[k][Initial] \in View /\ call[k][Initial] \notin {None, Asked}
      BY <1>5, <1>6, <1>9, AskedIsNoAnswer
    <2>3. CASE ~received[k]
      <3>1. list'[k] = call[k][Initial] /\ start' = start
        BY <1>1, <1>5, <1>9, <2>3 DEF Arrive, Usable, Typed, TypeOK
      <3>2. CallFresh(k) => CallFresh(k)'
        BY <1>2, <1>5, <1>9, <2>1, <3>1 DEF CallFresh
      <3>3. ASSUME NEW n \in Names, store[n] # 0, CallFresh(k), ListRight(k, n)
            PROVE  ListRight(k, n)'
        <4>1. list[k] = Empty /\ list[k][n] = 0
          BY <1>5, <1>9, <2>2, <2>3, <3>3 DEF CallFresh, Empty
        <4>2. start[k] = "served" => Owed(n) \/ Told(n)
          BY <3>3, <4>1 DEF ListRight, Shows
        <4>3. start[k] = "joined" => Shows(call[k][Initial], n)
          BY <2>2, <2>3, <3>3 DEF ListRight
        <4>4. start[k] \in {"served", "joined"}
          BY <1>1, <1>5, <1>9 DEF Typed, TypeOK
        <4>5. Shows(list[k], n)'
          BY <1>2, <1>3, <3>1, <4>2, <4>3, <4>4 DEF Shows
        <4>6. QED
          BY <2>1, <4>5 DEF ListRight
      <3>4. QED
        BY <3>2, <3>3
    <2>4. CASE received[k]
      <3>1. list' = list /\ start'[k] = IF start[k] = "joined" THEN "bare" ELSE start[k]
        BY <1>1, <1>5, <1>9, <2>4 DEF Arrive, Usable, Unlisted, Typed, TypeOK
      <3>2. CallFresh(k) => CallFresh(k)'
        BY <1>2, <2>1, <3>1 DEF CallFresh
      <3>3. ASSUME NEW n \in Names, ListRight(k, n) PROVE ListRight(k, n)'
        <4>1. Shows(list[k], n)' <=> Shows(list[k], n)
          BY <1>2, <1>3, <3>1
        <4>2. QED
          BY <1>2, <2>1, <3>1, <3>3, <4>1 DEF ListRight
      <3>4. QED
        BY <3>2, <3>3
    <2>5. QED
      BY <1>1, <2>3, <2>4 DEF Typed, TypeOK
  <1>10. k \notin Reconciled => /\ CallFresh(k) => CallFresh(k)'
                              /\ \A n \in Names : store[n] # 0 /\ CallFresh(k) /\ ListRight(k, n)
                                                     => ListRight(k, n)'
    BY <1>5, <1>7, <1>8, <1>9
  <1>11. \A h \in Hooks : h # k => /\ CallFresh(h) => CallFresh(h)'
                                  /\ \A n : ListRight(h, n) => ListRight(h, n)'
    <2> SUFFICES ASSUME NEW h \in Hooks, h # k
                 PROVE  /\ CallFresh(h) => CallFresh(h)'
                        /\ \A n : ListRight(h, n) => ListRight(h, n)'
      OBVIOUS
    <2>1. \A n : /\ Shows(list[h], n)' <=> Shows(list[h], n)
                 /\ Shows(call[h][Initial], n)' <=> Shows(call[h][Initial], n)
      BY <1>2, <1>3, <1>4
    <2>2. QED
      BY <1>2, <1>4, <2>1 DEF CallFresh, ListRight
  <1>12. CallsAreFresh' /\ ListsAreRight'
    <2>1. \A h \in Hooks \ Reconciled : CallFresh(h) /\ CallFresh(h)'
      BY <1>10, <1>11 DEF IInv, CallsAreFresh
    <2>2. mounted \subseteq Hooks
      BY <1>1 DEF Typed, TypeOK
    <2>3. QED
      BY <1>2, <1>10, <1>11, <2>1, <2>2 DEF IInv, CallsAreFresh, ListsAreRight
  <1>13. QED
    BY <1>1, <1>3, <1>12 DEF IInv, Typed

LEMMA HandleInv == ASSUME IInv, Handle PROVE IInv'
  <1> DEFINE m == Head(wire)
  <1>1. Typed /\ Typed'
    BY InvTyped, HandleType
  <1>2. /\ UNCHANGED <<log, store, taskVars, connected, mounted, call, start>>
        /\ wire # <<>> /\ wire' = Tail(wire)
    BY DEF Handle, clusterVars
  <1>3. m \in Messages
    BY <1>1, <1>2, HeadTailProperties DEF Typed, WireType
  <1>4. \A n : /\ Owed(n)' <=> Owed(n)
               /\ Told(n) => Told(n)' \/ About(m, n)
               /\ Told(n)' => Told(n)
               /\ EndsRight(n) /\ Told(n)' => EndsRight(n)'
               /\ EndsRight(n) => EndsRight(n)' \/ m = Update(n, store[n])
    <2>1. \A n : Owed(n)' <=> Owed(n)
      BY <1>2 DEF Owed, Owing, taskVars
    <2>2. \A n : store'[n] = store[n]
      BY <1>2
    <2>3. QED
      BY <1>1, <1>2, <2>1, <2>2, Taken DEF Typed
  <1>5. \A n \in Names : About(m, n) => Told(n)
    <2>1. 1 \in DOMAIN wire /\ m = wire[1]
      BY <1>1, <1>2, HeadTailProperties, EmptySeq DEF Typed, WireType
    <2>2. QED
      BY <2>1 DEF Told
  <1>6. LogIsStore' /\ TasksServe' /\ WireIsRight'
    <2>1. LogIsStore' /\ TasksServe'
      BY <1>2 DEF IInv, LogIsStore, TasksServe, taskVars
    <2>2. WireIsRight'
      BY <1>1, <1>2, <1>4 DEF IInv, WireIsRight, Typed, WireType
    <2>3. QED
      BY <2>1, <2>2
  <1>7. \A h \in mounted : m.kind # "subscribed" => received'[h]
    BY <1>1 DEF Handle, Typed, TypeOK
  <1>8. \A h \in Hooks : h \notin mounted \/ m.kind = "subscribed"
                            => list'[h] = list[h] /\ received'[h] = received[h]
    <2>1. list \in [Hooks -> View] /\ received \in [Hooks -> BOOLEAN]
      BY <1>1 DEF Typed, TypeOK
    <2>2. CASE m.kind = "subscribed"
      BY <2>2 DEF Handle
    <2>3. CASE m.kind # "subscribed"
      BY <2>1, <2>3 DEF Handle
    <2>4. QED
      BY <2>2, <2>3
  <1>9. CallsAreFresh'
    <2>1. ASSUME NEW h \in Hooks, CallFresh(h) PROVE CallFresh(h)'
      BY <1>2, <1>7, <1>8, <2>1 DEF CallFresh
    <2>2. QED
      BY <2>1 DEF IInv, CallsAreFresh
  <1>10. ListsAreRight'
    <2> SUFFICES ASSUME connected', NEW h \in mounted' \ Reconciled, NEW n \in Names,
                        store'[n] # 0
                 PROVE  ListRight(h, n)'
      BY DEF ListsAreRight
    <2>1. h \in mounted /\ h \in Hooks /\ store[n] # 0 /\ ListRight(h, n)
      BY <1>1, <1>2 DEF IInv, ListsAreRight, Typed, TypeOK
    <2>2. CASE About(m, n)
      <3>1. Shows(list[h], n)'
        <4>1. EndsRight(n) \/ Owed(n)
          BY <1>5, <2>1, <2>2 DEF IInv, WireIsRight
        <4>2. CASE Owed(n)
          BY <1>4, <4>2 DEF Shows
        <4>3. CASE EndsRight(n)'
          <5>1. About(Update(n, store'[n]), n)
            BY DEF About, Update
          <5>2. Told(n)'
            BY <4>3, <5>1 DEF EndsRight, Told
          <5>3. QED
            BY <5>2 DEF Shows
        <4>4. CASE m = Update(n, store[n])
          <5>1. m.kind = "update" /\ m.name = n /\ m.version = store[n]
            BY <4>4 DEF Update
          <5>2. list'[h] = Upsert(list[h], m) /\ list[h] \in View
            BY <1>1, <2>1, <5>1 DEF Handle, Typed, TypeOK
          <5>3. list'[h][n] = store'[n]
            BY <1>2, <5>1, <5>2 DEF Upsert, View
          <5>4. QED
            BY <5>3 DEF Shows
        <4>5. QED
          BY <1>4, <4>1, <4>2, <4>3, <4>4
      <3>2. received'[h]
        BY <1>7, <2>1, <2>2 DEF About
      <3>3. QED
        BY <3>1, <3>2 DEF ListRight
    <2>3. CASE ~About(m, n)
      <3>1. list'[h][n] = list[h][n]
        <4>1. CASE m.kind = "subscribed"
          BY <1>8, <2>1, <4>1
        <4>2. CASE m.kind # "subscribed" /\ m.name # n
          <5>1. list'[h] = IF m.kind = "update" THEN Upsert(list[h], m)
                                                ELSE Drop(h, list[h], m)
            BY <2>1, <4>2 DEF Handle
          <5>2. list[h] \in View
            BY <1>1, <2>1 DEF Typed, TypeOK
          <5>3. QED
            BY <4>2, <5>1, <5>2 DEF Upsert, Drop, View
        <4>3. QED
          BY <2>3, <4>1, <4>2 DEF About
      <3>2. /\ Shows(list[h], n) => Shows(list[h], n)'
            /\ Shows(call[h][Initial], n) => Shows(call[h][Initial], n)'
        BY <1>2, <1>4, <2>3, <3>1 DEF Shows
      <3>3. received[h] => received'[h]
        BY <1>1, <2>1 DEF Handle, Typed, TypeOK
      <3>4. QED
        BY <1>2, <2>1, <3>1, <3>2, <3>3 DEF ListRight
    <2>4. QED
      BY <2>2, <2>3
  <1>11. QED
    BY <1>1, <1>6, <1>9, <1>10 DEF IInv, Typed

LEMMA NextInv == IInv /\ [Next]_vars => IInv'
  <1> SUFFICES ASSUME IInv, [Next]_vars PROVE IInv'
    OBVIOUS
  <1>1. CASE UNCHANGED vars
    <2>1. /\ Typed' /\ UNCHANGED <<log, store, taskVars, wire, connected>>
          /\ UNCHANGED <<mounted, list, received, call, start>>
      BY <1>1, InvTyped, NextType
      DEF vars, clusterVars, taskVars, linkVars, hookVars
    <2>2. /\ LogIsStore' /\ TasksServe' /\ WireIsRight'
          /\ \A n, v : Shows(v, n)' <=> Shows(v, n)
      BY <2>1, TabStep
    <2>3. CallsAreFresh' /\ ListsAreRight'
      <3>1. \A h, n : ListRight(h, n) => ListRight(h, n)'
        <4>1. \A h, n : /\ Shows(list[h], n)' <=> Shows(list[h], n)
                        /\ Shows(call[h][Initial], n)' <=> Shows(call[h][Initial], n)
          BY <2>1, <2>2
        <4>2. QED
          BY <2>1, <4>1 DEF ListRight
      <3>2. QED
        BY <2>1, <3>1 DEF IInv, CallsAreFresh, CallFresh, ListsAreRight
    <2>4. QED
      BY <2>1, <2>2, <2>3 DEF IInv, Typed
  <1>2. CASE \E h \in Hooks, c \in Polls : Poll(h, c)
    BY <1>2, CallInv DEF Calls
  <1>3. QED
    BY <1>1, <1>2, ClusterInv, TaskInv, LinkInv, MountInv, LeaveInv, CallInv, HandleInv DEF Next

-----------------------------------------------------------------------------
(* The theorems *)

\* What every step of a list on its way keeps (IInv in WatchStream): above all,
\* an object that a list page does not show in its latest version is on the wire
\* to it, or a task still has to send it.
THEOREM ListsStayRight == Spec => []IInv
  BY InitInv, NextInv, PTL DEF Spec

\* When the watches have caught up and the tab has handled what they sent, a
\* list page shows every object in its latest version.
THEOREM SettledListsShowAll == Spec => []SettledShowsAll
  <1>1. IInv => SettledShowsAll
    <2> SUFFICES ASSUME IInv, Settled, NEW h \in mounted \ Reconciled, NEW n \in Names,
                        store[n] # 0
                 PROVE  list[h][n] = store[n] \/ (start[h] = "bare" /\ list[h][n] = 0)
      BY DEF SettledShowsAll
    <2>1. Typed /\ h \in Hooks /\ connected /\ call[h][Initial] = None
      BY InvTyped DEF Settled, Typed, TypeOK, Calls
    <2>2. ~Told(n)
      <3>1. DOMAIN wire = {}
        BY DEF Settled
      <3>2. QED
        BY <3>1 DEF Told
    <2>3. ~Owed(n)
      <3>1. store[n] \in 1 .. Len(log) /\ Len(log) \in Nat
        <4>1. LogIsStore
          BY DEF IInv
        <4>2. Len(log) \in Nat
          BY <2>1 DEF Typed, TypeOK
        <4>3. QED
          BY <4>1, <4>2 DEF LogIsStore
      <3>2. \A t \in Tasks : ~Owing(t, n)
        BY <3>1 DEF Settled, CaughtUp, Owing
      <3>3. QED
        BY <3>2 DEF Owed
    <2>4. ListRight(h, n)
      BY <2>1 DEF IInv, ListsAreRight
    <2>5. start[h] \in {"served", "joined", "bare"}
      BY <2>1 DEF Typed, TypeOK
    <2>6. Shows(list[h], n) => list[h][n] = store[n]
      BY <2>2, <2>3 DEF Shows
    <2>7. /\ list[h][n] = 0 \/ Shows(list[h], n)
          /\ start[h] \in {"served", "joined"} => Shows(list[h], n)
      BY <2>1, <2>4 DEF ListRight
    <2>8. QED
      BY <2>5, <2>6, <2>7
  <1>2. QED
    BY <1>1, ListsStayRight, PTL

=============================================================================
