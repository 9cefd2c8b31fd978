--------------------------- MODULE PortForwardsProofs ---------------------------
(***************************************************************************)
(* IInv is inductive: the port-forward handlers lose no kubectl, and       *)
(* report none as stopped that runs, for any number of requests.           *)
(***************************************************************************)
EXTENDS PortForwards, TLAPS

LEMMA InitIInv == Init => IInv
  BY ForwardAssumption
     DEF Init, IInv, TypeOK, Facts, NoOrphan, GoneIsDead, RunningIsNotKilled,
         CreationIsFirst, PastKillIsDead, Born, Steps, Ids

(* A slot that moves on keeps its id.                                      *)
LEMMA SlotStep ==
  ASSUME TypeOK, NEW r \in Requests, NEW s \in Steps, pc[r] # "idle",
         pc' = [pc EXCEPT ![r] = s], UNCHANGED <<on, nextId>>
  PROVE  /\ pc' \in [Requests -> Steps]
         /\ \A q \in Requests : pc'[q] # "idle" => on[q] \in 1 .. nextId - 1
         /\ on[r] \in Ids
  <1>1. pc' \in [Requests -> Steps] /\ \A q \in Requests : pc'[q] # "idle" => pc[q] # "idle"
    BY DEF TypeOK
  <1>2. on[r] \in Ids
    BY DEF TypeOK, Ids
  <1> QED
    BY <1>1, <1>2 DEF TypeOK

LEMMA TypeStep == IInv /\ [Next]_vars => TypeOK'
  <1> SUFFICES ASSUME IInv, [Next]_vars PROVE TypeOK'
    OBVIOUS
  <1> TypeOK
    BY DEF IInv
  <1> USE ForwardAssumption
  <1>1. ASSUME NEW r \in Requests, Create(r) PROVE TypeOK'
    BY <1>1 DEF Create, Serve, TypeOK, Steps, Ids
  <1>2. ASSUME NEW r \in Requests, InsertForward(r) \/ InsertProcess(r) PROVE TypeOK'
    <2>1. PICK s \in {"insertProcess", "idle"} :
              /\ pc[r] # "idle" /\ pc' = [pc EXCEPT ![r] = s]
              /\ UNCHANGED <<child, lock, on, nextId, requests, cancels, deleted, disturbed>>
      BY <1>2 DEF InsertForward, InsertProcess, Goto
    <2>2. /\ pc' \in [Requests -> Steps] /\ on[r] \in Ids
          /\ \A q \in Requests : pc'[q] # "idle" => on[q] \in 1 .. nextId - 1
      BY <2>1, SlotStep DEF Steps
    <2>3. rows' \in [Ids -> {"running", "stopped", None}] /\ held' \subseteq Ids
      BY <1>2, <2>2 DEF InsertForward, InsertProcess, TypeOK
    <2> QED
      BY <2>1, <2>2, <2>3 DEF TypeOK
  <1>3. ASSUME NEW r \in Requests, NEW id \in Ids, Stop(r, id) \/ Delete(r, id) PROVE TypeOK'
    <2>1. PICK step \in {"stopKill", "deleteKill"} : Ask(r, step, id)
      BY <1>3 DEF Stop, Delete
    <2>2. id < nextId
      BY <2>1 DEF IInv, Facts, Born, Ask, Known, TypeOK
    <2>3. id \in 1 .. nextId - 1
      BY <2>2 DEF TypeOK, Ids
    <2>4. pc' \in [Requests -> Steps] /\ on' \in [Requests -> {0} \cup Ids]
      BY <2>1 DEF Ask, Serve, TypeOK, Steps
    <2>5. \A q \in Requests : pc'[q] # "idle" => on'[q] \in 1 .. nextId - 1
      BY <2>1, <2>3 DEF Ask, Serve, TypeOK
    <2>6. disturbed' \subseteq Ids /\ requests' \in Nat
      BY <2>1 DEF Ask, Serve, TypeOK
    <2> QED
      BY <2>1, <2>4, <2>5, <2>6 DEF Ask, TypeOK, tableVars
  <1>4. ASSUME NEW r \in Requests,
               NEW step \in Steps \ {"idle"}, NEW waiting \in Steps, NEW next \in Steps,
               Kill(r, step, waiting, next)
        PROVE  TypeOK'
    <2>1. PICK s \in Steps : pc' = [pc EXCEPT ![r] = s]
      BY <1>4 DEF Kill, Goto
    <2>2. child' \in [Ids -> {"none", "alive", "killed", "exited"}]
      BY <1>4 DEF Kill, Killed, TypeOK
    <2> QED
      BY <1>4, <2>1, <2>2, SlotStep DEF Kill, TypeOK
  <1>5. ASSUME NEW r \in Requests, NEW waiting \in Steps \ {"idle"}, NEW next \in Steps,
               Exited(r, waiting, next)
        PROVE  TypeOK'
    BY <1>5, SlotStep DEF Exited, Release, Goto, TypeOK, tableVars
  <1>6. ASSUME NEW r \in Requests, Mark(r) \/ Remove(r) PROVE TypeOK'
    <2>1. /\ pc[r] # "idle" /\ pc' = [pc EXCEPT ![r] = "idle"]
          /\ UNCHANGED <<held, child, lock, on, nextId, requests, cancels, disturbed>>
      BY <1>6 DEF Mark, Remove, Goto
    <2>2. rows' \in [Ids -> {"running", "stopped", None}]
      BY <1>6 DEF Mark, Remove, TypeOK
    <2>3. /\ pc' \in [Requests -> Steps] /\ on[r] \in Ids
          /\ \A q \in Requests : pc'[q] # "idle" => on[q] \in 1 .. nextId - 1
      BY <2>1, SlotStep DEF Steps
    <2>4. deleted' \subseteq Ids
      BY <1>6, <2>3 DEF Mark, Remove, TypeOK
    <2> QED
      BY <2>1, <2>2, <2>3, <2>4 DEF TypeOK
  <1>7. ASSUME NEW r \in Requests, Cancel(r) PROVE TypeOK'
    <2>1. /\ pc[r] # "idle" /\ pc' = [pc EXCEPT ![r] = "idle"]
          /\ UNCHANGED <<rows, held, child, on, nextId, requests, deleted>>
      BY <1>7 DEF Cancel, Goto, tableVars
    <2>2. /\ pc' \in [Requests -> Steps] /\ on[r] \in Ids
          /\ \A q \in Requests : pc'[q] # "idle" => on[q] \in 1 .. nextId - 1
      BY <2>1, SlotStep DEF Steps
    <2>3. cancels' \in Nat /\ disturbed' \subseteq Ids /\ lock' \in Requests \cup {None}
      BY <1>7, <2>2 DEF Cancel, Release, TypeOK
    <2> QED
      BY <2>1, <2>2, <2>3 DEF TypeOK
  <1>8. ASSUME NEW id \in Ids, ChildExits(id) PROVE TypeOK'
    BY <1>8 DEF ChildExits, TypeOK
  <1>9. CASE UNCHANGED vars
    BY <1>9 DEF vars, tableVars, TypeOK
  <1>10. ASSUME NEW r \in Requests, Advance(r) PROVE TypeOK'
    BY <1>2, <1>4, <1>5, <1>6, <1>10 DEF Advance, Steps
  <1> QED
    BY <1>1, <1>3, <1>7, <1>8, <1>9, <1>10 DEF Next

LEMMA CreateFacts == ASSUME IInv, NEW r \in Requests, Create(r) PROVE Facts'
  <1> USE DEF IInv, TypeOK, Facts, Ids
  <1>1. /\ pc' = [pc EXCEPT ![r] = "insertForward"] /\ on' = [on EXCEPT ![r] = nextId]
        /\ child' = [child EXCEPT ![nextId] = "alive"] /\ nextId' = nextId + 1
        /\ nextId \in Ids /\ pc[r] = "idle"
        /\ UNCHANGED <<rows, held, deleted, disturbed>>
    BY DEF Create, Serve
  <1>2. \A q \in Requests : pc[q] # "idle" => on[q] # nextId
    OBVIOUS
  <1>3. child[nextId] = "none" /\ rows[nextId] = None /\ nextId \notin held \cup deleted
    BY <1>1 DEF Born
  <1>4. NoOrphan'
    BY <1>1, <1>2, <1>3 DEF NoOrphan, Creating, About
  <1>5. GoneIsDead' /\ Born'
    BY <1>1, <1>3, ForwardAssumption DEF GoneIsDead, Dead, Born
  <1>6. RunningIsNotKilled' /\ PastKillIsDead'
    BY <1>1, <1>2, <1>3 DEF RunningIsNotKilled, PastKillIsDead, Dead, About
  <1>7. CreationIsFirst'
    BY <1>1, <1>2, <1>3 DEF CreationIsFirst
  <1> QED
    BY <1>4, <1>5, <1>6, <1>7

LEMMA InsertForwardFacts ==
  ASSUME IInv, NEW r \in Requests, InsertForward(r) PROVE Facts'
  <1> USE DEF IInv, TypeOK, Facts
  <1>1. /\ rows' = [rows EXCEPT ![on[r]] = "running"]
        /\ pc' = [pc EXCEPT ![r] = "insertProcess"]
        /\ on[r] \in Ids /\ on[r] < nextId /\ pc[r] = "insertForward"
        /\ UNCHANGED <<held, child, on, nextId, deleted, disturbed>>
    BY DEF InsertForward, Goto, Ids
  <1>2. Creating(on[r]) /\ \A id \in Ids : Creating(id) => Creating(id)'
    BY <1>1 DEF Creating, About
  <1>3. on[r] \notin disturbed => child[on[r]] \in {"alive", "exited"} /\ on[r] \notin deleted
    BY <1>1 DEF CreationIsFirst
  <1>4. NoOrphan' /\ GoneIsDead' /\ Born'
    BY <1>1, <1>2, ForwardAssumption DEF NoOrphan, GoneIsDead, Born, Dead, Ids
  <1>5. RunningIsNotKilled' /\ PastKillIsDead'
    BY <1>1, <1>3 DEF RunningIsNotKilled, PastKillIsDead, About, Dead
  <1>6. CreationIsFirst'
    BY <1>1 DEF CreationIsFirst
  <1> QED
    BY <1>4, <1>5, <1>6

LEMMA InsertProcessFacts ==
  ASSUME IInv, NEW r \in Requests, InsertProcess(r) PROVE Facts'
  <1> USE DEF IInv, TypeOK, Facts
  <1>1. /\ held' = held \cup {on[r]} /\ pc' = [pc EXCEPT ![r] = "idle"]
        /\ on[r] \in Ids /\ on[r] < nextId /\ pc[r] = "insertProcess"
        /\ UNCHANGED <<rows, child, on, nextId, deleted, disturbed>>
    BY DEF InsertProcess, Goto, Ids
  <1>2. on[r] \notin disturbed => rows[on[r]] # None
    BY <1>1, ForwardAssumption DEF CreationIsFirst
  <1>3. \A id \in Ids : Creating(id) => Creating(id)' \/ id = on[r]
    BY <1>1 DEF Creating, About
  <1>4. NoOrphan'
    BY <1>1, <1>2, <1>3 DEF NoOrphan
  <1>5. GoneIsDead' /\ Born' /\ RunningIsNotKilled' /\ PastKillIsDead'
    BY <1>1 DEF GoneIsDead, Born, RunningIsNotKilled, PastKillIsDead, About, Dead, Ids
  <1>6. CreationIsFirst'
    BY <1>1 DEF CreationIsFirst
  <1> QED
    BY <1>4, <1>5, <1>6

(* A request about an id whose creation is under way disturbs it.          *)
LEMMA AskFacts ==
  ASSUME IInv, NEW r \in Requests, NEW id \in Ids, Stop(r, id) \/ Delete(r, id)
  PROVE  Facts'
  <1> USE DEF IInv, TypeOK, Facts
  <1>1. PICK step \in {"stopKill", "deleteKill"} : Ask(r, step, id)
    BY DEF Stop, Delete
  <1>2. /\ pc' = [pc EXCEPT ![r] = step] /\ on' = [on EXCEPT ![r] = id]
        /\ pc[r] = "idle" /\ disturbed \subseteq disturbed'
        /\ Creating(id) => id \in disturbed'
        /\ UNCHANGED <<rows, held, child, nextId, deleted>>
    BY <1>1 DEF Ask, Serve, tableVars
  <1>3. \A i \in Ids : Creating(i) => Creating(i)'
    BY <1>2 DEF Creating, About
  <1>4. NoOrphan' /\ GoneIsDead' /\ Born'
    BY <1>2, <1>3 DEF NoOrphan, GoneIsDead, Dead, Born
  <1>5. RunningIsNotKilled' /\ PastKillIsDead'
    BY <1>2 DEF RunningIsNotKilled, PastKillIsDead, About, Dead
  <1>6. CreationIsFirst'
    BY <1>2 DEF CreationIsFirst, Creating, About
  <1> QED
    BY <1>4, <1>5, <1>6

(* With no entry in the table, the child of an undisturbed id is dead: it  *)
(* was born, its creation was answered, and no kubectl is an orphan.       *)
LEMMA KillFacts ==
  ASSUME IInv, NEW r \in Requests,
         NEW step \in {"stopKill", "deleteKill"},
         NEW waiting \in {"stopWait", "deleteWait"}, NEW next \in {"mark", "remove"},
         Kill(r, step, waiting, next)
  PROVE  Facts'
  <1> USE DEF IInv, TypeOK, Facts
  <1>1. /\ pc[r] = step /\ on[r] \in Ids /\ on[r] < nextId
        /\ \E s \in {waiting, next} : pc' = [pc EXCEPT ![r] = s]
        /\ UNCHANGED <<rows, on, nextId, deleted, disturbed>>
    BY DEF Kill, Goto, Ids
  <1>2. \/ /\ held' = held \ {on[r]}
           /\ child' = [child EXCEPT ![on[r]] = IF @ = "alive" THEN "killed" ELSE @]
        \/ on[r] \notin held /\ UNCHANGED <<held, child>>
    BY DEF Kill, Killed
  <1>3. on[r] \notin disturbed => ~Creating(on[r])
    BY <1>1 DEF CreationIsFirst, Creating, About
  <1>4. \A i \in Ids : Creating(i) <=> Creating(i)'
    BY <1>1 DEF Creating, About
  <1>5. on[r] \notin disturbed => Dead(on[r])'
    BY <1>1, <1>2, <1>3 DEF NoOrphan, Born, Dead
  <1>6. \A i \in Ids : Dead(i) => Dead(i)'
    BY <1>1, <1>2 DEF Dead
  <1>7. NoOrphan'
    BY <1>1, <1>2, <1>4 DEF NoOrphan
  <1>8. GoneIsDead' /\ Born'
    BY <1>1, <1>2, <1>6 DEF GoneIsDead, Born
  <1>9. PastKillIsDead'
    BY <1>1, <1>5, <1>6 DEF PastKillIsDead
  <1>10. RunningIsNotKilled'
    BY <1>1, <1>2 DEF RunningIsNotKilled, About
  <1>11. CreationIsFirst'
    <2> SUFFICES ASSUME NEW q \in Requests, on[q] \notin disturbed,
                        pc[q]' \in {"insertForward", "insertProcess"}
                 PROVE  CreationIsFirst!(q)'
      BY <1>1 DEF CreationIsFirst
    <2>1. q # r /\ on[q] # on[r]
      BY <1>1 DEF CreationIsFirst
    <2> QED
      BY <1>1, <1>2, <2>1 DEF CreationIsFirst
  <1> QED
    BY <1>7, <1>8, <1>9, <1>10, <1>11

LEMMA ExitedFacts ==
  ASSUME IInv, NEW r \in Requests,
         NEW waiting \in {"stopWait", "deleteWait"}, NEW next \in {"mark", "remove"},
         Exited(r, waiting, next)
  PROVE  Facts'
  <1> USE DEF IInv, TypeOK, Facts
  <1>1. /\ pc' = [pc EXCEPT ![r] = next] /\ pc[r] = waiting
        /\ UNCHANGED <<rows, held, child, on, nextId, deleted, disturbed>>
    BY DEF Exited, Goto, tableVars
  <1>2. \A i \in Ids : Creating(i) <=> Creating(i)'
    BY <1>1 DEF Creating, About
  <1>3. NoOrphan' /\ GoneIsDead' /\ Born'
    BY <1>1, <1>2 DEF NoOrphan, GoneIsDead, Born, Dead
  <1>4. RunningIsNotKilled' /\ PastKillIsDead'
    BY <1>1 DEF RunningIsNotKilled, PastKillIsDead, About, Dead
  <1>5. CreationIsFirst'
    BY <1>1 DEF CreationIsFirst
  <1> QED
    BY <1>3, <1>4, <1>5

LEMMA AnswerFacts ==
  ASSUME IInv, NEW r \in Requests, Mark(r) \/ Remove(r) PROVE Facts'
  <1> USE DEF IInv, TypeOK, Facts
  <1>1. /\ pc' = [pc EXCEPT ![r] = "idle"] /\ pc[r] \in {"mark", "remove"}
        /\ on[r] \in Ids /\ on[r] < nextId
        /\ UNCHANGED <<held, child, on, nextId, disturbed>>
    BY DEF Mark, Remove, Goto, Ids
  <1>2. \/ /\ rows[on[r]] # None /\ rows' = [rows EXCEPT ![on[r]] = "stopped"]
           /\ deleted' = deleted
        \/ rows[on[r]] = None /\ rows' = rows /\ deleted' = deleted
        \/ /\ rows' = [rows EXCEPT ![on[r]] = None]
           /\ deleted' = deleted \cup {on[r]}
    BY DEF Mark, Remove
  <1>3. on[r] \notin disturbed => Dead(on[r])
    BY <1>1 DEF PastKillIsDead
  <1>4. \A i \in Ids : Creating(i) <=> Creating(i)'
    BY <1>1 DEF Creating, About
  <1>5. NoOrphan'
    BY <1>1, <1>2, <1>3, <1>4, ForwardAssumption DEF NoOrphan, Dead
  <1>6. GoneIsDead' /\ Born'
    BY <1>1, <1>2, <1>3, ForwardAssumption DEF GoneIsDead, Born, Dead
  <1>7. RunningIsNotKilled' /\ PastKillIsDead'
    BY <1>1, <1>2, ForwardAssumption DEF RunningIsNotKilled, PastKillIsDead, About, Dead
  <1>8. CreationIsFirst'
    <2> SUFFICES ASSUME NEW q \in Requests, on[q] \notin disturbed,
                        pc[q]' \in {"insertForward", "insertProcess"}
                 PROVE  CreationIsFirst!(q)'
      BY <1>1 DEF CreationIsFirst
    <2>1. q # r /\ on[q] # on[r]
      BY <1>1 DEF CreationIsFirst
    <2> QED
      BY <1>1, <1>2, <2>1 DEF CreationIsFirst
  <1> QED
    BY <1>5, <1>6, <1>7, <1>8

LEMMA CancelFacts == ASSUME IInv, NEW r \in Requests, Cancel(r) PROVE Facts'
  <1> USE DEF IInv, TypeOK, Facts
  <1>1. /\ pc' = [pc EXCEPT ![r] = "idle"] /\ disturbed' = disturbed \cup {on[r]}
        /\ UNCHANGED <<rows, held, child, on, nextId, deleted>>
    BY DEF Cancel, Goto, tableVars
  <1>2. \A i \in Ids : Creating(i) => Creating(i)' \/ i = on[r]
    BY <1>1 DEF Creating, About
  <1>3. NoOrphan' /\ GoneIsDead' /\ Born'
    BY <1>1, <1>2 DEF NoOrphan, GoneIsDead, Born, Dead
  <1>4. RunningIsNotKilled' /\ PastKillIsDead'
    BY <1>1 DEF RunningIsNotKilled, PastKillIsDead, About, Dead
  <1>5. CreationIsFirst'
    BY <1>1 DEF CreationIsFirst
  <1> QED
    BY <1>3, <1>4, <1>5

LEMMA ExitFacts == ASSUME IInv, NEW id \in Ids, ChildExits(id) PROVE Facts'
  <1> USE DEF IInv, TypeOK, Facts
  <1>1. /\ child' = [child EXCEPT ![id] = "exited"] /\ child[id] = "alive"
        /\ UNCHANGED <<rows, held, pc, on, nextId, deleted, disturbed>>
    BY DEF ChildExits
  <1>2. \A i \in Ids : Creating(i) <=> Creating(i)'
    BY <1>1 DEF Creating, About
  <1>3. NoOrphan' /\ GoneIsDead' /\ Born'
    BY <1>1, <1>2 DEF NoOrphan, GoneIsDead, Born, Dead
  <1>4. RunningIsNotKilled' /\ PastKillIsDead' /\ CreationIsFirst'
    BY <1>1 DEF RunningIsNotKilled, PastKillIsDead, CreationIsFirst, About, Dead
  <1> QED
    BY <1>3, <1>4

LEMMA NextIInv == IInv /\ [Next]_vars => IInv'
  <1> SUFFICES ASSUME IInv, [Next]_vars PROVE Facts'
    BY TypeStep DEF IInv
  <1>1. ASSUME NEW r \in Requests, Create(r) \/ Cancel(r) PROVE Facts'
    BY <1>1, CreateFacts, CancelFacts
  <1>2. ASSUME NEW r \in Requests, Advance(r) PROVE Facts'
    <2>1. CASE InsertForward(r) \/ InsertProcess(r)
      BY <2>1, InsertForwardFacts, InsertProcessFacts
    <2>2. CASE Kill(r, "stopKill", "stopWait", "mark") \/ Kill(r, "deleteKill", "deleteWait", "remove")
      BY <2>2, KillFacts
    <2>3. CASE Exited(r, "stopWait", "mark") \/ Exited(r, "deleteWait", "remove")
      BY <2>3, ExitedFacts
    <2>4. CASE Mark(r) \/ Remove(r)
      BY <2>4, AnswerFacts
    <2> QED
      BY <1>2, <2>1, <2>2, <2>3, <2>4 DEF Advance
  <1>3. ASSUME NEW r \in Requests, NEW id \in Ids, Stop(r, id) \/ Delete(r, id) PROVE Facts'
    BY <1>3, AskFacts
  <1>4. ASSUME NEW id \in Ids, ChildExits(id) PROVE Facts'
    BY <1>4, ExitFacts
  <1>5. CASE UNCHANGED vars
    BY <1>5 DEF vars, tableVars, IInv, Facts, NoOrphan, GoneIsDead, RunningIsNotKilled,
                CreationIsFirst, PastKillIsDead, Born, Creating, About, Dead
  <1> QED
    BY <1>1, <1>2, <1>3, <1>4, <1>5 DEF Next

(* The whole invariant, for any number of requests: the two tables, the     *)
(* children and the lock agree at every await of every handler.             *)
THEOREM TablesStayInOrder == Spec => []IInv
  BY InitIInv, NextIInv, PTL DEF Spec

(* No running kubectl is out of reach of stop and delete, for any number   *)
(* of requests at once, unless one of them was dropped at an await or came *)
(* before the creation was answered.                                       *)
THEOREM ForwardsAreReachable == Spec => []NoOrphan
  <1>1. IInv => NoOrphan
    BY DEF IInv, Facts
  <1> QED
    BY <1>1, TablesStayInOrder, PTL

(* What is listed as stopped or was answered as deleted is dead.           *)
THEOREM StoppedForwardsAreDead == Spec => []GoneIsDead
  <1>1. IInv => GoneIsDead
    BY DEF IInv, Facts
  <1> QED
    BY <1>1, TablesStayInOrder, PTL

=============================================================================
