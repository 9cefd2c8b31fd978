--------------------------- MODULE BackupStoreProofs ---------------------------
(***************************************************************************)
(* Proofs about BackupStore, for any number of replicas, requests,         *)
(* schedules, destinations and faults: types, then the safety properties   *)
(* on top of them: listed backups exist, the run list is bounded, an       *)
(* undisturbed request is one edit of the ledger, a worker alone makes one *)
(* backup per firing, and a store that serves one request at a time, with  *)
(* no failure, implements the ledger.                                      *)
(***************************************************************************)
EXTENDS BackupStore, FiniteSetTheorems, WellFoundedInduction, TLAPS

-----------------------------------------------------------------------------
(* Types of the document edits *)

LEMMA UpsertType ==
    ASSUME NEW list \in SchedulesDoc, NEW s \in Schedules,
           NEW paused \in BOOLEAN, NEW t \in Nat
    PROVE  Upsert(list, s, paused, t) \in SchedulesDoc
  <1>1. CASE list[s] = None
    BY <1>1 DEF Upsert, SchedulesDoc, Schedule, Stamp, Never
  <1>2. CASE list[s] # None
    <2>1. list[s] \in Schedule
      BY <1>2 DEF SchedulesDoc
    <2>2. QED
      BY <1>2, <2>1 DEF Upsert, SchedulesDoc, Schedule
  <1>3. QED
    BY <1>1, <1>2

LEMMA RemoveType ==
    ASSUME NEW list \in SchedulesDoc, NEW s \in Schedules
    PROVE  Remove(list, s) \in SchedulesDoc
  BY DEF Remove, SchedulesDoc

LEMMA MarkType ==
    ASSUME NEW list \in SchedulesDoc, NEW s \in Schedules, NEW t \in Nat,
           list[s] # None
    PROVE  Mark(list, s, t) \in SchedulesDoc
  <1>1. list[s] \in Schedule
    BY DEF SchedulesDoc
  <1>2. QED
    BY <1>1 DEF Mark, SchedulesDoc, Schedule, Stamp

LEMMA RunsEdits ==
    ASSUME NEW rows \in RunsDoc, NEW run \in Run, NEW names
    PROVE  /\ Push(rows, run) \in RunsDoc
           /\ Push(rows, run) \subseteq rows \cup {run}
           /\ Retain(rows, names) \in RunsDoc
           /\ Retain(rows, names) \subseteq rows
  BY DEF Push, Trim, Retain, RunsDoc

LEMMA Empty ==
    /\ EmptyDocs \in Docs
    /\ NoSchedules \in SchedulesDoc
    /\ NoCopy \in Copy
    /\ NoConf \in Conf
    /\ Rest \in Task
  BY DEF EmptyDocs, Docs, SettingsDoc, NoSchedules, SchedulesDoc, RunsDoc,
         NoCopy, Copy, NoConf, Conf, Rest, Task

-----------------------------------------------------------------------------
(* Type correctness *)

\* Finish and Begin leave well-typed process variables behind.
LEMMA FinishType ==
    ASSUME TypeOK, NEW p \in Proc, Finish(p)
    PROVE  /\ pc' \in [Proc -> Steps]
           /\ task' \in [Proc -> Task]
           /\ todo' \in [Proc -> SchedulesDoc]
           /\ conf' \in [Proc -> Conf]
           /\ copy' \in [Proc -> Copy]
           /\ map' \in [Proc -> Docs]
  BY Empty DEF TypeOK, Finish, Goto, Steps

LEMMA ChargeType ==
    ASSUME faults \in Nat, NEW ok, Charge(ok)
    PROVE  faults' \in Nat
  BY DEF Charge

LEMMA ServeType ==
    ASSUME TypeOK, NEW p \in Requests, Request(p)
    PROVE  TypeOK'
  <1>0. p \in Proc
    BY DEF Proc
  <1>1. ASSUME NEW job \in Task, NEW step \in Steps, Serve(p, job, step)
        PROVE  TypeOK'
    BY <1>0, <1>1 DEF TypeOK, Serve, Begin, Goto, storeVars
  <1>2. ASSUME NEW s \in Schedules, NEW paused \in BOOLEAN,
               CreateSchedule(p, s, paused)
        PROVE  TypeOK'
    <2>1. [Rest EXCEPT !.kind = "create", !.sched = s, !.paused = paused] \in Task
      BY DEF Rest, Task, Kinds
    <2>2. QED
      BY <1>1, <1>2, <2>1 DEF CreateSchedule, Steps
  <1>3. ASSUME NEW s \in Schedules, DeleteSchedule(p, s)
        PROVE  TypeOK'
    <2>1. [Rest EXCEPT !.kind = "deleteSchedule", !.sched = s] \in Task
      BY DEF Rest, Task, Kinds
    <2>2. QED
      BY <1>1, <1>3, <2>1 DEF DeleteSchedule, Steps
  <1>4. ASSUME NEW s \in Schedules, RunSchedule(p, s)
        PROVE  TypeOK'
    <2>1. [Rest EXCEPT !.kind = "trigger", !.sched = s] \in Task
      BY DEF Rest, Task, Kinds
    <2>2. QED
      BY <1>1, <1>4, <2>1 DEF RunSchedule, Steps
  <1>5. ASSUME NEW name \in ManualNames, ManualBackup(p, name)
        PROVE  TypeOK'
    <2>1. name \in Names
      BY <1>5 DEF ManualNames, Names, TypeOK
    <2>2. [Rest EXCEPT !.kind = "manual", !.name = name] \in Task
      BY <2>1 DEF Rest, Task, Kinds
    <2>3. QED
      BY <1>1, <1>5, <2>2 DEF ManualBackup, Steps
  <1>6. ASSUME NEW victims \in SUBSET Listed, DeleteRuns(p, victims)
        PROVE  TypeOK'
    <2>1. Listed \subseteq Names
      BY DEF Listed, TypeOK, Docs, RunsDoc, Run
    <2>2. [Rest EXCEPT !.kind = "deleteRuns", !.victims = victims] \in Task
      BY <1>6, <2>1 DEF Rest, Task, Kinds
    <2>3. QED
      BY <1>1, <1>6, <2>2 DEF DeleteRuns, Steps
  <1>7. ASSUME NEW target \in Targets, SaveSettings(p, target)
        PROVE  TypeOK'
    <2>1. [Rest EXCEPT !.kind = "saveSettings", !.doc = "settings",
                       !.target = target] \in Task
      BY DEF Rest, Task, Kinds, DocKeys
    <2>2. QED
      BY <1>1, <1>7, <2>1 DEF SaveSettings, Steps
  <1>8. QED
    BY <1>2, <1>3, <1>4, <1>5, <1>6, <1>7 DEF Request

LEMMA WorkerType ==
    ASSUME TypeOK, NEW p \in Replicas, Worker(p)
    PROVE  TypeOK'
  <1>0. p \in Proc
    BY DEF Proc
  <1>1. CASE Poll(p)
    <2>1. faults' \in Nat
      BY <1>1, ChargeType DEF Poll, TypeOK
    <2>2. todo' \in [Proc -> SchedulesDoc]
      BY <1>0, <1>1, Empty DEF Poll, TypeOK, Docs
    <2>3. QED
      BY <1>0, <1>1, <2>1, <2>2 DEF Poll, TypeOK, Goto, Steps, storeVars
  <1>2. ASSUME NEW s \in Schedules, CheckSchedule(p, s)
        PROVE  TypeOK'
    <2>1. [Rest EXCEPT !.kind = "trigger", !.sched = s] \in Task
      BY DEF Rest, Task, Kinds
    <2>2. todo' \in [Proc -> SchedulesDoc]
      BY <1>0, <1>2 DEF CheckSchedule, TypeOK, SchedulesDoc
    <2>3. /\ pc' \in [Proc -> Steps]
          /\ task' \in [Proc -> Task]
          /\ stale' \in [Proc -> BOOLEAN]
      BY <1>0, <1>2, <2>1 DEF CheckSchedule, TypeOK, Begin, Goto, Steps
    <2>4. QED
      BY <1>0, <1>2, <2>2, <2>3 DEF CheckSchedule, TypeOK, storeVars
  <1>3. CASE EndPoll(p)
    BY <1>0, <1>3 DEF EndPoll, TypeOK, Goto, Steps, storeVars
  <1>4. QED
    BY <1>1, <1>2, <1>3 DEF Worker

\* Typing is inductive together with what each process knows of its request.
Typed == TypeOK /\ TaskOK

\* A step that moves no other process keeps what those know.
LEMMA OthersKnow ==
    ASSUME Typed, NEW p \in Proc,
           \A q \in Proc \ {p} : /\ pc'[q] = pc[q] /\ task'[q] = task[q]
                                 /\ copy'[q] = copy[q],
           KnownAt(p)'
    PROVE  TaskOK'
  <1> SUFFICES ASSUME NEW q \in Proc \ {p} PROVE KnownAt(q)'
    BY DEF TaskOK
  <1>1. KnownAt(q)
    BY DEF Typed, TaskOK
  <1>2. QED
    BY <1>1 DEF KnownAt

LEMMA FinishKnows ==
    ASSUME Typed, NEW p \in Proc, Finish(p)
    PROVE  TaskOK'
  <1>1. task'[p] = Rest /\ pc'[p] \in {"poll", "idle"}
    BY DEF Typed, TypeOK, Finish, Goto
  <1>2. KnownAt(p)'
    BY <1>1, NoneIsNoLabel DEF KnownAt, Rest, Kinds
  <1>3. \A q \in Proc \ {p} : /\ pc'[q] = pc[q] /\ task'[q] = task[q]
                              /\ copy'[q] = copy[q]
    BY DEF Typed, TypeOK, Finish, Goto
  <1>4. QED
    BY <1>2, <1>3, OthersKnow

LEMMA LoadSchedulesType ==
    ASSUME Typed, NEW p \in Proc, LoadSchedules(p)
    PROVE  Typed'
  <1>1. PICK ok \in Outcome :
            /\ Charge(ok)
            /\ stale' = [stale EXCEPT ![p] = ~ok]
            /\ WithSchedules(p, IF ok THEN cm.schedules ELSE NoSchedules)
    BY DEF LoadSchedules
  <1> DEFINE list == IF ok THEN cm.schedules ELSE NoSchedules
             s    == task[p].sched
  <1>2. list \in SchedulesDoc
    BY Empty DEF Typed, TypeOK, Docs
  <1>3. UNCHANGED <<storeVars, now, ops, uploaded, pushes>>
    BY DEF LoadSchedules
  <1>4. faults' \in Nat /\ stale' \in [Proc -> BOOLEAN]
    BY <1>1, ChargeType DEF Typed, TypeOK
  <1>5. SUFFICES /\ pc' \in [Proc -> Steps] /\ task' \in [Proc -> Task]
                 /\ todo' \in [Proc -> SchedulesDoc] /\ conf' \in [Proc -> Conf]
                 /\ copy' \in [Proc -> Copy] /\ map' \in [Proc -> Docs]
                 /\ TaskOK'
    BY <1>3, <1>4 DEF Typed, TypeOK, storeVars
  <1>6. KnownAt(p)
    BY DEF Typed, TaskOK
  <1> HIDE DEF list
  <1>7. ASSUME NEW edited \in SchedulesDoc, NEW step \in {"loadSettings", "getMap"},
               NEW job \in Task,
               KeepSchedules(p, edited, step), task' = [task EXCEPT ![p] = job],
               step = "loadSettings" =>
                 job.kind = "trigger" /\ job.sched \in Schedules
                                      /\ edited[job.sched] # None
                                      /\ job.phase = None,
               step = "getMap" =>
                 /\ job.kind \in {"create", "deleteSchedule"}
                 /\ job.sched \in Schedules
                 /\ job.doc = "schedules"
        PROVE  /\ pc' \in [Proc -> Steps] /\ task' \in [Proc -> Task]
               /\ todo' \in [Proc -> SchedulesDoc] /\ conf' \in [Proc -> Conf]
               /\ copy' \in [Proc -> Copy] /\ map' \in [Proc -> Docs]
               /\ TaskOK'
    <2>1. /\ pc' \in [Proc -> Steps] /\ task' \in [Proc -> Task]
          /\ todo' \in [Proc -> SchedulesDoc] /\ conf' \in [Proc -> Conf]
          /\ map' \in [Proc -> Docs]
      BY <1>7 DEF KeepSchedules, Goto, Typed, TypeOK, Steps
    <2>2. copy' \in [Proc -> Copy] /\ copy'[p].schedules = edited
      BY <1>7 DEF KeepSchedules, Typed, TypeOK, Copy
    <2>3. task'[p] = job /\ pc'[p] = step
      BY <1>7 DEF KeepSchedules, Goto, Typed, TypeOK
    <2>4. KnownAt(p)'
      BY <1>7, <2>2, <2>3 DEF KnownAt
    <2>5. \A q \in Proc \ {p} : /\ pc'[q] = pc[q] /\ task'[q] = task[q]
                                /\ copy'[q] = copy[q]
      BY <1>7 DEF KeepSchedules, Goto, Typed, TypeOK
    <2>6. QED
      BY <2>1, <2>2, <2>4, <2>5, OthersKnow
  <1>8. CASE /\ task[p].kind = "trigger" /\ MayTrigger(list[s])
             /\ KeepSchedules(p, list, "loadSettings") /\ UNCHANGED task
    <2>1. s \in Schedules /\ list[s] # None /\ task[p].phase = None
      BY <1>6, <1>8 DEF KnownAt, MayTrigger, Runnable, LoadSchedules
    <2>2. task' = [task EXCEPT ![p] = task[p]] /\ task[p] \in Task
      BY <1>8 DEF Typed, TypeOK
    <2>3. QED
      BY <1>2, <1>7, <1>8, <2>1, <2>2
  <1>9. CASE Finish(p)
    BY <1>9, FinishType, FinishKnows DEF Typed
  <1>10. CASE /\ task[p].kind = "create"
              /\ KeepSchedules(p, Upsert(list, s, task[p].paused, now), "getMap")
              /\ task' = [task EXCEPT ![p].doc = "schedules"]
    <2>1. s \in Schedules /\ task[p].paused \in BOOLEAN /\ now \in Nat
      BY <1>6, <1>10 DEF KnownAt, Typed, TypeOK, Task
    <2>2. Upsert(list, s, task[p].paused, now) \in SchedulesDoc
      BY <1>2, <2>1, UpsertType
    <2>3. [task[p] EXCEPT !.doc = "schedules"] \in Task
      BY DEF Typed, TypeOK, Task, DocKeys
    <2>4. task' = [task EXCEPT ![p] = [task[p] EXCEPT !.doc = "schedules"]]
      BY <1>10
    <2>5. /\ [task[p] EXCEPT !.doc = "schedules"].kind = "create"
          /\ [task[p] EXCEPT !.doc = "schedules"].sched = s
          /\ [task[p] EXCEPT !.doc = "schedules"].doc = "schedules"
      BY <1>10 DEF Typed, TypeOK, Task
    <2>6. QED
      BY <1>7, <1>10, <2>1, <2>2, <2>3, <2>4, <2>5
  <1>11. CASE /\ task[p].kind = "deleteSchedule"
              /\ KeepSchedules(p, Remove(list, s), "getMap")
              /\ task' = [task EXCEPT ![p].doc = "schedules"]
    <2>1. s \in Schedules
      BY <1>6, <1>11 DEF KnownAt
    <2>2. Remove(list, s) \in SchedulesDoc
      BY <1>2, <2>1, RemoveType
    <2>3. [task[p] EXCEPT !.doc = "schedules"] \in Task
      BY DEF Typed, TypeOK, Task, DocKeys
    <2>4. task' = [task EXCEPT ![p] = [task[p] EXCEPT !.doc = "schedules"]]
      BY <1>11
    <2>5. /\ [task[p] EXCEPT !.doc = "schedules"].kind = "deleteSchedule"
          /\ [task[p] EXCEPT !.doc = "schedules"].sched = s
          /\ [task[p] EXCEPT !.doc = "schedules"].doc = "schedules"
      BY <1>11 DEF Typed, TypeOK, Task
    <2>6. QED
      BY <1>7, <1>11, <2>1, <2>2, <2>3, <2>4, <2>5
  <1>12. QED
    BY <1>1, <1>8, <1>9, <1>10, <1>11 DEF WithSchedules, list

LEMMA LoadSettingsType ==
    ASSUME Typed, NEW p \in Proc, LoadSettings(p)
    PROVE  Typed'
  <1> USE DEF Typed
  <1>1. /\ pc[p] = "loadSettings"
        /\ UNCHANGED <<storeVars, todo, map, now, ops, uploaded, pushes, stale>>
    BY DEF LoadSettings
  <1>2. faults' \in Nat
    BY ChargeType DEF LoadSettings, TypeOK
  <1>3. conf' \in [Proc -> Conf]
    BY DEF LoadSettings, TypeOK, Docs, SettingsDoc, Conf
  <1>4. KnownAt(p) /\ task[p] \in Task /\ copy[p] \in Copy /\ now \in Nat
    BY DEF TaskOK, TypeOK
  <1>5. SUFFICES /\ pc' \in [Proc -> Steps] /\ task' \in [Proc -> Task]
                 /\ copy' \in [Proc -> Copy]
                 /\ TaskOK'
    BY <1>1, <1>2, <1>3 DEF TypeOK, storeVars
  <1>6. ASSUME NEW job \in Task, NEW step \in {"getMap", "upload", "createCr",
                                               "s3delete"},
               NEW mine \in Copy,
               task' = [task EXCEPT ![p] = job], Goto(p, step),
               copy' = [copy EXCEPT ![p] = mine],
               job.kind = task[p].kind, job.sched = task[p].sched,
               job.kind = "trigger" => step = "getMap" /\ job.name \in Names,
               job.kind = "manual" => job.name \in Names,
               step \in {"upload", "createCr"} => job.kind = "manual",
               step = "getMap" => job.kind = "trigger" /\ job.doc = "schedules",
               step = "s3delete" => job.kind = "deleteRuns" /\ job.doc = "runs"
        PROVE  /\ pc' \in [Proc -> Steps] /\ task' \in [Proc -> Task]
               /\ copy' \in [Proc -> Copy]
               /\ TaskOK'
    <2>1. task'[p] = job /\ pc'[p] = step /\ copy'[p] = mine
      BY <1>6 DEF TypeOK, Goto
    <2>2. KnownAt(p)'
      BY <1>4, <1>6, <2>1 DEF KnownAt
    <2>3. \A q \in Proc \ {p} : /\ pc'[q] = pc[q] /\ task'[q] = task[q]
                                /\ copy'[q] = copy[q]
      BY <1>6 DEF TypeOK, Goto
    <2>4. QED
      BY <1>6, <2>2, <2>3, OthersKnow DEF TypeOK, Goto, Steps
  <1>7. CASE /\ task[p].kind = "trigger"
             /\ task' = [task EXCEPT ![p].doc = "schedules",
                                     ![p].name = <<task[p].sched, now>>]
             /\ copy' = [copy EXCEPT ![p].schedules = Mark(@, task[p].sched, now)]
             /\ Goto(p, "getMap")
    <2> DEFINE job  == [task[p] EXCEPT !.doc = "schedules",
                                       !.name = <<task[p].sched, now>>]
               mine == [copy[p] EXCEPT !.schedules = Mark(@, task[p].sched, now)]
    <2>1. task[p].sched \in Schedules /\ copy[p].schedules[task[p].sched] # None
      BY <1>1, <1>4, <1>7 DEF KnownAt
    <2>2. <<task[p].sched, now>> \in Names
      BY <1>4, <2>1 DEF Names
    <2>3. /\ job \in Task /\ job.kind = "trigger" /\ job.sched = task[p].sched
          /\ job.doc = "schedules" /\ job.name \in Names
      BY <1>4, <1>7, <2>2 DEF Task, DocKeys
    <2>4. mine \in Copy
      <3>1. Mark(copy[p].schedules, task[p].sched, now) \in SchedulesDoc
        BY <1>4, <2>1, MarkType DEF Copy
      <3>2. QED
        BY <1>4, <3>1 DEF Copy
    <2>5. task' = [task EXCEPT ![p] = job] /\ copy' = [copy EXCEPT ![p] = mine]
      BY <1>7
    <2> HIDE DEF job, mine
    <2>6. QED
      BY <1>6, <1>7, <2>3, <2>4, <2>5
  <1>8. CASE /\ task[p].kind = "manual"
             /\ Goto(p, IF ExternalCrd THEN "createCr" ELSE "upload")
             /\ UNCHANGED <<task, copy>>
    <2>1. task' = [task EXCEPT ![p] = task[p]] /\ copy' = [copy EXCEPT ![p] = copy[p]]
      BY <1>8 DEF TypeOK
    <2>2. task[p].name \in Names
      BY <1>4, <1>8 DEF KnownAt
    <2>3. QED
      BY <1>4, <1>6, <1>8, <2>1, <2>2
  <1>9. CASE /\ task[p].kind = "deleteRuns"
             /\ Goto(p, "s3delete")
             /\ UNCHANGED <<task, copy>>
    <2>1. task' = [task EXCEPT ![p] = task[p]] /\ copy' = [copy EXCEPT ![p] = copy[p]]
      BY <1>9 DEF TypeOK
    <2>2. task[p].doc = "runs"
      BY <1>1, <1>4, <1>9 DEF KnownAt
    <2>3. QED
      BY <1>4, <1>6, <1>9, <2>1, <2>2
  <1>10. QED
    BY <1>7, <1>8, <1>9 DEF LoadSettings

LEMMA LoadRunsType ==
    ASSUME Typed, NEW p \in Proc, LoadRuns(p)
    PROVE  Typed'
  <1> USE DEF Typed
  <1>1. PICK ok \in Outcome :
            /\ Charge(ok)
            /\ stale' = [stale EXCEPT ![p] = ~ok]
            /\ WithRuns(p, IF ok THEN cm.runs ELSE {})
    BY DEF LoadRuns
  <1> DEFINE rows == IF ok THEN cm.runs ELSE {}
  <1>2. rows \in RunsDoc
    BY DEF TypeOK, Docs, RunsDoc
  <1> HIDE DEF rows
  <1>3. /\ pc[p] = "loadRuns"
        /\ task' = [task EXCEPT ![p].doc = "runs"]
        /\ UNCHANGED <<storeVars, todo, conf, map, now, ops, uploaded>>
    BY DEF LoadRuns
  <1>4. faults' \in Nat /\ stale' \in [Proc -> BOOLEAN]
    BY <1>1, ChargeType DEF TypeOK
  <1>5. KnownAt(p) /\ task[p] \in Task /\ copy[p] \in Copy /\ pushes \in Nat
    BY DEF TaskOK, TypeOK
  <1>6. /\ task' \in [Proc -> Task]
        /\ task'[p].kind = task[p].kind /\ task'[p].sched = task[p].sched
        /\ task'[p].name = task[p].name /\ task'[p].doc = "runs"
        /\ \A q \in Proc \ {p} : task'[q] = task[q]
    BY <1>3, <1>5 DEF TypeOK, Task, DocKeys
  <1>7. CASE /\ task[p].kind \in {"trigger", "manual"}
             /\ copy' = [copy EXCEPT ![p].runs =
                   Push(rows, [name |-> task[p].name, phase |-> task[p].phase,
                               pos |-> pushes])]
             /\ pushes' = pushes + 1
             /\ Goto(p, "getMap")
    <2>1. [name |-> task[p].name, phase |-> task[p].phase, pos |-> pushes] \in Run
      BY <1>3, <1>5, <1>7 DEF KnownAt, Run
    <2>2. copy' \in [Proc -> Copy]
      BY <1>2, <1>5, <1>7, <2>1, RunsEdits DEF TypeOK, Copy
    <2>3. pc' \in [Proc -> Steps] /\ pc'[p] = "getMap" /\ pushes' \in Nat
      BY <1>5, <1>7 DEF TypeOK, Goto, Steps
    <2>4. KnownAt(p)'
      BY <1>3, <1>5, <1>6, <1>7, <2>3 DEF KnownAt
    <2>5. \A q \in Proc \ {p} : pc'[q] = pc[q] /\ copy'[q] = copy[q]
      BY <1>7 DEF TypeOK, Goto
    <2>6. TaskOK'
      BY <1>6, <2>4, <2>5, OthersKnow
    <2>7. QED
      BY <1>3, <1>4, <1>6, <2>2, <2>3, <2>6 DEF TypeOK, storeVars
  <1>8. CASE /\ task[p].kind = "deleteRuns"
             /\ copy' = [copy EXCEPT ![p].runs = Retain(rows, task[p].victims)]
             /\ Goto(p, "loadSettings")
             /\ UNCHANGED pushes
    <2>1. copy' \in [Proc -> Copy]
      <3>1. Retain(rows, task[p].victims) \in RunsDoc
        BY <1>2 DEF Retain, RunsDoc
      <3>2. QED
        BY <1>5, <1>8, <3>1 DEF TypeOK, Copy
    <2>2. pc' \in [Proc -> Steps] /\ pc'[p] = "loadSettings"
      BY <1>8 DEF TypeOK, Goto, Steps
    <2>3. KnownAt(p)'
      BY <1>6, <1>8, <2>2 DEF KnownAt
    <2>4. \A q \in Proc \ {p} : pc'[q] = pc[q] /\ copy'[q] = copy[q]
      BY <1>8 DEF TypeOK, Goto
    <2>5. TaskOK'
      BY <1>6, <2>3, <2>4, OthersKnow
    <2>6. QED
      BY <1>3, <1>4, <1>5, <1>6, <1>8, <2>1, <2>2, <2>5 DEF TypeOK, storeVars
  <1>9. QED
    BY <1>1, <1>7, <1>8 DEF WithRuns, rows

LEMMA GetMapType ==
    ASSUME Typed, NEW p \in Proc, GetMap(p)
    PROVE  Typed'
  <1> USE DEF Typed
  <1>1. /\ pc[p] = "getMap"
        /\ UNCHANGED <<storeVars, now, ops, uploaded, pushes>>
        /\ faults' \in Nat
    BY ChargeType DEF GetMap, TypeOK
  <1>2. CASE /\ \E ok \in Outcome :
                   /\ map' = [map EXCEPT ![p] = DataMap(ok)]
                   /\ stale' = [stale EXCEPT ![p] = @ \/ ~ok]
                   /\ Charge(ok)
             /\ Goto(p, "patch")
             /\ UNCHANGED <<task, todo, conf, copy>>
    <2>1. map' \in [Proc -> Docs] /\ stale' \in [Proc -> BOOLEAN]
      BY <1>2, Empty DEF TypeOK, DataMap
    <2>2. pc' \in [Proc -> Steps] /\ pc'[p] = "patch"
      BY <1>2 DEF TypeOK, Goto, Steps
    <2>3. KnownAt(p)'
      BY <1>1, <1>2, <2>2 DEF TaskOK, KnownAt
    <2>4. \A q \in Proc \ {p} : /\ pc'[q] = pc[q] /\ task'[q] = task[q]
                                /\ copy'[q] = copy[q]
      BY <1>2 DEF TypeOK, Goto
    <2>5. TaskOK'
      BY <2>3, <2>4, OthersKnow
    <2>6. QED
      BY <1>1, <1>2, <2>1, <2>2, <2>5 DEF TypeOK, storeVars
  <1>3. CASE Finish(p) /\ UNCHANGED stale
    BY <1>1, <1>3, FinishType, FinishKnows DEF TypeOK, storeVars
  <1>4. QED
    BY <1>2, <1>3 DEF GetMap

\* A process that goes on to `step' with all it holds.
LEMMA ContinueType ==
    ASSUME Typed, NEW p \in Proc, NEW step \in Steps, Continue(p, step),
           step \notin {"loadSchedules", "loadSettings", "loadRuns", "createCr",
                        "patch", "s3delete"},
           step = "upload" => /\ task[p].kind = "trigger" /\ task[p].name \in Names,
           step = "getMap" => task[p].doc = "runs" /\ task[p].kind = "deleteRuns"
    PROVE  /\ pc' \in [Proc -> Steps]
           /\ task' \in [Proc -> Task]
           /\ todo' \in [Proc -> SchedulesDoc]
           /\ conf' \in [Proc -> Conf]
           /\ copy' \in [Proc -> Copy]
           /\ map' \in [Proc -> Docs]
           /\ TaskOK'
  <1> USE DEF Typed
  <1>1. /\ pc'[p] = step
        /\ pc' \in [Proc -> Steps]
        /\ UNCHANGED <<task, todo, conf, copy, map>>
        /\ \A q \in Proc \ {p} : pc'[q] = pc[q]
    BY DEF Continue, Goto, TypeOK
  <1>2. KnownAt(p)
    BY DEF TaskOK
  <1>3. KnownAt(p)'
    BY <1>1, <1>2 DEF KnownAt
  <1>4. QED
    BY <1>1, <1>3, OthersKnow DEF TypeOK

LEMMA PersistType ==
    ASSUME Typed, NEW p \in Proc,
           PersistSettings(p) \/ PersistSchedules(p) \/ PersistRuns(p)
    PROVE  Typed'
  <1> USE DEF Typed
  <1>1. task[p] \in Task /\ copy[p] \in Copy /\ map[p] \in Docs /\ KnownAt(p)
    BY DEF TypeOK, TaskOK
  <1>2. ASSUME NEW data \in Docs, cm' = data \/ cm' = cm,
               \E acked \in Outcome : Charge(acked),
               \E applied \in BOOLEAN :
                  stale' = [q \in Proc |-> stale[q] \/ (applied /\ q # p)],
               UNCHANGED <<secret, objects, crs, now, ops, uploaded, pushes>>,
               Finish(p) \/ Continue(p, "secret")
                 \/ (Continue(p, "upload") /\ task[p].kind = "trigger"
                                           /\ pc[p] = "patch")
        PROVE  Typed'
    <2>1. cm' \in Docs /\ faults' \in Nat /\ stale' \in [Proc -> BOOLEAN]
      BY <1>2, ChargeType DEF TypeOK
    <2>2. /\ pc' \in [Proc -> Steps] /\ task' \in [Proc -> Task]
          /\ todo' \in [Proc -> SchedulesDoc] /\ conf' \in [Proc -> Conf]
          /\ copy' \in [Proc -> Copy] /\ map' \in [Proc -> Docs]
          /\ TaskOK'
      <3>1. CASE Finish(p)
        BY <3>1, FinishType, FinishKnows
      <3>2. CASE Continue(p, "secret")
        BY <3>2, ContinueType DEF Steps
      <3>3. CASE /\ Continue(p, "upload") /\ task[p].kind = "trigger"
                 /\ pc[p] = "patch"
        <4>1. task[p].name \in Names
          BY <1>1, <3>3 DEF KnownAt
        <4>2. QED
          BY <3>3, <4>1, ContinueType DEF Steps
      <3>4. QED
        BY <1>2, <3>1, <3>2, <3>3
    <2>3. QED
      BY <1>2, <2>1, <2>2 DEF TypeOK
  <1>3. CASE PersistSettings(p)
    <2>1. [map[p] EXCEPT !.settings = task[p].target] \in Docs
      BY <1>1 DEF Docs, SettingsDoc, Task
    <2>2. QED
      BY <1>2, <1>3, <2>1 DEF PersistSettings, Apply
  <1>4. CASE PersistSchedules(p)
    <2>1. [map[p] EXCEPT !.schedules = copy[p].schedules] \in Docs
      BY <1>1 DEF Docs, Copy
    <2>2. QED
      BY <1>2, <1>4, <2>1 DEF PersistSchedules, Apply
  <1>5. CASE PersistRuns(p)
    <2>1. [map[p] EXCEPT !.runs = copy[p].runs] \in Docs
      BY <1>1 DEF Docs, Copy
    <2>2. QED
      BY <1>2, <1>5, <2>1 DEF PersistRuns, Apply
  <1>6. QED
    BY <1>3, <1>4, <1>5

LEMMA StoreCallType ==
    ASSUME Typed, NEW p \in Proc, PersistSecret(p) \/ CreateCr(p) \/ EndDelete(p)
    PROVE  Typed'
  <1> USE DEF Typed
  <1>1. task[p] \in Task /\ KnownAt(p)
    BY DEF TypeOK, TaskOK
  <1>2. CASE PersistSecret(p)
    <2>1. secret' \in Targets \cup {None} /\ faults' \in Nat
      BY <1>1, <1>2, ChargeType DEF PersistSecret, TypeOK, Task
    <2>2. Finish(p) /\ UNCHANGED <<cm, objects, crs, now, ops, uploaded, pushes,
                                   stale>>
      BY <1>2 DEF PersistSecret
    <2>3. QED
      BY <2>1, <2>2, FinishType, FinishKnows DEF TypeOK
  <1>3. CASE CreateCr(p)
    <2>1. Finish(p) /\ UNCHANGED <<cm, secret, objects, now, ops, uploaded,
                                   pushes, stale>>
      BY <1>3 DEF CreateCr
    <2>2. task[p].name \in Names
      BY <1>1, <1>3 DEF CreateCr, KnownAt
    <2>3. crs' \subseteq Names /\ faults' \in Nat
      BY <1>3, <2>2, ChargeType DEF CreateCr, TypeOK
    <2>4. QED
      BY <2>1, <2>3, FinishType, FinishKnows DEF TypeOK
  <1>4. CASE EndDelete(p)
    <2>1. task[p].kind = "deleteRuns" /\ task[p].doc = "runs"
      BY <1>1, <1>4 DEF EndDelete, KnownAt
    <2>2. QED
      BY <1>4, <2>1, ContinueType DEF EndDelete, TypeOK, Steps, storeVars
  <1>5. QED
    BY <1>2, <1>3, <1>4

LEMMA UploadType ==
    ASSUME Typed, NEW p \in Proc, Upload(p)
    PROVE  Typed'
  <1> USE DEF Typed
  <1>1. /\ pc[p] = "upload" /\ Goto(p, "loadRuns")
        /\ UNCHANGED <<cm, secret, crs, todo, conf, copy, map, now, ops, pushes,
                       stale>>
    BY DEF Upload
  <1>2. /\ task[p] \in Task /\ task[p].name \in Names /\ KnownAt(p)
        /\ conf[p] \in Conf
    BY <1>1 DEF TypeOK, TaskOK, KnownAt
  <1>3. PICK stored \in BOOLEAN, acked \in Outcome :
            /\ stored => Accepted(conf[p])
            /\ Charge(acked)
            /\ objects' = IF stored
                            THEN objects \cup {<<conf[p].bucket, task[p].name>>}
                            ELSE objects
            /\ uploaded' = IF stored THEN uploaded \cup {task[p].name} ELSE uploaded
            /\ task' = [task EXCEPT ![p].phase = RunPhase(stored /\ acked)]
    BY DEF Upload
  <1>4. faults' \in Nat
    BY <1>3, ChargeType DEF TypeOK
  <1>5. objects' \subseteq Targets \X Names /\ uploaded' \subseteq Names
    BY <1>2, <1>3 DEF TypeOK, Accepted, Configured, Conf
  <1>6. RunPhase(stored /\ acked) \in Phases
    BY DEF RunPhase, Phases
  <1>7. /\ task' \in [Proc -> Task]
        /\ task'[p].kind = task[p].kind /\ task'[p].sched = task[p].sched
        /\ task'[p].name = task[p].name /\ task'[p].phase \in Phases
        /\ \A q \in Proc \ {p} : task'[q] = task[q]
    BY <1>2, <1>3, <1>6 DEF TypeOK, Task
  <1>8. pc' \in [Proc -> Steps] /\ pc'[p] = "loadRuns"
    BY <1>1 DEF TypeOK, Goto, Steps
  <1>9. KnownAt(p)'
    BY <1>1, <1>2, <1>7, <1>8 DEF KnownAt
  <1>10. TaskOK'
    BY <1>1, <1>7, <1>9, OthersKnow DEF TypeOK, Goto
  <1>11. QED
    BY <1>1, <1>4, <1>5, <1>7, <1>8, <1>10 DEF TypeOK

LEMMA DeleteObjectType ==
    ASSUME Typed, NEW p \in Proc, NEW name \in task[p].victims,
           DeleteObject(p, name)
    PROVE  Typed'
  <1> USE DEF Typed
  <1>1. /\ task' = [task EXCEPT ![p].victims = @ \ {name}]
        /\ UNCHANGED <<cm, secret, pc, todo, conf, copy, map, now, ops, uploaded,
                       pushes, stale>>
    BY DEF DeleteObject
  <1>2. task[p] \in Task /\ KnownAt(p)
    BY DEF TypeOK, TaskOK
  <1>3. objects' \subseteq Targets \X Names /\ crs' \subseteq Names
    BY DEF DeleteObject, TypeOK
  <1>4. faults' \in Nat
    BY ChargeType DEF DeleteObject, TypeOK
  <1>5. /\ task' \in [Proc -> Task]
        /\ task'[p].kind = task[p].kind /\ task'[p].sched = task[p].sched
        /\ task'[p].name = task[p].name /\ task'[p].phase = task[p].phase
        /\ task'[p].doc = task[p].doc
        /\ \A q \in Proc \ {p} : task'[q] = task[q]
    BY <1>1, <1>2 DEF TypeOK, Task
  <1>6. KnownAt(p)'
    BY <1>1, <1>2, <1>5 DEF KnownAt
  <1>7. TaskOK'
    BY <1>1, <1>5, <1>6, OthersKnow
  <1>8. QED
    BY <1>1, <1>3, <1>4, <1>5, <1>7 DEF TypeOK

LEMMA CrashType ==
    ASSUME Typed, NEW p \in Proc, Crash(p)
    PROVE  Typed'
  <1> USE DEF Typed
  <1>1. TypeOK'
    BY Empty DEF Crash, TypeOK, Goto, Steps, storeVars
  <1>2. task'[p] = Rest /\ pc'[p] = "idle"
    BY DEF TypeOK, Crash, Goto
  <1>3. KnownAt(p)'
    BY <1>2, NoneIsNoLabel DEF KnownAt, Rest, Kinds
  <1>4. \A q \in Proc \ {p} : /\ pc'[q] = pc[q] /\ task'[q] = task[q]
                              /\ copy'[q] = copy[q]
    BY DEF Crash, TypeOK, Goto
  <1>5. QED
    BY <1>1, <1>3, <1>4, OthersKnow

\* A served request: what the process knows at its first await.
LEMMA BeginKnows ==
    ASSUME Typed, NEW p \in Proc, NEW job \in Task, NEW step \in Steps,
           Begin(p, job, step), UNCHANGED copy, job.phase = None,
           \/ step = "loadSchedules" /\ job.sched \in Schedules
                                     /\ job.kind # "manual"
           \/ step = "loadSettings" /\ job.kind = "manual" /\ job.name \in Names
           \/ step = "loadRuns" /\ job.kind = "deleteRuns"
           \/ step = "getMap" /\ job.kind = "saveSettings" /\ job.doc = "settings"
    PROVE  TaskOK'
  <1> USE DEF Typed
  <1>1. task'[p] = job /\ pc'[p] = step
    BY DEF Begin, Goto, TypeOK
  <1>2. KnownAt(p)'
    BY <1>1 DEF KnownAt
  <1>3. \A q \in Proc \ {p} : /\ pc'[q] = pc[q] /\ task'[q] = task[q]
                              /\ copy'[q] = copy[q]
    BY DEF Begin, Goto, TypeOK
  <1>4. QED
    BY <1>2, <1>3, OthersKnow

LEMMA RequestKnows ==
    ASSUME Typed, NEW p \in Requests, Request(p)
    PROVE  TaskOK'
  <1> USE DEF Typed
  <1>0. p \in Proc
    BY DEF Proc
  <1>1. ASSUME NEW s \in Schedules, NEW paused \in BOOLEAN,
               CreateSchedule(p, s, paused)
        PROVE  TaskOK'
    <2> DEFINE job == [Rest EXCEPT !.kind = "create", !.sched = s, !.paused = paused]
    <2>1. /\ job \in Task /\ job.sched = s /\ job.kind = "create"
          /\ job.phase = None
      BY DEF Rest, Task, Kinds
    <2>2. Begin(p, job, "loadSchedules") /\ UNCHANGED copy
      BY <1>1 DEF CreateSchedule, Serve
    <2> HIDE DEF job
    <2>3. QED
      BY <1>0, <2>1, <2>2, BeginKnows DEF Steps
  <1>2. ASSUME NEW s \in Schedules, DeleteSchedule(p, s)
        PROVE  TaskOK'
    <2> DEFINE job == [Rest EXCEPT !.kind = "deleteSchedule", !.sched = s]
    <2>1. /\ job \in Task /\ job.sched = s /\ job.kind = "deleteSchedule"
          /\ job.phase = None
      BY DEF Rest, Task, Kinds
    <2>2. Begin(p, job, "loadSchedules") /\ UNCHANGED copy
      BY <1>2 DEF DeleteSchedule, Serve
    <2> HIDE DEF job
    <2>3. QED
      BY <1>0, <2>1, <2>2, BeginKnows DEF Steps
  <1>3. ASSUME NEW s \in Schedules, RunSchedule(p, s)
        PROVE  TaskOK'
    <2> DEFINE job == [Rest EXCEPT !.kind = "trigger", !.sched = s]
    <2>1. /\ job \in Task /\ job.sched = s /\ job.kind = "trigger"
          /\ job.phase = None
      BY DEF Rest, Task, Kinds
    <2>2. Begin(p, job, "loadSchedules") /\ UNCHANGED copy
      BY <1>3 DEF RunSchedule, Serve
    <2> HIDE DEF job
    <2>3. QED
      BY <1>0, <2>1, <2>2, BeginKnows DEF Steps
  <1>4. ASSUME NEW name \in ManualNames, ManualBackup(p, name)
        PROVE  TaskOK'
    <2> DEFINE job == [Rest EXCEPT !.kind = "manual", !.name = name]
    <2>1. name \in Names
      BY <1>4 DEF ManualNames, Names, TypeOK
    <2>2. /\ job \in Task /\ job.name \in Names /\ job.kind = "manual"
          /\ job.phase = None
      BY <2>1 DEF Rest, Task, Kinds
    <2>3. Begin(p, job, "loadSettings") /\ UNCHANGED copy
      BY <1>4 DEF ManualBackup, Serve
    <2> HIDE DEF job
    <2>4. QED
      BY <1>0, <2>2, <2>3, BeginKnows DEF Steps
  <1>5. ASSUME NEW victims \in SUBSET Listed, DeleteRuns(p, victims)
        PROVE  TaskOK'
    <2> DEFINE job == [Rest EXCEPT !.kind = "deleteRuns", !.victims = victims]
    <2>1. Listed \subseteq Names
      BY DEF Listed, TypeOK, Docs, RunsDoc, Run
    <2>2. job \in Task /\ job.kind = "deleteRuns" /\ job.phase = None
      BY <1>5, <2>1 DEF Rest, Task, Kinds
    <2>3. Begin(p, job, "loadRuns") /\ UNCHANGED copy
      BY <1>5 DEF DeleteRuns, Serve
    <2> HIDE DEF job
    <2>4. QED
      BY <1>0, <2>2, <2>3, BeginKnows DEF Steps
  <1>6. ASSUME NEW target \in Targets, SaveSettings(p, target)
        PROVE  TaskOK'
    <2> DEFINE job == [Rest EXCEPT !.kind = "saveSettings", !.doc = "settings",
                                   !.target = target]
    <2>1. /\ job \in Task /\ job.kind = "saveSettings" /\ job.doc = "settings"
          /\ job.phase = None
      BY DEF Rest, Task, Kinds, DocKeys
    <2>2. Begin(p, job, "getMap") /\ UNCHANGED copy
      BY <1>6 DEF SaveSettings, Serve
    <2> HIDE DEF job
    <2>3. QED
      BY <1>0, <2>1, <2>2, BeginKnows DEF Steps
  <1>7. QED
    BY <1>1, <1>2, <1>3, <1>4, <1>5, <1>6 DEF Request

LEMMA WorkerKnows ==
    ASSUME Typed, NEW p \in Replicas, Worker(p)
    PROVE  TaskOK'
  <1> USE DEF Typed
  <1>0. p \in Proc
    BY DEF Proc
  <1>1. ASSUME NEW step \in {"poll", "idle"}, Goto(p, step), UNCHANGED <<task, copy>>,
               pc[p] \in {"poll", "idle"}
        PROVE  TaskOK'
    <2>1. pc'[p] = step /\ \A q \in Proc \ {p} : pc'[q] = pc[q]
      BY <1>0, <1>1 DEF Goto, TypeOK
    <2>2. KnownAt(p)'
      BY <1>0, <1>1, <2>1 DEF TaskOK, KnownAt
    <2>3. QED
      BY <1>0, <1>1, <2>1, <2>2, OthersKnow
  <1>2. CASE Poll(p)
    BY <1>1, <1>2 DEF Poll
  <1>3. CASE EndPoll(p)
    BY <1>1, <1>3 DEF EndPoll
  <1>4. ASSUME NEW s \in Schedules, CheckSchedule(p, s)
        PROVE  TaskOK'
    <2> DEFINE job == [Rest EXCEPT !.kind = "trigger", !.sched = s]
    <2>1. /\ job \in Task /\ job.sched = s /\ job.kind = "trigger"
          /\ job.phase = None
      BY DEF Rest, Task, Kinds
    <2>2. CASE UNCHANGED <<pc, task, stale>>
      BY <1>4, <2>2 DEF CheckSchedule, TaskOK, KnownAt
    <2>3. CASE Begin(p, job, "loadSchedules")
      <3>1. UNCHANGED copy
        BY <1>4 DEF CheckSchedule
      <3> HIDE DEF job
      <3>2. QED
        BY <1>0, <2>1, <2>3, <3>1, BeginKnows DEF Steps
    <2>4. QED
      BY <1>4, <2>2, <2>3 DEF CheckSchedule
  <1>5. QED
    BY <1>2, <1>3, <1>4 DEF Worker

LEMMA InitType == Init => Typed
  <1> SUFFICES ASSUME Init PROVE TypeOK /\ TaskOK
    BY DEF Typed
  <1>1. PICK stored \in SUBSET Schedules, target \in Targets \cup {None} :
          /\ cm = [settings |-> target,
                   schedules |-> [s \in Schedules |->
                     IF s \in stored
                     THEN [paused |-> FALSE, updated |-> 0, last |-> Never]
                     ELSE None],
                   runs |-> {}]
          /\ secret = target
    BY DEF Init
  <1>2. cm \in Docs
    BY <1>1 DEF Docs, SettingsDoc, SchedulesDoc, Schedule, Stamp, RunsDoc
  <1>3. TypeOK
    BY <1>1, <1>2, Empty DEF Init, TypeOK, Steps
  <1>4. TaskOK
    BY NoneIsNoLabel DEF Init, TaskOK, KnownAt, Rest, Kinds
  <1>5. QED
    BY <1>3, <1>4

LEMMA NextType == Typed /\ [Next]_vars => Typed'
  <1> SUFFICES ASSUME Typed, [Next]_vars PROVE Typed'
    OBVIOUS
  <1>1. CASE Tick
    BY <1>1 DEF Tick, Typed, TypeOK, TaskOK, KnownAt, storeVars, procVars
  <1>2. ASSUME NEW p \in Proc, Advance(p)
        PROVE  Typed'
    BY <1>2, LoadSchedulesType, LoadSettingsType, LoadRunsType, GetMapType,
       PersistType, StoreCallType, UploadType, DeleteObjectType DEF Advance
  <1>3. ASSUME NEW p \in Proc, Crash(p)
        PROVE  Typed'
    BY <1>3, CrashType
  <1>4. ASSUME NEW p \in Replicas, Worker(p)
        PROVE  Typed'
    BY <1>4, WorkerType, WorkerKnows DEF Typed
  <1>5. ASSUME NEW p \in Requests, Request(p)
        PROVE  Typed'
    BY <1>5, ServeType, RequestKnows DEF Typed
  <1>6. CASE UNCHANGED vars
    BY <1>6 DEF vars, storeVars, procVars, Typed, TypeOK, TaskOK, KnownAt
  <1>7. QED
    BY <1>1, <1>2, <1>3, <1>4, <1>5, <1>6 DEF Next

\* Every reachable state is well typed, and at every await a process holds what
\* the rest of its handler uses: the name of its backup, the schedule it is
\* about, the document it is going to write.
THEOREM TypeCorrect == Spec => [](TypeOK /\ TaskOK)
  <1>1. Spec => []Typed
    BY InitType, NextType, PTL DEF Spec
  <1>2. QED
    BY <1>1, PTL DEF Typed

-----------------------------------------------------------------------------
(* Provenance: every Completed row was uploaded *)

\* What Provenance says of one process.
BackedAt(p) ==
    /\ BackedRows(copy[p].runs)
    /\ BackedRows(map[p].runs)
    /\ task[p].phase = "Completed" => task[p].name \in uploaded

LEMMA NoneIsNotCompleted == None # "Completed"
  BY NoneAssumption DEF Phases

\* A step of p preserves Provenance if it loses no upload and leaves the stored
\* rows, the objects and p itself backed.
LEMMA BackedStep ==
    ASSUME Provenance, NEW p \in Proc, uploaded \subseteq uploaded',
           BackedRows(cm.runs)', \A o \in objects' : o[2] \in uploaded',
           BackedAt(p)',
           \A q \in Proc \ {p} : /\ task'[q] = task[q] /\ copy'[q] = copy[q]
                                 /\ map'[q] = map[q]
    PROVE  Provenance'
  <1>1. ASSUME NEW q \in Proc \ {p}
        PROVE  BackedAt(q)'
    <2>1. BackedAt(q)
      BY DEF Provenance, BackedAt
    <2>2. QED
      BY <2>1 DEF BackedAt, BackedRows
  <1>2. QED
    BY <1>1 DEF Provenance, BackedAt

LEMMA FinishBacked ==
    ASSUME TypeOK, NEW p \in Proc, Finish(p)
    PROVE  /\ BackedAt(p)'
           /\ \A q \in Proc \ {p} : /\ task'[q] = task[q] /\ copy'[q] = copy[q]
                                    /\ map'[q] = map[q]
  <1>1. task'[p] = Rest /\ copy'[p] = NoCopy /\ map'[p] = EmptyDocs
    BY DEF TypeOK, Finish
  <1>2. BackedAt(p)'
    BY <1>1, NoneIsNotCompleted
    DEF BackedAt, BackedRows, Rest, NoCopy, EmptyDocs
  <1>3. QED
    BY <1>2 DEF TypeOK, Finish

\* A step that finishes p's request and touches neither rows nor objects.
LEMMA FinishStepBacked ==
    ASSUME TypeOK, Provenance, NEW p \in Proc, Finish(p),
           UNCHANGED <<cm, objects, uploaded>>
    PROVE  Provenance'
  BY FinishBacked, BackedStep DEF Provenance, BackedRows

\* A step that begins a request of p.
LEMMA BeginBacked ==
    ASSUME TypeOK, Provenance, NEW p \in Proc, NEW job, NEW step,
           Begin(p, job, step), job.phase = None,
           UNCHANGED <<cm, objects, uploaded, copy, map>>
    PROVE  Provenance'
  <1>1. task'[p] = job /\ \A q \in Proc \ {p} : task'[q] = task[q]
    BY DEF TypeOK, Begin
  <1>2. BackedAt(p)'
    BY <1>1, NoneIsNotCompleted DEF BackedAt, BackedRows, Provenance
  <1>3. QED
    BY <1>1, <1>2, BackedStep DEF Provenance, BackedRows

LEMMA LoadSchedulesBacked ==
    ASSUME TypeOK, Provenance, NEW p \in Proc, LoadSchedules(p)
    PROVE  Provenance'
  <1>1. UNCHANGED <<cm, objects, uploaded>>
    BY DEF LoadSchedules, storeVars
  <1>2. CASE Finish(p)
    BY <1>1, <1>2, FinishStepBacked
  <1>3. ASSUME NEW list, NEW step, KeepSchedules(p, list, step),
               UNCHANGED task \/ task' = [task EXCEPT ![p].doc = "schedules"]
        PROVE  Provenance'
    <2>1. /\ copy'[p].runs = copy[p].runs /\ UNCHANGED map
          /\ \A q \in Proc \ {p} : copy'[q] = copy[q]
      BY <1>3 DEF KeepSchedules, TypeOK, Copy
    <2>2. /\ task'[p].phase = task[p].phase /\ task'[p].name = task[p].name
          /\ \A q \in Proc \ {p} : task'[q] = task[q]
      BY <1>3 DEF TypeOK, Task
    <2>3. BackedAt(p)'
      BY <1>1, <2>1, <2>2 DEF Provenance, BackedAt, BackedRows
    <2>4. QED
      BY <1>1, <2>1, <2>2, <2>3, BackedStep DEF Provenance, BackedRows
  <1>4. QED
    BY <1>2, <1>3 DEF LoadSchedules, WithSchedules

LEMMA LoadSettingsBacked ==
    ASSUME TypeOK, TaskOK, Provenance, NEW p \in Proc, LoadSettings(p)
    PROVE  Provenance'
  <1>0. task[p].kind = "trigger" => task[p].phase = None
    BY DEF LoadSettings, TaskOK, KnownAt
  <1>1. UNCHANGED <<cm, objects, uploaded, map>>
    BY DEF LoadSettings, storeVars
  <1>2. /\ copy'[p].runs = copy[p].runs
        /\ \A q \in Proc \ {p} : copy'[q] = copy[q]
    BY DEF LoadSettings, TypeOK, Copy
  <1>3. /\ task'[p].phase = task[p].phase
        /\ task'[p].phase = "Completed" => task'[p].name = task[p].name
        /\ \A q \in Proc \ {p} : task'[q] = task[q]
    BY <1>0, NoneIsNotCompleted DEF LoadSettings, TypeOK, Task
  <1>4. BackedAt(p)'
    BY <1>1, <1>2, <1>3 DEF Provenance, BackedAt, BackedRows
  <1>5. QED
    BY <1>1, <1>2, <1>3, <1>4, BackedStep DEF Provenance, BackedRows

LEMMA LoadRunsBacked ==
    ASSUME TypeOK, TaskOK, Provenance, NEW p \in Proc, LoadRuns(p)
    PROVE  Provenance'
  <1>1. /\ UNCHANGED <<cm, objects, uploaded, map>>
        /\ task' = [task EXCEPT ![p].doc = "runs"]
    BY DEF LoadRuns, storeVars
  <1>2. /\ task'[p].phase = task[p].phase /\ task'[p].name = task[p].name
        /\ \A q \in Proc \ {p} : task'[q] = task[q]
    BY <1>1 DEF TypeOK, Task
  <1>3. PICK ok \in Outcome : WithRuns(p, IF ok THEN cm.runs ELSE {})
    BY DEF LoadRuns
  <1> DEFINE rows == IF ok THEN cm.runs ELSE {}
             run  == [name |-> task[p].name, phase |-> task[p].phase, pos |-> pushes]
  <1>4. BackedRows(rows)
    BY DEF Provenance, BackedRows
  <1>5. run.phase = "Completed" => run.name \in uploaded
    BY DEF Provenance
  <1>6. /\ copy'[p].runs \subseteq rows \cup {run}
        /\ \A q \in Proc \ {p} : copy'[q] = copy[q]
    <2>1. CASE copy' = [copy EXCEPT ![p].runs = Push(rows, run)]
      BY <2>1 DEF TypeOK, Copy, Push, Trim
    <2>2. CASE copy' = [copy EXCEPT ![p].runs = Retain(rows, task[p].victims)]
      BY <2>2 DEF TypeOK, Copy, Retain
    <2>3. QED
      BY <1>3, <2>1, <2>2 DEF WithRuns
  <1> HIDE DEF rows, run
  <1>7. BackedAt(p)'
    BY <1>1, <1>2, <1>4, <1>5, <1>6 DEF Provenance, BackedAt, BackedRows
  <1>8. QED
    BY <1>1, <1>2, <1>6, <1>7, BackedStep DEF Provenance, BackedRows

LEMMA GetMapBacked ==
    ASSUME TypeOK, Provenance, NEW p \in Proc, GetMap(p)
    PROVE  Provenance'
  <1>1. UNCHANGED <<cm, objects, uploaded>>
    BY DEF GetMap, storeVars
  <1>2. CASE Finish(p)
    BY <1>1, <1>2, FinishStepBacked
  <1>3. ASSUME NEW ok, map' = [map EXCEPT ![p] = DataMap(ok)],
               UNCHANGED <<task, copy>>
        PROVE  Provenance'
    <2>1. BackedRows(map'[p].runs)
      BY <1>3 DEF TypeOK, DataMap, EmptyDocs, Provenance, BackedRows
    <2>2. BackedAt(p)'
      BY <1>1, <1>3, <2>1 DEF Provenance, BackedAt, BackedRows
    <2>3. QED
      BY <1>1, <1>3, <2>2, BackedStep DEF Provenance, BackedRows, TypeOK
  <1>4. QED
    BY <1>2, <1>3 DEF GetMap

LEMMA PersistBacked ==
    ASSUME TypeOK, Provenance, NEW p \in Proc,
           PersistSettings(p) \/ PersistSchedules(p) \/ PersistRuns(p)
    PROVE  Provenance'
  <1>1. BackedRows(copy[p].runs) /\ BackedRows(map[p].runs) /\ BackedRows(cm.runs)
    BY DEF Provenance
  <1>2. UNCHANGED <<objects, uploaded>>
    BY DEF PersistSettings, PersistSchedules, PersistRuns, Apply
  <1>3. cm'.runs \in {cm.runs, map[p].runs, copy[p].runs}
    BY DEF PersistSettings, PersistSchedules, PersistRuns, Apply, TypeOK, Docs
  <1>4. BackedRows(cm.runs)'
    BY <1>1, <1>2, <1>3 DEF BackedRows
  <1>5. CASE Finish(p)
    BY <1>2, <1>4, <1>5, FinishBacked, BackedStep DEF Provenance
  <1>6. CASE UNCHANGED <<task, copy, map>>
    <2>1. BackedAt(p)'
      BY <1>2, <1>6 DEF Provenance, BackedAt, BackedRows
    <2>2. QED
      BY <1>2, <1>4, <1>6, <2>1, BackedStep DEF Provenance
  <1>7. QED
    BY <1>5, <1>6 DEF PersistSettings, PersistSchedules, PersistRuns, Apply, Continue

LEMMA StoreCallBacked ==
    ASSUME TypeOK, Provenance, NEW p \in Proc,
           \/ PersistSecret(p) \/ CreateCr(p) \/ EndDelete(p)
           \/ \E name \in task[p].victims : DeleteObject(p, name)
    PROVE  Provenance'
  <1>1. CASE PersistSecret(p) \/ CreateCr(p)
    BY <1>1, FinishStepBacked DEF PersistSecret, CreateCr
  <1>2. CASE EndDelete(p)
    <2>1. UNCHANGED <<cm, objects, uploaded, task, copy, map>>
      BY <1>2 DEF EndDelete, Continue, storeVars
    <2>2. QED
      BY <2>1 DEF Provenance, BackedRows
  <1>3. ASSUME NEW name \in task[p].victims, DeleteObject(p, name)
        PROVE  Provenance'
    <2>1. /\ UNCHANGED <<cm, uploaded, copy, map>> /\ objects' \subseteq objects
          /\ task'[p].phase = task[p].phase /\ task'[p].name = task[p].name
          /\ \A q \in Proc \ {p} : task'[q] = task[q]
      BY <1>3 DEF DeleteObject, TypeOK, Task
    <2>2. BackedAt(p)'
      BY <2>1 DEF Provenance, BackedAt, BackedRows
    <2>3. QED
      BY <2>1, <2>2, BackedStep DEF Provenance, BackedRows
  <1>4. QED
    BY <1>1, <1>2, <1>3

LEMMA UploadBacked ==
    ASSUME TypeOK, Provenance, NEW p \in Proc, Upload(p)
    PROVE  Provenance'
  <1>1. PICK stored \in BOOLEAN, acked \in Outcome :
            /\ objects' = IF stored
                            THEN objects \cup {<<conf[p].bucket, task[p].name>>}
                            ELSE objects
            /\ uploaded' = IF stored THEN uploaded \cup {task[p].name} ELSE uploaded
            /\ task' = [task EXCEPT ![p].phase = RunPhase(stored /\ acked)]
    BY DEF Upload
  <1>2. UNCHANGED <<cm, copy, map>>
    BY DEF Upload
  <1>3. uploaded \subseteq uploaded' /\ \A o \in objects' : o[2] \in uploaded'
    BY <1>1 DEF Provenance
  <1>4. /\ task'[p].phase = RunPhase(stored /\ acked)
        /\ task'[p].name = task[p].name
        /\ \A q \in Proc \ {p} : task'[q] = task[q]
    BY <1>1 DEF TypeOK, Task
  <1>5. task'[p].phase = "Completed" => task'[p].name \in uploaded'
    BY <1>1, <1>4 DEF RunPhase
  <1>6. BackedAt(p)'
    BY <1>2, <1>3, <1>5 DEF Provenance, BackedAt, BackedRows
  <1>7. QED
    BY <1>2, <1>3, <1>4, <1>6, BackedStep DEF Provenance, BackedRows

LEMMA CrashBacked ==
    ASSUME TypeOK, Provenance, NEW p \in Proc, Crash(p)
    PROVE  Provenance'
  <1>1. UNCHANGED <<cm, objects, uploaded>>
    BY DEF Crash, storeVars
  <1>2. task'[p] = Rest /\ copy'[p] = NoCopy /\ map'[p] = EmptyDocs
    BY DEF Crash, TypeOK
  <1>3. BackedAt(p)'
    BY <1>2, NoneIsNotCompleted DEF BackedAt, BackedRows, Rest, NoCopy, EmptyDocs
  <1>4. \A q \in Proc \ {p} : /\ task'[q] = task[q] /\ copy'[q] = copy[q]
                              /\ map'[q] = map[q]
    BY DEF Crash, TypeOK
  <1>5. QED
    BY <1>1, <1>3, <1>4, BackedStep DEF Provenance, BackedRows

LEMMA WorkerBacked ==
    ASSUME TypeOK, Provenance, NEW p \in Replicas, Worker(p)
    PROVE  Provenance'
  <1>1. CASE UNCHANGED <<cm, objects, uploaded, task, copy, map>>
    BY <1>1 DEF Provenance, BackedRows
  <1>2. ASSUME NEW s, NEW job,
               job = [Rest EXCEPT !.kind = "trigger", !.sched = s],
               Begin(p, job, "loadSchedules"),
               UNCHANGED <<cm, objects, uploaded, copy, map>>
        PROVE  Provenance'
    <2>1. job.phase = None
      BY <1>2 DEF Rest
    <2>2. QED
      BY <1>2, <2>1, BeginBacked DEF Proc
  <1>3. QED
    BY <1>1, <1>2 DEF Worker, Poll, CheckSchedule, EndPoll, storeVars

LEMMA RequestBacked ==
    ASSUME TypeOK, Provenance, NEW p \in Requests, Request(p)
    PROVE  Provenance'
  <1>1. ASSUME NEW job, NEW step, Serve(p, job, step), job.phase = None
        PROVE  Provenance'
    BY <1>1, BeginBacked DEF Serve, storeVars, Proc
  <1>2. ASSUME NEW s, NEW paused, CreateSchedule(p, s, paused)
        PROVE  Provenance'
    BY <1>1, <1>2 DEF CreateSchedule, Rest
  <1>3. ASSUME NEW s, DeleteSchedule(p, s) \/ RunSchedule(p, s)
        PROVE  Provenance'
    BY <1>1, <1>3 DEF DeleteSchedule, RunSchedule, Rest
  <1>4. ASSUME NEW name, ManualBackup(p, name)
        PROVE  Provenance'
    BY <1>1, <1>4 DEF ManualBackup, Rest
  <1>5. ASSUME NEW victims, DeleteRuns(p, victims)
        PROVE  Provenance'
    BY <1>1, <1>5 DEF DeleteRuns, Rest
  <1>6. ASSUME NEW target, SaveSettings(p, target)
        PROVE  Provenance'
    BY <1>1, <1>6 DEF SaveSettings, Rest
  <1>7. QED
    BY <1>2, <1>3, <1>4, <1>5, <1>6 DEF Request

LEMMA ProvenanceInductive ==
    Typed /\ Provenance /\ [Next]_vars => Provenance'
  <1> SUFFICES ASSUME TypeOK, TaskOK, Provenance, [Next]_vars PROVE Provenance'
    BY DEF Typed
  <1>1. CASE Tick
    BY <1>1 DEF Tick, storeVars, procVars, Provenance, BackedRows
  <1>2. ASSUME NEW p \in Proc, Advance(p)
        PROVE  Provenance'
    BY <1>2, LoadSchedulesBacked, LoadSettingsBacked, LoadRunsBacked, GetMapBacked,
       PersistBacked, StoreCallBacked, UploadBacked DEF Advance
  <1>3. ASSUME NEW p \in Proc, Crash(p)
        PROVE  Provenance'
    BY <1>3, CrashBacked
  <1>4. ASSUME NEW p \in Replicas, Worker(p)
        PROVE  Provenance'
    BY <1>4, WorkerBacked
  <1>5. ASSUME NEW p \in Requests, Request(p)
        PROVE  Provenance'
    BY <1>5, RequestBacked
  <1>6. CASE UNCHANGED vars
    BY <1>6 DEF vars, storeVars, procVars, Provenance, BackedRows
  <1>7. QED
    BY <1>1, <1>2, <1>3, <1>4, <1>5, <1>6 DEF Next

LEMMA ProvenanceInit == Init => Provenance
  BY NoneIsNotCompleted
  DEF Init, Provenance, BackedRows, Rest, NoCopy, EmptyDocs

\* What the overview shows as Completed comes from a stored row or an object.
LEMMA ProvenanceSuffices == Provenance => ListedWasUploaded
  <1> SUFFICES ASSUME Provenance,
                      NEW rows \in {cm.runs, {}}, NEW velero, NEW c,
                      NEW b \in Overview(rows, velero, c),
                      b.phase = "Completed"
               PROVE  b.name \in uploaded
    BY DEF ListedWasUploaded
  <1>1. \/ \E r \in rows : b = [name |-> r.name, phase |-> r.phase]
        \/ \E n \in velero : b = [name |-> n, phase |-> "Velero"]
        \/ \E o \in objects : b = [name |-> o[2], phase |-> "Completed"]
    BY DEF Overview
  <1>2. QED
    BY <1>1 DEF Provenance, BackedRows

\* A backup the overview lists as Completed was really stored in S3, for any
\* number of replicas, requests and faults: upload_backup_run_to_s3 precedes the
\* row, and every document any process ever holds descends from stored rows.
THEOREM ListedBackupsExist == Spec => []ListedWasUploaded
  <1>1. Spec => [](Typed /\ Provenance)
    BY InitType, NextType, ProvenanceInit, ProvenanceInductive, PTL DEF Spec
  <1>2. QED
    BY <1>1, ProvenanceSuffices, PTL

-----------------------------------------------------------------------------
(* The cap on the run list *)

\* A non-empty list has a first row.
LEMMA FirstRow ==
    ASSUME NEW rows \in RunsDoc, rows # {}
    PROVE  \E m \in rows : \A r \in rows : m.pos <= r.pos
  <1> DEFINE places == {r.pos : r \in rows}
  <1>1. places \subseteq Nat /\ places # {}
    BY DEF RunsDoc, Run
  <1>2. \E x \in places : \A y \in places : ~(<<y, x>> \in OpToRel(<, Nat))
    <2> HIDE DEF places
    <2>1. QED
      BY <1>1, NatLessThanWellFounded, WFMin
  <1>3. PICK x \in places : \A y \in places : ~(y < x)
    BY <1>1, <1>2 DEF OpToRel
  <1>4. PICK m \in rows : m.pos = x
    BY <1>3
  <1>5. ASSUME NEW r \in rows PROVE m.pos <= r.pos
    BY <1>3, <1>4 DEF RunsDoc, Run
  <1>6. QED
    BY <1>5

\* Appending to a bounded list keeps it bounded: a full list loses its first row.
LEMMA PushBounded ==
    ASSUME NEW rows \in RunsDoc, NEW run \in Run,
           IsFiniteSet(rows), Cardinality(rows) <= MaxRuns,
           \A r \in rows : r.pos < run.pos,
           \A r, q \in rows : r.pos = q.pos => r = q
    PROVE  /\ IsFiniteSet(Push(rows, run))
           /\ Cardinality(Push(rows, run)) <= MaxRuns
           /\ \A r, q \in Push(rows, run) : r.pos = q.pos => r = q
  <1> DEFINE all == rows \cup {run}
  <1>1. /\ Push(rows, run) \subseteq all
        /\ all \in RunsDoc /\ all # {}
    BY RunsEdits DEF RunsDoc
  <1>2. /\ IsFiniteSet(all) /\ Cardinality(all) \in Nat
        /\ Cardinality(all) <= MaxRuns + 1
        /\ MaxRuns \in Nat
    <2>1. Cardinality(rows) \in Nat /\ MaxRuns \in Nat
      BY FS_CardinalityType, DocsAssumption
    <2>2. /\ IsFiniteSet(all)
          /\ Cardinality(all) = IF run \in rows THEN Cardinality(rows)
                                                ELSE Cardinality(rows) + 1
      BY FS_AddElement, Zenon
    <2>3. QED
      BY <2>1, <2>2
  <1>3. \A r, q \in all : r.pos = q.pos => r = q
    BY DEF RunsDoc, Run
  <1>4. IsFiniteSet(Push(rows, run)) /\ Cardinality(Push(rows, run)) \in Nat
    BY <1>1, <1>2, FS_Subset, FS_CardinalityType
  <1>5. Cardinality(Push(rows, run)) <= MaxRuns
    <2>1. CASE Cardinality(all) <= MaxRuns
      <3>1. Cardinality(Push(rows, run)) <= Cardinality(all)
        BY <1>1, <1>2, FS_Subset
      <3>2. QED
        BY <1>2, <1>4, <2>1, <3>1
    <2>2. CASE Cardinality(all) = MaxRuns + 1
      <3>1. PICK m \in all : \A r \in all : m.pos <= r.pos
        BY <1>1, FirstRow
      <3>2. {q \in all : q.pos > m.pos} = all \ {m}
        BY <1>1, <1>3, <3>1 DEF RunsDoc, Run
      <3>3. IsFiniteSet(all \ {m}) /\ Cardinality(all \ {m}) = MaxRuns
        <4> HIDE DEF all
        <4>1. /\ IsFiniteSet(all \ {m})
              /\ Cardinality(all \ {m}) = IF m \in all THEN Cardinality(all) - 1
                                                        ELSE Cardinality(all)
          BY <1>2, FS_RemoveElement, Zenon
        <4>2. QED
          BY <1>2, <2>2, <4>1
      <3>4. m \notin Push(rows, run)
        <4> DEFINE later(r) == Cardinality({q \in all : q.pos > r.pos})
        <4>1. Push(rows, run) = {r \in all : later(r) < MaxRuns}
          BY DEF Push, Trim
        <4> HIDE DEF all
        <4>2. later(m) = MaxRuns
          BY <3>2, <3>3
        <4> HIDE DEF later
        <4>3. QED
          BY <1>2, <4>1, <4>2
      <3>5. Push(rows, run) \in SUBSET (all \ {m})
        BY <1>1, <3>4
      <3>6. QED
        BY <3>3, <3>5, FS_Subset
    <2>3. QED
      BY <1>2, <2>1, <2>2
  <1>6. QED
    BY <1>1, <1>3, <1>4, <1>5

\* A part of a bounded list is bounded, and so is the empty list.
LEMMA PartBounded ==
    ASSUME NEW rows, NEW part \in SUBSET rows, BoundedRows(rows)
    PROVE  BoundedRows(part)
  <1>1. /\ IsFiniteSet(part) /\ Cardinality(part) <= Cardinality(rows)
        /\ Cardinality(part) \in Nat /\ Cardinality(rows) \in Nat
    BY FS_Subset, FS_CardinalityType DEF BoundedRows
  <1>2. QED
    BY <1>1, DocsAssumption DEF BoundedRows

LEMMA EmptyBounded == BoundedRows({})
  BY FS_EmptySet, DocsAssumption DEF BoundedRows

\* What Bounded says of one process.
BoundedAt(p) == BoundedRows(copy[p].runs) /\ BoundedRows(map[p].runs)

\* A step of p preserves Bounded if it leaves the stored rows and p's bounded.
LEMMA BoundedStep ==
    ASSUME TypeOK, Bounded, NEW p \in Proc, pushes' \in {pushes, pushes + 1},
           BoundedRows(cm.runs)', BoundedAt(p)',
           \A q \in Proc \ {p} : copy'[q] = copy[q] /\ map'[q] = map[q]
    PROVE  Bounded'
  <1>1. ASSUME NEW rows \in RunsDoc, BoundedRows(rows)
        PROVE  /\ IsFiniteSet(rows)
               /\ Cardinality(rows) <= MaxRuns
               /\ \A r \in rows : r.pos < pushes'
               /\ \A r, q \in rows : r.pos = q.pos => r = q
    BY <1>1 DEF BoundedRows, TypeOK, RunsDoc, Run
  <1>2. ASSUME NEW q \in Proc \ {p}
        PROVE  BoundedAt(q)'
    <2>1. copy[q].runs \in RunsDoc /\ map[q].runs \in RunsDoc
      BY DEF TypeOK, Copy, Docs
    <2>2. BoundedRows(copy[q].runs) /\ BoundedRows(map[q].runs)
      BY DEF Bounded
    <2>3. QED
      BY <1>1, <2>1, <2>2 DEF BoundedAt, BoundedRows
  <1>3. QED
    BY <1>2 DEF Bounded, BoundedAt

LEMMA FinishBounded ==
    ASSUME TypeOK, NEW p \in Proc, Finish(p) \/ Crash(p)
    PROVE  /\ BoundedAt(p)'
           /\ \A q \in Proc \ {p} : copy'[q] = copy[q] /\ map'[q] = map[q]
  <1>1. copy'[p] = NoCopy /\ map'[p] = EmptyDocs
    BY DEF TypeOK, Finish, Crash
  <1>2. BoundedRows({})'
    BY EmptyBounded, FS_EmptySet, DocsAssumption DEF BoundedRows
  <1>3. BoundedAt(p)'
    BY <1>1, <1>2 DEF BoundedAt, NoCopy, EmptyDocs
  <1>4. QED
    BY <1>3 DEF TypeOK, Finish, Crash

LEMMA LoadRunsBounded ==
    ASSUME TypeOK, TaskOK, Bounded, NEW p \in Proc, LoadRuns(p)
    PROVE  Bounded'
  <1>1. UNCHANGED <<cm, map>> /\ pc[p] = "loadRuns" /\ KnownAt(p)
    BY DEF LoadRuns, storeVars, TaskOK
  <1>2. PICK ok \in Outcome : WithRuns(p, IF ok THEN cm.runs ELSE {})
    BY DEF LoadRuns
  <1> DEFINE rows == IF ok THEN cm.runs ELSE {}
             run  == [name |-> task[p].name, phase |-> task[p].phase, pos |-> pushes]
  <1>3. BoundedRows(rows) /\ rows \in RunsDoc
    BY EmptyBounded DEF Bounded, TypeOK, Docs, RunsDoc
  <1>4. \A q \in Proc \ {p} : copy'[q] = copy[q] /\ map'[q] = map[q]
    BY <1>1, <1>2 DEF WithRuns, TypeOK
  <1>5. CASE /\ task[p].kind \in {"trigger", "manual"}
             /\ copy' = [copy EXCEPT ![p].runs = Push(rows, run)]
             /\ pushes' = pushes + 1
    <2>1. run \in Run
      BY <1>1, <1>5 DEF KnownAt, Run, TypeOK
    <2>2. /\ IsFiniteSet(rows) /\ Cardinality(rows) <= MaxRuns
          /\ \A r \in rows : r.pos < run.pos
          /\ \A r, q \in rows : r.pos = q.pos => r = q
      BY <1>3 DEF BoundedRows
    <2>3. copy'[p].runs = Push(rows, run)
      BY <1>5 DEF TypeOK, Copy
    <2>4. \A r \in Push(rows, run) : r.pos < pushes'
      <3>1. \A r \in rows : r.pos \in Nat /\ r.pos < pushes
        BY <1>3 DEF BoundedRows, RunsDoc, Run
      <3>2. pushes \in Nat /\ run.pos = pushes
        BY DEF TypeOK
      <3>3. Push(rows, run) \subseteq rows \cup {run}
        BY <1>3, <2>1, RunsEdits
      <3>4. QED
        BY <1>5, <3>1, <3>2, <3>3
    <2> HIDE DEF rows, run
    <2>5. BoundedRows(copy[p].runs)'
      BY <1>3, <2>1, <2>2, <2>3, <2>4, PushBounded DEF BoundedRows
    <2>6. BoundedRows(map[p].runs)' /\ BoundedRows(cm.runs)'
      <3>1. /\ BoundedRows(map[p].runs) /\ BoundedRows(cm.runs)
            /\ map[p].runs \in RunsDoc /\ cm.runs \in RunsDoc
        BY DEF Bounded, TypeOK, Docs
      <3>2. QED
        BY <1>1, <1>5, <3>1 DEF BoundedRows, TypeOK, RunsDoc, Run
    <2>7. QED
      BY <1>4, <1>5, <2>5, <2>6, BoundedStep DEF BoundedAt
  <1>6. CASE /\ copy' = [copy EXCEPT ![p].runs = Retain(rows, task[p].victims)]
             /\ UNCHANGED pushes
    <2>1. copy'[p].runs = Retain(rows, task[p].victims)
      BY <1>6 DEF TypeOK, Copy
    <2>2. Retain(rows, task[p].victims) \in SUBSET rows
      BY DEF Retain
    <2> HIDE DEF rows
    <2>3. BoundedRows(Retain(rows, task[p].victims))
      BY <1>3, <2>2, PartBounded
    <2>4. BoundedAt(p)' /\ BoundedRows(cm.runs)'
      BY <1>1, <1>6, <2>1, <2>3 DEF BoundedAt, BoundedRows, Bounded
    <2>5. QED
      BY <1>4, <1>6, <2>4, BoundedStep
  <1>7. QED
    BY <1>2, <1>5, <1>6 DEF WithRuns

\* The steps that append no row.
LEMMA SameRowsBounded ==
    ASSUME TypeOK, Bounded, NEW p \in Proc, UNCHANGED pushes,
           cm'.runs \in {cm.runs, map[p].runs, copy[p].runs},
           \/ Finish(p) \/ Crash(p)
           \/ /\ copy'[p].runs = copy[p].runs
              /\ map'[p].runs \in {map[p].runs, cm.runs, {}}
              /\ \A q \in Proc \ {p} : copy'[q] = copy[q] /\ map'[q] = map[q]
    PROVE  Bounded'
  <1>1. ASSUME NEW rows, BoundedRows(rows)
        PROVE  /\ IsFiniteSet(rows)
               /\ Cardinality(rows) <= MaxRuns
               /\ \A r \in rows : r.pos < pushes'
               /\ \A r, q \in rows : r.pos = q.pos => r = q
    BY <1>1 DEF BoundedRows
  <1>2. /\ BoundedRows(cm.runs) /\ BoundedRows(map[p].runs)
        /\ BoundedRows(copy[p].runs) /\ BoundedRows({})
    BY EmptyBounded DEF Bounded
  <1>3. BoundedRows(cm.runs)'
    BY <1>1, <1>2 DEF BoundedRows
  <1>4. CASE Finish(p) \/ Crash(p)
    BY <1>3, <1>4, FinishBounded, BoundedStep
  <1>5. CASE /\ copy'[p].runs = copy[p].runs
             /\ map'[p].runs \in {map[p].runs, cm.runs, {}}
             /\ \A q \in Proc \ {p} : copy'[q] = copy[q] /\ map'[q] = map[q]
    <2>1. BoundedAt(p)'
      BY <1>1, <1>2, <1>5 DEF BoundedAt, BoundedRows
    <2>2. QED
      BY <1>3, <1>5, <2>1, BoundedStep
  <1>6. QED
    BY <1>4, <1>5

LEMMA AdvanceBounded ==
    ASSUME TypeOK, TaskOK, Bounded, NEW p \in Proc, Advance(p)
    PROVE  Bounded'
  <1>1. CASE LoadRuns(p)
    BY <1>1, LoadRunsBounded
  <1>2. CASE LoadSchedules(p)
    <2>1. UNCHANGED <<cm, pushes>>
      BY <1>2 DEF LoadSchedules, storeVars
    <2>2. ASSUME NEW list, NEW step, KeepSchedules(p, list, step)
          PROVE  /\ copy'[p].runs = copy[p].runs /\ map' = map
                 /\ \A q \in Proc \ {p} : copy'[q] = copy[q]
      BY <2>2 DEF KeepSchedules, TypeOK, Copy
    <2>3. QED
      BY <1>2, <2>1, <2>2, SameRowsBounded DEF LoadSchedules, WithSchedules
  <1>3. CASE LoadSettings(p)
    <2>1. /\ UNCHANGED <<cm, pushes, map>> /\ copy'[p].runs = copy[p].runs
          /\ \A q \in Proc \ {p} : copy'[q] = copy[q]
      BY <1>3 DEF LoadSettings, storeVars, TypeOK, Copy
    <2>2. QED
      BY <2>1, SameRowsBounded
  <1>4. CASE GetMap(p)
    <2>1. UNCHANGED <<cm, pushes>>
      BY <1>4 DEF GetMap, storeVars
    <2>2. CASE Finish(p)
      BY <2>1, <2>2, SameRowsBounded
    <2>3. CASE UNCHANGED copy /\ \E ok : map' = [map EXCEPT ![p] = DataMap(ok)]
      <3>1. map'[p].runs \in {cm.runs, {}}
        BY <2>3 DEF TypeOK, DataMap, EmptyDocs
      <3>2. \A q \in Proc \ {p} : copy'[q] = copy[q] /\ map'[q] = map[q]
        BY <2>3 DEF TypeOK
      <3>3. QED
        BY <2>1, <2>3, <3>1, <3>2, SameRowsBounded
    <2>4. QED
      BY <1>4, <2>2, <2>3 DEF GetMap
  <1>5. CASE PersistSettings(p) \/ PersistSchedules(p) \/ PersistRuns(p)
    <2>1. UNCHANGED pushes
      BY <1>5 DEF PersistSettings, PersistSchedules, PersistRuns, Apply
    <2>2. cm'.runs \in {cm.runs, map[p].runs, copy[p].runs}
      BY <1>5 DEF PersistSettings, PersistSchedules, PersistRuns, Apply, TypeOK, Docs
    <2>3. Finish(p) \/ UNCHANGED <<copy, map>>
      BY <1>5
      DEF PersistSettings, PersistSchedules, PersistRuns, Apply, Continue
    <2>4. QED
      BY <2>1, <2>2, <2>3, SameRowsBounded
  <1>6. CASE PersistSecret(p) \/ CreateCr(p)
    BY <1>6, SameRowsBounded DEF PersistSecret, CreateCr
  <1>7. CASE \/ Upload(p) \/ EndDelete(p)
             \/ \E name \in task[p].victims : DeleteObject(p, name)
    <2>1. UNCHANGED <<cm, copy, map, pushes>>
      BY <1>7 DEF Upload, EndDelete, DeleteObject, Continue, storeVars
    <2>2. QED
      BY <2>1, SameRowsBounded
  <1>8. QED
    BY <1>1, <1>2, <1>3, <1>4, <1>5, <1>6, <1>7 DEF Advance

LEMMA StaticBounded ==
    ASSUME Bounded, UNCHANGED <<cm, copy, map, pushes>>
    PROVE  Bounded'
  BY DEF Bounded, BoundedRows

LEMMA BoundedInductive ==
    Typed /\ Bounded /\ [Next]_vars => Bounded'
  <1> SUFFICES ASSUME TypeOK, TaskOK, Bounded, [Next]_vars PROVE Bounded'
    BY DEF Typed
  <1>1. CASE Tick \/ UNCHANGED vars
    BY <1>1, StaticBounded DEF Tick, vars, storeVars, procVars
  <1>2. ASSUME NEW p \in Proc, Advance(p)
        PROVE  Bounded'
    BY <1>2, AdvanceBounded
  <1>3. ASSUME NEW p \in Proc, Crash(p)
        PROVE  Bounded'
    BY <1>3, SameRowsBounded DEF Crash, storeVars
  <1>4. ASSUME NEW p \in Replicas, Worker(p)
        PROVE  Bounded'
    BY <1>4, StaticBounded DEF Worker, Poll, CheckSchedule, EndPoll, storeVars
  <1>5. ASSUME NEW p \in Requests, Request(p)
        PROVE  Bounded'
    BY <1>5, StaticBounded
    DEF Request, CreateSchedule, DeleteSchedule, RunSchedule, ManualBackup,
        DeleteRuns, SaveSettings, Serve, storeVars
  <1>6. QED
    BY <1>1, <1>2, <1>3, <1>4, <1>5 DEF Next

LEMMA BoundedInit == Init => Bounded
  <1> SUFFICES ASSUME Init PROVE Bounded
    OBVIOUS
  <1>1. cm.runs = {}
    BY DEF Init
  <1>2. \A p \in Proc : copy[p].runs = {} /\ map[p].runs = {}
    BY DEF Init, NoCopy, EmptyDocs
  <1>3. QED
    BY <1>1, <1>2, EmptyBounded DEF Bounded

\* backup-runs.json never outgrows its cap, for any cap, any number of writers
\* and any faults: push-then-trim works on a copy that was itself within it.
THEOREM RunListIsBounded == Spec => []RunsBounded
  <1>1. Spec => [](Typed /\ Bounded)
    BY InitType, NextType, BoundedInit, BoundedInductive, PTL DEF Spec
  <1>2. Bounded => RunsBounded
    BY DEF Bounded, BoundedRows, RunsBounded
  <1>3. QED
    BY <1>1, <1>2, PTL

-----------------------------------------------------------------------------
(* Undisturbed edits are steps of the ledger *)

\* Where a process holds nothing that Current speaks of.
Unbound(step) == step \notin {"loadSettings", "s3delete", "getMap", "patch"}

LEMMA UnboundIsCurrent ==
    ASSUME NEW p \in Proc, Unbound(pc[p]) PROVE CurrentAt(p)
  BY DEF Unbound, CurrentAt

\* A step of p: what p holds is current, and so is what the others hold unless
\* they were overtaken.
LEMMA CurrentStep ==
    ASSUME Current, NEW p \in Proc,
           ~stale'[p] => CurrentAt(p)',
           \A q \in Proc \ {p} :
              /\ pc'[q] = pc[q] /\ task'[q] = task[q]
              /\ copy'[q] = copy[q] /\ map'[q] = map[q]
              /\ stale'[q] \/ (stale'[q] = stale[q] /\ cm' = cm)
    PROVE  Current'
  <1>1. ASSUME NEW q \in Proc \ {p}, ~stale'[q]
        PROVE  CurrentAt(q)'
    <2>1. CurrentAt(q) /\ cm' = cm
      BY <1>1 DEF Current
    <2>2. QED
      BY <2>1 DEF CurrentAt
  <1>2. QED
    BY <1>1 DEF Current

LEMMA FinishIsUnbound ==
    ASSUME TypeOK, NEW p \in Proc, Finish(p)
    PROVE  /\ CurrentAt(p)'
           /\ \A q \in Proc \ {p} : /\ pc'[q] = pc[q] /\ task'[q] = task[q]
                                    /\ copy'[q] = copy[q] /\ map'[q] = map[q]
  <1>1. pc'[p] \in {"poll", "idle"}
    BY DEF Finish, Goto, TypeOK
  <1>2. CurrentAt(p)'
    BY <1>1 DEF CurrentAt
  <1>3. QED
    BY <1>2 DEF Finish, Goto, TypeOK

\* The effect of going on from one await to the next.
LEMMA GotoOthers ==
    ASSUME TypeOK, NEW p \in Proc, NEW step, Goto(p, step)
    PROVE  pc'[p] = step /\ \A q \in Proc \ {p} : pc'[q] = pc[q]
  BY DEF Goto, TypeOK

LEMMA LoadSchedulesCurrent ==
    ASSUME TypeOK, TaskOK, Current, NEW p \in Proc, LoadSchedules(p)
    PROVE  Current'
  <1>1. PICK ok \in Outcome :
           /\ stale' = [stale EXCEPT ![p] = ~ok]
           /\ WithSchedules(p, IF ok THEN cm.schedules ELSE NoSchedules)
    BY DEF LoadSchedules
  <1>2. /\ cm' = cm
        /\ stale'[p] = ~ok /\ \A q \in Proc \ {p} : stale'[q] = stale[q]
    BY <1>1 DEF LoadSchedules, storeVars, TypeOK
  <1>3. CASE Finish(p)
    BY <1>2, <1>3, FinishIsUnbound, CurrentStep
  <1> DEFINE list == IF ok THEN cm.schedules ELSE NoSchedules
             s    == task[p].sched
  <1>4. ASSUME NEW mine, NEW step, KeepSchedules(p, mine, step)
        PROVE  /\ copy'[p].schedules = mine /\ pc'[p] = step
               /\ \A q \in Proc \ {p} : /\ pc'[q] = pc[q] /\ copy'[q] = copy[q]
                                        /\ map'[q] = map[q]
    BY <1>4 DEF KeepSchedules, Goto, TypeOK, Copy
  <1>5. CASE /\ task[p].kind = "trigger" /\ MayTrigger(list[s])
             /\ KeepSchedules(p, list, "loadSettings") /\ UNCHANGED task
    <2>1. ASSUME ~stale'[p] PROVE CurrentAt(p)'
      <3>1. /\ pc'[p] = "loadSettings" /\ task'[p] = task[p]
            /\ copy'[p].schedules = cm.schedules /\ cm' = cm
        BY <1>2, <1>4, <1>5, <2>1
      <3>2. Runnable(cm.schedules[s])
        BY <1>2, <1>5, <2>1 DEF MayTrigger
      <3>3. QED
        BY <1>5, <3>1, <3>2 DEF CurrentAt
    <2>2. QED
      BY <1>2, <1>4, <1>5, <2>1, CurrentStep
  <1>6. CASE /\ task[p].kind = "create"
             /\ KeepSchedules(p, Upsert(list, s, task[p].paused, now), "getMap")
             /\ task' = [task EXCEPT ![p].doc = "schedules"]
    <2>1. /\ task'[p].kind = "create" /\ task'[p].doc = "schedules" /\ task'[p].sched = s
          /\ \A q \in Proc \ {p} : task'[q] = task[q]
      BY <1>6 DEF TypeOK, Task
    <2>2. s \in Schedules
      BY <1>6 DEF TaskOK, KnownAt
    <2>3. ASSUME ok
          PROVE  LET mine == copy'[p].schedules IN
                 /\ mine[s] # None
                 /\ mine = Upsert(cm.schedules, s, mine[s].paused, mine[s].updated)
      <3>1. list \in SchedulesDoc
        BY <2>3 DEF TypeOK, Docs
      <3>2. DOMAIN list = Schedules
        BY <3>1 DEF SchedulesDoc
      <3>3. copy'[p].schedules = Upsert(cm.schedules, s, task[p].paused, now)
        BY <1>4, <1>6, <2>3
      <3>4. /\ copy'[p].schedules[s].paused = task[p].paused
            /\ copy'[p].schedules[s].updated = now
        BY <2>2, <2>3, <3>2, <3>3 DEF Upsert
      <3>5. copy'[p].schedules[s] # None
        <4>1. task[p].paused \in BOOLEAN /\ now \in Nat
          BY DEF TypeOK, Task
        <4>2. copy'[p].schedules[s] =
                 [paused |-> task[p].paused, updated |-> now,
                  last |-> IF cm.schedules[s] = None THEN Never ELSE cm.schedules[s].last]
          BY <2>2, <2>3, <3>2, <3>3 DEF Upsert
        <4>3. cm.schedules[s] # None => cm.schedules[s] \in Schedule
          BY <2>2, <2>3, <3>1 DEF SchedulesDoc
        <4>4. copy'[p].schedules[s] \in Schedule
          BY <4>1, <4>2, <4>3 DEF Schedule, Stamp, Never
        <4>5. QED
          BY <4>4, NoneAssumption
      <3>6. QED
        BY <3>3, <3>4, <3>5
    <2>4. ASSUME ~stale'[p] PROVE CurrentAt(p)'
      <3>1. ok /\ pc'[p] = "getMap" /\ cm' = cm
        BY <1>2, <1>4, <1>6, <2>4
      <3>2. QED
        BY <2>1, <2>3, <3>1 DEF CurrentAt
    <2>5. QED
      BY <1>2, <1>4, <1>6, <2>1, <2>4, CurrentStep
  <1>7. CASE /\ task[p].kind = "deleteSchedule"
             /\ KeepSchedules(p, Remove(list, s), "getMap")
             /\ task' = [task EXCEPT ![p].doc = "schedules"]
    <2>1. /\ task'[p].kind = "deleteSchedule" /\ task'[p].doc = "schedules"
          /\ task'[p].sched = s
          /\ \A q \in Proc \ {p} : task'[q] = task[q]
      BY <1>7 DEF TypeOK, Task
    <2>2. ASSUME ~stale'[p] PROVE CurrentAt(p)'
      <3>1. /\ pc'[p] = "getMap" /\ cm' = cm
            /\ copy'[p].schedules = Remove(cm.schedules, s)
        BY <1>2, <1>4, <1>7, <2>2
      <3>2. QED
        BY <2>1, <3>1 DEF CurrentAt
    <2>3. QED
      BY <1>2, <1>4, <1>7, <2>1, <2>2, CurrentStep
  <1>8. QED
    BY <1>1, <1>3, <1>5, <1>6, <1>7 DEF WithSchedules

LEMMA LoadSettingsCurrent ==
    ASSUME TypeOK, TaskOK, Current, NEW p \in Proc, LoadSettings(p)
    PROVE  Current'
  <1> DEFINE s == task[p].sched
  <1>1. /\ UNCHANGED <<cm, map, stale>>
        /\ pc[p] = "loadSettings"
        /\ \A q \in Proc \ {p} : /\ pc'[q] = pc[q] /\ task'[q] = task[q]
                                 /\ copy'[q] = copy[q] /\ map'[q] = map[q]
    BY DEF LoadSettings, storeVars, Goto, TypeOK
  <1>2. CASE task[p].kind = "trigger"
    <2>1. /\ task'[p].kind = "trigger" /\ task'[p].doc = "schedules" /\ task'[p].sched = s
          /\ pc'[p] = "getMap"
          /\ copy'[p].schedules = Mark(copy[p].schedules, s, now)
      BY <1>2 DEF LoadSettings, Goto, TypeOK, Task, Copy
    <2>2. s \in Schedules /\ copy[p].schedules \in SchedulesDoc
      BY <1>2 DEF TaskOK, KnownAt, TypeOK, Copy
    <2>3. ASSUME ~stale'[p] PROVE CurrentAt(p)'
      <3>1. copy[p].schedules = cm.schedules /\ Runnable(cm.schedules[s])
        BY <1>1, <1>2, <2>3 DEF Current, CurrentAt
      <3>2. /\ Mark(cm.schedules, s, now)[s] =
                  [paused |-> cm.schedules[s].paused, updated |-> now, last |-> now]
            /\ cm.schedules[s] \in Schedule
        BY <2>2, <3>1 DEF Mark, SchedulesDoc, Runnable
      <3>3. Mark(cm.schedules, s, now)[s] \in Schedule
        BY <3>2 DEF TypeOK, Schedule, Stamp
      <3>4. /\ Mark(cm.schedules, s, now)[s] # None
            /\ Mark(cm.schedules, s, now)[s].last = now
        BY <3>2, <3>3, NoneAssumption
      <3>5. QED
        BY <1>1, <2>1, <3>1, <3>4 DEF CurrentAt
    <2>4. QED
      BY <1>1, <2>3, CurrentStep
  <1>3. CASE task[p].kind = "manual"
    <2>1. Unbound(pc'[p])
      BY <1>3 DEF LoadSettings, Goto, TypeOK, Unbound
    <2>2. CurrentAt(p)'
      BY <2>1 DEF Unbound, CurrentAt
    <2>3. QED
      BY <1>1, <2>2, CurrentStep
  <1>4. CASE task[p].kind = "deleteRuns"
    <2>1. pc'[p] = "s3delete" /\ task' = task /\ copy' = copy
      BY <1>4 DEF LoadSettings, Goto, TypeOK
    <2>2. ~stale'[p] => CurrentAt(p)'
      BY <1>1, <1>4, <2>1 DEF Current, CurrentAt
    <2>3. QED
      BY <1>1, <2>2, CurrentStep
  <1>5. QED
    BY <1>2, <1>3, <1>4 DEF LoadSettings

\* The row pushed is kept: none comes after it.
LEMMA PushKeepsLast ==
    ASSUME NEW rows \in RunsDoc, NEW run \in Run, \A r \in rows : r.pos < run.pos
    PROVE  run \in Push(rows, run)
  <1>1. {q \in rows \cup {run} : q.pos > run.pos} = {}
    BY DEF RunsDoc, Run
  <1>2. Cardinality({q \in rows \cup {run} : q.pos > run.pos}) < MaxRuns
    BY <1>1, FS_EmptySet, DocsAssumption
  <1>3. QED
    BY <1>2 DEF Push, Trim

\* Retaining is told by what is left.
LEMMA RetainAgain ==
    ASSUME NEW rows, NEW names
    PROVE  LET kept == Retain(rows, names) IN
           kept = Retain(rows, {r.name : r \in rows} \ {r.name : r \in kept})
  BY DEF Retain

LEMMA LoadRunsCurrent ==
    ASSUME TypeOK, TaskOK, Bounded, Current, NEW p \in Proc, LoadRuns(p)
    PROVE  Current'
  <1>1. PICK ok \in Outcome :
           /\ stale' = [stale EXCEPT ![p] = ~ok]
           /\ WithRuns(p, IF ok THEN cm.runs ELSE {})
    BY DEF LoadRuns
  <1>2. /\ cm' = cm /\ map' = map /\ pc[p] = "loadRuns"
        /\ stale'[p] = ~ok /\ \A q \in Proc \ {p} : stale'[q] = stale[q]
    BY <1>1 DEF LoadRuns, storeVars, TypeOK
  <1>3. /\ task'[p].kind = task[p].kind /\ task'[p].doc = "runs"
        /\ \A q \in Proc \ {p} : task'[q] = task[q]
    BY DEF LoadRuns, TypeOK, Task
  <1>4. CASE task[p].kind \in {"trigger", "manual"}
    <2> DEFINE run == [name |-> task[p].name, phase |-> task[p].phase, pos |-> pushes]
    <2>1. /\ copy' = [copy EXCEPT ![p].runs =
                         Push(IF ok THEN cm.runs ELSE {}, run)]
          /\ Goto(p, "getMap")
      BY <1>1, <1>4 DEF WithRuns
    <2>2. /\ copy'[p].runs = Push(IF ok THEN cm.runs ELSE {}, run)
          /\ pc'[p] = "getMap"
          /\ \A q \in Proc \ {p} : copy'[q] = copy[q] /\ pc'[q] = pc[q]
      BY <2>1, GotoOthers DEF TypeOK, Copy
    <2>3. run \in Run
      BY <1>2, <1>4 DEF TypeOK, TaskOK, KnownAt, Task, Run, Phases
    <2>4. \A r \in cm.runs : r.pos < run.pos
      BY DEF Bounded, BoundedRows
    <2> HIDE DEF run
    <2>5. run \in Push(cm.runs, run)
      BY <2>3, <2>4, PushKeepsLast DEF TypeOK, Docs
    <2>6. ASSUME ~stale'[p] PROVE CurrentAt(p)'
      <3>1. copy'[p].runs = Push(cm.runs, run) /\ run \in copy'[p].runs
        BY <1>2, <2>2, <2>5, <2>6
      <3>2. \E r \in copy'[p].runs : /\ \A q \in cm'.runs : q.pos < r.pos
                                     /\ copy'[p].runs = Push(cm'.runs, r)
        BY <1>2, <2>4, <3>1
      <3>3. QED
        BY <1>3, <1>4, <2>2, <3>2 DEF CurrentAt
    <2>7. QED
      BY <1>2, <1>3, <2>2, <2>6, CurrentStep
  <1>5. CASE task[p].kind = "deleteRuns"
    <2>1. /\ copy'[p].runs = Retain(IF ok THEN cm.runs ELSE {}, task[p].victims)
          /\ pc'[p] = "loadSettings"
          /\ \A q \in Proc \ {p} : copy'[q] = copy[q] /\ pc'[q] = pc[q]
      BY <1>1, <1>5, GotoOthers DEF WithRuns, TypeOK, Copy
    <2>2. ASSUME ~stale'[p] PROVE CurrentAt(p)'
      <3>1. copy'[p].runs = Retain(cm.runs, task[p].victims)
        BY <1>2, <2>1, <2>2
      <3>2. copy'[p].runs = Retain(cm'.runs,
               {r.name : r \in cm'.runs} \ {r.name : r \in copy'[p].runs})
        BY <1>2, <3>1, RetainAgain
      <3>3. QED
        BY <1>3, <1>5, <2>1, <3>2 DEF CurrentAt
    <2>3. QED
      BY <1>2, <1>3, <2>1, <2>2, CurrentStep
  <1>6. QED
    BY <1>1, <1>4, <1>5 DEF WithRuns

LEMMA GetMapCurrent ==
    ASSUME TypeOK, Current, NEW p \in Proc, GetMap(p)
    PROVE  Current'
  <1>1. cm' = cm
    BY DEF GetMap, storeVars
  <1>2. CASE Finish(p) /\ UNCHANGED stale
    BY <1>1, <1>2, FinishIsUnbound, CurrentStep
  <1>3. ASSUME NEW ok \in Outcome, map' = [map EXCEPT ![p] = DataMap(ok)],
               stale' = [stale EXCEPT ![p] = @ \/ ~ok],
               Goto(p, "patch"), UNCHANGED <<task, copy>>
        PROVE  Current'
    <2>1. /\ pc[p] = "getMap" /\ pc'[p] = "patch" /\ map'[p] = DataMap(ok)
          /\ \A q \in Proc \ {p} : /\ pc'[q] = pc[q] /\ map'[q] = map[q]
                                   /\ stale'[q] = stale[q]
          /\ ~stale'[p] => ~stale[p] /\ ok
      BY <1>3, GotoOthers DEF GetMap, TypeOK
    <2>2. ASSUME ~stale'[p] PROVE CurrentAt(p)'
      <3>1. CurrentAt(p) /\ map'[p] = cm
        BY <2>1, <2>2 DEF Current, DataMap
      <3>2. QED
        BY <1>1, <1>3, <2>1, <3>1 DEF CurrentAt
    <2>3. QED
      BY <1>1, <1>3, <2>1, <2>2, CurrentStep
  <1>4. QED
    BY <1>2, <1>3 DEF GetMap

\* A write overtakes everybody else, and leaves its own process with nothing.
LEMMA PersistCurrent ==
    ASSUME TypeOK, Current, NEW p \in Proc,
           PersistSettings(p) \/ PersistSchedules(p) \/ PersistRuns(p)
    PROVE  Current'
  <1>1. PICK applied \in BOOLEAN : /\ ~applied => cm' = cm
                                   /\ stale' = [q \in Proc |->
                                         stale[q] \/ (applied /\ q # p)]
    BY DEF PersistSettings, PersistSchedules, PersistRuns, Apply
  <1>2. \A q \in Proc \ {p} : stale'[q] \/ (stale'[q] = stale[q] /\ cm' = cm)
    BY <1>1 DEF TypeOK
  <1>3. CASE Finish(p)
    BY <1>2, <1>3, FinishIsUnbound, CurrentStep
  <1>4. CASE Continue(p, "secret") \/ Continue(p, "upload")
    <2>1. /\ pc'[p] \in {"secret", "upload"}
          /\ \A q \in Proc \ {p} : /\ pc'[q] = pc[q] /\ task'[q] = task[q]
                                   /\ copy'[q] = copy[q] /\ map'[q] = map[q]
      BY <1>4, GotoOthers DEF Continue
    <2>2. CurrentAt(p)'
      BY <2>1 DEF CurrentAt
    <2>3. QED
      BY <1>2, <2>1, <2>2, CurrentStep
  <1>5. QED
    BY <1>3, <1>4 DEF PersistSettings, PersistSchedules, PersistRuns, Apply

LEMMA StoreCallCurrent ==
    ASSUME TypeOK, TaskOK, Current, NEW p \in Proc,
           \/ PersistSecret(p) \/ CreateCr(p) \/ Upload(p) \/ EndDelete(p)
           \/ \E name \in task[p].victims : DeleteObject(p, name)
    PROVE  Current'
  <1>1. UNCHANGED <<cm, stale>>
    BY DEF PersistSecret, CreateCr, Upload, EndDelete, DeleteObject, storeVars
  <1>2. CASE PersistSecret(p) \/ CreateCr(p)
    BY <1>1, <1>2, FinishIsUnbound, CurrentStep DEF PersistSecret, CreateCr
  <1>3. CASE Upload(p)
    <2>1. /\ pc'[p] = "loadRuns"
          /\ \A q \in Proc \ {p} : /\ pc'[q] = pc[q] /\ task'[q] = task[q]
                                   /\ copy'[q] = copy[q] /\ map'[q] = map[q]
      BY <1>3, GotoOthers DEF Upload, TypeOK
    <2>2. CurrentAt(p)'
      BY <2>1 DEF CurrentAt
    <2>3. QED
      BY <1>1, <2>1, <2>2, CurrentStep
  <1>4. CASE EndDelete(p)
    <2>1. /\ pc[p] = "s3delete" /\ pc'[p] = "getMap"
          /\ UNCHANGED <<task, copy, map>>
          /\ \A q \in Proc \ {p} : pc'[q] = pc[q]
      BY <1>4, GotoOthers DEF EndDelete, Continue
    <2>2. task[p].kind = "deleteRuns" /\ task[p].doc = "runs"
      BY <2>1 DEF TaskOK, KnownAt
    <2>3. ~stale'[p] => CurrentAt(p)'
      BY <1>1, <2>1, <2>2 DEF Current, CurrentAt
    <2>4. QED
      BY <1>1, <2>1, <2>3, CurrentStep
  <1>5. ASSUME NEW name \in task[p].victims, DeleteObject(p, name)
        PROVE  Current'
    <2>1. /\ UNCHANGED <<pc, copy, map>>
          /\ task'[p].kind = task[p].kind /\ task'[p].doc = task[p].doc
          /\ task'[p].sched = task[p].sched
          /\ \A q \in Proc \ {p} : task'[q] = task[q]
      BY <1>5 DEF DeleteObject, TypeOK, Task
    <2>2. ~stale'[p] => CurrentAt(p)'
      BY <1>1, <2>1 DEF Current, CurrentAt
    <2>3. QED
      BY <1>1, <2>1, <2>2, CurrentStep
  <1>6. QED
    BY <1>2, <1>3, <1>4, <1>5

LEMMA BeginCurrent ==
    ASSUME TypeOK, Current, NEW p \in Proc, NEW job, NEW step, Begin(p, job, step),
           UNCHANGED <<cm, copy, map>>,
           \/ step \in {"loadSchedules", "loadRuns"}
           \/ step = "loadSettings" /\ job.kind = "manual"
           \/ step = "getMap" /\ job.kind = "saveSettings" /\ job.doc = "settings"
    PROVE  Current'
  <1>1. /\ pc'[p] = step /\ task'[p] = job
        /\ \A q \in Proc \ {p} : /\ pc'[q] = pc[q] /\ task'[q] = task[q]
                                 /\ stale'[q] = stale[q]
    BY DEF Begin, Goto, TypeOK
  <1>2. CurrentAt(p)'
    BY <1>1 DEF CurrentAt
  <1>3. QED
    BY <1>1, <1>2, CurrentStep

LEMMA CrashCurrent ==
    ASSUME TypeOK, Current, NEW p \in Proc, Crash(p)
    PROVE  Current'
  <1>1. /\ pc'[p] = "idle" /\ UNCHANGED <<cm, stale>>
        /\ \A q \in Proc \ {p} : /\ pc'[q] = pc[q] /\ task'[q] = task[q]
                                 /\ copy'[q] = copy[q] /\ map'[q] = map[q]
    BY DEF Crash, Goto, TypeOK, storeVars
  <1>2. CurrentAt(p)'
    BY <1>1 DEF CurrentAt
  <1>3. QED
    BY <1>1, <1>2, CurrentStep

LEMMA WorkerCurrent ==
    ASSUME TypeOK, Current, NEW p \in Replicas, Worker(p)
    PROVE  Current'
  <1>1. /\ p \in Proc /\ UNCHANGED <<cm, copy, map>>
    BY DEF Worker, Poll, CheckSchedule, EndPoll, storeVars, Proc
  <1>2. CASE /\ Goto(p, "poll") \/ Goto(p, "idle") \/ UNCHANGED pc
             /\ pc[p] \in {"poll", "idle"}
             /\ UNCHANGED <<task, stale>>
    <2>1. /\ pc'[p] \in {"poll", "idle"}
          /\ \A q \in Proc \ {p} : pc'[q] = pc[q]
      BY <1>1, <1>2, GotoOthers
    <2>2. CurrentAt(p)'
      BY <2>1 DEF CurrentAt
    <2>3. QED
      BY <1>1, <1>2, <2>1, <2>2, CurrentStep
  <1>3. ASSUME NEW job, Begin(p, job, "loadSchedules") PROVE Current'
    BY <1>1, <1>3, BeginCurrent
  <1>4. QED
    BY <1>2, <1>3 DEF Worker, Poll, CheckSchedule, EndPoll

LEMMA RequestCurrent ==
    ASSUME TypeOK, Current, NEW p \in Requests, Request(p)
    PROVE  Current'
  <1>1. p \in Proc
    BY DEF Proc
  <1>2. ASSUME NEW job, NEW step, Serve(p, job, step),
               \/ step \in {"loadSchedules", "loadRuns"}
               \/ step = "loadSettings" /\ job.kind = "manual"
               \/ step = "getMap" /\ job.kind = "saveSettings" /\ job.doc = "settings"
        PROVE  Current'
    BY <1>1, <1>2, BeginCurrent DEF Serve, storeVars
  <1>3. ASSUME NEW s, NEW paused, CreateSchedule(p, s, paused)
        PROVE  Current'
    BY <1>2, <1>3 DEF CreateSchedule
  <1>4. ASSUME NEW s, DeleteSchedule(p, s) \/ RunSchedule(p, s)
        PROVE  Current'
    BY <1>2, <1>4 DEF DeleteSchedule, RunSchedule
  <1>5. ASSUME NEW name, ManualBackup(p, name)
        PROVE  Current'
    BY <1>2, <1>5 DEF ManualBackup, Rest
  <1>6. ASSUME NEW victims, DeleteRuns(p, victims)
        PROVE  Current'
    BY <1>2, <1>6 DEF DeleteRuns
  <1>7. ASSUME NEW target, SaveSettings(p, target)
        PROVE  Current'
    <2> DEFINE job == [Rest EXCEPT !.kind = "saveSettings", !.doc = "settings",
                                   !.target = target]
    <2>1. job.kind = "saveSettings" /\ job.doc = "settings"
      BY DEF Rest
    <2>2. Serve(p, job, "getMap")
      BY <1>7 DEF SaveSettings
    <2> HIDE DEF job
    <2>3. QED
      BY <1>2, <2>1, <2>2
  <1>8. QED
    BY <1>3, <1>4, <1>5, <1>6, <1>7 DEF Request

LEMMA CurrentInductive ==
    Typed /\ Bounded /\ Current /\ [Next]_vars => Current'
  <1> SUFFICES ASSUME TypeOK, TaskOK, Bounded, Current, [Next]_vars PROVE Current'
    BY DEF Typed
  <1>1. CASE Tick \/ UNCHANGED vars
    BY <1>1 DEF Tick, vars, storeVars, procVars, Current, CurrentAt
  <1>2. ASSUME NEW p \in Proc, Advance(p)
        PROVE  Current'
    BY <1>2, LoadSchedulesCurrent, LoadSettingsCurrent, LoadRunsCurrent,
       GetMapCurrent, PersistCurrent, StoreCallCurrent DEF Advance
  <1>3. QED
    BY <1>1, <1>2, CrashCurrent, WorkerCurrent, RequestCurrent DEF Next

LEMMA CurrentInit == Init => Current
  BY DEF Init, Current, CurrentAt

\* The write of a process whose reads are current is one edit of the ledger.
LEMMA CurrentEdit ==
    ASSUME TypeOK, TaskOK, NEW p \in Proc, CurrentAt(p), cm' # cm,
           PersistSettings(p) \/ PersistSchedules(p) \/ PersistRuns(p)
    PROVE  Ledger!LedgerNext
  <1> USE DEF Ledger!LedgerNext
  <1>1. pc[p] = "patch" /\ map[p] = cm /\ cm \in Docs
    BY DEF PersistSettings, PersistSchedules, PersistRuns, Apply, CurrentAt, TypeOK
  <1>2. CASE PersistSettings(p)
    <2>1. cm' = [cm EXCEPT !.settings = task[p].target]
      BY <1>1, <1>2 DEF PersistSettings, Apply
    <2>2. Ledger!SetTarget
      BY <1>1, <2>1 DEF Ledger!SetTarget, Docs
    <2>3. QED
      BY <2>2
  <1>3. CASE PersistSchedules(p)
    <2> DEFINE s == task[p].sched   mine == copy[p].schedules
    <2>1. /\ cm' = [cm EXCEPT !.schedules = mine]
          /\ task[p].doc = "schedules"
      BY <1>1, <1>3 DEF PersistSchedules, Apply
    <2>2. cm'.schedules = mine
      BY <1>1, <2>1 DEF Docs
    <2>3. s \in Schedules
      BY <1>1, <2>1, NoneIsNoLabel DEF TaskOK, KnownAt, DocKeys
    <2>4. \/ /\ mine[s] # None
             /\ mine = Upsert(cm.schedules, s, mine[s].paused, mine[s].updated)
          \/ mine = Remove(cm.schedules, s)
          \/ /\ Runnable(cm.schedules[s]) /\ mine[s] # None
             /\ mine = Mark(cm.schedules, s, mine[s].last)
      BY <1>1, <2>1 DEF CurrentAt
    <2>5. Ledger!PutSchedule(s) \/ Ledger!DropSchedule(s) \/ Ledger!StampSchedule(s)
      BY <2>1, <2>2, <2>4
      DEF Ledger!PutSchedule, Ledger!DropSchedule, Ledger!StampSchedule,
          Ledger!Upsert, Ledger!Remove, Ledger!Mark, Ledger!Runnable, Ledger!Never,
          Upsert, Remove, Mark, Runnable, Never
    <2>6. QED
      BY <2>3, <2>5
  <1>4. CASE PersistRuns(p)
    <2>1. /\ cm' = [cm EXCEPT !.runs = copy[p].runs]
          /\ task[p].doc = "runs"
      BY <1>1, <1>4 DEF PersistRuns, Apply
    <2>2. cm'.runs = copy[p].runs
      BY <1>1, <2>1 DEF Docs
    <2>3. task[p].kind \in {"trigger", "manual", "deleteRuns"}
      BY <1>1, <2>1, NoneIsNoLabel DEF TaskOK, KnownAt, DocKeys
    <2>4. CASE task[p].kind \in {"trigger", "manual"}
      <3>1. PICK run \in copy[p].runs : /\ \A r \in cm.runs : r.pos < run.pos
                                        /\ copy[p].runs = Push(cm.runs, run)
        BY <1>1, <2>1, <2>4 DEF CurrentAt
      <3>2. Ledger!Push(cm.runs, run) = Push(cm.runs, run)
        <4>1. ASSUME NEW S PROVE Ledger!Cardinality(S) = Cardinality(S)
          BY Zenon DEF Ledger!Cardinality, Cardinality
        <4>2. QED
          BY <4>1 DEF Ledger!Push, Ledger!Trim, Push, Trim
      <3>3. cm' = [cm EXCEPT !.runs = Ledger!Push(cm.runs, run)]
        BY <2>1, <3>1, <3>2
      <3>4. Ledger!AddRun(run)
        BY <3>1, <3>3 DEF Ledger!AddRun
      <3>5. QED
        BY <2>2, <3>1, <3>4
    <2>5. CASE task[p].kind = "deleteRuns"
      <3>1. copy[p].runs = Retain(cm.runs,
               {r.name : r \in cm.runs} \ {r.name : r \in copy[p].runs})
        BY <1>1, <2>5 DEF CurrentAt
      <3>2. Ledger!DropRuns({r.name : r \in cm.runs} \ {r.name : r \in cm'.runs})
        BY <2>1, <2>2, <3>1 DEF Ledger!DropRuns, Ledger!Retain, Retain
      <3>3. QED
        BY <3>2
    <2>6. QED
      BY <2>3, <2>4, <2>5
  <1>5. QED
    BY <1>2, <1>3, <1>4

\* Only the three persists write the ConfigMap.
LEMMA OnlyPersistsWrite ==
    ASSUME Next, cm' # cm
    PROVE  \E p \in Proc : PersistSettings(p) \/ PersistSchedules(p) \/ PersistRuns(p)
  <1>1. ASSUME NEW q \in Proc, Advance(q)
        PROVE  PersistSettings(q) \/ PersistSchedules(q) \/ PersistRuns(q)
    BY <1>1 DEF Advance, LoadSchedules, LoadSettings, LoadRuns, GetMap, PersistSecret,
                Upload, CreateCr, DeleteObject, EndDelete, storeVars
  <1>2. \E q \in Proc : Advance(q)
    BY DEF Next, Tick, Crash, Worker, Poll, CheckSchedule, EndPoll, Request,
           CreateSchedule, DeleteSchedule, RunSchedule, ManualBackup, DeleteRuns,
           SaveSettings, Serve, storeVars
  <1>3. QED
    BY <1>1, <1>2

LEMMA WhoWrites ==
    ASSUME TypeOK, NEW p \in Proc, Next, pc[p] = "patch", pc'[p] # "patch", cm' # cm
    PROVE  PersistSettings(p) \/ PersistSchedules(p) \/ PersistRuns(p)
  <1>1. ASSUME NEW q \in Proc \ {p},
               PersistSettings(q) \/ PersistSchedules(q) \/ PersistRuns(q)
        PROVE  pc'[p] = pc[p]
    BY <1>1, FinishIsUnbound, GotoOthers
    DEF PersistSettings, PersistSchedules, PersistRuns, Apply, Continue
  <1>2. QED
    BY <1>1, OnlyPersistsWrite

AtomicStep ==
    \A p \in Proc :
       (pc[p] = "patch" /\ ~stale[p] /\ pc'[p] # "patch" /\ cm' # cm)
          => Ledger!LedgerNext

LEMMA CurrentIsAtomic == Typed /\ Current /\ [Next]_vars => [AtomicStep]_vars
  <1> SUFFICES ASSUME TypeOK, TaskOK, Current, Next, NEW p \in Proc,
                      pc[p] = "patch", ~stale[p], pc'[p] # "patch", cm' # cm
               PROVE  Ledger!LedgerNext
    BY DEF Typed, AtomicStep
  <1>1. CurrentAt(p)
    BY DEF Current
  <1>2. QED
    BY <1>1, WhoWrites, CurrentEdit

\* Whatever is stored and whatever processes hold stays typed, backed and bounded,
\* and what an undisturbed process holds is one edit away from what is stored.
THEOREM StoreStaysInOrder == Spec => []IInv
  <1>1. Typed /\ Provenance /\ Bounded /\ Current /\ [Next]_vars
          => (Typed /\ Provenance /\ Bounded /\ Current)'
    BY NextType, ProvenanceInductive, BoundedInductive, CurrentInductive
  <1>2. Init => Typed /\ Provenance /\ Bounded /\ Current
    BY InitType, ProvenanceInit, BoundedInit, CurrentInit
  <1>3. Typed /\ Provenance /\ Bounded /\ Current => IInv
    BY DEF Typed, IInv
  <1>4. QED
    BY <1>1, <1>2, <1>3, PTL DEF Spec

\* A persist whose reads are current is one edit of the ledger, in which the other
\* two documents keep their content: for any replicas, requests, schedules and faults.
THEOREM UndisturbedImplementsLedger == Spec => UndisturbedIsAtomic
  <1>1. IInv /\ [Next]_vars => [AtomicStep]_vars
    BY CurrentIsAtomic DEF IInv, Typed
  <1>2. QED
    BY <1>1, StoreStaysInOrder, PTL DEF Spec, UndisturbedIsAtomic, AtomicStep

-----------------------------------------------------------------------------
(* One worker alone makes one backup per firing *)

Alone == Requests = {} /\ \A p, q \in Replicas : p = q

\* What the worker knows of the schedules it still has to look at, and at each
\* await of the schedule it triggers.
FiringAt(p) ==
    LET t == task[p]
        s == task[p].sched
    IN
    /\ \A x \in Schedules : todo[p][x] # None => cm.schedules[x] \in {todo[p][x], None}
    /\ pc[p] \notin {"idle", "poll"} =>
          /\ t.kind = "trigger" /\ s \in Schedules /\ todo[p][s] = None
          /\ pc[p] \in {"loadSchedules", "loadSettings", "getMap", "patch", "upload", "loadRuns"}
    /\ pc[p] = "loadSchedules" => cm.schedules[s] = None \/ Due(cm.schedules[s], now)
    /\ pc[p] = "loadSettings" =>
          copy[p].schedules = cm.schedules /\ Due(cm.schedules[s], now)
    /\ pc[p] \in {"getMap", "patch"} => t.doc \in {"schedules", "runs"}
    /\ pc[p] \in {"getMap", "patch"} /\ t.doc = "schedules" =>
          \E x \in 0 .. now : /\ t.name = <<s, x>> /\ Due(cm.schedules[s], x)
                              /\ copy[p].schedules = Mark(cm.schedules, s, x)
    /\ pc[p] = "patch" /\ t.doc = "runs" => map[p].schedules \in {cm.schedules, NoSchedules}
    /\ pc[p] = "upload" =>
          \E x \in 0 .. now :
             /\ t.name = <<s, x>>
             /\ cm.schedules[s] # None /\ cm.schedules[s].last = x
             /\ \A a \in uploaded : a[1] = s => \E k \in CronTicks : a[2] < k /\ k <= x

\* No backup of a schedule is younger than its stamp.
Stamped ==
    \A b \in uploaded : /\ b[1] \in Schedules
                        /\ cm.schedules[b[1]] # None => b[2] <= cm.schedules[b[1]].last

FiringInv == OncePerFiring /\ Stamped /\ \A p \in Proc : FiringAt(p)

LEMMA DueLasts ==
    ASSUME NEW e, NEW t \in Nat, NEW u \in Nat, Due(e, t), t <= u
    PROVE  Due(e, u)
  <1>1. \A k \in CronTicks : k \in Nat
    BY DocsAssumption
  <1>2. QED
    BY <1>1 DEF Due

\* What is left of FiringAt when the worker is at "idle" or "poll".
LEMMA BetweenRuns ==
    ASSUME NEW p, pc[p] \in {"idle", "poll"},
           \A x \in Schedules : todo[p][x] # None => cm.schedules[x] \in {todo[p][x], None}
    PROVE  FiringAt(p)
  BY DEF FiringAt

\* A step that writes neither the ConfigMap nor S3.
LEMMA NothingWritten ==
    ASSUME FiringInv, UNCHANGED <<cm, uploaded>> PROVE OncePerFiring' /\ Stamped'
  BY DEF FiringInv, OncePerFiring, Stamped

LEMMA WorkerFiring ==
    ASSUME Typed, Typed', NEW p \in Replicas, FiringAt(p), Worker(p) PROVE FiringAt(p)'
  <1>1. p \in Proc
    BY DEF Proc
  <1>2. CASE Poll(p)
    <2>1. pc'[p] = "poll" /\ cm' = cm /\ todo'[p] \in {cm.schedules, NoSchedules}
      BY <1>1, <1>2 DEF Poll, Goto, storeVars, Typed, TypeOK
    <2>2. \A x \in Schedules : todo'[p][x] # None => cm'.schedules[x] \in {todo'[p][x], None}
      BY <2>1 DEF NoSchedules
    <2>3. QED
      BY <2>1, <2>2 DEF FiringAt
  <1>3. ASSUME NEW s \in Schedules, CheckSchedule(p, s) PROVE FiringAt(p)'
    <2>1. /\ cm' = cm /\ now' = now /\ todo'[p][s] = None /\ todo[p][s] # None
          /\ \A x \in Schedules : x # s => todo'[p][x] = todo[p][x]
      BY <1>1, <1>3 DEF CheckSchedule, storeVars, Typed, TypeOK, SchedulesDoc
    <2>2. \A x \in Schedules : todo'[p][x] # None => cm'.schedules[x] \in {todo'[p][x], None}
      BY <2>1 DEF FiringAt
    <2>3. CASE pc' = pc
      BY <1>3, <2>2, <2>3 DEF CheckSchedule, FiringAt
    <2>4. CASE IsDue(todo[p][s]) /\ pushes < MaxPushes
      <3>1. /\ pc'[p] = "loadSchedules"
            /\ task'[p] = [Rest EXCEPT !.kind = "trigger", !.sched = s]
        BY <1>1, <1>3, <2>4 DEF CheckSchedule, Begin, Goto, Typed, TypeOK
      <3>2. task'[p].kind = "trigger" /\ task'[p].sched = s
        BY <3>1 DEF Rest
      <3>3. cm'.schedules[s] = None \/ Due(cm'.schedules[s], now')
        BY <2>1, <2>4 DEF FiringAt, IsDue
      <3>4. QED
        BY <2>1, <2>2, <3>1, <3>2, <3>3 DEF FiringAt
    <2>5. QED
      BY <1>3, <2>3, <2>4 DEF CheckSchedule
  <1>4. CASE EndPoll(p)
    <2>1. pc'[p] = "idle" /\ UNCHANGED <<cm, todo>>
      BY <1>1, <1>4 DEF EndPoll, Goto, storeVars, Typed, TypeOK
    <2>2. QED
      BY <2>1 DEF FiringAt
  <1>5. QED
    BY <1>2, <1>3, <1>4 DEF Worker

\* The handler returns to the loop of the worker.
LEMMA FinishFiring ==
    ASSUME Typed, NEW p \in Replicas, Finish(p),
           \A x \in Schedules : todo[p][x] # None => cm'.schedules[x] \in {todo[p][x], None}
    PROVE  FiringAt(p)'
  <1>1. pc'[p] = "poll" /\ todo' = todo
    BY DEF Finish, Goto, Typed, TypeOK, Proc
  <1>2. QED
    BY <1>1 DEF FiringAt

LEMMA LoadSchedulesFiring ==
    ASSUME Typed, NEW p \in Replicas, FiringAt(p), LoadSchedules(p) PROVE FiringAt(p)'
  <1> DEFINE s == task[p].sched
  <1>1. PICK ok \in BOOLEAN : WithSchedules(p, IF ok THEN cm.schedules ELSE NoSchedules)
    BY DEF LoadSchedules, Outcome
  <1>2. /\ pc[p] = "loadSchedules" /\ UNCHANGED <<cm, now, uploaded>> /\ p \in Proc
        /\ task[p].kind = "trigger" /\ s \in Schedules /\ todo[p][s] = None
        /\ cm.schedules[s] = None \/ Due(cm.schedules[s], now)
        /\ \A x \in Schedules : todo[p][x] # None => cm.schedules[x] \in {todo[p][x], None}
    BY DEF LoadSchedules, FiringAt, storeVars, Proc
  <1>3. CASE Finish(p)
    BY <1>2, <1>3, FinishFiring
  <1>4. CASE ~Finish(p)
    <2> DEFINE list == IF ok THEN cm.schedules ELSE NoSchedules
    <2>1. MayTrigger(list[s]) /\ KeepSchedules(p, list, "loadSettings") /\ task' = task
      BY <1>1, <1>2, <1>4 DEF WithSchedules
    <2>2. ok
      BY <1>2, <2>1 DEF MayTrigger, Runnable, NoSchedules
    <2>3. cm.schedules[s] # None
      BY <2>1, <2>2 DEF MayTrigger, Runnable
    <2>4. pc'[p] = "loadSettings" /\ copy'[p].schedules = cm.schedules /\ todo' = todo
      BY <1>2, <2>1, <2>2 DEF KeepSchedules, Goto, Typed, TypeOK, Copy
    <2>5. QED
      BY <1>2, <2>1, <2>3, <2>4 DEF FiringAt
  <1>5. QED
    BY <1>3, <1>4

LEMMA LoadSettingsFiring ==
    ASSUME Typed, NEW p \in Replicas, FiringAt(p), LoadSettings(p) PROVE FiringAt(p)'
  <1> DEFINE s == task[p].sched
  <1>1. /\ pc[p] = "loadSettings" /\ UNCHANGED <<cm, now, uploaded, todo>> /\ p \in Proc
        /\ task[p].kind = "trigger" /\ s \in Schedules /\ todo[p][s] = None
        /\ copy[p].schedules = cm.schedules /\ Due(cm.schedules[s], now)
        /\ \A x \in Schedules : todo[p][x] # None => cm.schedules[x] \in {todo[p][x], None}
    BY DEF LoadSettings, FiringAt, storeVars, Proc
  <1>2. /\ task' = [task EXCEPT ![p].doc = "schedules", ![p].name = <<s, now>>]
        /\ copy' = [copy EXCEPT ![p].schedules = Mark(@, s, now)]
        /\ pc'[p] = "getMap"
    BY <1>1 DEF LoadSettings, Goto, Typed, TypeOK
  <1>3. /\ task'[p].doc = "schedules" /\ task'[p].name = <<s, now>>
        /\ task'[p].kind = "trigger" /\ task'[p].sched = s
    <2>1. task \in [Proc -> Task]
      BY DEF Typed, TypeOK
    <2>2. QED
      BY <1>1, <1>2, <2>1 DEF Task
  <1>4. copy'[p].schedules = Mark(cm.schedules, s, now)
    BY <1>1, <1>2 DEF Typed, TypeOK, Copy
  <1>5. now \in 0 .. now'
    BY <1>1 DEF Typed, TypeOK
  <1>6. QED
    BY <1>1, <1>2, <1>3, <1>4, <1>5 DEF FiringAt

LEMMA LoadRunsFiring ==
    ASSUME Typed, NEW p \in Replicas, FiringAt(p), LoadRuns(p) PROVE FiringAt(p)'
  <1> DEFINE s == task[p].sched
  <1>1. /\ pc[p] = "loadRuns" /\ UNCHANGED <<cm, now, uploaded, todo>> /\ p \in Proc
        /\ task[p].kind = "trigger" /\ s \in Schedules /\ todo[p][s] = None
        /\ \A x \in Schedules : todo[p][x] # None => cm.schedules[x] \in {todo[p][x], None}
    BY DEF LoadRuns, FiringAt, storeVars, Proc
  <1>2. /\ pc'[p] = "getMap" /\ task' = [task EXCEPT ![p].doc = "runs"]
    BY <1>1 DEF LoadRuns, WithRuns, Goto, Typed, TypeOK
  <1>3. /\ task'[p].doc = "runs" /\ task'[p].kind = "trigger" /\ task'[p].sched = s
    <2>1. task \in [Proc -> Task]
      BY DEF Typed, TypeOK
    <2>2. QED
      BY <1>1, <1>2, <2>1 DEF Task
  <1>4. QED
    BY <1>1, <1>2, <1>3 DEF FiringAt

LEMMA GetMapFiring ==
    ASSUME Typed, NEW p \in Replicas, FiringAt(p), GetMap(p) PROVE FiringAt(p)'
  <1>1. /\ pc[p] = "getMap" /\ UNCHANGED <<cm, now, uploaded>> /\ p \in Proc
    BY DEF GetMap, storeVars, Proc
  <1>2. CASE Finish(p)
    BY <1>1, <1>2, FinishFiring DEF FiringAt
  <1>3. CASE ~Finish(p)
    <2>1. PICK ok : map' = [map EXCEPT ![p] = DataMap(ok)]
      BY <1>3 DEF GetMap
    <2>2. pc'[p] = "patch" /\ UNCHANGED <<task, todo, copy>>
      BY <1>1, <1>3 DEF GetMap, Goto, Typed, TypeOK
    <2>3. map'[p] \in {cm, EmptyDocs}
      BY <1>1, <2>1 DEF DataMap, Typed, TypeOK
    <2>4. map'[p].schedules \in {cm.schedules, NoSchedules}
      BY <2>3 DEF EmptyDocs
    <2>5. QED
      BY <1>1, <2>2, <2>4 DEF FiringAt
  <1>4. QED
    BY <1>2, <1>3

\* An instant a schedule is due at separates it from the backups before its stamp.
LEMMA DueSeparates ==
    ASSUME Typed, Stamped, NEW s \in Schedules, NEW x \in Nat, Due(cm.schedules[s], x),
           NEW a \in uploaded, a[1] = s
    PROVE  a[2] <= x /\ \E k \in CronTicks : a[2] < k /\ k <= x
  <1>1. /\ cm.schedules[s] # None /\ cm.schedules[s].last \in Stamp
    <2>1. cm.schedules[s] \in Schedule
      BY DEF Due, Runnable, Typed, TypeOK, Docs, SchedulesDoc
    <2>2. QED
      BY <2>1, NoneAssumption DEF Schedule
  <1>2. a[2] \in Nat /\ a[2] <= cm.schedules[s].last
    BY <1>1 DEF Stamped, Typed, TypeOK, Names
  <1>3. Baseline(cm.schedules[s]) = cm.schedules[s].last
    BY <1>1, <1>2 DEF Baseline, Never, Stamp
  <1>4. PICK k \in CronTicks : cm.schedules[s].last < k /\ k <= x
    BY <1>3 DEF Due
  <1>5. k \in Nat
    BY DocsAssumption
  <1>6. QED
    BY <1>1, <1>2, <1>4, <1>5 DEF Stamp, Never

LEMMA PersistFiring ==
    ASSUME Typed, Stamped, NEW p \in Replicas, FiringAt(p),
           PersistSettings(p) \/ PersistSchedules(p) \/ PersistRuns(p)
    PROVE  FiringAt(p)' /\ Stamped'
  <1> DEFINE s == task[p].sched
  <1>1. /\ pc[p] = "patch" /\ UNCHANGED <<now, uploaded>> /\ p \in Proc
        /\ task[p].kind = "trigger" /\ s \in Schedules /\ todo[p][s] = None
        /\ task[p].doc \in {"schedules", "runs"}
        /\ \A x \in Schedules : todo[p][x] # None => cm.schedules[x] \in {todo[p][x], None}
    BY DEF PersistSettings, PersistSchedules, PersistRuns, Apply, FiringAt, Proc
  <1>2. cm \in Docs /\ map[p] \in Docs /\ cm.schedules \in SchedulesDoc
    BY <1>1 DEF Typed, TypeOK, Docs
  <1>3. CASE task[p].doc = "runs"
    <2>1. PersistRuns(p)
      BY <1>3 DEF PersistSettings, PersistSchedules, PersistRuns
    <2>2. Finish(p)
      BY <2>1 DEF PersistRuns, Apply
    <2>3. cm' \in {cm, [map[p] EXCEPT !.runs = copy[p].runs]}
      BY <2>1 DEF PersistRuns, Apply
    <2>4. cm'.schedules \in {cm.schedules, NoSchedules}
      BY <1>1, <1>2, <1>3, <2>3 DEF FiringAt, Docs
    <2>5. FiringAt(p)'
      BY <1>1, <2>2, <2>4, FinishFiring DEF NoSchedules
    <2>6. Stamped'
      BY <1>1, <2>4 DEF Stamped, NoSchedules
    <2>7. QED
      BY <2>5, <2>6
  <1>4. CASE task[p].doc = "schedules"
    <2>1. PersistSchedules(p)
      BY <1>4 DEF PersistSettings, PersistSchedules, PersistRuns
    <2>2. PICK x \in 0 .. now : /\ task[p].name = <<s, x>> /\ Due(cm.schedules[s], x)
                               /\ copy[p].schedules = Mark(cm.schedules, s, x)
      BY <1>1, <1>4 DEF FiringAt
    <2>3. x \in Nat
      BY DEF Typed, TypeOK
    <2> DEFINE data == [map[p] EXCEPT !.schedules = copy[p].schedules]
    <2>4. cm' \in {cm, data} /\ (Finish(p) \/ (cm' = data /\ Continue(p, "upload")))
      BY <1>1, <2>1 DEF PersistSchedules, Apply
    <2>5. /\ data.schedules = Mark(cm.schedules, s, x)
          /\ \A y \in Schedules : y # s => data.schedules[y] = cm.schedules[y]
          /\ data.schedules[s] # None /\ data.schedules[s].last = x
      <3>1. data.schedules = Mark(cm.schedules, s, x)
        BY <1>2, <2>2 DEF Docs
      <3>2. cm.schedules[s] \in Schedule
        BY <1>1, <1>2, <2>2 DEF Due, Runnable, SchedulesDoc
      <3>3. Mark(cm.schedules, s, x)[s] \in Schedule
        BY <1>1, <1>2, <2>3, <3>2 DEF Mark, SchedulesDoc, Schedule, Stamp
      <3>4. QED
        BY <1>1, <1>2, <3>1, <3>3, NoneAssumption DEF Mark, SchedulesDoc
    <2> HIDE DEF data
    <2>6. \A a \in uploaded : a[1] = s =>
             a[2] <= x /\ \E k \in CronTicks : a[2] < k /\ k <= x
      BY <1>1, <2>2, <2>3, DueSeparates
    <2>7. Stamped'
      BY <1>1, <2>4, <2>5, <2>6 DEF Stamped
    <2>8. \A y \in Schedules : todo[p][y] # None => cm'.schedules[y] \in {todo[p][y], None}
      BY <1>1, <2>4, <2>5
    <2>9. CASE Finish(p)
      BY <2>7, <2>8, <2>9, FinishFiring
    <2>10. CASE cm' = data /\ Continue(p, "upload")
      <3>1. pc'[p] = "upload" /\ UNCHANGED <<task, todo>>
        BY <1>1, <2>10 DEF Continue, Goto, Typed, TypeOK
      <3>2. FiringAt(p)'
        BY <1>1, <2>2, <2>5, <2>6, <2>8, <2>10, <3>1 DEF FiringAt
      <3>3. QED
        BY <2>7, <3>2
    <2>11. QED
      BY <2>4, <2>9, <2>10
  <1>5. QED
    BY <1>1, <1>3, <1>4

LEMMA UploadFiring ==
    ASSUME Typed, OncePerFiring, Stamped, NEW p \in Replicas, FiringAt(p), Upload(p)
    PROVE  FiringAt(p)' /\ Stamped' /\ OncePerFiring'
  <1> DEFINE s == task[p].sched
  <1>1. /\ pc[p] = "upload" /\ UNCHANGED <<cm, todo, now>> /\ p \in Proc
        /\ task[p].kind = "trigger" /\ s \in Schedules /\ todo[p][s] = None
        /\ \A x \in Schedules : todo[p][x] # None => cm.schedules[x] \in {todo[p][x], None}
    BY DEF Upload, FiringAt, Proc
  <1>2. PICK x \in 0 .. now :
           /\ task[p].name = <<s, x>>
           /\ cm.schedules[s] # None /\ cm.schedules[s].last = x
           /\ \A a \in uploaded : a[1] = s => \E k \in CronTicks : a[2] < k /\ k <= x
    BY <1>1 DEF FiringAt
  <1>3. uploaded' \subseteq uploaded \cup {<<s, x>>}
    BY <1>2 DEF Upload
  <1>4. FiringAt(p)'
    <2>1. pc'[p] = "loadRuns" /\ task'[p].kind = task[p].kind /\ task'[p].sched = s
      BY <1>1 DEF Upload, Goto, Typed, TypeOK, Task
    <2>2. QED
      BY <1>1, <2>1 DEF FiringAt
  <1>5. Stamped'
    BY <1>1, <1>2, <1>3 DEF Stamped, Typed, TypeOK
  <1>6. OncePerFiring'
    <2> SUFFICES ASSUME NEW a \in uploaded', NEW b \in uploaded', a[1] = b[1], a[2] < b[2]
                 PROVE  \E k \in CronTicks : a[2] < k /\ k <= b[2]
      BY DEF OncePerFiring
    <2>1. x \in Nat /\ \A c \in uploaded : c[2] \in Nat
      BY DEF Typed, TypeOK, Names
    <2>2. CASE a \in uploaded /\ b \in uploaded
      BY <2>2 DEF OncePerFiring
    <2>3. CASE a \in uploaded /\ b = <<s, x>>
      BY <1>2, <2>3
    <2>4. CASE a = <<s, x>> /\ b \in uploaded
      <3>1. PICK k \in CronTicks : b[2] < k /\ k <= x
        BY <1>2, <2>4
      <3>2. k \in Nat
        BY DocsAssumption
      <3>3. a[2] = x
        BY <2>4
      <3>4. QED
        BY <2>1, <2>4, <3>1, <3>2, <3>3
    <2>5. CASE a = <<s, x>> /\ b = <<s, x>>
      BY <2>1, <2>5
    <2>6. QED
      BY <1>3, <2>2, <2>3, <2>4, <2>5
  <1>7. QED
    BY <1>4, <1>5, <1>6

\* The clock only makes a schedule more due.
LEMMA TickFiring ==
    ASSUME Typed, NEW p \in Proc, FiringAt(p), Tick PROVE FiringAt(p)'
  <1>1. /\ UNCHANGED <<cm, pc, task, todo, copy, map, uploaded>>
        /\ now \in Nat /\ now' = now + 1
    BY DEF Tick, storeVars, procVars, Typed, TypeOK
  <1>2. \A e : Due(e, now) => Due(e, now')
    BY <1>1, DueLasts
  <1>3. \A x \in 0 .. now : x \in 0 .. now'
    BY <1>1
  <1>4. QED
    BY <1>1, <1>2, <1>3 DEF FiringAt

LEMMA CrashFiring ==
    ASSUME Typed, NEW p \in Proc, Crash(p) PROVE FiringAt(p)'
  <1>1. pc'[p] = "idle" /\ todo'[p] = NoSchedules
    BY DEF Crash, Goto, Typed, TypeOK
  <1>2. QED
    BY <1>1 DEF FiringAt, NoSchedules

LEMMA FiringInit == Init => FiringInv
  <1> SUFFICES ASSUME Init PROVE FiringInv
    OBVIOUS
  <1>1. uploaded = {} /\ \A p \in Proc : pc[p] = "idle" /\ todo[p] = NoSchedules
    BY DEF Init
  <1>2. \A p \in Proc : FiringAt(p)
    BY <1>1 DEF FiringAt, NoSchedules
  <1>3. QED
    BY <1>1, <1>2 DEF FiringInv, OncePerFiring, Stamped

LEMMA FiringInductive ==
    ASSUME Alone PROVE Typed /\ FiringInv /\ [Next]_vars => FiringInv'
  <1> SUFFICES ASSUME Typed, FiringInv, [Next]_vars PROVE FiringInv'
    OBVIOUS
  <1>1. Typed' /\ OncePerFiring /\ Stamped /\ \A p \in Proc : FiringAt(p)
    BY NextType DEF FiringInv
  <1>2. Proc = Replicas /\ \A p, q \in Proc : p = q
    BY DEF Alone, Proc
  <1>3. ASSUME NEW p \in Proc, FiringAt(p)' PROVE \A q \in Proc : FiringAt(q)'
    BY <1>2, <1>3
  <1>4. ASSUME NEW p \in Proc, UNCHANGED <<cm, uploaded>>, FiringAt(p)' PROVE FiringInv'
    BY <1>3, <1>4, NothingWritten DEF FiringInv
  <1>5. CASE UNCHANGED vars
    BY <1>1, <1>5
    DEF vars, storeVars, procVars, FiringInv, OncePerFiring, Stamped, FiringAt
  <1>6. CASE Tick
    <2>1. UNCHANGED <<cm, uploaded>>
      BY <1>6 DEF Tick, storeVars
    <2>2. QED
      BY <1>1, <1>6, <2>1, TickFiring, NothingWritten DEF FiringInv
  <1>7. ASSUME NEW p \in Proc, Crash(p) PROVE FiringInv'
    <2>1. UNCHANGED <<cm, uploaded>>
      BY <1>7 DEF Crash, storeVars
    <2>2. QED
      BY <1>4, <1>7, <2>1, CrashFiring
  <1>8. ASSUME NEW p \in Proc, Worker(p) PROVE FiringInv'
    <2>1. UNCHANGED <<cm, uploaded>>
      BY <1>8 DEF Worker, Poll, CheckSchedule, EndPoll, storeVars
    <2>2. QED
      BY <1>1, <1>2, <1>4, <1>8, <2>1, WorkerFiring
  <1>9. ASSUME NEW p \in Proc, Advance(p) PROVE FiringInv'
    <2>1. CASE PersistSettings(p) \/ PersistSchedules(p) \/ PersistRuns(p)
      <3>1. UNCHANGED uploaded
        BY <2>1 DEF PersistSettings, PersistSchedules, PersistRuns, Apply
      <3>2. FiringAt(p)' /\ Stamped'
        BY <1>1, <1>2, <2>1, PersistFiring
      <3>3. QED
        BY <1>1, <1>3, <3>1, <3>2 DEF FiringInv, OncePerFiring
    <2>2. CASE Upload(p)
      BY <1>1, <1>2, <1>3, <2>2, UploadFiring DEF FiringInv
    <2>3. CASE LoadSchedules(p) \/ LoadSettings(p) \/ LoadRuns(p) \/ GetMap(p)
      <3>1. UNCHANGED <<cm, uploaded>>
        BY <2>3 DEF LoadSchedules, LoadSettings, LoadRuns, GetMap, storeVars
      <3>2. FiringAt(p)'
        BY <1>1, <1>2, <2>3, LoadSchedulesFiring, LoadSettingsFiring, LoadRunsFiring,
           GetMapFiring
      <3>3. QED
        BY <1>4, <3>1, <3>2
    <2>4. CASE \/ PersistSecret(p) \/ CreateCr(p) \/ EndDelete(p)
               \/ \E name \in task[p].victims : DeleteObject(p, name)
      <3>1. pc[p] \in {"secret", "createCr", "s3delete"}
        BY <2>4 DEF PersistSecret, CreateCr, EndDelete, DeleteObject
      <3>2. QED
        BY <1>1, <3>1 DEF FiringAt
    <2>5. QED
      BY <1>9, <2>1, <2>2, <2>3, <2>4 DEF Advance
  <1>10. QED
    BY <1>2, <1>5, <1>6, <1>7, <1>8, <1>9 DEF Next, Alone

\* A scheduler worker that is alone uploads at most one backup of a schedule for
\* each firing of its cron, through any restarts, failed reads and lost answers.
THEOREM OneBackupPerFiring ==
    ASSUME Requests = {}, \A p, q \in Replicas : p = q
    PROVE  Spec => []OncePerFiring
  <1>1. Alone
    BY DEF Alone
  <1>2. Typed /\ FiringInv /\ [Next]_vars => (Typed /\ FiringInv)'
    BY <1>1, FiringInductive, NextType
  <1>3. Init => Typed /\ FiringInv
    BY InitType, FiringInit
  <1>4. FiringInv => OncePerFiring
    BY DEF FiringInv
  <1>5. QED
    BY <1>2, <1>3, <1>4, PTL DEF Spec

-----------------------------------------------------------------------------
(* Requests that neither overlap nor fail implement the ledger *)

Unfailing == MaxFaults = 0 /\ MaxOverlap = 1

\* One process works at a time, and nothing has overtaken what it read.
Serial ==
    /\ \A p, q \in Proc : pc[p] # "idle" /\ pc[q] # "idle" => p = q
    /\ \A p \in Proc : pc[p] \notin {"idle", "poll"} => ~stale[p]

LEMMA NothingFails == ASSUME Typed, Unfailing PROVE Outcome = {TRUE}
  <1>1. ~(faults < MaxFaults)
    BY DEF Unfailing, Typed, TypeOK
  <1>2. QED
    BY <1>1 DEF Outcome

\* A process may begin only when no other works.
LEMMA FirstInFlight ==
    ASSUME Typed, Unfailing, Serial, Cardinality(InFlight) < MaxOverlap
    PROVE  \A p \in Proc : pc[p] = "idle"
  <1> SUFFICES ASSUME NEW p \in Proc, pc[p] # "idle" PROVE FALSE
    OBVIOUS
  <1>1. InFlight = {p}
    BY DEF InFlight, Serial
  <1>2. Cardinality(InFlight) = 1
    BY <1>1, FS_Singleton
  <1>3. QED
    BY <1>2 DEF Unfailing

\* What a step of the process p has to keep.
LEMMA SerialStep ==
    ASSUME Serial, NEW p \in Proc, pc[p] # "idle" \/ \A q \in Proc : pc[q] = "idle",
           \A q \in Proc : q # p => pc'[q] = pc[q],
           pc'[p] \in {"idle", "poll"} \/ ~stale'[p]
    PROVE  Serial'
  <1>1. \A q \in Proc : q # p => pc'[q] = "idle"
    BY DEF Serial
  <1>2. QED
    BY <1>1 DEF Serial

LEMMA AdvanceSerial ==
    ASSUME Typed, Unfailing, Serial, NEW p \in Proc, Advance(p) PROVE Serial'
  <1>1. pc[p] \notin {"idle", "poll"}
    BY DEF Advance, LoadSchedules, LoadSettings, LoadRuns, GetMap, PersistSettings,
           PersistSchedules, PersistRuns, PersistSecret, Upload, CreateCr, DeleteObject,
           EndDelete, Apply
  <1>2. Outcome = {TRUE}
    BY NothingFails
  <1>3. ~stale[p] /\ stale \in [Proc -> BOOLEAN]
    BY <1>1 DEF Serial, Typed, TypeOK
  <1>4. ~stale'[p]
    <2>1. CASE LoadSchedules(p) \/ LoadRuns(p) \/ GetMap(p)
      BY <1>2, <1>3, <2>1 DEF LoadSchedules, LoadRuns, GetMap
    <2>2. CASE PersistSettings(p) \/ PersistSchedules(p) \/ PersistRuns(p)
      BY <1>3, <2>2 DEF PersistSettings, PersistSchedules, PersistRuns, Apply
    <2>3. CASE \/ LoadSettings(p) \/ PersistSecret(p) \/ Upload(p) \/ CreateCr(p)
               \/ EndDelete(p) \/ \E name \in task[p].victims : DeleteObject(p, name)
      BY <1>3, <2>3 DEF LoadSettings, PersistSecret, Upload, CreateCr, EndDelete, DeleteObject
    <2>4. QED
      BY <2>1, <2>2, <2>3 DEF Advance
  <1>5. \A q \in Proc : q # p => pc'[q] = pc[q]
    <2>1. Finish(p) \/ (\E step : Goto(p, step)) \/ pc' = pc
      <3>1. CASE LoadSchedules(p) \/ LoadSettings(p) \/ LoadRuns(p)
        BY <3>1 DEF LoadSchedules, WithSchedules, KeepSchedules, LoadSettings, LoadRuns, WithRuns
      <3>2. CASE GetMap(p) \/ PersistSecret(p) \/ CreateCr(p) \/ EndDelete(p) \/ Upload(p)
        BY <3>2 DEF GetMap, PersistSecret, CreateCr, EndDelete, Upload, Continue
      <3>3. CASE PersistSettings(p) \/ PersistSchedules(p) \/ PersistRuns(p)
        BY <3>3 DEF PersistSettings, PersistSchedules, PersistRuns, Apply, Continue
      <3>4. CASE \E name \in task[p].victims : DeleteObject(p, name)
        BY <3>4 DEF DeleteObject
      <3>5. QED
        BY <3>1, <3>2, <3>3, <3>4 DEF Advance
    <2>2. TypeOK
      BY DEF Typed
    <2>3. CASE Finish(p)
      BY <2>2, <2>3, FinishIsUnbound
    <2>4. CASE \E step : Goto(p, step)
      BY <2>2, <2>4, GotoOthers
    <2>5. QED
      BY <2>1, <2>3, <2>4
  <1>6. QED
    BY <1>1, <1>4, <1>5, SerialStep

LEMMA BeginSerial ==
    ASSUME Typed, Unfailing, Serial, NEW p \in Proc, NEW job, NEW step,
           Serve(p, job, step)
    PROVE  Serial'
  <1>1. \A q \in Proc : pc[q] = "idle"
    BY FirstInFlight DEF Serve
  <1>2. ~stale'[p] /\ \A q \in Proc : q # p => pc'[q] = pc[q]
    BY GotoOthers DEF Serve, Begin, Typed, TypeOK
  <1>3. QED
    BY <1>1, <1>2, SerialStep

LEMMA WorkerSerial ==
    ASSUME Typed, Unfailing, Serial, NEW p \in Replicas, Worker(p) PROVE Serial'
  <1>1. p \in Proc
    BY DEF Proc
  <1>2. CASE Poll(p)
    <2>1. \A q \in Proc : pc[q] = "idle"
      BY <1>2, FirstInFlight DEF Poll
    <2>2. pc'[p] = "poll" /\ \A q \in Proc : q # p => pc'[q] = pc[q]
      BY <1>1, <1>2 DEF Poll, Goto, Typed, TypeOK
    <2>3. QED
      BY <1>1, <2>1, <2>2, SerialStep
  <1>3. ASSUME NEW s \in Schedules, CheckSchedule(p, s) PROVE Serial'
    <2>1. pc[p] = "poll" /\ \A q \in Proc : q # p => pc'[q] = pc[q]
      BY <1>1, <1>3 DEF CheckSchedule, Begin, Goto, Typed, TypeOK
    <2>2. pc'[p] = "poll" \/ ~stale'[p]
      BY <1>1, <1>3 DEF CheckSchedule, Begin, Typed, TypeOK
    <2>3. QED
      BY <1>1, <2>1, <2>2, SerialStep
  <1>4. CASE EndPoll(p)
    <2>1. pc[p] = "poll" /\ pc'[p] = "idle" /\ \A q \in Proc : q # p => pc'[q] = pc[q]
      BY <1>1, <1>4 DEF EndPoll, Goto, Typed, TypeOK
    <2>2. QED
      BY <1>1, <2>1, SerialStep
  <1>5. QED
    BY <1>2, <1>3, <1>4 DEF Worker

LEMMA SerialInductive ==
    ASSUME Unfailing PROVE Typed /\ Serial /\ [Next]_vars => Serial'
  <1> SUFFICES ASSUME Typed, Serial, [Next]_vars PROVE Serial'
    OBVIOUS
  <1>1. CASE UNCHANGED vars \/ Tick
    BY <1>1 DEF vars, procVars, Tick, Serial
  <1>2. ASSUME NEW p \in Proc, Crash(p) PROVE FALSE
    BY <1>2 DEF Crash, Unfailing, Typed, TypeOK
  <1>3. ASSUME NEW p \in Requests, Request(p) PROVE Serial'
    <2>1. p \in Proc
      BY DEF Proc
    <2>2. QED
      BY <1>3, <2>1, BeginSerial
      DEF Request, CreateSchedule, DeleteSchedule, RunSchedule, ManualBackup, DeleteRuns,
          SaveSettings
  <1>4. QED
    BY <1>1, <1>2, <1>3, AdvanceSerial, WorkerSerial DEF Next

LEMMA SerialInit == Init => Serial
  BY DEF Init, Serial

\* A store whose requests neither overlap nor fail implements the ledger: every
\* step of it edits one document and leaves the other two, or edits nothing.
THEOREM SerialImplementsLedger ==
    ASSUME MaxFaults = 0, MaxOverlap = 1
    PROVE  Spec => Ledger!LedgerSpec
  <1>1. Unfailing
    BY DEF Unfailing
  <1>2. IInv => Typed /\ Current
    BY DEF IInv, Typed
  <1>3. Typed /\ Serial /\ [Next]_vars => Serial'
    BY <1>1, SerialInductive
  <1>4. Init => Ledger!LedgerInit
    <2> SUFFICES ASSUME Init PROVE Ledger!LedgerInit
      OBVIOUS
    <2>1. cm \in Docs /\ cm.runs = {}
      <3>1. cm \in Docs
        BY InitType DEF Typed, TypeOK
      <3>2. QED
        BY <3>1 DEF Init
    <2>2. QED
      BY <2>1
      DEF Ledger!LedgerInit, Ledger!Docs, Ledger!SettingsDoc, Ledger!SchedulesDoc,
          Ledger!RunsDoc, Ledger!Run, Ledger!Names, Ledger!Phases, Ledger!Schedule,
          Ledger!Stamp, Ledger!Never, Docs, SettingsDoc, SchedulesDoc, RunsDoc, Run, Names,
          Phases, Schedule, Stamp, Never
  <1>5. Typed /\ Current /\ Serial /\ [Next]_vars => [Ledger!LedgerNext]_cm
    <2> SUFFICES ASSUME Typed, Current, Serial, [Next]_vars, cm' # cm
                 PROVE  Ledger!LedgerNext
      OBVIOUS
    <2>1. Next
      BY DEF vars, storeVars
    <2>2. PICK p \in Proc : PersistSettings(p) \/ PersistSchedules(p) \/ PersistRuns(p)
      BY <2>1, OnlyPersistsWrite
    <2>3. ~stale[p] /\ CurrentAt(p)
      BY <2>2 DEF Serial, Current, PersistSettings, PersistSchedules, PersistRuns, Apply
    <2>4. QED
      BY <2>2, <2>3, CurrentEdit DEF Typed
  <1>6. QED
    BY <1>2, <1>3, <1>4, <1>5, SerialInit, StoreStaysInOrder, PTL
    DEF Spec, Ledger!LedgerSpec

=============================================================================
