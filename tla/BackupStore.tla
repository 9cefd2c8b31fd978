------------------------------ MODULE BackupStore ------------------------------
(***************************************************************************)
(* The backup subsystem (backend/src/handlers/backup.rs): the scheduler    *)
(* worker of every replica and the REST handlers, all reading and writing  *)
(* one ConfigMap, one Secret, one S3 bucket and, when external CRDs are    *)
(* enabled, Velero Backup objects.                                         *)
(*                                                                         *)
(* There is no lock and no resourceVersion check: a request loads its      *)
(* document, edits the copy, reads the whole data map again and applies    *)
(* the map with its own key replaced.  Every await is a point where other  *)
(* processes may run, so each is an action of its own; the computation     *)
(* between two awaits belongs to the action before it.                     *)
(***************************************************************************)
EXTENDS BackupDocs

CONSTANTS
    Replicas,     \* scheduler workers, one per pod of the Deployment
    Requests,     \* slots for concurrently served REST requests
    ExternalCrd,  \* BACKUP_EXTERNAL_CRD_ENABLED
    MaxTime,      \* bound on the clock
    MaxOps,       \* bound on REST requests served
    MaxOverlap,   \* bound on operations in flight at once
    MaxPushes,    \* bound on rows ever appended
    MaxFaults     \* bound on failed calls, lost answers and crashes

ASSUME StoreAssumption ==
    /\ Replicas \cap Requests = {}
    /\ ExternalCrd \in BOOLEAN
    /\ MaxTime \in Nat /\ MaxOps \in Nat /\ MaxFaults \in Nat
    /\ MaxOverlap \in Nat /\ MaxPushes \in Nat

Proc == Replicas \cup Requests

VARIABLES
    \* the cluster and S3
    cm,        \* data of ConfigMap pertisk-backup-settings
    secret,    \* destination whose AWS keys the settings Secret holds
    objects,   \* <<bucket, backup name>> pairs present in S3
    crs,       \* names of Velero Backup objects
    \* each process
    pc,        \* the await it is at
    task,      \* the request it serves
    todo,      \* schedules a worker loaded and has not yet looked at
    conf,      \* settings it loaded
    copy,      \* the document it loaded and edited
    map,       \* the data map it read before applying
    \* environment and bounds
    now, ops, faults,
    \* history
    uploaded,  \* backup names ever put to S3
    pushes,    \* rows ever appended
    stale      \* a read of the process failed or was overtaken by a write

storeVars == <<cm, secret, objects, crs>>
procVars  == <<pc, task, todo, conf, copy, map>>
vars == <<storeVars, procVars, now, ops, faults, uploaded, pushes, stale>>

Kinds == {"trigger", "manual", "create", "deleteSchedule", "deleteRuns",
          "saveSettings"}
Steps == {"idle", "poll", "loadSchedules", "loadSettings", "loadRuns",
          "upload", "createCr", "s3delete", "getMap", "patch", "secret"}
DocKeys == {"settings", "schedules", "runs"}

ASSUME NoneIsNoLabel == None \notin Kinds \cup DocKeys

Task == [kind    : Kinds \cup {None},
         doc     : DocKeys \cup {None},       \* document being persisted
         sched   : Schedules \cup {None},
         paused  : BOOLEAN,
         target  : Targets \cup {None},
         victims : SUBSET Names,
         name    : Names \cup {None},
         phase   : Phases \cup {None}]

Rest == [kind |-> None, doc |-> None, sched |-> None, paused |-> FALSE,
         target |-> None, victims |-> {}, name |-> None, phase |-> None]

Conf == [bucket : Targets \cup {None}, keys : Targets \cup {None}]
NoConf == [bucket |-> None, keys |-> None]

Copy == [schedules : SchedulesDoc, runs : RunsDoc]
NoCopy == [schedules |-> NoSchedules, runs |-> {}]

TypeOK ==
    /\ cm \in Docs
    /\ secret \in Targets \cup {None}
    /\ objects \subseteq Targets \X Names
    /\ crs \subseteq Names
    /\ pc \in [Proc -> Steps]
    /\ task \in [Proc -> Task]
    /\ todo \in [Proc -> SchedulesDoc]
    /\ conf \in [Proc -> Conf]
    /\ copy \in [Proc -> Copy]
    /\ map \in [Proc -> Docs]
    /\ now \in Nat /\ ops \in Nat /\ faults \in Nat /\ pushes \in Nat
    /\ uploaded \subseteq Names
    /\ stale \in [Proc -> BOOLEAN]

\* The ConfigMap and the Secret outlive the pods: any set of schedules may be
\* stored, and a destination may have been configured.
Init ==
    /\ \E stored \in SUBSET Schedules, target \in Targets \cup {None} :
          /\ cm = [settings |-> target,
                   schedules |-> [s \in Schedules |->
                     IF s \in stored
                     THEN [paused |-> FALSE, updated |-> 0, last |-> Never]
                     ELSE None],
                   runs |-> {}]
          /\ secret = target
    /\ objects = {} /\ crs = {}
    /\ pc = [p \in Proc |-> "idle"]
    /\ task = [p \in Proc |-> Rest]
    /\ todo = [p \in Proc |-> NoSchedules]
    /\ conf = [p \in Proc |-> NoConf]
    /\ copy = [p \in Proc |-> NoCopy]
    /\ map = [p \in Proc |-> EmptyDocs]
    /\ now = 0 /\ ops = 0 /\ faults = 0
    /\ uploaded = {} /\ pushes = 0
    /\ stale = [p \in Proc |-> FALSE]

-----------------------------------------------------------------------------
(* Outcomes of a call: it succeeds, or a fault is spent on it. *)

Outcome == {TRUE} \cup (IF faults < MaxFaults THEN {FALSE} ELSE {})

Charge(ok) == faults' = IF ok THEN faults ELSE faults + 1

Goto(p, step) == pc' = [pc EXCEPT ![p] = step]

\* The handler returns; a worker goes on with the schedules it still holds.
Finish(p) ==
    /\ Goto(p, IF p \in Replicas THEN "poll" ELSE "idle")
    /\ task' = [task EXCEPT ![p] = Rest]
    /\ conf' = [conf EXCEPT ![p] = NoConf]
    /\ copy' = [copy EXCEPT ![p] = NoCopy]
    /\ map'  = [map  EXCEPT ![p] = EmptyDocs]
    /\ UNCHANGED todo

InFlight == {p \in Proc : pc[p] # "idle"}

Begin(p, job, step) ==
    /\ Goto(p, step)
    /\ task' = [task EXCEPT ![p] = job]
    /\ stale' = [stale EXCEPT ![p] = FALSE]

-----------------------------------------------------------------------------
(* The clock, and processes that die *)

Tick ==
    /\ now < MaxTime
    /\ now' = now + 1
    /\ UNCHANGED <<storeVars, procVars, ops, faults, uploaded, pushes, stale>>

\* A pod restarts, or the client hangs up and the handler's future is dropped:
\* whatever the process had not written is gone.
Crash(p) ==
    /\ pc[p] # "idle"
    /\ faults < MaxFaults
    /\ faults' = faults + 1
    /\ Goto(p, "idle")
    /\ task' = [task EXCEPT ![p] = Rest]
    /\ todo' = [todo EXCEPT ![p] = NoSchedules]
    /\ conf' = [conf EXCEPT ![p] = NoConf]
    /\ copy' = [copy EXCEPT ![p] = NoCopy]
    /\ map'  = [map  EXCEPT ![p] = EmptyDocs]
    /\ UNCHANGED <<storeVars, now, ops, uploaded, pushes, stale>>

-----------------------------------------------------------------------------
(* The scheduler worker *)

\* Every 30 s: load the list once, then walk it.
Poll(p) ==
    /\ pc[p] = "idle"
    /\ Cardinality(InFlight) < MaxOverlap
    /\ \E ok \in Outcome :
          /\ todo' = [todo EXCEPT ![p] = IF ok THEN cm.schedules ELSE NoSchedules]
          /\ Charge(ok)
    /\ Goto(p, "poll")
    /\ UNCHANGED <<storeVars, task, conf, copy, map, now, ops, uploaded, pushes,
                   stale>>

\* Mutant of IsDue: a cron instant counts only once it is in the past.
IsDueLate(entry) == Due(entry, now - 1)

IsDue(entry) == Due(entry, now)

\* The next schedule of the loaded list: run it if the loaded entry is due.
CheckSchedule(p, s) ==
    /\ pc[p] = "poll"
    /\ todo[p][s] # None
    /\ todo' = [todo EXCEPT ![p][s] = None]
    /\ IF IsDue(todo[p][s]) /\ pushes < MaxPushes
         THEN Begin(p, [Rest EXCEPT !.kind = "trigger", !.sched = s],
                    "loadSchedules")
         ELSE UNCHANGED <<pc, task, stale>>
    /\ UNCHANGED <<storeVars, conf, copy, map, now, ops, faults, uploaded, pushes>>

EndPoll(p) ==
    /\ pc[p] = "poll"
    /\ todo[p] = NoSchedules
    /\ Goto(p, "idle")
    /\ UNCHANGED <<storeVars, task, todo, conf, copy, map, now, ops, faults,
                   uploaded, pushes, stale>>

-----------------------------------------------------------------------------
(* The REST handlers *)

Serve(p, job, step) ==
    /\ pc[p] = "idle"
    /\ ops < MaxOps
    /\ pushes < MaxPushes
    /\ Cardinality(InFlight) < MaxOverlap
    /\ ops' = ops + 1
    /\ Begin(p, job, step)
    /\ UNCHANGED <<storeVars, todo, conf, copy, map, now, faults, uploaded, pushes>>

\* create_backup_schedule, which also edits an existing one (that the namespace
\* is ensured once more before the load is left out: it can only refuse)
CreateSchedule(p, s, paused) ==
    Serve(p, [Rest EXCEPT !.kind = "create", !.sched = s, !.paused = paused],
          "loadSchedules")

DeleteSchedule(p, s) ==
    Serve(p, [Rest EXCEPT !.kind = "deleteSchedule", !.sched = s], "loadSchedules")

\* run_backup_schedule_manual
RunSchedule(p, s) ==
    Serve(p, [Rest EXCEPT !.kind = "trigger", !.sched = s], "loadSchedules")

\* run_manual_backup; the request may name the backup itself
ManualBackup(p, name) ==
    Serve(p, [Rest EXCEPT !.kind = "manual", !.name = name], "loadSettings")

\* delete_backup_run and delete_backup_runs_bulk
DeleteRuns(p, victims) ==
    Serve(p, [Rest EXCEPT !.kind = "deleteRuns", !.victims = victims], "loadRuns")

\* save_backup_settings and save_backup_s3_config: every persisted field comes
\* from the request
SaveSettings(p, target) ==
    Serve(p, [Rest EXCEPT !.kind = "saveSettings", !.doc = "settings",
                          !.target = target], "getMap")

-----------------------------------------------------------------------------
(* load_stored_schedules, load_settings, load_stored_backup_runs: an API     *)
(* error reads as an empty document.                                         *)

\* trigger_schedule_run: "not found" or "is paused" otherwise
MayTrigger(entry) == Runnable(entry)

\* The edited list is kept, and the handler goes on to `step'.
KeepSchedules(p, list, step) ==
    /\ copy' = [copy EXCEPT ![p].schedules = list]
    /\ Goto(p, step)
    /\ UNCHANGED <<todo, conf, map>>

WithSchedules(p, list) ==
    LET s == task[p].sched IN
    \/ /\ task[p].kind = "trigger"
       /\ MayTrigger(list[s])
       /\ KeepSchedules(p, list, "loadSettings")
       /\ UNCHANGED task
    \/ /\ task[p].kind = "trigger"
       /\ ~MayTrigger(list[s])
       /\ Finish(p)
    \/ /\ task[p].kind = "create"
       /\ KeepSchedules(p, Upsert(list, s, task[p].paused, now), "getMap")
       /\ task' = [task EXCEPT ![p].doc = "schedules"]
    \/ /\ task[p].kind = "deleteSchedule"
       /\ KeepSchedules(p, Remove(list, s), "getMap")
       /\ task' = [task EXCEPT ![p].doc = "schedules"]

LoadSchedules(p) ==
    /\ pc[p] = "loadSchedules"
    /\ \E ok \in Outcome :
        /\ Charge(ok)
        /\ stale' = [stale EXCEPT ![p] = ~ok]
        /\ WithSchedules(p, IF ok THEN cm.schedules ELSE NoSchedules)
    /\ UNCHANGED <<storeVars, now, ops, uploaded, pushes>>

\* Two reads, ConfigMap then Secret; either may fail on its own.  A trigger
\* then takes the time, names the backup and stamps its copy of the schedule.
LoadSettings(p) ==
    /\ pc[p] = "loadSettings"
    /\ \E okBucket \in Outcome, okKeys \in Outcome :
        /\ conf' = [conf EXCEPT ![p] =
              [bucket |-> IF okBucket THEN cm.settings ELSE None,
               keys   |-> IF okKeys THEN secret ELSE None]]
        /\ Charge(okBucket /\ okKeys)
    /\ \/ /\ task[p].kind = "trigger"
          /\ task' = [task EXCEPT ![p].doc = "schedules",
                                  ![p].name = <<task[p].sched, now>>]
          /\ copy' = [copy EXCEPT ![p].schedules = Mark(@, task[p].sched, now)]
          /\ Goto(p, "getMap")
       \/ /\ task[p].kind = "manual"
          /\ Goto(p, IF ExternalCrd THEN "createCr" ELSE "upload")
          /\ UNCHANGED <<task, copy>>
       \/ /\ task[p].kind = "deleteRuns"
          /\ Goto(p, "s3delete")
          /\ UNCHANGED <<task, copy>>
    /\ UNCHANGED <<storeVars, todo, map, now, ops, uploaded, pushes, stale>>

\* A run appends its row; a deletion drops the rows it was asked to.
WithRuns(p, rows) ==
    \/ /\ task[p].kind \in {"trigger", "manual"}
       /\ copy' = [copy EXCEPT ![p].runs =
             Push(rows, [name |-> task[p].name, phase |-> task[p].phase,
                         pos |-> pushes])]
       /\ pushes' = pushes + 1
       /\ Goto(p, "getMap")
    \/ /\ task[p].kind = "deleteRuns"
       /\ copy' = [copy EXCEPT ![p].runs = Retain(rows, task[p].victims)]
       /\ Goto(p, "loadSettings")
       /\ UNCHANGED pushes

LoadRuns(p) ==
    /\ pc[p] = "loadRuns"
    /\ \E ok \in Outcome :
        /\ Charge(ok)
        /\ stale' = [stale EXCEPT ![p] = ~ok]
        /\ WithRuns(p, IF ok THEN cm.runs ELSE {})
    /\ task' = [task EXCEPT ![p].doc = "runs"]
    /\ UNCHANGED <<storeVars, todo, conf, map, now, ops, uploaded>>

-----------------------------------------------------------------------------
(* persist_settings, persist_stored_schedules, persist_stored_backup_runs    *)

\* Mutant of DataMap: the keys of the other documents are not read.
DataMapOwnKeyOnly(ok) == EmptyDocs

DataMap(ok) == IF ok THEN cm ELSE EmptyDocs

\* ensure_namespace, then the whole data map; an unreadable map is empty.
GetMap(p) ==
    /\ pc[p] = "getMap"
    /\ \/ /\ \E ok \in Outcome :
                /\ map' = [map EXCEPT ![p] = DataMap(ok)]
                /\ stale' = [stale EXCEPT ![p] = @ \/ ~ok]
                /\ Charge(ok)
          /\ Goto(p, "patch")
          /\ UNCHANGED <<task, todo, conf, copy>>
       \/ /\ FALSE \in Outcome      \* ensure_namespace failed
          /\ Charge(FALSE)
          /\ Finish(p)
          /\ UNCHANGED stale
    /\ UNCHANGED <<storeVars, now, ops, uploaded, pushes>>

\* The forced server-side apply of `data': applied, refused, or applied with
\* the answer lost.  A write overtakes everybody else's reads.
Apply(p, data, ThenOk) ==
    /\ pc[p] = "patch"
    /\ \E applied \in BOOLEAN, acked \in Outcome :
        /\ acked => applied
        /\ Charge(acked)
        /\ cm' = IF applied THEN data ELSE cm
        /\ stale' = [q \in Proc |-> stale[q] \/ (applied /\ q # p)]
        /\ IF acked THEN ThenOk ELSE Finish(p)
    /\ UNCHANGED <<secret, objects, crs, now, ops, uploaded, pushes>>

Continue(p, step) ==
    /\ Goto(p, step)
    /\ UNCHANGED <<task, todo, conf, copy, map>>

PersistSettings(p) ==
    /\ task[p].doc = "settings"
    /\ Apply(p, [map[p] EXCEPT !.settings = task[p].target],
             Continue(p, "secret"))

PersistSchedules(p) ==
    /\ task[p].doc = "schedules"
    /\ Apply(p, [map[p] EXCEPT !.schedules = copy[p].schedules],
             IF task[p].kind = "trigger" THEN Continue(p, "upload")
                                         ELSE Finish(p))

PersistRuns(p) ==
    /\ task[p].doc = "runs"
    /\ Apply(p, [map[p] EXCEPT !.runs = copy[p].runs], Finish(p))

\* The second write of persist_settings
PersistSecret(p) ==
    /\ pc[p] = "secret"
    /\ \E applied \in BOOLEAN, acked \in Outcome :
        /\ acked => applied
        /\ Charge(acked)
        /\ secret' = IF applied THEN task[p].target ELSE secret
    /\ Finish(p)
    /\ UNCHANGED <<cm, objects, crs, now, ops, uploaded, pushes, stale>>

-----------------------------------------------------------------------------
(* S3 and Velero *)

Configured(c) == c.bucket # None /\ c.keys # None

\* S3 refuses the keys of another destination.
Accepted(c) == Configured(c) /\ c.bucket = c.keys

\* Mutant of RunPhase: the result of the upload is ignored.
RunPhaseAlways(ok) == "Completed"

RunPhase(ok) == IF ok THEN "Completed" ELSE "Failed"

\* upload_backup_run_to_s3; after the last retry the run is Failed, although an
\* attempt whose answer was lost may have stored the object.
Upload(p) ==
    /\ pc[p] = "upload"
    /\ \E stored \in BOOLEAN, acked \in Outcome :
        /\ acked => stored = Accepted(conf[p])
        /\ stored => Accepted(conf[p])
        /\ Charge(acked)
        /\ objects' = IF stored
                        THEN objects \cup {<<conf[p].bucket, task[p].name>>}
                        ELSE objects
        /\ uploaded' = IF stored THEN uploaded \cup {task[p].name} ELSE uploaded
        /\ task' = [task EXCEPT ![p].phase = RunPhase(stored /\ acked)]
    /\ Goto(p, "loadRuns")
    /\ UNCHANGED <<cm, secret, crs, todo, conf, copy, map, now, ops, pushes, stale>>

\* A manual backup with external CRDs is left to Velero.
CreateCr(p) ==
    /\ pc[p] = "createCr"
    /\ \E ok \in Outcome :
        /\ Charge(ok)
        /\ crs' = IF ok THEN crs \cup {task[p].name} ELSE crs
    /\ Finish(p)
    /\ UNCHANGED <<cm, secret, objects, now, ops, uploaded, pushes, stale>>

\* delete_backup_runs_by_names, one name: the Velero object, then the S3
\* object in the bucket configured now (destinations share their prefix).  A
\* failure is a warning and the row goes all the same.
DeleteObject(p, name) ==
    /\ pc[p] = "s3delete"
    /\ name \in task[p].victims
    /\ \E okCr \in Outcome, okS3 \in Outcome :
        /\ crs' = IF ExternalCrd /\ okCr THEN crs \ {name} ELSE crs
        /\ objects' = IF Accepted(conf[p]) /\ okS3
                        THEN objects \ {<<conf[p].bucket, name>>}
                        ELSE objects
        /\ Charge(okCr /\ okS3)
    /\ task' = [task EXCEPT ![p].victims = @ \ {name}]
    /\ UNCHANGED <<cm, secret, pc, todo, conf, copy, map, now, ops, uploaded,
                   pushes, stale>>

EndDelete(p) ==
    /\ pc[p] = "s3delete"
    /\ task[p].victims = {}
    /\ Continue(p, "getMap")
    /\ UNCHANGED <<storeVars, now, ops, faults, uploaded, pushes, stale>>

-----------------------------------------------------------------------------
(* get_backup_overview *)

\* The rows shown: stored runs, overridden by Velero objects.  S3 is listed
\* too when there is no row, or a row without a size (a Failed one).
Overview(rows, velero, c) ==
    LET own    == {[name |-> r.name, phase |-> r.phase] : r \in
                      {r \in rows : r.name \notin velero}}
        live   == {[name |-> n, phase |-> "Velero"] : n \in velero}
        merged == own \cup live
        sizeless == live \cup {b \in own : b.phase = "Failed"}
        listed == {o[2] : o \in {o \in objects : Accepted(c) /\ o[1] = c.bucket}}
    IN IF merged = {} \/ sizeless # {}
         THEN merged \cup {[name |-> n, phase |-> "Completed"] :
                             n \in listed \ {b.name : b \in merged}}
         ELSE merged

-----------------------------------------------------------------------------
(* Specification *)

\* One step of the operation the process is carrying out.
Advance(p) ==
    \/ LoadSchedules(p) \/ LoadSettings(p) \/ LoadRuns(p)
    \/ GetMap(p)
    \/ PersistSettings(p) \/ PersistSchedules(p) \/ PersistRuns(p)
    \/ PersistSecret(p)
    \/ Upload(p) \/ CreateCr(p)
    \/ \E name \in task[p].victims : DeleteObject(p, name)
    \/ EndDelete(p)

Worker(p) ==
    \/ Poll(p)
    \/ \E s \in Schedules : CheckSchedule(p, s)
    \/ EndPoll(p)

ManualNames == {<<Manual, t>> : t \in 0 .. now}

\* What the backup page lists, and so what can be deleted from it.
Listed == {r.name : r \in cm.runs} \cup {o[2] : o \in objects} \cup crs

Request(p) ==
    \/ \E s \in Schedules :
          \/ \E paused \in BOOLEAN : CreateSchedule(p, s, paused)
          \/ DeleteSchedule(p, s)
          \/ RunSchedule(p, s)
    \/ \E name \in ManualNames : ManualBackup(p, name)
    \/ \E victims \in SUBSET Listed \ {{}} : DeleteRuns(p, victims)
    \/ \E target \in Targets : SaveSettings(p, target)

Next ==
    \/ Tick
    \/ \E p \in Proc : Advance(p) \/ Crash(p)
    \/ \E p \in Replicas : Worker(p)
    \/ \E p \in Requests : Request(p)

Spec == Init /\ [][Next]_vars

\* Tokio runs every task that is ready, and the worker loops for ever.
Fairness == /\ \A p \in Proc : WF_vars(Advance(p))
            /\ \A p \in Replicas : WF_vars(Worker(p))

FairSpec == Spec /\ Fairness

-----------------------------------------------------------------------------
(* Properties *)

\* backup-runs.json never holds more than MaxRuns rows, whatever interleaves
\* with the load-push-trim-persist of trigger_schedule_run and
\* run_manual_backup.
RunsBounded == Cardinality(cm.runs) <= MaxRuns

\* A backup listed as Completed by get_backup_overview, from the stored rows or
\* from the S3 listing, was stored in S3: no interleaving, lost answer or wiped
\* document invents one, whichever of the reads of the overview fail.
ListedWasUploaded ==
    \A rows \in {cm.runs, {}}, velero \in {crs, {}},
       bucket \in {cm.settings, None} :
        \A b \in Overview(rows, velero, [bucket |-> bucket, keys |-> secret]) :
            b.phase = "Completed" => b.name \in uploaded

\* A scheduler alone (pod restarts, failed reads and lost answers included)
\* uploads at most one backup of a schedule per firing of its cron, because
\* trigger_schedule_run stamps last_run_at before it uploads.
OncePerFiring ==
    \A a, b \in uploaded :
        (a[1] = b[1] /\ a[2] < b[2]) =>
            \E k \in CronTicks : a[2] < k /\ k <= b[2]

Ledger == INSTANCE BackupLedger WITH book <- cm

\* Under any interleaving and any fault, a persist whose process read its
\* document and the data map successfully, with no other write since, is still
\* exactly one legal edit: the other two documents keep their content.  Requests
\* that neither overlap nor fail so implement the ledger.
UndisturbedIsAtomic ==
    [][\A p \in Proc :
         (pc[p] = "patch" /\ ~stale[p] /\ pc'[p] # "patch" /\ cm' # cm)
            => Ledger!LedgerNext]_vars

\* A schedule whose cron has fired is eventually stamped, paused or deleted: the
\* worker loop survives failed calls and crashes.
DueIsHandled ==
    \A s \in Schedules :
        Due(cm.schedules[s], now) ~> ~Due(cm.schedules[s], now)

-----------------------------------------------------------------------------
(* The inductive invariant *)

\* What a process knows about its request at each await.
KnownAt(p) ==
    LET t == task[p] IN
    /\ t.kind \in {"trigger", "create", "deleteSchedule"}
          => t.sched \in Schedules
    /\ t.kind = "manual" => t.name \in Names
    /\ t.kind = "trigger" /\ pc[p] \in {"getMap", "patch", "upload", "loadRuns"}
          => t.name \in Names
    /\ t.kind = "trigger" /\ pc[p] = "loadSettings"
          => copy[p].schedules[t.sched] # None
    /\ t.kind = "trigger" /\ pc[p] \in {"loadSchedules", "loadSettings"}
          => t.phase = None
    /\ pc[p] = "upload" => t.kind \in {"trigger", "manual"}
    /\ pc[p] = "createCr" => t.kind = "manual"
    /\ pc[p] = "loadRuns" /\ t.kind \in {"trigger", "manual"}
          => t.phase \in Phases
    /\ pc[p] = "s3delete" => t.kind = "deleteRuns"
    /\ pc[p] \in {"loadSettings", "s3delete"} /\ t.kind = "deleteRuns"
          => t.doc = "runs"
    /\ pc[p] \in {"getMap", "patch"} =>
         \/ t.doc = "settings"
         \/ t.doc = "schedules" /\
               t.kind \in {"trigger", "create", "deleteSchedule"}
         \/ t.doc = "runs" /\ t.kind \in {"trigger", "manual", "deleteRuns"}

TaskOK == \A p \in Proc : KnownAt(p)

\* Every Completed row, wherever a copy of it is held, was stored in S3.
BackedRows(rows) == \A r \in rows : r.phase = "Completed" => r.name \in uploaded

Provenance ==
    /\ BackedRows(cm.runs)
    /\ \A o \in objects : o[2] \in uploaded
    /\ \A p \in Proc :
          /\ BackedRows(copy[p].runs)
          /\ BackedRows(map[p].runs)
          /\ task[p].phase = "Completed" => task[p].name \in uploaded

\* No list, stored or held, is longer than the cap; rows keep their places.
BoundedRows(rows) ==
    /\ IsFiniteSet(rows)
    /\ Cardinality(rows) <= MaxRuns
    /\ \A r \in rows : r.pos < pushes
    /\ \A r, q \in rows : r.pos = q.pos => r = q

Bounded ==
    /\ BoundedRows(cm.runs)
    /\ \A p \in Proc : BoundedRows(copy[p].runs) /\ BoundedRows(map[p].runs)

\* The edit a process with undisturbed reads is about to make to the ledger.
CurrentAt(p) ==
    LET t     == task[p]
        mine  == copy[p].schedules
        about == pc[p] \in {"getMap", "patch"}
    IN
    /\ pc[p] = "patch" => map[p] = cm
    /\ pc[p] = "loadSettings" /\ t.kind = "trigger" =>
         mine = cm.schedules /\ Runnable(mine[t.sched])
    /\ about /\ t.doc = "schedules" =>
         \/ /\ mine[t.sched] # None
            /\ mine = Upsert(cm.schedules, t.sched, mine[t.sched].paused,
                             mine[t.sched].updated)
         \/ mine = Remove(cm.schedules, t.sched)
         \/ /\ Runnable(cm.schedules[t.sched])
            /\ mine[t.sched] # None
            /\ mine = Mark(cm.schedules, t.sched, mine[t.sched].last)
    /\ about /\ t.doc = "runs" /\ t.kind \in {"trigger", "manual"} =>
         \E run \in copy[p].runs :
            /\ \A r \in cm.runs : r.pos < run.pos
            /\ copy[p].runs = Push(cm.runs, run)
    /\ t.kind = "deleteRuns"
          /\ pc[p] \in {"loadSettings", "s3delete", "getMap", "patch"} =>
         copy[p].runs = Retain(cm.runs,
            {r.name : r \in cm.runs} \ {r.name : r \in copy[p].runs})

Current == \A p \in Proc : ~stale[p] => CurrentAt(p)

IInv == TypeOK /\ TaskOK /\ Provenance /\ Bounded /\ Current

=============================================================================
