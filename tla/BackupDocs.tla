------------------------------ MODULE BackupDocs ------------------------------
(***************************************************************************)
(* The documents the backup subsystem keeps in one Kubernetes ConfigMap    *)
(* (handlers/backup.rs, pertisk-backup-settings) and the in-memory edits   *)
(* the handlers make to a loaded document before they write it back.       *)
(*                                                                         *)
(* A run row carries `pos', the number of rows ever appended before it:    *)
(* every list in the program is ordered by it, so a set of rows stands for *)
(* the JSON array.  A schedule's cron text is abstracted to CronTicks, the *)
(* instants at which it fires; namespaces, sizes and summaries are left    *)
(* out.                                                                    *)
(***************************************************************************)
EXTENDS Integers, FiniteSets

CONSTANTS
    Schedules,    \* schedule names
    Manual,       \* the prefix of names of manual backups
    Targets,      \* S3 destinations a user may configure
    None,         \* a missing value
    CronTicks,    \* the instants at which every schedule's cron fires
    MaxRuns       \* rows kept in backup-runs.json (500 in the code)

ASSUME DocsAssumption ==
    /\ None \notin Targets
    /\ Manual \notin Schedules
    /\ CronTicks \subseteq Nat
    /\ MaxRuns \in Nat \ {0}

Never == -1
Stamp == Nat \cup {Never}

\* Backup names are "<schedule>-<seconds>" or "manual-<seconds>".
Names == (Schedules \cup {Manual}) \X Nat

Schedule == [paused : BOOLEAN, updated : Nat, last : Stamp]

\* The default settings have an empty bucket; None stands for them.
Phases == {"Completed", "Failed"}
Run == [name : Names, phase : Phases, pos : Nat]

SettingsDoc == Targets \cup {None}
SchedulesDoc == [Schedules -> Schedule \cup {None}]
RunsDoc == SUBSET Run

\* None is none of the values it may stand beside.
ASSUME NoneAssumption == None \notin Schedule /\ None \notin Phases

NoSchedules == [s \in Schedules |-> None]

Docs == [settings : SettingsDoc, schedules : SchedulesDoc, runs : RunsDoc]

\* A ConfigMap that is missing, or that could not be read, parses to this.
EmptyDocs == [settings |-> None, schedules |-> NoSchedules, runs |-> {}]

-----------------------------------------------------------------------------
(* Edits of a loaded document *)

\* create_backup_schedule: an existing entry keeps its last_run_at.
Upsert(list, s, paused, t) ==
    [list EXCEPT ![s] =
        [paused |-> paused, updated |-> t,
         last |-> IF list[s] = None THEN Never ELSE list[s].last]]

Remove(list, s) == [list EXCEPT ![s] = None]

\* Mutant of Mark: the stamp is forgotten.
MarkNothing(list, s, t) == list

\* trigger_schedule_run: stamps the run before it is made.
Mark(list, s, t) == [list EXCEPT ![s] =
    [paused |-> list[s].paused, updated |-> t, last |-> t]]

\* runs.split_off(len - 500): the rows appended last are the ones kept.
Trim(rows) ==
    {r \in rows : Cardinality({q \in rows : q.pos > r.pos}) < MaxRuns}

\* Mutant of Push: the cap is forgotten.
PushUncapped(rows, run) == rows \cup {run}

Push(rows, run) == Trim(rows \cup {run})

Retain(rows, names) == {r \in rows : r.name \notin names}

-----------------------------------------------------------------------------
(* run_due_schedules *)

Runnable(sched) == sched # None /\ ~sched.paused

Baseline(sched) == IF sched.last # Never THEN sched.last ELSE sched.updated

\* parsed.after(&baseline).next() <= now
Due(sched, t) ==
    /\ Runnable(sched)
    /\ \E k \in CronTicks : Baseline(sched) < k /\ k <= t

=============================================================================
