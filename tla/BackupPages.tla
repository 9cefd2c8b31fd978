------------------------------ MODULE BackupPages ------------------------------
(***************************************************************************)
(* The list of backups, and the toasts about them.  Both read one cached   *)
(* answer (backup-overview), which is asked for every fifteen seconds and  *)
(* again after every command; the page takes the rows it is deleting out   *)
(* of the cache before the server knows.  The toaster, mounted with the    *)
(* layout, compares each answer with the one before.                       *)
(*                                                                         *)
(* A backup is its phase; the server is external (BackupStore has its      *)
(* side).  Downloads, restores and the schedules of the answer are left    *)
(* out.                                                                    *)
(***************************************************************************)
EXTENDS Naturals, RestCalls

CONSTANTS
    Backups,
    MaxFaults     \* bound on calls that fail

Phases  == {"absent", "running", "completed", "failed"}
Listing == [Backups -> Phases]

ASSUME BackupPagesAssumption ==
    /\ MaxFaults \in Nat
    /\ None \notin Listing \cup [st : {"asked", "read"}, list : Listing]

VARIABLES
    stored,       \* the server's phases
    overview,     \* the cached answer, or None
    query,        \* the request for it: None, Asked or the answer
    previous,     \* previousPhasesRef, None before the first answer
    ended,        \* history: completions announced, of each backup
    late,         \* history: backups that had ended before the first answer
    selected, detail,       \* selectedBackup, panelOpen
    marked,       \* selectedRows
    confirming,   \* the keys of confirmDelete, or None
    removal,      \* isDeleting: the keys and how far it is
    removed,      \* history: backups the user asked to delete
    faults

backupVars == <<stored, overview, query, previous, ended, late, selected, detail,
                marked, confirming, removal, removed, faults>>

pageVars == <<selected, detail, marked, confirming>>

EndOf   == {"completed", "failed"}
Nothing == [b \in Backups |-> "absent"]
Asked   == [st |-> "asked", list |-> Nothing]
Read(l) == [st |-> "read", list |-> l]

Rows(l) == {b \in Backups : l[b] # "absent"}

BackupsInit ==
    /\ stored \in [Backups -> {"absent", "completed"}]
    /\ overview = None /\ query = Asked /\ previous = None
    /\ ended = [b \in Backups |-> 0] /\ late = {}
    /\ selected = None /\ detail = FALSE /\ marked = {}
    /\ confirming = None /\ removal = None /\ removed = {}
    /\ faults = 0

-----------------------------------------------------------------------------
(* The toaster. *)

\* One backup has ended, in this answer: started and ended at once when it is new.
Announces(b, l) ==
    /\ l[b] \in EndOf
    /\ previous[b] \in {"absent", "running"}

\* Mutant of Toast: the first answer is compared with nothing.
ToastUnprimed(l) ==
    LET before == IF previous = None THEN Nothing ELSE previous
    IN  /\ previous' = l
        /\ late' = IF previous = None THEN {b \in Backups : l[b] \in EndOf} ELSE late
        /\ ended' = [b \in Backups |->
                        IF l[b] \in EndOf /\ before[b] \notin EndOf /\ ended[b] < 2
                        THEN ended[b] + 1 ELSE ended[b]]

\* The effect on data; the first answer only primes it.
Toast(l) ==
    /\ previous' = l
    /\ IF previous = None
       THEN late' = {b \in Backups : l[b] \in EndOf} /\ UNCHANGED ended
       ELSE /\ UNCHANGED late
            /\ ended' = [b \in Backups |-> IF Announces(b, l) /\ ended[b] < 2
                                           THEN ended[b] + 1 ELSE ended[b]]

-----------------------------------------------------------------------------
(* The server, external. *)

Proceed(b, phase) ==
    /\ \/ stored[b] = "absent" /\ b \notin removed /\ phase \in {"running", "completed"}
       \/ stored[b] = "running" /\ phase \in EndOf
    /\ stored' = [stored EXCEPT ![b] = phase]
    /\ UNCHANGED <<overview, query, previous, ended, late, pageVars, removal,
                   removed, faults>>

OverviewServed ==
    /\ query # None /\ query.st = "asked"
    /\ query' = Read(stored)
    /\ UNCHANGED <<stored, overview, previous, ended, late, pageVars, removal,
                   removed, faults>>

\* deleteBackupRunsBulk: all, or only some before a failure.
RemovalServed(gone) ==
    /\ removal # None /\ removal.st = "asked"
    /\ gone \subseteq removal.keys
    /\ IF gone = removal.keys THEN UNCHANGED faults
       ELSE faults < MaxFaults /\ faults' = faults + 1
    /\ stored' = [b \in Backups |-> IF b \in gone THEN "absent" ELSE stored[b]]
    /\ removal' = [removal EXCEPT !.st = "answered"]
    /\ UNCHANGED <<overview, query, previous, ended, late, pageVars, removed>>

-----------------------------------------------------------------------------
(* useBackupOverview. *)

\* The interval; one request at a time.
AskOverview ==
    /\ query = None /\ query' = Asked
    /\ UNCHANGED <<stored, overview, previous, ended, late, pageVars, removal,
                   removed, faults>>

\* What waits for the answer goes on: the end of a removal.
Settled == IF removal # None /\ removal.st = "refreshing" THEN None ELSE removal

OverviewArrives ==
    /\ query # None /\ query.st = "read"
    /\ query' = None
    /\ overview' = query.list
    /\ Toast(query.list)
    /\ removal' = Settled
    /\ UNCHANGED <<stored, pageVars, removed, faults>>

OverviewFails ==
    /\ query # None
    /\ faults < MaxFaults /\ faults' = faults + 1
    /\ query' = None
    /\ removal' = Settled
    /\ UNCHANGED <<stored, overview, previous, ended, late, pageVars, removed>>

-----------------------------------------------------------------------------
(* BackupListPage. *)

Shown == IF overview = None THEN {} ELSE Rows(overview)

ShowBackup(b) ==
    /\ b \in Shown /\ confirming = None
    /\ selected' = b /\ detail' = TRUE
    /\ UNCHANGED <<stored, overview, query, previous, ended, late, marked,
                   confirming, removal, removed, faults>>

HideBackup ==
    /\ detail /\ detail' = FALSE
    /\ UNCHANGED <<stored, overview, query, previous, ended, late, selected, marked,
                   confirming, removal, removed, faults>>

MarkBackup(b) ==
    /\ b \in Shown /\ ~detail /\ confirming = None
    /\ marked' = IF b \in marked THEN marked \ {b} ELSE marked \cup {b}
    /\ UNCHANGED <<stored, overview, query, previous, ended, late, selected, detail,
                   confirming, removal, removed, faults>>

\* The ticked rows, whose bar is above the panel, or the row of the button.
AskRemoval(keys) ==
    /\ confirming = None /\ removal = None
    /\ keys # {}
    /\ keys = marked \/ (~detail /\ \E b \in Shown : keys = {b})
    /\ confirming' = keys
    /\ UNCHANGED <<stored, overview, query, previous, ended, late, selected, detail,
                   marked, removal, removed, faults>>

KeepBackups ==
    /\ confirming # None /\ removal = None
    /\ confirming' = None
    /\ UNCHANGED <<stored, overview, query, previous, ended, late, selected, detail,
                   marked, removal, removed, faults>>

\* Its handleConfirmDelete: the rows go at once, from the cache too, and the
\* toaster sees them gone.
RemoveBackups ==
    /\ confirming # None /\ removal = None
    /\ confirming' = None
    /\ removal' = [keys |-> confirming, st |-> "asked"]
    /\ removed' = removed \cup confirming
    /\ overview' = [b \in Backups |-> IF b \in confirming THEN "absent" ELSE overview[b]]
    /\ Toast(overview')
    /\ detail' = (detail /\ selected \notin confirming)
    /\ selected' = IF selected \in confirming THEN None ELSE selected
    /\ marked' = marked \ confirming
    /\ UNCHANGED <<stored, query, faults>>

\* The answer: a new request, whose answer is awaited, takes the place of one
\* that is in flight.
RemovalReturns ==
    /\ removal # None /\ removal.st = "answered"
    /\ removal' = [removal EXCEPT !.st = "refreshing"]
    /\ query' = Asked
    /\ UNCHANGED <<stored, overview, previous, ended, late, pageVars, removed, faults>>

BackupsNext ==
    \/ \E b \in Backups : \/ ShowBackup(b) \/ MarkBackup(b)
                          \/ \E phase \in Phases : Proceed(b, phase)
    \/ \E keys \in SUBSET Backups : RemovalServed(keys) \/ AskRemoval(keys)
    \/ OverviewServed \/ AskOverview \/ OverviewArrives \/ OverviewFails
    \/ HideBackup \/ KeepBackups \/ RemoveBackups \/ RemovalReturns

BackupsSpec == BackupsInit /\ [][BackupsNext]_backupVars

-----------------------------------------------------------------------------
BackupsType ==
    /\ stored \in Listing
    /\ overview \in Listing \cup {None}
    /\ query \in [st : {"asked", "read"}, list : Listing] \cup {None}
    /\ previous \in Listing \cup {None}
    /\ ended \in [Backups -> 0 .. 2]
    /\ selected \in Backups \cup {None} /\ detail \in BOOLEAN
    /\ marked \subseteq Backups
    /\ confirming = None \/ confirming \subseteq Backups
    /\ removal = None \/ removal.keys \subseteq Backups
    /\ faults \in 0 .. MaxFaults

\* The toaster says once that a backup has ended, and says nothing of one that
\* had ended before the page was loaded ("avoid replaying historical backups"),
\* whatever polls are late or fail, unless the user asked to delete it: then its
\* row leaves the cache, and an older answer may bring it back as a new one.
AnnouncedOnce ==
    /\ \A b \in Backups \ removed : ended[b] <= IF b \in late THEN 0 ELSE 1
    /\ previous # None => previous = overview

=============================================================================
