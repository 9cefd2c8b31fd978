----------------------------- MODULE BackupLedger -----------------------------
(***************************************************************************)
(* What the backup store promises its users: the three documents are one   *)
(* book, and every request is one edit of one document that leaves the     *)
(* other two alone.  BackupStore implements this as long as requests do    *)
(* not overlap and no read fails; when they do overlap, every write whose  *)
(* reads are still current is a step of this specification.                *)
(*                                                                         *)
(* The specification is only used as a property, so the witnesses of its   *)
(* existentials are read off the next state.                               *)
(***************************************************************************)
EXTENDS BackupDocs

VARIABLE book

LedgerInit == /\ book \in Docs
              /\ book.runs = {}

SetTarget == book' = [book EXCEPT !.settings = book'.settings]

PutSchedule(s) ==
    LET entry == book'.schedules[s] IN
    /\ entry # None
    /\ book' = [book EXCEPT !.schedules =
                   Upsert(@, s, entry.paused, entry.updated)]

DropSchedule(s) == book' = [book EXCEPT !.schedules = Remove(@, s)]

\* Only a schedule that exists and is not paused is ever stamped.
StampSchedule(s) ==
    /\ Runnable(book.schedules[s])
    /\ book'.schedules[s] # None
    /\ book' = [book EXCEPT !.schedules = Mark(@, s, book'.schedules[s].last)]

\* A new row goes to the end of the list, and pushes out the oldest.
AddRun(run) ==
    /\ \A r \in book.runs : r.pos < run.pos
    /\ book' = [book EXCEPT !.runs = Push(@, run)]

DropRuns(names) == book' = [book EXCEPT !.runs = Retain(@, names)]

LedgerNext ==
    \/ SetTarget
    \/ \E s \in Schedules :
          PutSchedule(s) \/ DropSchedule(s) \/ StampSchedule(s)
    \/ \E run \in book'.runs : AddRun(run)
    \/ DropRuns({r.name : r \in book.runs} \ {r.name : r \in book'.runs})

LedgerSpec == LedgerInit /\ [][LedgerNext]_book

=============================================================================
