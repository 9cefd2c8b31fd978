------------------------------- MODULE ListPages -------------------------------
(***************************************************************************)
(* A page that lists objects: a table whose rows can be ticked, a panel    *)
(* for the row last clicked, a dialog before anything is deleted.  The     *)
(* pages of src/frontend/src/pages are written alike; what differs between *)
(* them is the record page, a Behaviour of PageCatalog.                    *)
(*                                                                         *)
(* An object is its namespace and name, which is also the key of its row.  *)
(* Columns, sorting, labels and the contents of the panel are left out.    *)
(* The hook that keeps data is WatchStream or PodSync; here its data       *)
(* follows the server late and in any order.                               *)
(***************************************************************************)
EXTENDS Naturals, Sequences, SequencesExt, PageCatalog

CONSTANTS
    Named,        \* objects of pages with namespaces
    Global,       \* objects of the other pages
    MaxChanges    \* bound on changes made by others, and on failures

ASSUME PagesAssumption ==
    /\ None \notin Named \cup Global
    /\ \A o, p \in Named : o.ns = p.ns /\ o.name = p.name => o = p
    /\ \A o, p \in Global : o.name = p.name => o = p
    /\ MaxChanges \in Nat

VARIABLES
    page,
    there,        \* the objects there are
    data,         \* what the hook lists
    picked,       \* selectedItem
    panelOpen,
    ticked,       \* selectedRows
    dialog,       \* the keys of confirmDelete, or None
    batch,        \* isDeleting: the keys, and those not answered yet
    chosen,       \* selectedNamespaces
    fetching,     \* the YAML of a row is being fetched
    changes,
    clicked,      \* history: the row last clicked
    vanished,     \* history: it was not listed for a while since
    absent        \* history: objects that were not there since a deletion began

opened    == <<picked, panelOpen, clicked, vanished>>
deletion  == <<dialog, batch, absent>>
pagesVars == <<page, there, data, picked, panelOpen, ticked, dialog, batch,
               chosen, fetching, changes, clicked, vanished, absent>>

Objects == IF page.namespaced THEN Named ELSE Global
Spaces  == {o.ns : o \in Named}

\* A page just mounted.
Mounted ==
    /\ data = <<>> /\ picked = None /\ panelOpen = FALSE /\ ticked = {}
    /\ dialog = None /\ batch = None
    /\ clicked = None /\ vanished = FALSE /\ absent = {}

PagesInit ==
    /\ page \in Behaviours
    /\ there = Objects
    /\ Mounted
    /\ chosen = {} /\ fetching = FALSE /\ changes = 0

-----------------------------------------------------------------------------
(* The effects on data. *)

\* Mutant of SameRow: the namespace is forgotten.
SameName(o, p) == o.name = p.name

SameRow(o, p) == o.name = p.name /\ (page.namespaced => o.ns = p.ns)

Find(rows, o) == IF \E p \in Range(rows) : SameRow(o, p)
                 THEN CHOOSE p \in Range(rows) : SameRow(o, p)
                 ELSE None

\* The effect that keeps the selection; the four ways of the pages.
Follow(rows) ==
    LET found == IF picked = None THEN None ELSE Find(rows, picked)
    IN  CASE page.follow = "first"  -> IF rows = <<>> THEN None
                                       ELSE IF found = None THEN rows[1] ELSE found
          [] page.follow = "clear"  -> found
          [] page.follow = "sync"   -> IF panelOpen /\ rows # <<>> THEN found ELSE picked
          [] page.follow = "frozen" -> picked

\* The hook hands over other rows, and the effects run.
Listed(rows) ==
    /\ data' = rows
    /\ picked' = Follow(rows)
    /\ ticked' = IF page.prunes THEN ticked \cap Range(rows) ELSE ticked
    /\ vanished' = (vanished \/ clicked \notin Range(rows))
    /\ UNCHANGED <<page, panelOpen, clicked>>

\* One object is heard of, or its end, which some hooks never hear.
Heard(o) ==
    /\ o \in Objects
    /\ \/ o \in there \ Range(data) /\ Listed(Append(data, o))
       \/ page.hears /\ o \notin there
          /\ \E i \in DOMAIN data : data[i] = o /\ Listed(RemoveAt(data, i))
    /\ UNCHANGED <<there, deletion, chosen, fetching, changes>>

\* The hook forgets its rows: a switch of the cluster.
Reset ==
    /\ data # <<>> /\ changes < MaxChanges /\ changes' = changes + 1
    /\ Listed(<<>>)
    /\ UNCHANGED <<there, deletion, chosen, fetching>>

\* Somebody creates or deletes an object.
Touch(o) ==
    /\ o \in Objects
    /\ changes < MaxChanges /\ changes' = changes + 1
    /\ there' = IF o \in there THEN there \ {o} ELSE there \cup {o}
    /\ absent' = absent \cup (Objects \ there')
    /\ UNCHANGED <<page, data, opened, ticked, dialog, batch, chosen, fetching>>

-----------------------------------------------------------------------------
(* The table, behind the overlay of the panel and of the dialog. *)

Reachable == dialog = None /\ ~(panelOpen /\ picked # None)
Visible   == {o \in Range(data) :
                 page.filtered => chosen = {} \/ o.ns \in chosen}

Click(o) ==
    /\ Reachable /\ o \in Visible
    /\ picked' = o /\ panelOpen' = TRUE
    /\ clicked' = o /\ vanished' = FALSE
    /\ UNCHANGED <<page, there, data, ticked, deletion, chosen, fetching, changes>>

ClosePanel ==
    /\ panelOpen /\ panelOpen' = FALSE
    /\ UNCHANGED <<page, there, data, picked, ticked, deletion, chosen, fetching,
                   changes, clicked, vanished>>

\* One box, the box of the header, or "Clear".
Tick(rows) ==
    /\ page.bulk /\ Reachable
    /\ \/ \E o \in Visible : rows = ticked \cup {o} \/ rows = ticked \ {o}
       \/ rows = Visible \/ rows = {}
    /\ rows # ticked /\ ticked' = rows
    /\ UNCHANGED <<page, there, data, opened, deletion, chosen, fetching, changes>>

toggleNamespace(n) ==
    /\ page.filtered /\ Reachable
    /\ chosen' = IF n \in chosen THEN chosen \ {n} ELSE chosen \cup {n}
    /\ UNCHANGED <<page, there, data, opened, ticked, deletion, fetching, changes>>

\* The YAML of the object shown is fetched for the bottom panel.
OpenYaml ==
    /\ page.yaml /\ panelOpen /\ picked # None /\ dialog = None /\ ~fetching
    /\ panelOpen' = FALSE
    /\ fetching' = TRUE
    /\ UNCHANGED <<page, there, data, picked, ticked, deletion, chosen, changes,
                   clicked, vanished>>

\* It comes, or a blank text, and becomes a tab.
YamlFetched ==
    /\ fetching /\ fetching' = FALSE
    /\ UNCHANGED <<page, there, data, opened, ticked, deletion, chosen, changes>>

\* A shell or the logs of the object shown, from the panel; a tail of logs in a
\* shell of the host leaves it open.
OpenTab(type) ==
    /\ type \in page.opens
    /\ panelOpen /\ picked # None /\ dialog = None
    /\ panelOpen' = (type = "host-shell")
    /\ UNCHANGED <<page, there, data, picked, ticked, deletion, chosen, fetching,
                   changes, clicked, vanished>>

\* The button of a row, which is not a click on the row.
handleTailLogs == page.tails /\ Reachable /\ Visible # {} /\ UNCHANGED pagesVars

-----------------------------------------------------------------------------
(* Deletion. *)

handleDeleteSingle ==
    /\ page.single /\ panelOpen /\ picked # None /\ dialog = None
    /\ dialog' = {picked}
    /\ panelOpen' = page.stays
    /\ UNCHANGED <<page, there, data, picked, ticked, batch, absent, chosen,
                   fetching, changes, clicked, vanished>>

handleDeleteSelected ==
    /\ page.bulk /\ ticked # {} /\ dialog = None
    /\ dialog' = ticked
    /\ UNCHANGED <<page, there, data, opened, ticked, batch, absent, chosen,
                   fetching, changes>>

\* The backdrop closes the dialog also while the deletion is under way.
Cancel ==
    /\ dialog # None /\ dialog' = None
    /\ UNCHANGED <<page, there, data, opened, ticked, batch, absent, chosen,
                   fetching, changes>>

\* handleConfirmDelete up to its await: a call for each key.
handleConfirmDelete ==
    /\ dialog # None /\ batch = None
    /\ batch' = [keys |-> dialog, left |-> dialog]
    /\ absent' = Objects \ there
    /\ UNCHANGED <<page, there, data, opened, ticked, dialog, chosen, fetching,
                   changes>>

\* Promise.all has every answer: whatever dialog there is closes, every tick goes.
Succeed ==
    /\ batch' = None /\ dialog' = None
    /\ ticked' = {}
    /\ IF page.wipes
       THEN picked' = None /\ panelOpen' = FALSE
       ELSE UNCHANGED <<picked, panelOpen>>

\* The first failure ends the wait for the others; most pages say nothing, and
\* the dialog stays with all its keys.
GiveUp ==
    /\ batch' = None
    /\ dialog' = IF page.fails = "close" THEN None ELSE dialog
    /\ UNCHANGED <<ticked, picked, panelOpen>>

Wait(left) ==
    /\ batch' = [batch EXCEPT !.left = left]
    /\ UNCHANGED <<dialog, ticked, picked, panelOpen>>

\* Mutant of Settle: a call that failed counts as answered.
SettleAny(o, outcome) == IF batch.left = {o} THEN Succeed ELSE Wait(batch.left \ {o})

Settle(o, outcome) ==
    IF outcome = "throws" THEN GiveUp
    ELSE IF batch.left = {o} THEN Succeed ELSE Wait(batch.left \ {o})

\* The answer to one call: the object goes, there was none, or the call fails.
\* (A 401 ends the session, and the page with it: FrontEnd.)
Answered(o, a) ==
    /\ batch # None /\ o \in batch.left
    /\ \/ /\ a = "ok" /\ o \in there
          /\ there' = there \ {o} /\ absent' = absent \cup {o}
          /\ UNCHANGED changes
       \/ /\ a = "refused" /\ o \notin there
          /\ UNCHANGED <<there, absent, changes>>
       \/ /\ a \in {"refused", "dead"} /\ o \in there
          /\ changes < MaxChanges /\ changes' = changes + 1
          /\ UNCHANGED <<there, absent>>
    /\ Settle(o, page.deletion[a])
    /\ UNCHANGED <<page, data, chosen, fetching, clicked, vanished>>

\* The page is left, for another or because the session ended.
Leave ==
    /\ data' = <<>> /\ picked' = None /\ panelOpen' = FALSE /\ ticked' = {}
    /\ dialog' = None /\ batch' = None
    /\ clicked' = None /\ vanished' = FALSE /\ absent' = {}
    /\ UNCHANGED <<page, there, chosen, fetching, changes>>

PagesOwn ==
    \/ \E o \in Named \cup Global : \/ Heard(o) \/ Touch(o) \/ Click(o)
                                    \/ \E a \in Answers : Answered(o, a)
    \/ \E rows \in SUBSET Objects : Tick(rows)
    \/ \E n \in Spaces : toggleNamespace(n)
    \/ Reset \/ ClosePanel \/ OpenYaml \/ handleDeleteSingle
    \/ handleDeleteSelected \/ Cancel \/ handleConfirmDelete \/ Leave

-----------------------------------------------------------------------------
PagesType ==
    /\ page \in Behaviours
    /\ there \subseteq Objects
    /\ data \in Seq(Objects) /\ IsInjective(data)
    /\ {picked, clicked} \subseteq Objects \cup {None}
    /\ {panelOpen, vanished, fetching} \subseteq BOOLEAN
    /\ ticked \subseteq Objects /\ absent \subseteq Objects
    /\ dialog = None \/ dialog \subseteq Objects
    /\ batch = None \/ batch.left \subseteq batch.keys
    /\ chosen \subseteq Spaces
    /\ changes \in 0 .. MaxChanges

\* The panel, whose buttons delete, shows the object that was clicked, however
\* the list changed under it: only on the pages that fall back to the first row
\* can it become another, and only when the one clicked was gone for a while.
\* A page that prunes its ticks has none on rows that are not listed.
PanelShowsClicked ==
    /\ panelOpen /\ picked # None /\ (vanished => page.follow # "first")
          => picked = clicked
    /\ page.prunes => ticked \subseteq Range(data)

\* A dialog that was confirmed closes by itself only when every object it named
\* has been gone since; on the pages that report a failure it may close then.
DialogTells ==
    [][/\ batch # None /\ batch' = None
       /\ dialog = batch.keys /\ dialog' = None /\ ~Mounted'
       => batch.keys \subseteq absent' \/ page.fails = "close"]_pagesVars

=============================================================================
