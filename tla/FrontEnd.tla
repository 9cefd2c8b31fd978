-------------------------------- MODULE FrontEnd --------------------------------
(***************************************************************************)
(* The application: the session, and what is mounted while it lasts, the   *)
(* layout with its cluster picker, the pages, the bottom panel and the     *)
(* toaster.  The parts meet in four places: a page opens tabs of the       *)
(* panel, a call that is answered with 401 ends the session, logging out   *)
(* unmounts everything, logging in mounts it anew.                         *)
(*                                                                         *)
(* A behaviour uses one part, the scene; the others wait.  Nothing else    *)
(* passes between them, so their interleavings show nothing more.          *)
(***************************************************************************)
EXTENDS Session, ClusterPicker, BottomPanel, ListPages, BackupPages, WorkloadRows

CONSTANT User   \* who is logged in when a scene other than the login opens

ASSUME UserAssumption == User \in Users

VARIABLE scene

Scenes == {"login", "picker", "panel", "pages", "backups", "rows"}

frontVars == <<scene, sessionVars, pickerVars, panelVars, pagesVars, backupVars,
               rowsVars>>

SignedIn ==
    /\ token = User /\ named = User /\ lapsed = FALSE
    /\ authenticated = TRUE /\ authUser = User /\ timer = TRUE
    /\ refreshing = Quiet /\ calls = Quiet /\ entering = None
    /\ trouble = 0 /\ overtaken = FALSE

\* Each part in its initial states, or in one of them when it is not used.
FrontInit ==
    /\ scene \in Scenes
    /\ IF scene = "login" THEN SessionInit ELSE SignedIn
    /\ PickerInit  /\ (scene # "picker" => served = 1)
    /\ PanelInit
    /\ PagesInit   /\ (scene # "pages" => page = CHOOSE p \in Behaviours : TRUE)
    /\ BackupsInit /\ (scene # "backups" => stored = Nothing)
    /\ RowsInit    /\ (scene # "rows" =>
                          /\ kind = "deployments"
                          /\ object = CHOOSE o \in WorkloadObjects(kind) : TRUE)

-----------------------------------------------------------------------------
(* The parts by themselves. *)

AtLogin ==
    /\ scene = "login" /\ SessionNext
    /\ UNCHANGED <<scene, pickerVars, panelVars, pagesVars, backupVars, rowsVars>>

InPicker(A) ==
    /\ scene = "picker" /\ A
    /\ UNCHANGED <<scene, sessionVars, panelVars, pagesVars, backupVars, rowsVars>>

InPanel ==
    /\ scene = "panel" /\ authenticated /\ PanelNext
    /\ UNCHANGED <<scene, sessionVars, pickerVars, pagesVars, backupVars, rowsVars>>

OnPage ==
    /\ scene = "pages" /\ authenticated /\ PagesOwn
    /\ UNCHANGED <<scene, sessionVars, pickerVars, panelVars, backupVars, rowsVars>>

AtBackups ==
    /\ scene = "backups" /\ BackupsNext
    /\ UNCHANGED <<scene, sessionVars, pickerVars, panelVars, pagesVars, rowsVars>>

InRow ==
    /\ scene = "rows" /\ RowsNext
    /\ UNCHANGED <<scene, sessionVars, pickerVars, panelVars, pagesVars, backupVars>>

-----------------------------------------------------------------------------
(* Where they meet. *)

\* The event panel:open, which nobody hears when the user is out.
PageOpensTab ==
    /\ scene = "pages"
    /\ \/ /\ authenticated
          /\ \/ \E t \in Wired : OpenTab(t) /\ doAddTab(t, TRUE)
             \/ handleTailLogs /\ doAddTab("host-shell", TRUE)
       \/ /\ YamlFetched
          /\ IF authenticated THEN doAddTab("yaml-editor", FALSE)
                              ELSE UNCHANGED panelVars
    /\ UNCHANGED <<scene, sessionVars, pickerVars, backupVars, rowsVars>>

\* handleLogout shows the login page in place of the layout.
Unmount ==
    /\ Leave /\ PanelUnmounts
    /\ UNCHANGED <<scene, pickerVars, backupVars, rowsVars>>

SignOut == scene \in {"pages", "panel"} /\ Logout /\ Unmount

\* A deletion is answered with 401.
Expired ==
    /\ scene = "pages"
    /\ batch # None /\ page.expires
    /\ trouble < MaxTrouble /\ trouble' = trouble + 1
    /\ UNCHANGED <<refreshing, entering, calls>>
    /\ handleLogout
    /\ Unmount

SignIn ==
    /\ scene \in {"pages", "panel"} /\ ~authenticated
    /\ Submit(User) \/ Enter
    /\ UNCHANGED <<scene, pickerVars, panelVars, pagesVars, backupVars, rowsVars>>

FrontNext ==
    \/ AtLogin \/ InPanel \/ OnPage \/ AtBackups \/ InRow
    \/ InPicker(PickerNext)
    \/ PageOpensTab \/ SignOut \/ Expired \/ SignIn

\* The interval of the layout runs, and what it asks is answered.
FrontFairness ==
    /\ WF_frontVars(InPicker(Refresh))
    /\ \A r \in Polls : /\ WF_frontVars(InPicker(StatusServed(r)))
                         /\ WF_frontVars(InPicker(LayoutAnswer(r)))

FrontSpec == FrontInit /\ [][FrontNext]_frontVars /\ FrontFairness

-----------------------------------------------------------------------------
TypeOK ==
    /\ scene \in Scenes
    /\ SessionType /\ PickerType /\ PanelType /\ PagesType /\ BackupsType /\ RowsType

\* In the end the layout names the cluster that the server uses (StatusSettles).
LayoutSettles == scene = "picker" => StatusSettles

=============================================================================
