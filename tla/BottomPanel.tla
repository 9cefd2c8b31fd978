------------------------------ MODULE BottomPanel ------------------------------
(***************************************************************************)
(* The panel of tabs under every page: terminals, logs, YAML editors and   *)
(* the form that installs a chart.  Collapsing unmounts the contents of    *)
(* all tabs: terminals hang up, the form forgets; editors keep their text, *)
(* which belongs to the tab.                                               *)
(*                                                                         *)
(* A text is a number, 0 the one a tab was opened with.  Heights, labels   *)
(* and the README of a chart are left out.                                 *)
(***************************************************************************)
EXTENDS Naturals, Sequences, SequencesExt, RestCalls

CONSTANTS
    MaxTabs,      \* bound on tabs opened
    MaxText,      \* bound on texts
    Versions      \* versions of the chart being installed

ASSUME PanelAssumption ==
    /\ {MaxTabs, MaxText} \subseteq Nat
    /\ Versions # {} /\ {"builtin", "edited"} \cap Versions = {}

VARIABLES
    tabs,         \* the ids of the tabs, in order
    tab,          \* what each id is
    activeTabId,
    collapsed,
    fullScreen, beforeFull,     \* savedBeforeFullScreen: collapsed, or None
    applying,     \* yamlActionLoading: the tab and the text sent
    form,         \* the install form of each id
    installing,   \* the tab whose installation is in flight (one at a time)
    good,         \* history: the text of a tab the server has, or was opened with
    raced         \* history: tabs edited while their text was being applied

panelVars == <<tabs, tab, activeTabId, collapsed, fullScreen, beforeFull,
               applying, form, installing, good, raced>>

Ids   == 1 .. MaxTabs
Texts == 0 .. MaxText

\* Tabs whose content is a connection (a terminal) or a request (logs), once
\* there is a pod or a node to connect to.
Wired == {"host-shell", "pod-exec", "logs"}
Kinds == Wired \cup {"yaml-editor", "install-chart"}

ASSUME NoneIsNoKind == None \notin Kinds \cup {"closed"}

NoTab  == [type |-> None, target |-> FALSE, text |-> 0, saved |-> 0,
           dirty |-> FALSE, wire |-> "off"]
Closed == [NoTab EXCEPT !.type = "closed"]
First  == CHOOSE v \in Versions : TRUE   \* the version the chart was listed with

\* A form just mounted: the values are the built-in ones until the chart's come.
NewForm == [version |-> First, values |-> "builtin", fetched |-> FALSE]

PanelInit ==
    /\ tabs = <<>> /\ activeTabId = None
    /\ tab = [i \in Ids |-> NoTab]
    /\ collapsed = FALSE /\ fullScreen = FALSE /\ beforeFull = None
    /\ applying = None /\ installing = None
    /\ form = [i \in Ids |-> NewForm]
    /\ good = [i \in Ids |-> 0] /\ raced = {}

Open == Range(tabs)

-----------------------------------------------------------------------------
(* The contents of the tabs, mounted together unless the panel is collapsed. *)

TabContent(t) == IF t.type \in Wired /\ t.target
                 THEN [t EXCEPT !.wire = "dialing"] ELSE t

Unmounted(t) == [t EXCEPT !.wire = "off"]

\* collapsed becomes c, and the contents of the tabs ts follow.
Collapsing(c, ts) ==
    /\ collapsed' = c
    /\ form' = IF c THEN [i \in Ids |-> NewForm] ELSE form
    /\ tab' = CASE c -> [i \in Ids |-> Unmounted(ts[i])]
                [] ~c /\ collapsed -> [i \in Ids |-> TabContent(ts[i])]
                [] OTHER -> ts

\* doAddTab, for the event panel:open or from the menu.
doAddTab(type, target) ==
    /\ target => type \in Wired
    /\ type = "host-shell" => target
    /\ \E i \in Ids : tab[i] = NoTab
    /\ LET i == CHOOSE i \in Ids : tab[i] = NoTab
           t == TabContent([NoTab EXCEPT !.type = type, !.target = target])
       IN  /\ tabs' = Append(tabs, i)
           /\ activeTabId' = i
           /\ Collapsing(FALSE, [tab EXCEPT ![i] = t])
    /\ UNCHANGED <<fullScreen, beforeFull, applying, installing, good, raced>>

LastOf(ts) == IF ts = <<>> THEN None ELSE Last(ts)

\* closeTab, of a caller that saw the tab seen active.  No two tabs have one id.
closeTab(i, seen) ==
    /\ tabs' = RemoveFirst(tabs, i)
    /\ activeTabId' = IF seen = i THEN LastOf(tabs') ELSE activeTabId
    /\ tab' = [tab EXCEPT ![i] = Closed]
    /\ form' = [form EXCEPT ![i] = NewForm]

Close(i) ==
    /\ i \in Open
    /\ closeTab(i, activeTabId)
    /\ UNCHANGED <<collapsed, fullScreen, beforeFull, applying, installing, good, raced>>

Activate(i) ==
    /\ i \in Open
    /\ activeTabId' = i
    /\ Collapsing(FALSE, tab)
    /\ UNCHANGED <<tabs, fullScreen, beforeFull, applying, installing, good, raced>>

\* The menu of new tabs opens, over the contents.
handleAddClick ==
    /\ collapsed
    /\ Collapsing(FALSE, tab)
    /\ UNCHANGED <<tabs, activeTabId, fullScreen, beforeFull, applying,
                   installing, good, raced>>

ToggleCollapsed ==
    /\ tabs # <<>>
    /\ Collapsing(~collapsed, tab)
    /\ UNCHANGED <<tabs, activeTabId, fullScreen, beforeFull, applying,
                   installing, good, raced>>

toggleFullScreen ==
    /\ tabs # <<>>
    /\ fullScreen' = ~fullScreen
    /\ IF ~fullScreen
       THEN beforeFull' = collapsed /\ Collapsing(FALSE, tab)
       ELSE /\ beforeFull' = None
            /\ Collapsing(IF beforeFull = None THEN collapsed ELSE beforeFull, tab)
    /\ UNCHANGED <<tabs, activeTabId, applying, installing, good, raced>>

\* Escape leaves full screen, and what was saved before it behind.
Escape ==
    /\ fullScreen /\ fullScreen' = FALSE
    /\ UNCHANGED <<tabs, tab, activeTabId, collapsed, beforeFull, applying,
                   form, installing, good, raced>>

-----------------------------------------------------------------------------
(* Terminals and logs. *)

InFront(i) == i \in Open /\ activeTabId = i /\ ~collapsed

\* connectTab: a pod or a node is chosen.
connectTab(i) ==
    /\ InFront(i)
    /\ tab[i].type \in Wired /\ ~tab[i].target
    /\ tab' = [tab EXCEPT ![i] = TabContent([@ EXCEPT !.target = TRUE])]
    /\ UNCHANGED <<tabs, activeTabId, collapsed, fullScreen, beforeFull,
                   applying, form, installing, good, raced>>

\* The connection, or the request, succeeds or ends; logs can be asked again.
\* Unmounting closes a terminal's socket; a log still being fetched is not
\* aborted, but there is nothing left to show it, and its wire is off as well.
Wire(i) ==
    /\ \/ tab[i].wire = "dialing" /\ \E w \in {"open", "closed"} :
                                        tab' = [tab EXCEPT ![i].wire = w]
       \/ tab[i].wire = "open" /\ tab[i].type # "logs"
             /\ tab' = [tab EXCEPT ![i].wire = "closed"]
       \/ /\ InFront(i) /\ tab[i].type = "logs"
          /\ tab[i].wire \in {"open", "closed"}
          /\ tab' = [tab EXCEPT ![i].wire = "dialing"]
    /\ UNCHANGED <<tabs, activeTabId, collapsed, fullScreen, beforeFull,
                   applying, form, installing, good, raced>>

-----------------------------------------------------------------------------
(* The YAML editor. *)

updateYaml(i, text) ==
    /\ InFront(i) /\ tab[i].type = "yaml-editor" /\ text # tab[i].text
    /\ tab' = [tab EXCEPT ![i].text = text, ![i].dirty = text # tab[i].saved]
    /\ raced' = IF applying # None /\ applying.tab = i THEN raced \cup {i} ELSE raced
    /\ UNCHANGED <<tabs, activeTabId, collapsed, fullScreen, beforeFull,
                   applying, form, installing, good>>

handleYamlPrimaryAction ==
    /\ activeTabId # None
    /\ LET t == tab[activeTabId]
       IN  /\ t.type = "yaml-editor" /\ t.dirty /\ applying = None
           /\ applying' = [tab |-> activeTabId, text |-> t.text]
    /\ UNCHANGED <<tabs, tab, activeTabId, collapsed, fullScreen, beforeFull,
                   form, installing, good, raced>>

\* After its await: the text sent is the saved one, and the tab is clean.
Saved(i, text) == [tab EXCEPT ![i].saved = text, ![i].dirty = FALSE]

\* Mutant of YamlApplied: the tab is clean also when the call failed.
YamlAppliedAnyway(ok) ==
    /\ applying # None /\ applying' = None
    /\ tab'  = IF applying.tab \in Open THEN Saved(applying.tab, applying.text) ELSE tab
    /\ good' = IF ok THEN [good EXCEPT ![applying.tab] = applying.text] ELSE good
    /\ UNCHANGED <<tabs, activeTabId, collapsed, fullScreen, beforeFull,
                   form, installing, raced>>

YamlApplied(ok) ==
    /\ applying # None /\ applying' = None
    /\ tab'  = IF ok /\ applying.tab \in Open
               THEN Saved(applying.tab, applying.text) ELSE tab
    /\ good' = IF ok THEN [good EXCEPT ![applying.tab] = applying.text] ELSE good
    /\ UNCHANGED <<tabs, activeTabId, collapsed, fullScreen, beforeFull,
                   form, installing, raced>>

-----------------------------------------------------------------------------
(* The install form. *)

Installer(i) == InFront(i) /\ tab[i].type = "install-chart"

\* Another version: its values are fetched, or in the cache.
ChooseVersion(i, v) ==
    /\ Installer(i) /\ v # form[i].version
    /\ form' = [form EXCEPT ![i].version = v, ![i].fetched = FALSE]
    /\ UNCHANGED <<tabs, tab, activeTabId, collapsed, fullScreen, beforeFull,
                   applying, installing, good, raced>>

\* The effect on the values that came; they replace what was edited.
ValuesFetched(i) ==
    /\ i \in Open /\ tab[i].type = "install-chart"
    /\ ~collapsed /\ ~form[i].fetched
    /\ form' = [form EXCEPT ![i].fetched = TRUE, ![i].values = form[i].version]
    /\ UNCHANGED <<tabs, tab, activeTabId, collapsed, fullScreen, beforeFull,
                   applying, installing, good, raced>>

handleValuesChange(i) ==
    /\ Installer(i) /\ form[i].values # "edited"
    /\ form' = [form EXCEPT ![i].values = "edited"]
    /\ UNCHANGED <<tabs, tab, activeTabId, collapsed, fullScreen, beforeFull,
                   applying, installing, good, raced>>

handleInstall(i) ==
    /\ Installer(i) /\ installing = None
    /\ installing' = i
    /\ UNCHANGED <<tabs, tab, activeTabId, collapsed, fullScreen, beforeFull,
                   applying, form, good, raced>>

\* After its await: a success closes the tab, as the one that was active when
\* the button was pressed, wherever the user is now.
Installed(ok) ==
    /\ installing # None /\ installing' = None
    /\ IF ok THEN closeTab(installing, installing)
             ELSE UNCHANGED <<tabs, tab, activeTabId, form>>
    /\ UNCHANGED <<collapsed, fullScreen, beforeFull, applying, good, raced>>

PanelNext ==
    \/ \E k \in Kinds, b \in BOOLEAN : doAddTab(k, b)
    \/ \E i \in Ids : \/ Close(i) \/ Activate(i) \/ connectTab(i) \/ Wire(i)
                      \/ handleValuesChange(i) \/ handleInstall(i)
                      \/ ValuesFetched(i)
    \/ \E i \in Ids, x \in Texts : updateYaml(i, x)
    \/ \E i \in Ids, v \in Versions : ChooseVersion(i, v)
    \/ \E ok \in BOOLEAN : YamlApplied(ok) \/ Installed(ok)
    \/ handleAddClick \/ ToggleCollapsed \/ toggleFullScreen \/ Escape
    \/ handleYamlPrimaryAction

\* The layout goes, and with it the panel and all that it holds.
PanelUnmounts ==
    /\ tabs' = <<>> /\ activeTabId' = None
    /\ tab' = [i \in Ids |-> NoTab]
    /\ collapsed' = FALSE /\ fullScreen' = FALSE /\ beforeFull' = None
    /\ applying' = None /\ installing' = None
    /\ form' = [i \in Ids |-> NewForm]
    /\ good' = [i \in Ids |-> 0] /\ raced' = {}

PanelSpec == PanelInit /\ [][PanelNext]_panelVars

-----------------------------------------------------------------------------
PanelType ==
    /\ tabs \in Seq(Ids) /\ IsInjective(tabs)
    /\ tab \in [Ids -> [type : Kinds \cup {None, "closed"}, target : BOOLEAN,
                        text : Texts, saved : Texts, dirty : BOOLEAN,
                        wire : {"off", "dialing", "open", "closed"}]]
    /\ activeTabId \in Ids \cup {None}
    /\ {collapsed, fullScreen} \subseteq BOOLEAN
    /\ beforeFull \in BOOLEAN \cup {None}
    /\ applying \in [tab : Ids, text : Texts] \cup {None}
    /\ form \in [Ids -> [version : Versions, fetched : BOOLEAN,
                         values : Versions \cup {"builtin", "edited"}]]
    /\ installing \in Ids \cup {None}
    /\ good \in [Ids -> Texts] /\ raced \subseteq Ids

\* The panel keeps its promises, whatever finishes after the user went on.
\* There is an active tab exactly when there are tabs, and it is one of them.
\* A tab shown as saved holds what the server accepted, unless it was edited
\* while it was being applied.  No connection outlives its tab or a collapse,
\* and fetched values are the chosen version's unless they were edited.
TabsSound ==
    /\ IF tabs = <<>> THEN activeTabId = None ELSE activeTabId \in Open
    /\ \A i \in Open \ raced : tab[i].dirty <=> tab[i].text # good[i]
    /\ \A i \in Ids : tab[i].wire # "off" => i \in Open /\ ~collapsed
    /\ \A i \in Ids : form[i].fetched => form[i].values \in {"edited", form[i].version}

=============================================================================
