SPECIFICATION MCSpec
CONSTANTS
  None = None
  Users = {u, v}
  User = u
  Nameless = Nameless
  Slots = {s, t}
  Used <- MCUsed
  MaxTrouble = 2
  Polls = {p, q}
  LastCluster = 2
  MaxFailures = 1
  MaxElsewhere = 1
  MaxTabs = 2
  MaxText = 2
  Versions = {v1, v2}
  Named <- MCNamed
  Global <- MCGlobal
  MaxChanges = 1
  Backups = {b, c}
  MaxFaults = 1
  MaxReplicas = 2
INVARIANTS
  TypeOK
  StoredIsShown
  TabsSound
  PanelShowsClicked
  AnnouncedOnce
PROPERTIES
  DialogTells
  RowsAgree
  LayoutSettles
CHECK_DEADLOCK FALSE
