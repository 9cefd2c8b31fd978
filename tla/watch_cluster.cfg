SPECIFICATION FairSpec
CONSTANTS
  Names = {a}
  Hooks = {h}
  Reconciled = {}
  Tasks = {t}
  Polls = {}
  None = None
  Asked = Asked
  ClusterScoped = {h}
  MaxChanges = 2
  MaxErrors = 0
  MaxDrops = 0
  MaxMounts = 1
PROPERTIES
  DeletedLeaves
CHECK_DEADLOCK FALSE
