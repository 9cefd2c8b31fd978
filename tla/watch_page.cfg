SPECIFICATION MCSpec
CONSTANTS
  Names = {a, b}
  Second = {b}
  First = t
  Beside = k
  Hooks = {h, k, g}
  Pages = {{h}, {g}, {h, k}}
  Reconciled = {g}
  Tasks = {t, u}
  Polls = {p}
  None = None
  Asked = Asked
  ClusterScoped = {g}
  MaxChanges = 2
  MaxErrors = 1
  MaxDrops = 1
  MaxMounts = 2
INVARIANTS
  IInv
  SettledShowsAll
PROPERTIES
  Converges
CHECK_DEADLOCK FALSE
