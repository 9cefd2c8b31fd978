SPECIFICATION FairSpec
CONSTANTS
  layout = layout
  page1 = page1
  page2 = page2
  namespaces = namespaces
  deployments = deployments
  Hooks = {layout, page1, page2}
  Resources = {namespaces, deployments}
  Watches <- PageWatches
  Sockets = {k1, k2}
  None = None
  MaxMounts = 2
  MaxRefreshes = 1
  MaxDrops = 0
  MaxStalls = 0
PROPERTIES
  AlwaysWatched
CHECK_DEADLOCK FALSE
