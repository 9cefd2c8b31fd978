SPECIFICATION FairSpec
CONSTANTS
  layout = layout
  page1 = page1
  page2 = page2
  namespaces = namespaces
  deployments = deployments
  Hooks = {layout, page1, page2}
  Resources = {namespaces, deployments}
  Watches <- PageWatches
  Sockets = {k1, k2, k3}
  None = None
  MaxMounts = 4
  MaxRefreshes = 1
  MaxDrops = 1
  MaxStalls = 1
INVARIANTS
  Inv
  SingleSocket
  LiveIsSubscribed
  NeverStranded
PROPERTIES
  EventuallyWatched
CHECK_DEADLOCK FALSE
