SPECIFICATION Spec
CHECK_DEADLOCK FALSE
CONSTANTS
  v1 = v1
  v2 = v2
  v3 = v3
  v4 = v4
  k1 = k1
  k2 = k2
  k3 = k3
  k4 = k4
  c1 = c1
  c2 = c2
  c3 = c3
  d1 = d1
  d2 = d2
  NoCase = NoCase
  View <- MCView
  Case <- MCCase
  CasesOf <- MCCasesOf
  Sizes <- MCSizes
  BadCase <- MCBadCase
  Meta <- MCMeta
  MayFailSQL <- MCMayFailSQL
  MayFailIndex <- MCMayFailIndex
  Caller <- AllEntries
  Connector <- MCConnector
  ConnectorOf <- MCConnectorOf
  Key <- MCKey
  KeyOf <- MCKeyOf
  MayFailSecret <- MCMayFailSecret
  BadDsn <- MCBadDsn
  MayBeSilent <- MCMayBeSilent
  MaxOpen = 2
INVARIANTS
  WarmupSound
  CountExact
  PoolSound
PROPERTIES
  Ends
