SPECIFICATION Spec
CONSTANTS
  Route = {"list", "item", "top", "bare", "save"}
  RouteConf <- MCRouteConf
  Prefix = {"api", "view", "warmup", "metric", "config", "status", "openapi"}
  PrefixUri <- MCPrefixUri
  ApiKeys <- MCApiKeys
  Segment <- MCSegment
  ApiRelative = FALSE
  Wild = "{id}"
  OneChar = {"5"}
  View = {"product", "price", "offer", "saved"}
  ParamView = {"allowed"}
  Conf <- MCConf
  MaxRows = 2
  Value <- MCValue
  Requests <- MCRequests
  ParentKeys <- MCParentKeys
INVARIANTS
  SelectorsSound
  RoutedRight
  StatusIsHighest
  ErrorsComplete
  RequiredPresent
  QueriesSound
  AllOrNothing
PROPERTIES
  Answered
