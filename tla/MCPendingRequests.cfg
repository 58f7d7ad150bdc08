SPECIFICATION Spec
CONSTANTS
  Peers <- MCPeers
  ServerTimes <- MCServerTimes
  MaxRequests = 3
INVARIANTS
  TypeOK
  OnlyLatestPending
  LatestAwaited
  NoMorePushesThanRequests
  TagPushesMatchLatest
