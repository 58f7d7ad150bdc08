SPECIFICATION Spec
CONSTANTS
  Peers <- MCPeers
  ServerTimes <- MCServerTimes
  MaxRequests = 2
INVARIANTS
  LoginPushIsForLogin
