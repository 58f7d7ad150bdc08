------------------------ MODULE MCPendingRequests ------------------------
(* PendingRequests for TLC: two peers, so that answers of the wrong one come,
   and server clocks that can show what a tag shows. *)
EXTENDS PendingRequests

MCPeers       == {1, 2}
MCServerTimes == {1, 3}

=============================================================================
