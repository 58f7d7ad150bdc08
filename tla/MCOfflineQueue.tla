-------------------------- MODULE MCOfflineQueue --------------------------
(* OfflineQueue for TLC: three slots and five frames, so that evictions and
   readings alternate; the five codes are those of received messages. *)
EXTENDS OfflineQueue

=============================================================================
