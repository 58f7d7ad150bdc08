--------------------------- MODULE MCMessageSync ---------------------------
(* MessageSync for TLC: versions below and from 3 on, the one that changes
   the format. *)
EXTENDS MessageSync

MCVersions == {2, 3}

=============================================================================
