-------------------------- MODULE MCContactStore --------------------------
(* ContactStore for TLC: a table of two entries and three keys, so that it
   fills; a counter that wraps while a save is armed. *)
EXTENDS ContactStore

MCKeys == {"alice", "bob", "carol"}

=============================================================================
