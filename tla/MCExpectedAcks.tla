-------------------------- MODULE MCExpectedAcks --------------------------
(* ExpectedAcks for TLC: a table of two entries that wraps twice, two hashes
   so that repeats occur, a clock that wraps within the behaviour.  The
   properties of the table do not look at the contacts, one is enough there;
   moving pointers takes two. *)
EXTENDS ExpectedAcks

MCAcks == {1, 2}
OneContact  == {"alice"}
TwoContacts == {"alice", "bob"}

=============================================================================
