------------------------------- MODULE Inbox -------------------------------
(***************************************************************************)
(* What the node promises about messages that arrive while nobody reads    *)
(* them: a bounded set of waiting messages, read oldest first.  When the   *)
(* set is full the newest broadcast pushes out the oldest one waiting, and *)
(* a message is turned away only when no broadcast is left to give up.     *)
(* Messages carry the number of their arrival in the field id.             *)
(***************************************************************************)
EXTENDS Naturals, FiniteSets, Sequences

CONSTANTS
  Capacity,   \* how many messages may wait, at least one
  Message,    \* the messages, records with a field id
  Broadcast   \* the subset of them the inbox may give up

VARIABLES
  waiting,    \* the messages that wait
  delivered,  \* the messages read so far, in the order of reading
  lost        \* the messages pushed out or turned away

inboxVars == <<waiting, delivered, lost>>

Oldest(S) == {m \in S : \A n \in S : m.id <= n.id}

InboxInit ==
  /\ waiting = {}
  /\ delivered = <<>>
  /\ lost = {}

Keep(m) ==
  /\ Cardinality(waiting) < Capacity
  /\ waiting' = waiting \union {m}
  /\ UNCHANGED <<delivered, lost>>

PushOut(m) ==
  /\ Cardinality(waiting) = Capacity
  /\ \E b \in Oldest(waiting \intersect Broadcast) :
       /\ waiting' = (waiting \ {b}) \union {m}
       /\ lost' = lost \union {b}
  /\ UNCHANGED delivered

TurnAway(m) ==
  /\ Cardinality(waiting) = Capacity
  /\ waiting \intersect Broadcast = {}
  /\ lost' = lost \union {m}
  /\ UNCHANGED <<waiting, delivered>>

Arrive(m) == Keep(m) \/ PushOut(m) \/ TurnAway(m)

Read ==
  /\ \E m \in Oldest(waiting) :
       /\ waiting' = waiting \ {m}
       /\ delivered' = Append(delivered, m)
  /\ UNCHANGED lost

InboxNext ==
  \/ \E m \in Message : (\A n \in waiting : n.id < m.id) /\ Arrive(m)
  \/ Read

InboxSpec == InboxInit /\ [][InboxNext]_inboxVars

=============================================================================
