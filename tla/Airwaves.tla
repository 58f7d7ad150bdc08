----------------------------- MODULE Airwaves -----------------------------
(***************************************************************************)
(* What a node promises about the packets it puts on the air: each takes   *)
(* one of a fixed number of packets and gives it back when it has left;    *)
(* each is of the scope the app asked for last; and what a packet tells of *)
(* the node itself is what the settings in force allow.  The app is told   *)
(* that a packet is sent if and only if it is queued.                      *)
(***************************************************************************)
EXTENDS Naturals

CONSTANTS
  PoolSize,     \* packets there are
  Tellable,     \* what a node tells of itself, among it "base", "location"
  Unscoped,     \* the scope of a packet without one
  Asking,       \* the peers that ask for it
  NoPacket

VARIABLES
  queued,       \* number of the packets to be sent
  newest,       \* the packet queued in this step, or NoPacket
  spare,        \* packets not in use
  rules,        \* [position, repeat : BOOLEAN, home : the default scope,
                \*  open : SUBSET Tellable, told to everyone,
                \*  granted : [Asking -> SUBSET Tellable]]
  chosen,       \* the scope the app chose last, or "default"
  told          \* the answer to the app in this step

airVars == <<queued, newest, spare, rules, chosen, told>>

ScopeChosen == IF chosen = "default" THEN rules.home ELSE chosen

MayTell(peer) == rules.open \union rules.granted[peer]

\* A packet of the kinds that tell something of the node, or are sent under
\* a condition.
Allowed(p) ==
  /\ p.kind = "advert" => p.tells \subseteq IF rules.position THEN {"location"} ELSE {}
  /\ p.kind = "telemetry" => p.tells \subseteq MayTell(p.to) /\ "base" \in p.tells
  /\ p.kind \notin {"advert", "telemetry"} => p.tells = {}
  /\ p.kind = "relay" => rules.repeat
  /\ p.scope # Unscoped => p.route = "flood"
  /\ p.route = "flood" =>
       CASE p.kind = "advert" -> p.scope = rules.home
         [] p.kind \in {"message", "telemetry"} -> p.scope = ScopeChosen
         [] OTHER -> TRUE

Put(p) ==
  /\ spare > 0 /\ spare' = spare - 1
  /\ queued' = queued + 1
  /\ newest' = p /\ Allowed(p)
  /\ UNCHANGED <<rules, chosen>>

Asked(p) == Put(p) /\ told' = "sent"
Unasked(p) == Put(p) /\ told' = "nothing"

NothingPut == newest' = NoPacket /\ told' # "sent"

Refused == told' = "error" /\ UNCHANGED <<queued, spare, rules, chosen>>
Idle == told' = "nothing" /\ UNCHANGED <<queued, spare, rules, chosen>>

\* A packet has left.
Left ==
  /\ queued > 0
  /\ queued' = queued - 1
  /\ spare' = spare + 1
  /\ UNCHANGED <<rules, chosen>>

\* The app sets something; nothing that is queued changes.
Changed == told' = "ok" /\ UNCHANGED <<queued, spare>>

AirNext ==
  \/ newest' # NoPacket /\ (Asked(newest') \/ Unasked(newest'))
  \/ NothingPut /\ (Refused \/ Idle \/ Left \/ Changed)

AirInit ==
  /\ queued = 0 /\ spare = PoolSize
  /\ newest = NoPacket /\ told = "nothing"

AirSpec == AirInit /\ [][AirNext]_airVars

=============================================================================
