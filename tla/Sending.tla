------------------------------ MODULE Sending ------------------------------
(***************************************************************************)
(* What makes the node send (src/MyMesh.cpp): the commands for messages,   *)
(* adverts, raw, trace and control packets, the requests of other nodes    *)
(* for telemetry, and packets to be relayed; and the settings they obey.   *)
(* Packets come from a fixed pool: a handler obtains one, and it is queued *)
(* or released.                                                            *)
(*                                                                         *)
(* External: the base class makes packets and fails only when there are    *)
(* none left, answers a request or a message on the way it came, and sends *)
(* and releases what is queued, in an order of its own.                    *)
(***************************************************************************)
EXTENDS Integers

CONSTANTS
  PacketPool,      \* packets of the pool
  TelemetryKinds,  \* what telemetry_mode_base, _loc and _env are about
  Contacts,        \* contacts that ask for telemetry
  ScopeKeys,       \* transport keys
  NullKey,         \* a key of zeros
  NoPacket,
  MAX_PATH_SIZE

Modes == {"deny", "flags", "all"}
Key == ScopeKeys \union {NullKey}

Packets ==
  [kind : {"message", "advert", "shared", "raw", "trace", "control",
           "telemetry", "relay"},
   route : {"flood", "direct", "zero hop"},
   scope : Key,
   tells : SUBSET (TelemetryKinds \union {"location"}),
   to : Contacts \union {"anyone"}]

ASSUME SendingAssumption ==
  /\ PacketPool \in Nat \ {0} /\ MAX_PATH_SIZE \in Nat
  /\ NullKey \notin ScopeKeys /\ "default" \notin Key
  /\ "base" \in TelemetryKinds
  /\ NoPacket \notin Packets

VARIABLES
  telemetry_mode,   \* the mode of each kind
  contactFlags,     \* contact.flags >> 1, as a set
  advert_loc,       \* advert_loc_policy is not ADVERT_LOC_NONE
  repeatEn,         \* _prefs.isRepeatEn()
  default_scope_key, send_scope, send_unscoped,
  free,             \* packets not in use
  outbound,         \* number of packets queued, getOutboundTotal()
  newest,           \* the packet queued in this step, or NoPacket
  answer            \* what this step answered the app

scopeVars == <<default_scope_key, send_scope, send_unscoped>>
ruleVars == <<telemetry_mode, contactFlags, advert_loc, repeatEn, scopeVars>>
sendVars == <<ruleVars, free, outbound, newest, answer>>

Packet(kind, route, scope, tells) ==
  [kind |-> kind, route |-> route, scope |-> scope, tells |-> tells,
   to |-> "anyone"]

-----------------------------------------------------------------------------
\* The pool.

Queue(p, result) ==
  /\ free > 0 /\ free' = free - 1
  /\ outbound' = outbound + 1 /\ newest' = p
  /\ answer' = result
  /\ UNCHANGED ruleVars

\* A command that sends p, or answers with ERR_CODE_TABLE_FULL.
Answer(result) ==
  /\ answer' = result
  /\ newest' = NoPacket
  /\ UNCHANGED <<ruleVars, free, outbound>>

SendOrFail(p) == Queue(p, "sent") \/ (free = 0 /\ Answer("error"))

\* The radio has sent a packet.
Transmit ==
  /\ outbound > 0 /\ outbound' = outbound - 1
  /\ free' = free + 1
  /\ newest' = NoPacket /\ answer' = "nothing"
  /\ UNCHANGED ruleVars

-----------------------------------------------------------------------------
\* Scopes.

\* sendFloodScoped, to a contact or a channel.
FloodScope ==
  IF send_unscoped THEN NullKey
  ELSE IF send_scope = NullKey THEN default_scope_key ELSE send_scope

ByFlood(kind) == Packet(kind, "flood", FloodScope, {})
Direct(kind) == Packet(kind, "direct", NullKey, {})
ZeroHop(kind) == Packet(kind, "zero hop", NullKey, {})

\* CMD_SET_FLOOD_SCOPE_KEY: a key or none; or unscoped, which leaves the key.
CmdSetFloodScopeKey(key) ==
  /\ send_scope' = key /\ send_unscoped' = FALSE
  /\ newest' = NoPacket /\ answer' = "ok"
  /\ UNCHANGED <<telemetry_mode, contactFlags, advert_loc, repeatEn,
                 default_scope_key, free, outbound>>

CmdSetFloodUnscoped ==
  /\ send_unscoped' = TRUE
  /\ newest' = NoPacket /\ answer' = "ok"
  /\ UNCHANGED <<telemetry_mode, contactFlags, advert_loc, repeatEn,
                 default_scope_key, send_scope, free, outbound>>

\* CMD_SET_OTHER_PARAMS, CMD_SET_RADIO_PARAMS, CMD_SET_DEFAULT_FLOOD_SCOPE,
\* CMD_ADD_UPDATE_CONTACT: one setting changes.
CmdSetRule ==
  /\ \/ \E k \in TelemetryKinds, m \in Modes :
          /\ telemetry_mode' = [telemetry_mode EXCEPT ![k] = m]
          /\ UNCHANGED <<contactFlags, advert_loc, repeatEn, default_scope_key>>
     \/ \E c \in Contacts, flags \in SUBSET TelemetryKinds :
          /\ contactFlags' = [contactFlags EXCEPT ![c] = flags]
          /\ UNCHANGED <<telemetry_mode, advert_loc, repeatEn, default_scope_key>>
     \/ /\ advert_loc' = ~advert_loc
        /\ UNCHANGED <<telemetry_mode, contactFlags, repeatEn, default_scope_key>>
     \/ /\ repeatEn' = ~repeatEn
        /\ UNCHANGED <<telemetry_mode, contactFlags, advert_loc, default_scope_key>>
     \/ /\ default_scope_key' \in Key
        /\ UNCHANGED <<telemetry_mode, contactFlags, advert_loc, repeatEn>>
  /\ newest' = NoPacket /\ answer' = "ok"
  /\ UNCHANGED <<send_scope, send_unscoped, free, outbound>>

-----------------------------------------------------------------------------
\* Commands that send.

\* To a contact, whose path is known or not.
SendToContact ==
  SendOrFail(ByFlood("message")) \/ SendOrFail(Direct("message"))

\* A channel that does not exist, a text that is not plain and a pool that is
\* empty are all answered with an error.
CmdSendChannelTxt(plain, found) ==
  IF plain /\ found THEN SendOrFail(ByFlood("message")) ELSE Answer("error")

\* path_len: 0xFF for a flood; a channel that does not exist, the reserved
\* data type or too long a payload is an error too.
CmdSendChannelData(path, fault) ==
  IF path = "invalid" \/ fault THEN Answer("error")
  ELSE IF path = "flood" THEN SendOrFail(ByFlood("message"))
  ELSE SendOrFail(Direct("message"))

OwnPosition == IF advert_loc THEN {"location"} ELSE {}

\* The flood of an advert always has the default scope.
CmdSendSelfAdvert(flood) ==
  SendOrFail(IF flood
             THEN Packet("advert", "flood", default_scope_key, OwnPosition)
             ELSE Packet("advert", "zero hop", NullKey, OwnPosition))

\* advert(), for the user interface.
advert ==
  \/ Queue(Packet("advert", "zero hop", NullKey, OwnPosition), "nothing")
  \/ free = 0 /\ Answer("nothing")

\* Of the node itself: a packet is obtained, written to the answer and
\* released.  Of a contact: the advert that was kept of it, if any.
CmdExportContact(self, kept) ==
  IF self THEN Answer(IF free > 0 THEN "nothing" ELSE "error")
  ELSE Answer(IF kept THEN "nothing" ELSE "error")

CmdShareContact(known, kept) ==
  IF known /\ kept THEN SendOrFail(ZeroHop("shared")) ELSE Answer("error")

\* The path fits and leaves four bytes of payload.
CmdSendRawData(path_len, len) ==
  IF path_len >= 0 /\ 2 + path_len + 4 <= len
  THEN SendOrFail(Direct("raw")) ELSE Answer("error")

\* Hashes of 2^path_sz bytes.
CmdSendTracePath(path_len, path_sz) ==
  IF path_len \div 2^path_sz > MAX_PATH_SIZE \/ path_len % 2^path_sz # 0
  THEN Answer("error") ELSE SendOrFail(Direct("trace"))

CmdSendControlData == SendOrFail(ZeroHop("control"))

\* Variant: a packet that does not parse is forgotten.
CmdSendRawPacketLeaking(parses) ==
  \/ parses /\ Queue(Direct("raw"), "sent")
  \/ /\ free > 0 /\ ~parses
     /\ free' = free - 1
     /\ newest' = NoPacket /\ answer' = "error"
     /\ UNCHANGED <<ruleVars, outbound>>
  \/ free = 0 /\ Answer("error")

\* A packet is obtained, filled and queued, or released.
CmdSendRawPacket(parses) ==
  IF parses THEN SendOrFail(Direct("raw")) ELSE Answer("error")

-----------------------------------------------------------------------------
\* What other nodes cause.

Permissions(contact, inverse) ==
  {k \in TelemetryKinds :
     \/ telemetry_mode[k] = "all"
     \/ telemetry_mode[k] = "flags" /\ k \in contactFlags[contact]} \ inverse

\* onContactRequest for telemetry; the request says what it does not want.
onContactRequest(contact, inverse) ==
  LET tells == Permissions(contact, inverse)
      reply(route, scope) ==
        [kind |-> "telemetry", tells |-> tells, to |-> contact,
         route |-> route, scope |-> scope]
  IN
  IF "base" \in tells
  THEN \/ Queue(reply("direct", NullKey), "nothing")
       \/ Queue(reply("flood", FloodScope), "nothing")
       \/ free = 0 /\ Answer("nothing")
  ELSE Answer("nothing")

\* filterRecvFloodPacket filters nothing; allowPacketForward.
onFloodHeard ==
  IF repeatEn THEN Queue(Packet("relay", "flood", NullKey, {}), "nothing")
  ELSE Answer("nothing")

-----------------------------------------------------------------------------

\* From any settings that were saved; the override of the scope is not saved.
SendInit ==
  /\ telemetry_mode \in [TelemetryKinds -> Modes]
  /\ contactFlags \in [Contacts -> SUBSET TelemetryKinds]
  /\ advert_loc \in BOOLEAN /\ repeatEn \in BOOLEAN
  /\ default_scope_key \in Key
  /\ send_scope = NullKey /\ send_unscoped = FALSE
  /\ free = PacketPool /\ outbound = 0
  /\ newest = NoPacket /\ answer = "nothing"

SendCommand ==
  \/ \E key \in Key : CmdSetFloodScopeKey(key)
  \/ CmdSetFloodUnscoped \/ CmdSetRule
  \/ SendToContact \/ CmdSendControlData
  \/ \E a, b \in BOOLEAN :
       \/ CmdSendChannelTxt(a, b) \/ CmdSendSelfAdvert(a)
       \/ CmdExportContact(a, b) \/ CmdShareContact(a, b)
       \/ CmdSendRawPacket(a)
  \/ \E path \in {"invalid", "flood", "known"}, fault \in BOOLEAN :
       CmdSendChannelData(path, fault)
  \/ \E path_len \in {-1, 2}, len \in 7..8 : CmdSendRawData(path_len, len)
  \/ \E path_len \in {2, 3, 2 * MAX_PATH_SIZE + 2}, path_sz \in 0..1 :
       CmdSendTracePath(path_len, path_sz)

SendNext ==
  \/ SendCommand
  \/ \E c \in Contacts, inverse \in SUBSET TelemetryKinds :
       onContactRequest(c, inverse)
  \/ onFloodHeard \/ advert \/ Transmit

-----------------------------------------------------------------------------
\* Properties.

SendTypesOK ==
  /\ free \in 0..PacketPool /\ outbound \in 0..PacketPool
  /\ telemetry_mode \in [TelemetryKinds -> Modes]
  /\ {default_scope_key, send_scope} \subseteq Key

OfMode(mode) == {k \in TelemetryKinds : telemetry_mode[k] = mode}

Air == INSTANCE Airwaves WITH
  PoolSize <- PacketPool, Tellable <- TelemetryKinds, Unscoped <- NullKey,
  Asking <- Contacts, queued <- outbound, spare <- free, told <- answer,
  rules <- [position |-> advert_loc, repeat |-> repeatEn,
            home |-> default_scope_key, open |-> OfMode("all"),
            granted |-> [c \in Contacts |->
                           contactFlags[c] \intersect OfMode("flags")]],
  chosen <- IF send_unscoped THEN NullKey
            ELSE IF send_scope = NullKey THEN "default" ELSE send_scope

(* Whatever is sent, refused or fails to parse, no packet of the pool is lost,
   every flood has the scope the app chose last, a command is answered as sent
   exactly when its packet is queued, and no packet tells more of the node
   than the settings in force allow. *)
ImplementsAirwaves == Air!AirSpec

=============================================================================
