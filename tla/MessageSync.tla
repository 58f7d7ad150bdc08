---------------------------- MODULE MessageSync ----------------------------
(***************************************************************************)
(* How received messages reach the companion app: the handlers of          *)
(* src/MyMesh.cpp that queue a frame and push the MSG_WAITING tickle, the  *)
(* commands DEVICE_QUERY and SYNC_NEXT_MESSAGE, and the serial link that   *)
(* carries frames both ways.  The super-loop runs one handler at a time,   *)
(* so each handler is one action; the link and the app run on their own.   *)
(*                                                                         *)
(* The link (BaseSerialInterface, a BLE library outside the repository) is *)
(* what the firmware relies on: isConnected, writeFrame, checkRecvFrame.   *)
(* It holds LinkCap frames towards the app; writeFrame takes no frame when *)
(* it is full or the app is gone, and no caller looks at its result.       *)
(***************************************************************************)
EXTENDS OfflineQueue

CONSTANTS
  LinkCap,      \* frames the link holds for the app
  AppVersions,  \* protocol versions the apps in use speak
  MaxSessions   \* bound: how often an app connects

ASSUME MessageSyncAssumption ==
  /\ LinkCap \in Nat \ {0}
  /\ AppVersions \subseteq Nat
  /\ MaxSessions \in Nat

VARIABLES
  app_target_ver,  \* the version the last DEVICE_QUERY named, 0 after boot
  connected,       \* the link's isConnected()
  toApp,           \* frames on the link towards the app
  toDevice,        \* commands on the link towards the node
  app,             \* what the app does: see AppStates
  appVer,          \* the version the connected app speaks
  sessions,        \* how often an app has connected
  received,        \* history: the messages the app has got, in order
  tickleLost       \* history: a tickle found the link full since the last sync

linkVars == <<connected, toApp, toDevice>>
appVars  == <<app, appVer, sessions, received>>
syncVars == <<queueVars, app_target_ver, linkVars, appVars, tickleLost>>

\* The app introduces itself, then reads until NO_MORE_MESSAGES and rests
\* until a tickle.
AppStates == {"away", "hello", "asking", "behind", "reading", "resting"}

Reply(code) == [code |-> code, id |-> 0]
Plain == {"DEVICE_INFO", "MSG_WAITING", "NO_MORE_MESSAGES", "LOG_RX_DATA"}
Commands == {[cmd |-> "DEVICE_QUERY", ver |-> v] : v \in AppVersions}
              \union {[cmd |-> "SYNC_NEXT_MESSAGE", ver |-> 0]}

-----------------------------------------------------------------------------
\* The link.

Accepts == connected /\ Len(toApp) < LinkCap

writeFrame(f) == toApp' = IF Accepts THEN Append(toApp, f) ELSE toApp

-----------------------------------------------------------------------------
\* Handlers of received messages.

\* Variant: the tickle is forgotten.
TickleNever ==
  /\ UNCHANGED <<toApp, tickleLost>>
  /\ UNCHANGED <<app_target_ver, connected, toDevice, appVars>>

Tickle ==
  /\ IF connected
     THEN /\ writeFrame(Reply("MSG_WAITING"))
          /\ tickleLost' = (tickleLost \/ ~Accepts)
     ELSE UNCHANGED <<toApp, tickleLost>>
  /\ UNCHANGED <<app_target_ver, connected, toDevice, appVars>>

\* queueMessage, the body of onMessageRecv, onCommandDataRecv and
\* onSignedMessageRecv: the frame's format is fixed when it is queued.
queueMessage ==
  /\ addToOfflineQueue(IF app_target_ver >= 3 THEN "CONTACT_MSG_RECV_V3"
                       ELSE "CONTACT_MSG_RECV")
  /\ Tickle

onChannelMessageRecv ==
  /\ addToOfflineQueue(IF app_target_ver >= 3 THEN "CHANNEL_MSG_RECV_V3"
                       ELSE "CHANNEL_MSG_RECV")
  /\ Tickle

\* Data longer than a frame takes is dropped before it is queued.
onChannelDataRecv ==
  /\ addToOfflineQueue("CHANNEL_DATA_RECV")
  /\ Tickle

\* Every packet heard is also pushed raw: it takes room on the link.
logRxRaw ==
  /\ connected
  /\ writeFrame(Reply("LOG_RX_DATA"))
  /\ UNCHANGED <<queueVars, app_target_ver, connected, toDevice, appVars,
                 tickleLost>>

-----------------------------------------------------------------------------
\* Commands.

TakeCommand(name) ==
  /\ toDevice # <<>>
  /\ Head(toDevice).cmd = name
  /\ toDevice' = Tail(toDevice)
  /\ UNCHANGED <<connected, appVars>>

CmdDeviceQuery ==
  /\ TakeCommand("DEVICE_QUERY")
  /\ app_target_ver' = Head(toDevice).ver
  /\ writeFrame(Reply("DEVICE_INFO"))
  /\ UNCHANGED <<queueVars, tickleLost>>

\* Variant: the last message is not offered.
CmdSyncKeepsLast ==
  /\ TakeCommand("SYNC_NEXT_MESSAGE")
  /\ IF offline_queue_len > 1
     THEN getFromOfflineQueue /\ writeFrame(offline_queue[0])
     ELSE writeFrame(Reply("NO_MORE_MESSAGES")) /\ UNCHANGED queueVars
  /\ UNCHANGED <<app_target_ver, tickleLost>>

\* The message leaves the queue before it is written to the link.
CmdSyncNextMessage ==
  /\ TakeCommand("SYNC_NEXT_MESSAGE")
  /\ IF offline_queue_len > 0
     THEN getFromOfflineQueue /\ writeFrame(offline_queue[0])
     ELSE writeFrame(Reply("NO_MORE_MESSAGES")) /\ UNCHANGED queueVars
  /\ UNCHANGED <<app_target_ver, tickleLost>>

-----------------------------------------------------------------------------
\* The app and the link's life, outside the repository.

nodeVars == <<queueVars, app_target_ver>>

Connect(v) ==
  /\ ~connected /\ sessions < MaxSessions
  /\ connected' = TRUE
  /\ sessions' = sessions + 1
  /\ app' = "hello" /\ appVer' = v
  /\ tickleLost' = FALSE
  /\ UNCHANGED <<nodeVars, toApp, toDevice, received>>

Disconnect ==
  /\ connected
  /\ connected' = FALSE
  /\ toApp' = <<>> /\ toDevice' = <<>>
  /\ app' = "away"
  /\ UNCHANGED <<nodeVars, appVer, sessions, received, tickleLost>>

Send(cmd, state) ==
  /\ connected
  /\ toDevice' = Append(toDevice, cmd)
  /\ app' = state
  /\ UNCHANGED <<nodeVars, connected, toApp, appVer, sessions, received>>

SendQuery ==
  /\ app = "hello"
  /\ Send([cmd |-> "DEVICE_QUERY", ver |-> appVer], "asking")
  /\ UNCHANGED tickleLost

SendSync ==
  /\ app = "behind"
  /\ Send([cmd |-> "SYNC_NEXT_MESSAGE", ver |-> 0], "reading")
  /\ tickleLost' = FALSE

\* What the app makes of the next frame on the link.
AppAfter(f) ==
  CASE f.code = "DEVICE_INFO"      -> "behind"
    [] f.code = "NO_MORE_MESSAGES" -> "resting"
    [] f.code = "MSG_WAITING" /\ app = "resting" -> "behind"
    [] f.code \in Codes -> "behind"
    [] OTHER -> app

AppReceive ==
  /\ toApp # <<>>
  /\ toApp' = Tail(toApp)
  /\ app' = AppAfter(Head(toApp))
  /\ received' = IF Head(toApp).code \in Codes
                 THEN Append(received, Head(toApp)) ELSE received
  /\ UNCHANGED <<nodeVars, connected, toDevice, appVer, sessions, tickleLost>>

\* An app whose answer does not come gives up and asks again.
AppRetry ==
  /\ app \in {"asking", "reading"}
  /\ toDevice = <<>>
  /\ \A i \in DOMAIN toApp : toApp[i].code \in {"MSG_WAITING", "LOG_RX_DATA"}
  /\ app' = IF app = "asking" THEN "hello" ELSE "behind"
  /\ UNCHANGED <<nodeVars, linkVars, appVer, sessions, received, tickleLost>>

SyncInit ==
  /\ Init
  /\ app_target_ver = 0
  /\ connected = FALSE /\ toApp = <<>> /\ toDevice = <<>>
  /\ app = "away" /\ appVer = 0 /\ sessions = 0 /\ received = <<>>
  /\ tickleLost = FALSE

Radio   == queueMessage \/ onChannelMessageRecv \/ onChannelDataRecv
             \/ logRxRaw
Command == CmdDeviceQuery \/ CmdSyncNextMessage
App     == SendQuery \/ SendSync \/ AppReceive \/ AppRetry

SyncNext ==
  \/ Radio
  \/ Command
  \/ App
  \/ \E v \in AppVersions : Connect(v)
  \/ Disconnect

\* The super-loop polls the link in every pass; the app keeps reading the link
\* and keeps asking.
Fairness ==
  /\ WF_syncVars(Command)
  /\ WF_syncVars(AppReceive)
  /\ WF_syncVars(SendQuery \/ SendSync \/ AppRetry)

SyncSpec == SyncInit /\ [][SyncNext]_syncVars /\ Fairness

-----------------------------------------------------------------------------
\* Properties.

(* The link and the app stay within their protocol: at most one command is
   outstanding, and the link within its capacity. *)
SyncTypeOK ==
  /\ TypeOK
  /\ app_target_ver \in AppVersions \union {0}
  /\ app \in AppStates /\ (connected <=> app # "away")
  /\ Len(toApp) <= LinkCap /\ Len(toDevice) <= 1
  /\ \A i \in DOMAIN toApp : toApp[i].code \in Codes \union Plain
  /\ \A i \in DOMAIN toDevice : toDevice[i] \in Commands

(* No wake-up is missed: while the app rests and messages wait, a tickle is
   on its way, unless the link was too full to take it.  This is about a
   message that arrives between the answer NO_MORE_MESSAGES and the moment
   the app reads that answer. *)
NoLostWakeUp ==
  connected /\ app = "resting" /\ offline_queue_len > 0 /\ ~tickleLost =>
    \E i \in DOMAIN toApp : toApp[i].code = "MSG_WAITING"

(* What the app gets is in the order of arrival and without repeats, over all
   sessions and losses. *)
AppReadsInOrder ==
  \A i, j \in DOMAIN received : i < j => received[i].id < received[j].id

(* An app that stays connected empties the queue in the end, provided no
   tickle is lost and the link is not kept full by other pushes for ever. *)
EventuallyDrained ==
  <>[](connected /\ ~tickleLost /\ Accepts) => <>[](offline_queue_len = 0)

\* The messages under way to the app.
OnLink == {toApp[i] : i \in {j \in DOMAIN toApp : toApp[j].code \in Codes}}

(* The comments on the response codes (src/MyMesh.cpp:83, 85, 94, 96) give
   the app's version for each: 7 and 8 for ver < 3, 16 and 17 for ver >= 3.
   So the app that named its version gets no other kind. *)
RepliesFitVersion ==
  connected /\ app_target_ver = appVer /\ app \notin {"hello", "asking"} =>
    \A f \in OnLink :
      /\ f.code \in {"CONTACT_MSG_RECV", "CHANNEL_MSG_RECV"} => appVer < 3
      /\ f.code \in {"CONTACT_MSG_RECV_V3", "CHANNEL_MSG_RECV_V3"} =>
           appVer >= 3

=============================================================================
