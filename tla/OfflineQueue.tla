---------------------------- MODULE OfflineQueue ----------------------------
(***************************************************************************)
(* The queue of frames MyMesh keeps for the companion app                  *)
(* (src/MyMesh.cpp addToOfflineQueue, getFromOfflineQueue, and the fields  *)
(* offline_queue, offline_queue_len of src/MyMesh.h): an array of          *)
(* OFFLINE_QUEUE_SIZE slots of which the first offline_queue_len are in    *)
(* use.  The slots above keep whatever was shifted through them.           *)
(*                                                                         *)
(* A frame is its first byte (the response code, which is all the queue    *)
(* looks at) and the number of its arrival, which stands for the rest.     *)
(***************************************************************************)
EXTENDS Naturals, FiniteSets, Sequences

CONSTANTS
  OFFLINE_QUEUE_SIZE,  \* slots of the array
  MaxArrivals          \* bound: frames that arrive in one behaviour

ASSUME OfflineQueueAssumption ==
  /\ OFFLINE_QUEUE_SIZE \in Nat \ {0}
  /\ MaxArrivals \in Nat

VARIABLES
  offline_queue,      \* [Slots -> Frame], or NoFrame where never written
  offline_queue_len,  \* how many slots are in use
  arrived,            \* history: how many frames were handed to the queue
  synced,             \* history: the frames taken out, in order
  evicted,            \* history: the frames pushed out by a newer one
  refused             \* history: the frames the full queue did not take

queueVars == <<offline_queue, offline_queue_len, arrived, synced, evicted,
               refused>>

-----------------------------------------------------------------------------
\* Frames and slots.

DirectCodes  == {"CONTACT_MSG_RECV", "CONTACT_MSG_RECV_V3"}
ChannelCodes == {"CHANNEL_MSG_RECV", "CHANNEL_MSG_RECV_V3",
                 "CHANNEL_DATA_RECV"}
Codes == DirectCodes \union ChannelCodes

Frame   == [code : Codes, id : 1..MaxArrivals]
NoFrame == [code |-> "none", id |-> 0]

isChannelMsg(f) == f.code \in ChannelCodes

Slots == 0..(OFFLINE_QUEUE_SIZE - 1)
InUse == {i \in Slots : i < offline_queue_len}

Queued == {offline_queue[i] : i \in InUse}

\* Variant: the search for a victim takes any frame.
ChannelSlotsAnyCode == InUse

ChannelSlots == {i \in InUse : isChannelMsg(offline_queue[i])}

\* Variant: the loop stops one slot early.
ShiftDownOneShort(pos) ==
  [i \in Slots |-> IF pos <= i /\ i + 2 < offline_queue_len
                   THEN offline_queue[i + 1]
                   ELSE offline_queue[i]]

\* The array after the frame in slot pos is deleted: the slots in use above
\* it move down by one, the last of them keeps its content.
ShiftDown(pos) ==
  [i \in Slots |-> IF pos <= i /\ i < offline_queue_len - 1
                   THEN offline_queue[i + 1]
                   ELSE offline_queue[i]]

-----------------------------------------------------------------------------
\* Operations.

Init ==
  /\ offline_queue = [i \in Slots |-> NoFrame]
  /\ offline_queue_len = 0
  /\ arrived = 0
  /\ synced = <<>>
  /\ evicted = {}
  /\ refused = {}

\* Variant: no test for a free slot.
AppendFrameUnbounded(f) ==
  /\ offline_queue' = [offline_queue EXCEPT ![offline_queue_len] = f]
  /\ offline_queue_len' = offline_queue_len + 1
  /\ UNCHANGED <<evicted, refused>>

AppendFrame(f) ==
  /\ offline_queue_len < OFFLINE_QUEUE_SIZE
  /\ offline_queue' = [offline_queue EXCEPT ![offline_queue_len] = f]
  /\ offline_queue_len' = offline_queue_len + 1
  /\ UNCHANGED <<evicted, refused>>

\* Variant: the new frame takes the slot of the evicted one.
EvictInPlace(f) ==
  /\ offline_queue_len >= OFFLINE_QUEUE_SIZE
  /\ \E pos \in ChannelSlots :
       /\ \A other \in ChannelSlots : pos <= other
       /\ offline_queue' = [offline_queue EXCEPT ![pos] = f]
       /\ evicted' = evicted \union {offline_queue[pos]}
  /\ UNCHANGED <<offline_queue_len, refused>>

\* Variant: the search runs from the newest frame down.
EvictNewestChannelMsg(f) ==
  /\ offline_queue_len >= OFFLINE_QUEUE_SIZE
  /\ \E pos \in ChannelSlots :
       /\ \A other \in ChannelSlots : pos >= other
       /\ offline_queue' =
            [ShiftDown(pos) EXCEPT ![offline_queue_len - 1] = f]
       /\ evicted' = evicted \union {offline_queue[pos]}
  /\ UNCHANGED <<offline_queue_len, refused>>

EvictOldestChannelMsg(f) ==
  /\ offline_queue_len >= OFFLINE_QUEUE_SIZE
  /\ \E pos \in ChannelSlots :
       /\ \A other \in ChannelSlots : pos <= other
       /\ offline_queue' =
            [ShiftDown(pos) EXCEPT ![offline_queue_len - 1] = f]
       /\ evicted' = evicted \union {offline_queue[pos]}
  /\ UNCHANGED <<offline_queue_len, refused>>

RefuseFrame(f) ==
  /\ offline_queue_len >= OFFLINE_QUEUE_SIZE
  /\ ChannelSlots = {}
  /\ refused' = refused \union {f}
  /\ UNCHANGED <<offline_queue, offline_queue_len, evicted>>

addToOfflineQueue(code) ==
  LET f == [code |-> code, id |-> arrived + 1]
  IN  /\ arrived < MaxArrivals
      /\ arrived' = arrived + 1
      /\ \/ AppendFrame(f)
         \/ EvictOldestChannelMsg(f)
         \/ RefuseFrame(f)
      /\ UNCHANGED synced

\* Variant: takes the frame that arrived last.
getNewestFromOfflineQueue ==
  /\ offline_queue_len > 0
  /\ synced' = Append(synced, offline_queue[offline_queue_len - 1])
  /\ offline_queue_len' = offline_queue_len - 1
  /\ UNCHANGED <<offline_queue, arrived, evicted, refused>>

\* The frame goes to the caller; an empty queue changes nothing and the
\* caller sees the length zero.
getFromOfflineQueue ==
  /\ offline_queue_len > 0
  /\ synced' = Append(synced, offline_queue[0])
  /\ offline_queue' = ShiftDown(0)
  /\ offline_queue_len' = offline_queue_len - 1
  /\ UNCHANGED <<arrived, evicted, refused>>

Next ==
  \/ \E code \in Codes : addToOfflineQueue(code)
  \/ getFromOfflineQueue

Spec == Init /\ [][Next]_queueVars

-----------------------------------------------------------------------------
\* Properties.

(* The array and the histories hold frames; every slot in use was written. *)
TypeOK ==
  /\ offline_queue \in [Slots -> Frame \union {NoFrame}]
  /\ offline_queue_len \in 0..OFFLINE_QUEUE_SIZE
  /\ arrived \in 0..MaxArrivals
  /\ synced \in Seq(Frame)
  /\ evicted \subseteq Frame
  /\ refused \subseteq Frame
  /\ \A i \in InUse : offline_queue[i] \in Frame

(* The app reads frames in the order they arrived, whatever was evicted in
   between: the frames read and then those still queued have increasing
   arrival numbers. *)
ArrivalOrder ==
  /\ \A i, j \in InUse : i < j => offline_queue[i].id < offline_queue[j].id
  /\ \A i, j \in DOMAIN synced : i < j => synced[i].id < synced[j].id
  /\ \A k \in DOMAIN synced : \A i \in InUse :
       synced[k].id < offline_queue[i].id

Synced == {synced[k] : k \in DOMAIN synced}

(* No frame is lost track of or seen twice by the shifting loops: each one
   that arrived was read, is queued, was evicted or was refused, and only one
   of these. *)
NothingVanishes ==
  /\ {f.id : f \in Synced \union Queued \union evicted \union refused}
       = 1..arrived
  /\ Synced \intersect Queued = {}
  /\ (Synced \union Queued) \intersect (evicted \union refused) = {}
  /\ evicted \intersect refused = {}

(* A message from a contact, once queued, is never given up: only channel
   traffic is evicted, however much of it arrives. *)
DirectMessagesKept == \A f \in evicted : isChannelMsg(f)

(* Eviction is by age: no channel frame survives in the queue that is older
   than one that was pushed out. *)
OldestEvictedFirst ==
  \A e \in evicted, q \in Queued : isChannelMsg(q) => e.id < q.id

\* The array of slots read as the set of frames in use.
AbstractInbox == INSTANCE Inbox WITH
  Capacity  <- OFFLINE_QUEUE_SIZE,
  Message   <- Frame,
  Broadcast <- {f \in Frame : isChannelMsg(f)},
  waiting   <- Queued,
  delivered <- synced,
  lost      <- evicted \union refused

(* The array with its two shifting loops behaves as the abstract inbox: what
   waits is read oldest first and only the oldest broadcast is ever given up. *)
ImplementsInbox == AbstractInbox!InboxSpec

=============================================================================
