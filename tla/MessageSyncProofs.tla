------------------------- MODULE MessageSyncProofs -------------------------
(***************************************************************************)
(* Proofs about OfflineQueue and MessageSync, for every size of the queue  *)
(* and of the link, all versions and any number of arrivals and sessions.  *)
(*                                                                         *)
(* Of the queue: its safety invariants, and that the array with its two    *)
(* shifting loops implements the abstract inbox.  The invariants are not   *)
(* inductive by themselves.  What carries them is that the slots in use    *)
(* are ordered by arrival and that no frame anywhere is newer than the     *)
(* last arrival: a shift then removes exactly one frame from the set in    *)
(* use, and a new frame differs from all the old ones.                     *)
(*                                                                         *)
(* Of the whole: the app reads in the order of arrival, and no wake-up is  *)
(* missed.  Two strengthenings carry that.  One question is under way at a *)
(* time: a command on the link excludes an answer on it, and there is at   *)
(* most one answer, so a message on the link is newer than all that were   *)
(* received.  And a message that is queued while NO_MORE_MESSAGES is still *)
(* on the link has a tickle behind that answer.                            *)
(***************************************************************************)
EXTENDS MessageSync, FiniteSetTheorems, SequenceTheorems, TLAPS

Everywhere == Synced \union Queued \union evicted \union refused

NoneFromTheFuture == \A f \in Everywhere : f.id <= arrived

IInv == TypeOK /\ ArrivalOrder /\ NoneFromTheFuture

-----------------------------------------------------------------------------
\* What the operations do to the set of frames in use.

(* A frame that arrives gets the next number and is a frame. *)
LEMMA ArrivingFrame ==
  ASSUME TypeOK, NEW code \in Codes, arrived < MaxArrivals
  PROVE  [code |-> code, id |-> arrived + 1] \in Frame
  BY OfflineQueueAssumption DEF TypeOK, Frame

(* Under the invariant every frame queued is a frame with a slot of its own. *)
LEMMA QueuedFrames ==
  ASSUME TypeOK
  PROVE  Queued \subseteq Frame
  BY DEF TypeOK, Queued

(* Arrival numbers are numbers. *)
LEMMA FrameIds == \A f \in Frame : f.id \in Nat
  BY OfflineQueueAssumption DEF Frame

(* Whatever the queue and its histories hold is a frame. *)
LEMMA EverywhereFrames ==
  ASSUME TypeOK
  PROVE  /\ Everywhere \subseteq Frame
         /\ \A i \in InUse : offline_queue[i].id \in Nat
         /\ \A k \in DOMAIN synced : synced[k].id \in Nat
<1>1. \A k \in DOMAIN synced : synced[k] \in Frame
  BY DEF TypeOK
<1>2. \A i \in InUse : offline_queue[i] \in Frame
  BY DEF TypeOK
<1> QED BY <1>1, <1>2, FrameIds DEF TypeOK, Everywhere, Synced, Queued

(* The slots in use are the first offline_queue_len numbers. *)
LEMMA InUseSlots ==
  ASSUME TypeOK
  PROVE  /\ offline_queue_len \in Nat
         /\ offline_queue_len <= OFFLINE_QUEUE_SIZE
         /\ InUse = 0..(offline_queue_len - 1)
         /\ InUse \subseteq Slots
         /\ Slots \subseteq Nat
         /\ DOMAIN offline_queue = Slots
  BY OfflineQueueAssumption DEF TypeOK, InUse, Slots

(* A shift from slot pos on keeps the slots below and moves the others. *)
LEMMA ShiftDownMoves ==
  ASSUME TypeOK, NEW pos \in InUse
  PROVE  /\ ShiftDown(pos) \in [Slots -> Frame \union {NoFrame}]
         /\ \A i \in InUse : ShiftDown(pos)[i] \in Frame
         /\ \A i \in InUse : i < pos => ShiftDown(pos)[i] = offline_queue[i]
         /\ \A i \in InUse : pos <= i /\ i < offline_queue_len - 1 =>
              i + 1 \in InUse /\ ShiftDown(pos)[i] = offline_queue[i + 1]
<1>1. \A i \in Slots : pos <= i /\ i < offline_queue_len - 1 =>
        i + 1 \in InUse
  BY InUseSlots
<1>2. ShiftDown(pos) \in [Slots -> Frame \union {NoFrame}]
  BY <1>1 DEF TypeOK, ShiftDown, InUse
<1>3. \A i \in InUse : i < pos => ShiftDown(pos)[i] = offline_queue[i]
  BY InUseSlots DEF ShiftDown
<1>4. \A i \in InUse : pos <= i /\ i < offline_queue_len - 1 =>
        i + 1 \in InUse /\ ShiftDown(pos)[i] = offline_queue[i + 1]
  BY <1>1, InUseSlots DEF ShiftDown
<1>5. \A i \in InUse : ShiftDown(pos)[i] \in Frame
  BY <1>1, InUseSlots DEF TypeOK, ShiftDown
<1> QED BY <1>2, <1>3, <1>4, <1>5

(* Appending adds the new frame to the frames in use. *)
LEMMA AppendQueued ==
  ASSUME TypeOK, NEW f \in Frame, AppendFrame(f)
  PROVE  /\ offline_queue' \in [Slots -> Frame \union {NoFrame}]
         /\ offline_queue_len' \in 0..OFFLINE_QUEUE_SIZE
         /\ InUse' = InUse \union {offline_queue_len}
         /\ offline_queue_len \in Slots
         /\ offline_queue'[offline_queue_len] = f
         /\ \A i \in InUse : offline_queue'[i] = offline_queue[i]
         /\ Queued' = Queued \union {f}
<1>1. /\ offline_queue' \in [Slots -> Frame \union {NoFrame}]
      /\ offline_queue_len' \in 0..OFFLINE_QUEUE_SIZE
      /\ offline_queue_len \in Slots
  BY OfflineQueueAssumption DEF TypeOK, AppendFrame, Slots
<1>2. InUse' = InUse \union {offline_queue_len}
  BY OfflineQueueAssumption DEF TypeOK, AppendFrame, Slots, InUse
<1>3. offline_queue'[offline_queue_len] = f
  BY <1>1 DEF TypeOK, AppendFrame
<1>4. \A i \in InUse : offline_queue'[i] = offline_queue[i]
  BY OfflineQueueAssumption DEF TypeOK, AppendFrame, Slots, InUse
<1>5. Queued' = Queued \union {f}
  BY <1>2, <1>3, <1>4 DEF Queued
<1> QED BY <1>1, <1>2, <1>3, <1>4, <1>5

(* Evicting the frame in slot pos: the new frame takes the last slot, every
   other frame keeps a slot in use, in the same order. *)
LEMMA EvictQueued ==
  ASSUME IInv, NEW f \in Frame, NEW pos \in InUse,
         offline_queue_len >= OFFLINE_QUEUE_SIZE,
         offline_queue' = [ShiftDown(pos) EXCEPT ![offline_queue_len - 1] = f],
         offline_queue_len' = offline_queue_len
  PROVE  /\ offline_queue' \in [Slots -> Frame \union {NoFrame}]
         /\ InUse' = InUse
         /\ offline_queue_len - 1 \in InUse
         /\ offline_queue'[offline_queue_len - 1] = f
         /\ \A i \in InUse : i < pos => offline_queue'[i] = offline_queue[i]
         /\ \A i \in InUse : pos <= i /\ i < offline_queue_len - 1 =>
              i + 1 \in InUse /\ offline_queue'[i] = offline_queue[i + 1]
         /\ Queued' = (Queued \ {offline_queue[pos]}) \union {f}
<1> DEFINE last == offline_queue_len - 1
<1> USE DEF IInv
<1>1. InUse' = InUse /\ last \in InUse
  BY InUseSlots, OfflineQueueAssumption DEF InUse
<1>2. offline_queue' \in [Slots -> Frame \union {NoFrame}]
  BY ShiftDownMoves, <1>1, InUseSlots
<1>3. offline_queue'[last] = f
  BY ShiftDownMoves, <1>1, InUseSlots
<1>4. \A i \in InUse : i < pos => offline_queue'[i] = offline_queue[i]
  BY ShiftDownMoves, InUseSlots, <1>1
<1>5. \A i \in InUse : pos <= i /\ i < last =>
        i + 1 \in InUse /\ offline_queue'[i] = offline_queue[i + 1]
  BY ShiftDownMoves, InUseSlots, <1>1
<1>6. \A i \in InUse : i # pos => offline_queue[i] # offline_queue[pos]
  <2>1. \A i \in InUse : offline_queue[i] \in Frame
    BY DEF TypeOK
  <2> QED BY <2>1, InUseSlots DEF ArrivalOrder, Frame
<1>7. Queued' \subseteq (Queued \ {offline_queue[pos]}) \union {f}
  <2> SUFFICES ASSUME NEW i \in InUse
               PROVE  offline_queue'[i] \in
                        (Queued \ {offline_queue[pos]}) \union {f}
    BY <1>1 DEF Queued
  <2>1. CASE i < pos
    BY <2>1, <1>4, <1>6, InUseSlots DEF Queued
  <2>2. CASE pos <= i /\ i < last
    BY <2>2, <1>5, <1>6, InUseSlots DEF Queued
  <2>3. CASE i = last
    BY <2>3, <1>3
  <2> QED BY <2>1, <2>2, <2>3, InUseSlots
<1>8. (Queued \ {offline_queue[pos]}) \union {f} \subseteq Queued'
  <2>1. f \in Queued'
    BY <1>1, <1>3 DEF Queued
  <2>2. ASSUME NEW i \in InUse, i # pos
        PROVE  offline_queue[i] \in Queued'
    <3>1. CASE i < pos
      BY <3>1, <1>1, <1>4 DEF Queued
    <3>2. CASE i > pos
      <4>1. i - 1 \in InUse /\ pos <= i - 1 /\ i - 1 < last
        BY <3>2, InUseSlots
      <4>2. offline_queue'[i - 1] = offline_queue[i]
        BY <4>1, <1>5, InUseSlots
      <4> QED BY <4>1, <4>2, <1>1 DEF Queued
    <3> QED BY <2>2, <3>1, <3>2, InUseSlots
  <2> QED BY <2>1, <2>2 DEF Queued
<1> QED BY <1>1, <1>2, <1>3, <1>4, <1>5, <1>7, <1>8

(* Taking the frame in slot 0: every other frame moves down by one slot. *)
LEMMA GetQueued ==
  ASSUME IInv, getFromOfflineQueue
  PROVE  /\ offline_queue' \in [Slots -> Frame \union {NoFrame}]
         /\ offline_queue_len' \in 0..OFFLINE_QUEUE_SIZE
         /\ 0 \in InUse
         /\ \A i \in InUse' :
              i + 1 \in InUse /\ offline_queue'[i] = offline_queue[i + 1]
         /\ Queued' = Queued \ {offline_queue[0]}
<1> USE DEF IInv
<1>1. 0 \in InUse /\ offline_queue_len' \in 0..OFFLINE_QUEUE_SIZE
  BY InUseSlots, OfflineQueueAssumption DEF getFromOfflineQueue
<1>2. InUse' = 0..(offline_queue_len - 2)
  BY InUseSlots, OfflineQueueAssumption DEF getFromOfflineQueue, InUse, Slots
<1>3. offline_queue' \in [Slots -> Frame \union {NoFrame}]
  BY ShiftDownMoves, <1>1 DEF getFromOfflineQueue
<1>4. \A i \in InUse' :
        i + 1 \in InUse /\ offline_queue'[i] = offline_queue[i + 1]
  <2>1. \A i \in InUse' : i \in InUse /\ 0 <= i /\ i < offline_queue_len - 1
    BY <1>2, InUseSlots
  <2>2. offline_queue' = ShiftDown(0)
    BY DEF getFromOfflineQueue
  <2> QED BY <1>1, <2>1, <2>2, ShiftDownMoves
<1>5. \A i \in InUse : i # 0 => offline_queue[i] # offline_queue[0]
  <2>1. \A i \in InUse : offline_queue[i] \in Frame
    BY DEF TypeOK
  <2> QED BY <1>1, <2>1, InUseSlots DEF ArrivalOrder, Frame
<1>6. Queued' \subseteq Queued \ {offline_queue[0]}
  BY <1>2, <1>4, <1>5, InUseSlots DEF Queued
<1>7. Queued \ {offline_queue[0]} \subseteq Queued'
  <2> SUFFICES ASSUME NEW i \in InUse, i # 0
               PROVE  offline_queue[i] \in Queued'
    BY DEF Queued
  <2>1. i - 1 \in InUse' /\ (i - 1) + 1 = i
    BY <1>2, InUseSlots
  <2>2. offline_queue'[i - 1] = offline_queue[i]
    BY <2>1, <1>4
  <2> QED BY <2>1, <2>2 DEF Queued
<1> QED BY <1>1, <1>3, <1>4, <1>6, <1>7

(* A step of the queue is a stutter, a reading, or the arrival of one frame
   with the next number that is appended, evicts or is refused. *)
LEMMA ArrivalCases ==
  ASSUME TypeOK, NEW code \in Codes, addToOfflineQueue(code)
  PROVE  \E f \in Frame :
           /\ f.id = arrived + 1 /\ arrived' = arrived + 1
           /\ arrived' \in 0..MaxArrivals
           /\ synced' = synced
           /\ \/ AppendFrame(f)
              \/ EvictOldestChannelMsg(f)
              \/ RefuseFrame(f)
<1> DEFINE f == [code |-> code, id |-> arrived + 1]
<1>1. f \in Frame
  BY ArrivingFrame DEF addToOfflineQueue
<1> QED BY <1>1, OfflineQueueAssumption DEF addToOfflineQueue, TypeOK

-----------------------------------------------------------------------------
\* The inductive invariant.

(* The invariant holds of the empty queue after boot. *)
LEMMA InitIInv == Init => IInv
  BY OfflineQueueAssumption
  DEF Init, IInv, TypeOK, ArrivalOrder, NoneFromTheFuture, Everywhere, Synced,
      Queued, InUse, Slots, Frame, NoFrame

(* An appended frame is the newest and takes the last slot. *)
LEMMA AppendIInv ==
  ASSUME IInv, NEW f \in Frame, f.id = arrived + 1, arrived' = arrived + 1,
         arrived' \in 0..MaxArrivals, synced' = synced, AppendFrame(f)
  PROVE  IInv'
<1> USE DEF IInv
<1>1. TypeOK'
  BY AppendQueued DEF TypeOK, AppendFrame
<1>2. NoneFromTheFuture'
  <2>1. Everywhere' = Everywhere \union {f}
    <3>1. Queued' = Queued \union {f}
      BY AppendQueued
    <3>2. UNCHANGED <<synced, evicted, refused>>
      BY DEF AppendFrame
    <3> QED BY <3>1, <3>2 DEF Everywhere, Synced
  <2> QED BY <2>1, EverywhereFrames, FrameIds DEF NoneFromTheFuture, TypeOK
<1>3. ArrivalOrder'
  <2>1. \A i \in InUse : offline_queue[i].id <= arrived
    BY DEF NoneFromTheFuture, Everywhere, Queued
  <2>2. \A k \in DOMAIN synced : synced[k].id <= arrived
    BY DEF NoneFromTheFuture, Everywhere, Synced
  <2>3. \A k \in DOMAIN synced : synced[k].id \in Nat
    BY EverywhereFrames
  <2>4. \A i \in InUse : offline_queue[i].id \in Nat /\ i < offline_queue_len
    BY EverywhereFrames DEF InUse
  <2>5. arrived \in Nat /\ offline_queue_len \in Nat
    BY OfflineQueueAssumption DEF TypeOK
  <2>6. \A i, j \in InUse' : i < j =>
          offline_queue'[i].id < offline_queue'[j].id
    <3> SUFFICES ASSUME NEW i \in InUse', NEW j \in InUse', i < j
                 PROVE  offline_queue'[i].id < offline_queue'[j].id
      OBVIOUS
    <3>1. i \in InUse
      BY <2>4, <2>5, AppendQueued, InUseSlots
    <3>2. CASE j \in InUse
      BY <3>1, <3>2, AppendQueued DEF ArrivalOrder
    <3>3. CASE j = offline_queue_len
      BY <3>1, <3>3, <2>1, <2>4, <2>5, AppendQueued
    <3> QED BY <3>2, <3>3, AppendQueued
  <2>7. \A k \in DOMAIN synced : \A i \in InUse' :
          synced[k].id < offline_queue'[i].id
    BY <2>2, <2>3, <2>5, AppendQueued DEF ArrivalOrder
  <2> QED BY <2>6, <2>7 DEF ArrivalOrder
<1> QED BY <1>1, <1>2, <1>3

(* An eviction leaves the order of the remaining frames as it was. *)
LEMMA EvictIInv ==
  ASSUME IInv, NEW f \in Frame, f.id = arrived + 1, arrived' = arrived + 1,
         arrived' \in 0..MaxArrivals, synced' = synced,
         EvictOldestChannelMsg(f)
  PROVE  IInv'
<1> USE DEF IInv
<1> PICK pos \in ChannelSlots :
           /\ offline_queue' =
                [ShiftDown(pos) EXCEPT ![offline_queue_len - 1] = f]
           /\ evicted' = evicted \union {offline_queue[pos]}
  BY DEF EvictOldestChannelMsg
<1>0. /\ pos \in InUse /\ offline_queue_len' = offline_queue_len
      /\ offline_queue_len >= OFFLINE_QUEUE_SIZE /\ refused' = refused
  BY DEF EvictOldestChannelMsg, ChannelSlots
<1> HIDE DEF IInv
<1>1. /\ offline_queue' \in [Slots -> Frame \union {NoFrame}]
      /\ InUse' = InUse
      /\ offline_queue_len - 1 \in InUse
      /\ offline_queue'[offline_queue_len - 1] = f
      /\ \A i \in InUse : i < pos => offline_queue'[i] = offline_queue[i]
      /\ \A i \in InUse : pos <= i /\ i < offline_queue_len - 1 =>
           i + 1 \in InUse /\ offline_queue'[i] = offline_queue[i + 1]
      /\ Queued' = (Queued \ {offline_queue[pos]}) \union {f}
  BY <1>0, EvictQueued
<1> USE DEF IInv
<1>2. TypeOK'
  <2>1. \A i \in InUse : offline_queue'[i] \in Frame
    BY <1>1, <1>0, InUseSlots DEF TypeOK
  <2> QED BY <1>0, <1>1, <2>1 DEF TypeOK
<1>3. NoneFromTheFuture'
  <2>1. offline_queue[pos] \in Queued
    BY <1>0 DEF Queued
  <2>2. Everywhere' = Everywhere \union {f}
    BY <1>0, <1>1, <2>1 DEF Everywhere, Synced
  <2> QED BY <2>2, EverywhereFrames, FrameIds DEF NoneFromTheFuture, TypeOK
<1>4. ArrivalOrder'
  <2> DEFINE last == offline_queue_len - 1
             from(i) == IF i < pos THEN i ELSE i + 1
  <2>1. \A i \in InUse : i # last =>
          from(i) \in InUse /\ offline_queue'[i] = offline_queue[from(i)]
    BY <1>0, <1>1, InUseSlots
  <2>2. \A i \in InUse : offline_queue[i].id <= arrived
    BY DEF NoneFromTheFuture, Everywhere, Queued
  <2>3. \A k \in DOMAIN synced : synced[k].id <= arrived
    BY DEF NoneFromTheFuture, Everywhere, Synced
  <2>4. /\ \A i \in InUse : offline_queue[i].id \in Nat
        /\ \A k \in DOMAIN synced : synced[k].id \in Nat
    BY EverywhereFrames
  <2>5. ASSUME NEW i \in InUse, NEW j \in InUse, i < j
        PROVE  offline_queue'[i].id < offline_queue'[j].id
    <3>1. i # last /\ from(i) \in InUse
          /\ offline_queue'[i] = offline_queue[from(i)]
      BY <2>1, <2>5, InUseSlots
    <3>2. CASE j = last
      <4>1. arrived \in Nat
        BY OfflineQueueAssumption DEF TypeOK
      <4>2. /\ offline_queue'[i].id \in Nat
            /\ offline_queue'[i].id <= arrived
        BY <3>1, <2>2, <2>4
      <4> QED BY <4>1, <4>2, <3>2, <1>1
    <3>3. CASE j # last
      <4>1. from(j) \in InUse /\ offline_queue'[j] = offline_queue[from(j)]
        BY <2>1, <3>3
      <4>2. from(i) < from(j)
        BY <1>0, <2>5, InUseSlots
      <4> QED BY <3>1, <4>1, <4>2 DEF ArrivalOrder
    <3> QED BY <3>2, <3>3
  <2>6. ASSUME NEW k \in DOMAIN synced, NEW i \in InUse
        PROVE  synced[k].id < offline_queue'[i].id
    <3>1. CASE i = last
      BY <3>1, <1>1, <2>3, <2>4 DEF TypeOK
    <3>2. CASE i # last
      BY <3>2, <2>1 DEF ArrivalOrder
    <3> QED BY <3>1, <3>2
  <2> QED BY <1>1, <2>5, <2>6 DEF ArrivalOrder
<1> QED BY <1>2, <1>3, <1>4

(* A refused frame changes nothing that is ordered. *)
LEMMA RefuseIInv ==
  ASSUME IInv, NEW f \in Frame, f.id = arrived + 1, arrived' = arrived + 1,
         arrived' \in 0..MaxArrivals, synced' = synced, RefuseFrame(f)
  PROVE  IInv'
<1> USE DEF IInv
<1>1. InUse' = InUse /\ Queued' = Queued
  BY DEF RefuseFrame, InUse, Queued
<1>2. TypeOK'
  BY <1>1 DEF RefuseFrame, TypeOK
<1>3. NoneFromTheFuture'
  <2>1. Everywhere' = Everywhere \union {f}
    BY <1>1 DEF RefuseFrame, Everywhere, Synced
  <2> QED BY <2>1, EverywhereFrames, FrameIds DEF NoneFromTheFuture, TypeOK
<1>4. ArrivalOrder'
  BY <1>1 DEF RefuseFrame, ArrivalOrder
<1> QED BY <1>2, <1>3, <1>4

(* The frame read is older than all that stay and newer than all read. *)
LEMMA GetIInv ==
  ASSUME IInv, getFromOfflineQueue
  PROVE  IInv'
<1>1. /\ offline_queue' \in [Slots -> Frame \union {NoFrame}]
      /\ offline_queue_len' \in 0..OFFLINE_QUEUE_SIZE
      /\ 0 \in InUse
      /\ \A i \in InUse' :
           i + 1 \in InUse /\ offline_queue'[i] = offline_queue[i + 1]
      /\ Queued' = Queued \ {offline_queue[0]}
  BY GetQueued
<1>2. /\ synced' = Append(synced, offline_queue[0])
      /\ UNCHANGED <<arrived, evicted, refused>>
  BY DEF getFromOfflineQueue
<1> USE DEF IInv
<1>3. InUse' \subseteq Nat
  BY InUseSlots DEF InUse
<1>4. TypeOK'
  <2>1. offline_queue[0] \in Frame
    BY <1>1 DEF TypeOK
  <2> QED BY <1>1, <1>2, <2>1 DEF TypeOK
<1>5. Synced' = Synced \union {offline_queue[0]}
  BY <1>1, <1>2 DEF Synced, TypeOK
<1>6. NoneFromTheFuture'
  BY <1>1, <1>2, <1>5 DEF NoneFromTheFuture, Everywhere, Queued
<1>7. ArrivalOrder'
  <2>1. /\ DOMAIN synced' = DOMAIN synced \union {Len(synced) + 1}
        /\ DOMAIN synced = 1..Len(synced) /\ Len(synced) \in Nat
        /\ \A k \in DOMAIN synced : synced'[k] = synced[k]
        /\ synced'[Len(synced) + 1] = offline_queue[0]
    BY <1>1, <1>2 DEF TypeOK
  <2>2. \A i, j \in InUse' : i < j => offline_queue'[i].id < offline_queue'[j].id
    BY <1>1, <1>3 DEF ArrivalOrder
  <2>3. \A i, j \in DOMAIN synced' : i < j => synced'[i].id < synced'[j].id
    BY <1>1, <2>1 DEF ArrivalOrder
  <2>4. \A i \in InUse' : offline_queue[0].id < offline_queue'[i].id
    BY <1>1, <1>3 DEF ArrivalOrder
  <2>5. \A k \in DOMAIN synced' : \A i \in InUse' :
          synced'[k].id < offline_queue'[i].id
    BY <1>1, <2>1, <2>4 DEF ArrivalOrder
  <2> QED BY <2>2, <2>3, <2>5 DEF ArrivalOrder
<1> QED BY <1>4, <1>6, <1>7

(* Every operation of the queue preserves the invariant. *)
LEMMA NextIInv == IInv /\ [Next]_queueVars => IInv'
<1> SUFFICES ASSUME IInv, [Next]_queueVars
             PROVE  IInv'
  OBVIOUS
<1>1. CASE UNCHANGED queueVars
  BY <1>1 DEF queueVars, IInv, TypeOK, ArrivalOrder, NoneFromTheFuture,
              Everywhere, Synced, Queued, InUse
<1>2. ASSUME NEW code \in Codes, addToOfflineQueue(code)
      PROVE  IInv'
  <2>1. TypeOK
    BY DEF IInv
  <2> PICK f \in Frame :
             /\ f.id = arrived + 1 /\ arrived' = arrived + 1
             /\ arrived' \in 0..MaxArrivals
             /\ synced' = synced
             /\ \/ AppendFrame(f)
                \/ EvictOldestChannelMsg(f)
                \/ RefuseFrame(f)
    BY <1>2, <2>1, ArrivalCases
  <2> QED BY AppendIInv, EvictIInv, RefuseIInv
<1>3. CASE getFromOfflineQueue
  BY <1>3, GetIInv
<1> QED BY <1>1, <1>2, <1>3 DEF Next

(* The invariant holds throughout. *)
THEOREM InvariantIInv == Spec => []IInv
  BY InitIInv, NextIInv, PTL DEF Spec

(* The array stays within its bounds and every slot in use holds a frame,
   through all shifts (MyMesh::addToOfflineQueue, getFromOfflineQueue). *)
THEOREM TypeCorrect == Spec => []TypeOK
<1>1. IInv => TypeOK
  BY DEF IInv
<1> QED BY <1>1, InvariantIInv, PTL

(* For every size of the queue the app reads frames in order of arrival,
   whatever was evicted in between. *)
THEOREM ReadInArrivalOrder == Spec => []ArrivalOrder
<1>1. IInv => ArrivalOrder
  BY DEF IInv
<1> QED BY <1>1, InvariantIInv, PTL

-----------------------------------------------------------------------------
\* What is lost, and in which order.

(* A frame that arrives is not among those that arrived before. *)
LEMMA NewFrameIsNew ==
  ASSUME IInv, NEW f \in Frame, f.id = arrived + 1
  PROVE  f \notin Everywhere
  BY EverywhereFrames, OfflineQueueAssumption
  DEF IInv, NoneFromTheFuture, TypeOK

(* An eviction takes the channel frame in the lowest slot that holds one. *)
LEMMA Eviction ==
  ASSUME IInv, NEW f \in Frame, EvictOldestChannelMsg(f)
  PROVE  \E pos \in InUse :
           /\ isChannelMsg(offline_queue[pos])
           /\ \A i \in InUse : isChannelMsg(offline_queue[i]) => pos <= i
           /\ evicted' = evicted \union {offline_queue[pos]}
           /\ refused' = refused
           /\ offline_queue_len = OFFLINE_QUEUE_SIZE
           /\ Queued' = (Queued \ {offline_queue[pos]}) \union {f}
<1> PICK pos \in ChannelSlots :
           /\ \A other \in ChannelSlots : pos <= other
           /\ offline_queue' =
                [ShiftDown(pos) EXCEPT ![offline_queue_len - 1] = f]
           /\ evicted' = evicted \union {offline_queue[pos]}
  BY DEF EvictOldestChannelMsg
<1>1. /\ pos \in InUse /\ isChannelMsg(offline_queue[pos])
      /\ \A i \in InUse : isChannelMsg(offline_queue[i]) => pos <= i
  BY DEF ChannelSlots
<1>2. /\ offline_queue_len >= OFFLINE_QUEUE_SIZE
      /\ offline_queue_len' = offline_queue_len
      /\ refused' = refused
  BY DEF EvictOldestChannelMsg
<1>3. offline_queue_len = OFFLINE_QUEUE_SIZE
  BY <1>2, OfflineQueueAssumption DEF IInv, TypeOK
<1>4. Queued' = (Queued \ {offline_queue[pos]}) \union {f}
  BY <1>1, <1>2, EvictQueued
<1> QED BY <1>1, <1>2, <1>3, <1>4

(* Reading adds the frame in slot 0 to those read. *)
LEMMA GetSynced ==
  ASSUME IInv, getFromOfflineQueue
  PROVE  /\ offline_queue[0] \in Queued
         /\ Queued' = Queued \ {offline_queue[0]}
         /\ Synced' = Synced \union {offline_queue[0]}
<1>1. 0 \in InUse /\ Queued' = Queued \ {offline_queue[0]}
  BY GetQueued
<1>2. offline_queue[0] \in Frame
  BY <1>1 DEF IInv, TypeOK
<1>3. Synced' = Synced \union {offline_queue[0]}
  <2>1. synced' = Append(synced, offline_queue[0]) /\ synced \in Seq(Frame)
    BY DEF getFromOfflineQueue, IInv, TypeOK
  <2> QED BY <1>2, <2>1 DEF Synced
<1> QED BY <1>1, <1>3 DEF Queued

(* A message from a contact, once queued, is never given up
   (the test isChannelMsg in MyMesh::addToOfflineQueue). *)
THEOREM DirectMessagesNeverEvicted == Spec => []DirectMessagesKept
<1>1. Init => DirectMessagesKept
  BY DEF Init, DirectMessagesKept
<1>2. IInv /\ DirectMessagesKept /\ [Next]_queueVars => DirectMessagesKept'
  <2> SUFFICES ASSUME IInv, DirectMessagesKept, [Next]_queueVars
               PROVE  DirectMessagesKept'
    OBVIOUS
  <2>1. ASSUME NEW code \in Codes, addToOfflineQueue(code)
        PROVE  DirectMessagesKept'
    <3> PICK f \in Frame : \/ AppendFrame(f)
                           \/ EvictOldestChannelMsg(f)
                           \/ RefuseFrame(f)
      BY <2>1, ArrivalCases DEF IInv
    <3>1. CASE AppendFrame(f)
      BY <3>1 DEF AppendFrame, DirectMessagesKept
    <3>2. CASE EvictOldestChannelMsg(f)
      BY <3>2, Eviction DEF DirectMessagesKept
    <3>3. CASE RefuseFrame(f)
      BY <3>3 DEF RefuseFrame, DirectMessagesKept
    <3> QED BY <3>1, <3>2, <3>3
  <2>2. CASE getFromOfflineQueue
    BY <2>2 DEF getFromOfflineQueue, DirectMessagesKept
  <2>3. CASE UNCHANGED queueVars
    BY <2>3 DEF queueVars, DirectMessagesKept
  <2> QED BY <2>1, <2>2, <2>3 DEF Next
<1> QED BY <1>1, <1>2, InvariantIInv, PTL DEF Spec

(* No channel frame older than an evicted one stays in the queue: the search
   from slot 0 finds the oldest because the slots are ordered by arrival. *)
THEOREM EvictionByAge == Spec => []OldestEvictedFirst
<1>1. Init => OldestEvictedFirst
  BY DEF Init, OldestEvictedFirst
<1>2. IInv /\ OldestEvictedFirst /\ [Next]_queueVars => OldestEvictedFirst'
  <2> SUFFICES ASSUME IInv, OldestEvictedFirst, [Next]_queueVars
               PROVE  OldestEvictedFirst'
    OBVIOUS
  <2>1. ASSUME NEW code \in Codes, addToOfflineQueue(code)
        PROVE  OldestEvictedFirst'
    <3> PICK f \in Frame : /\ f.id = arrived + 1
                           /\ \/ AppendFrame(f)
                              \/ EvictOldestChannelMsg(f)
                              \/ RefuseFrame(f)
      BY <2>1, ArrivalCases DEF IInv
    <3>0. \A e \in Everywhere : e.id < f.id
      BY EverywhereFrames, FrameIds, OfflineQueueAssumption
      DEF IInv, NoneFromTheFuture, TypeOK
    <3>1. CASE AppendFrame(f)
      <4>1. Queued' = Queued \union {f} /\ evicted' = evicted
        BY <3>1, AppendQueued DEF AppendFrame, IInv
      <4> QED BY <3>0, <4>1 DEF OldestEvictedFirst, Everywhere
    <3>2. CASE EvictOldestChannelMsg(f)
      <4> PICK pos \in InUse :
             /\ \A i \in InUse : isChannelMsg(offline_queue[i]) => pos <= i
             /\ evicted' = evicted \union {offline_queue[pos]}
             /\ Queued' = (Queued \ {offline_queue[pos]}) \union {f}
        BY <3>2, Eviction
      <4>1. \A q \in Queued \ {offline_queue[pos]} :
              isChannelMsg(q) => offline_queue[pos].id < q.id
        <5> SUFFICES ASSUME NEW i \in InUse, i # pos,
                            isChannelMsg(offline_queue[i])
                     PROVE  offline_queue[pos].id < offline_queue[i].id
          BY DEF Queued
        <5>1. pos < i
          BY InUseSlots DEF IInv
        <5> QED BY <5>1 DEF IInv, ArrivalOrder
      <4>2. offline_queue[pos] \in Everywhere
        BY DEF Everywhere, Queued
      <4> QED BY <3>0, <4>1, <4>2 DEF OldestEvictedFirst, Everywhere
    <3>3. CASE RefuseFrame(f)
      BY <3>3 DEF RefuseFrame, OldestEvictedFirst, Queued, InUse
    <3> QED BY <3>1, <3>2, <3>3
  <2>2. CASE getFromOfflineQueue
    BY <2>2, GetSynced DEF getFromOfflineQueue, OldestEvictedFirst
  <2>3. CASE UNCHANGED queueVars
    BY <2>3 DEF queueVars, OldestEvictedFirst, Queued, InUse
  <2> QED BY <2>1, <2>2, <2>3 DEF Next
<1> QED BY <1>1, <1>2, InvariantIInv, PTL DEF Spec

(* Every frame that arrived is accounted for exactly once: the shifts neither
   drop nor duplicate a frame. *)
THEOREM EveryFrameAccountedFor == Spec => []NothingVanishes
<1> DEFINE Ids == {f.id : f \in Everywhere}
<1>1. Init => NothingVanishes
  <2> SUFFICES ASSUME Init
               PROVE  NothingVanishes
    OBVIOUS
  <2>1. InUse = {}
    BY DEF Init, InUse, Slots
  <2>2. Queued = {} /\ Synced = {} /\ evicted = {} /\ refused = {}
    BY <2>1 DEF Init, Queued, Synced
  <2>3. 1..arrived = {}
    BY DEF Init
  <2> QED BY <2>2, <2>3 DEF NothingVanishes
<1>2. IInv /\ NothingVanishes /\ [Next]_queueVars => NothingVanishes'
  <2> SUFFICES ASSUME IInv, NothingVanishes, [Next]_queueVars
               PROVE  NothingVanishes'
    OBVIOUS
  <2>0. Ids = 1..arrived
    BY DEF NothingVanishes, Everywhere
  <2>1. ASSUME NEW code \in Codes, addToOfflineQueue(code)
        PROVE  NothingVanishes'
    <3> PICK f \in Frame : /\ f.id = arrived + 1 /\ arrived' = arrived + 1
                           /\ synced' = synced
                           /\ \/ AppendFrame(f)
                              \/ EvictOldestChannelMsg(f)
                              \/ RefuseFrame(f)
      BY <2>1, ArrivalCases DEF IInv
    <3>0. f \notin Everywhere /\ Synced' = Synced
      BY NewFrameIsNew DEF Synced
    <3>1. ASSUME Everywhere' = Everywhere \union {f}
          PROVE  Ids' = 1..arrived'
      <4>1. Ids' = Ids \union {arrived + 1}
        BY <3>1
      <4> QED BY <2>0, <4>1 DEF IInv, TypeOK
    <3>2. CASE AppendFrame(f)
      <4>1. Queued' = Queued \union {f}
        BY <3>2, AppendQueued DEF IInv
      <4>2. UNCHANGED <<evicted, refused>>
        BY <3>2 DEF AppendFrame
      <4>3. Everywhere' = Everywhere \union {f}
        BY <3>0, <4>1, <4>2 DEF Everywhere
      <4> QED BY <3>0, <3>1, <4>1, <4>2, <4>3 DEF NothingVanishes, Everywhere
    <3>3. CASE EvictOldestChannelMsg(f)
      <4> PICK pos \in InUse :
             /\ evicted' = evicted \union {offline_queue[pos]}
             /\ refused' = refused
             /\ Queued' = (Queued \ {offline_queue[pos]}) \union {f}
        BY <3>3, Eviction
      <4>1. offline_queue[pos] \in Queued
        BY DEF Queued
      <4>2. Everywhere' = Everywhere \union {f}
        BY <3>0, <4>1 DEF Everywhere
      <4> QED BY <3>0, <3>1, <4>1, <4>2 DEF NothingVanishes, Everywhere
    <3>4. CASE RefuseFrame(f)
      <4>1. Queued' = Queued /\ evicted' = evicted
            /\ refused' = refused \union {f}
        BY <3>4 DEF RefuseFrame, Queued, InUse
      <4>2. Everywhere' = Everywhere \union {f}
        BY <3>0, <4>1 DEF Everywhere
      <4> QED BY <3>0, <3>1, <4>1, <4>2 DEF NothingVanishes, Everywhere
    <3> QED BY <3>2, <3>3, <3>4
  <2>2. CASE getFromOfflineQueue
    <3>1. UNCHANGED <<arrived, evicted, refused>>
      BY <2>2 DEF getFromOfflineQueue
    <3> QED BY <2>2, <3>1, GetSynced DEF NothingVanishes
  <2>3. CASE UNCHANGED queueVars
    BY <2>3 DEF queueVars, NothingVanishes, Synced, Queued, InUse
  <2> QED BY <2>1, <2>2, <2>3 DEF Next
<1> QED BY <1>1, <1>2, InvariantIInv, PTL DEF Spec

-----------------------------------------------------------------------------
\* The queue implements the abstract inbox.

(* The slots in use hold pairwise different frames, so the set of frames has
   as many members as there are slots in use. *)
LEMMA QueuedCardinality ==
  ASSUME IInv
  PROVE  IsFiniteSet(Queued) /\ Cardinality(Queued) = offline_queue_len
<1> DEFINE at == [i \in InUse |-> offline_queue[i]]
<1>1. /\ InUse = 0..(offline_queue_len - 1)
      /\ offline_queue_len \in Nat
  BY InUseSlots DEF IInv
<1>2. IsFiniteSet(InUse) /\ Cardinality(InUse) = offline_queue_len
  BY <1>1, FS_Interval
<1>3. \A i, j \in InUse : offline_queue[i] = offline_queue[j] => i = j
  BY <1>1, EverywhereFrames DEF IInv, ArrivalOrder
<1>4. at \in Bijection(InUse, Queued)
  BY <1>3 DEF Bijection, Injection, IsInjective, Surjection, Queued
<1>5. ExistsBijection(InUse, Queued)
  BY <1>4 DEF ExistsBijection
<1> QED BY <1>2, <1>5, FS_Bijection

(* The inbox counts as the queue does. *)
LEMMA SameCardinality ==
  AbstractInbox!Cardinality(Queued) = Cardinality(Queued)
  BY DEF AbstractInbox!Cardinality, Cardinality

(* Each operation of the queue is a step of the inbox. *)
LEMMA StepImplements ==
  IInv /\ [Next]_queueVars => [AbstractInbox!InboxNext]_(AbstractInbox!inboxVars)
<1> SUFFICES ASSUME IInv, [Next]_queueVars
             PROVE  AbstractInbox!InboxNext \/ UNCHANGED AbstractInbox!inboxVars
  OBVIOUS
<1>0. /\ AbstractInbox!Cardinality(Queued) = offline_queue_len
      /\ offline_queue_len \in 0..OFFLINE_QUEUE_SIZE
      /\ Queued \subseteq Frame
  BY QueuedCardinality, SameCardinality, QueuedFrames DEF IInv, TypeOK
<1>1. ASSUME NEW code \in Codes, addToOfflineQueue(code)
      PROVE  AbstractInbox!InboxNext
  <2> PICK f \in Frame : /\ f.id = arrived + 1
                         /\ synced' = synced
                         /\ \/ AppendFrame(f)
                            \/ EvictOldestChannelMsg(f)
                            \/ RefuseFrame(f)
    BY <1>1, ArrivalCases DEF IInv
  <2>0. \A n \in Queued : n.id < f.id
    BY EverywhereFrames, FrameIds, OfflineQueueAssumption
    DEF IInv, NoneFromTheFuture, TypeOK, Everywhere
  <2>1. CASE AppendFrame(f)
    <3>1. Queued' = Queued \union {f} /\ UNCHANGED <<evicted, refused>>
      BY <2>1, AppendQueued DEF AppendFrame, IInv
    <3>2. AbstractInbox!Keep(f)
      BY <1>0, <2>1, <3>1 DEF AbstractInbox!Keep, AppendFrame
    <3> QED BY <2>0, <3>2 DEF AbstractInbox!InboxNext, AbstractInbox!Arrive
  <2>2. CASE EvictOldestChannelMsg(f)
    <3> PICK pos \in InUse :
           /\ isChannelMsg(offline_queue[pos])
           /\ \A i \in InUse : isChannelMsg(offline_queue[i]) => pos <= i
           /\ evicted' = evicted \union {offline_queue[pos]}
           /\ refused' = refused
           /\ offline_queue_len = OFFLINE_QUEUE_SIZE
           /\ Queued' = (Queued \ {offline_queue[pos]}) \union {f}
      BY <2>2, Eviction
    <3> DEFINE broadcast == {g \in Frame : isChannelMsg(g)}
    <3>1. offline_queue[pos] \in Queued \intersect broadcast
      BY <1>0 DEF Queued
    <3>2. \A i \in InUse : isChannelMsg(offline_queue[i]) =>
            offline_queue[pos].id <= offline_queue[i].id
      BY EverywhereFrames, InUseSlots DEF IInv, ArrivalOrder
    <3>3. offline_queue[pos] \in AbstractInbox!Oldest(Queued \intersect broadcast)
      BY <3>1, <3>2 DEF AbstractInbox!Oldest, Queued
    <3>4. AbstractInbox!PushOut(f)
      BY <1>0, <3>3 DEF AbstractInbox!PushOut
    <3> QED BY <2>0, <3>4 DEF AbstractInbox!InboxNext, AbstractInbox!Arrive
  <2>3. CASE RefuseFrame(f)
    <3>1. /\ Queued' = Queued /\ evicted' = evicted
          /\ refused' = refused \union {f}
          /\ offline_queue_len = OFFLINE_QUEUE_SIZE
      BY <1>0, <2>3, OfflineQueueAssumption DEF RefuseFrame, Queued, InUse
    <3>2. Queued \intersect {g \in Frame : isChannelMsg(g)} = {}
      BY <2>3 DEF RefuseFrame, ChannelSlots, Queued
    <3>3. AbstractInbox!TurnAway(f)
      BY <1>0, <3>1, <3>2 DEF AbstractInbox!TurnAway
    <3> QED BY <2>0, <3>3 DEF AbstractInbox!InboxNext, AbstractInbox!Arrive
  <2> QED BY <2>1, <2>2, <2>3
<1>2. CASE getFromOfflineQueue
  <2>1. /\ offline_queue[0] \in Queued
        /\ Queued' = Queued \ {offline_queue[0]}
    BY <1>2, GetSynced
  <2>2. 0 \in InUse
    BY <1>2, GetQueued
  <2>3. \A i \in InUse : offline_queue[0].id <= offline_queue[i].id
    BY <2>2, EverywhereFrames, InUseSlots DEF IInv, ArrivalOrder
  <2>4. offline_queue[0] \in AbstractInbox!Oldest(Queued)
    BY <2>1, <2>3 DEF AbstractInbox!Oldest, Queued
  <2>5. AbstractInbox!Read
    BY <1>2, <2>1, <2>4 DEF AbstractInbox!Read, getFromOfflineQueue
  <2> QED BY <2>5 DEF AbstractInbox!InboxNext
<1>3. CASE UNCHANGED queueVars
  BY <1>3 DEF queueVars, AbstractInbox!inboxVars, Queued, InUse
<1> QED BY <1>1, <1>2, <1>3 DEF Next

(* The array of slots with its shifting loops is an inbox that is read oldest
   first and gives up only its oldest broadcast, for every capacity. *)
THEOREM QueueIsInbox == Spec => ImplementsInbox
<1>1. Init => AbstractInbox!InboxInit
  <2> SUFFICES ASSUME Init
               PROVE  AbstractInbox!InboxInit
    OBVIOUS
  <2>1. InUse = {}
    BY DEF Init, InUse, Slots
  <2> QED BY <2>1 DEF Init, AbstractInbox!InboxInit, Queued
<1> QED BY <1>1, StepImplements, InvariantIInv, PTL
        DEF Spec, ImplementsInbox, AbstractInbox!InboxSpec

-----------------------------------------------------------------------------
\* The queue with its readers and the link.

Replies == {Reply(code) : code \in Plain}
LinkFrame == Frame \union Replies

Pushed == {"MSG_WAITING", "LOG_RX_DATA"}

\* The places on the link of what answers a command.
AnswersIn(link) == {i \in DOMAIN link : link[i].code \notin Pushed}

LinkTypes ==
  /\ app_target_ver \in AppVersions \union {0}
  /\ app \in AppStates
  /\ connected \in BOOLEAN /\ tickleLost \in BOOLEAN
  /\ toApp \in Seq(LinkFrame) /\ Len(toApp) <= LinkCap
  /\ toDevice \in Seq(Commands) /\ Len(toDevice) <= 1
  /\ received \in Seq(Frame)
  /\ connected => app # "away" /\ appVer \in AppVersions
  /\ ~connected => app = "away" /\ toApp = <<>> /\ toDevice = <<>>

OneQuestion ==
  /\ toDevice # <<>> =>
       /\ AnswersIn(toApp) = {}
       /\ app = IF Head(toDevice).cmd = "DEVICE_QUERY" THEN "asking"
                ELSE "reading"
  /\ AnswersIn(toApp) # {} => app \in {"asking", "reading"}
  /\ \A i, j \in AnswersIn(toApp) : i = j
  /\ \A i \in AnswersIn(toApp) :
       app = IF toApp[i].code = "DEVICE_INFO" THEN "asking" ELSE "reading"

GotFromQueue ==
  /\ \A k \in DOMAIN received : received[k] \in Synced
  /\ \A i \in DOMAIN toApp : toApp[i].code \in Codes =>
       /\ toApp[i] \in Synced
       /\ \A k \in DOMAIN received : received[k].id < toApp[i].id

TickleBehind ==
  connected /\ offline_queue_len > 0 /\ ~tickleLost =>
    \A i \in DOMAIN toApp : toApp[i].code = "NO_MORE_MESSAGES" =>
      \E j \in DOMAIN toApp : j > i /\ toApp[j].code = "MSG_WAITING"

LinkIInv ==
  LinkTypes /\ OneQuestion /\ GotFromQueue /\ AppReadsInOrder
    /\ TickleBehind /\ NoLostWakeUp

SyncIInv == IInv /\ LinkIInv

-----------------------------------------------------------------------------
\* The link.

(* The codes of the answers, the pushes and the messages are different. *)
LEMMA LinkFrameCodes ==
  /\ \A f \in LinkFrame : f.code \in Codes \union Plain
  /\ \A f \in LinkFrame : f.code \in Codes => f \in Frame
  /\ \A f \in Frame : f \in LinkFrame /\ f.code \in Codes
  /\ \A code \in Plain :
       Reply(code) \in LinkFrame /\ Reply(code).code = code
  /\ Codes \intersect Plain = {}
  /\ Pushed \subseteq Plain
<1>1. Codes \intersect Plain = {} /\ Pushed \subseteq Plain
  BY DEF Codes, DirectCodes, ChannelCodes, Plain, Pushed
<1>2. \A code \in Plain : Reply(code) \in Replies /\ Reply(code).code = code
  BY DEF Replies, Reply
<1>3. \A f \in Frame : f.code \in Codes
  BY DEF Frame
<1>4. \A f \in Replies : f.code \in Plain
  BY <1>2 DEF Replies
<1> QED BY <1>1, <1>2, <1>3, <1>4 DEF LinkFrame

NothingOnLink ==
  /\ <<>> \in Seq(LinkFrame) /\ Len(<<>>) <= LinkCap
  /\ <<>> \in Seq(Commands) /\ Len(<<>>) <= 1

(* The empty link is within its bounds. *)
LEMMA EmptyLink == NothingOnLink
<1>1. \A S : <<>> \in Seq(S) /\ Len(<<>>) = 0
  BY EmptySeq
<1>2. LinkCap \in Nat
  BY MessageSyncAssumption
<1> QED BY <1>1, <1>2 DEF NothingOnLink

(* A frame that is written goes behind the others, or nowhere. *)
LEMMA Written ==
  ASSUME LinkTypes, NEW f \in LinkFrame, writeFrame(f)
  PROVE  /\ toApp' \in Seq(LinkFrame) /\ Len(toApp') <= LinkCap
         /\ DOMAIN toApp = 1..Len(toApp) /\ Len(toApp) \in Nat
         /\ \/ /\ Accepts
               /\ DOMAIN toApp' = DOMAIN toApp \union {Len(toApp) + 1}
               /\ toApp'[Len(toApp) + 1] = f
               /\ \A i \in DOMAIN toApp : toApp'[i] = toApp[i]
            \/ ~Accepts /\ toApp' = toApp
  BY MessageSyncAssumption DEF LinkTypes, writeFrame, Accepts

(* The frame the app reads was the first, and the others move up. *)
LEMMA Taken ==
  ASSUME LinkTypes, toApp # <<>>
  PROVE  /\ Tail(toApp) \in Seq(LinkFrame) /\ Len(Tail(toApp)) <= LinkCap
         /\ 1 \in DOMAIN toApp /\ Head(toApp) = toApp[1]
         /\ Head(toApp) \in LinkFrame
         /\ DOMAIN toApp = 1..Len(toApp) /\ Len(toApp) \in Nat
         /\ DOMAIN Tail(toApp) = 1..(Len(toApp) - 1)
         /\ \A i \in DOMAIN Tail(toApp) :
              i + 1 \in DOMAIN toApp /\ Tail(toApp)[i] = toApp[i + 1]
  BY MessageSyncAssumption DEF LinkTypes

(* A command is taken: there was one, so nothing is left of them. *)
LEMMA CommandTaken ==
  ASSUME LinkTypes, NEW name, TakeCommand(name)
  PROVE  /\ toDevice # <<>> /\ Head(toDevice) \in Commands
         /\ Head(toDevice).cmd = name
         /\ toDevice' = <<>>
         /\ connected' = connected /\ UNCHANGED appVars
<1>1. toDevice # <<>> /\ Len(toDevice) = 1 /\ toDevice' = Tail(toDevice)
  <2>1. toDevice # <<>> /\ toDevice' = Tail(toDevice)
    BY DEF TakeCommand
  <2>2. toDevice \in Seq(Commands) /\ Len(toDevice) <= 1
    BY DEF LinkTypes
  <2>3. Len(toDevice) \in Nat \ {0}
    BY <2>1, <2>2, EmptySeq
  <2>4. \A n \in Nat \ {0} : n <= 1 => n = 1
    OBVIOUS
  <2>5. Len(toDevice) = 1
    BY <2>2, <2>3, <2>4, Zenon
  <2> QED BY <2>1, <2>5
<1>2. toDevice' = <<>>
  <2>1. toDevice \in Seq(Commands)
    BY DEF LinkTypes
  <2>2. Tail(toDevice) \in Seq(Commands) /\ Len(Tail(toDevice)) = 0
    BY <1>1, <2>1, HeadTailProperties
  <2> QED BY <1>1, <2>2, EmptySeq
<1> QED BY <1>1, <1>2 DEF LinkTypes, TakeCommand

-----------------------------------------------------------------------------
\* Steps that push: the questions and what was read stay as they are.

(* A push disturbs neither the question under way nor the messages got. *)
LEMMA PushKeeps ==
  ASSUME LinkIInv, NEW code \in Pushed, writeFrame(Reply(code)),
         UNCHANGED <<app_target_ver, connected, toDevice, appVars, Synced>>,
         tickleLost' \in BOOLEAN
  PROVE  LinkTypes' /\ OneQuestion' /\ GotFromQueue' /\ AppReadsInOrder'
<1> DEFINE f == Reply(code)
<1> USE DEF LinkIInv
<1>1. f \in LinkFrame /\ f.code = code /\ code \notin Codes /\ code \in Pushed
  BY LinkFrameCodes
<1>2. /\ toApp' \in Seq(LinkFrame) /\ Len(toApp') <= LinkCap
      /\ \A i \in DOMAIN toApp' :
           \/ i \in DOMAIN toApp /\ toApp'[i] = toApp[i]
           \/ toApp'[i] = f
      /\ \A i \in DOMAIN toApp : i \in DOMAIN toApp' /\ toApp'[i] = toApp[i]
      /\ ~connected => toApp' = toApp
  BY <1>1, Written DEF Accepts
<1> HIDE DEF f
<1>3. LinkTypes'
  BY <1>2 DEF LinkTypes, appVars
<1>4. /\ AnswersIn(toApp') = AnswersIn(toApp)
      /\ \A i \in AnswersIn(toApp) : toApp'[i] = toApp[i]
  BY <1>1, <1>2 DEF AnswersIn
<1>5. OneQuestion'
  BY <1>4 DEF OneQuestion, appVars
<1>6. GotFromQueue' /\ AppReadsInOrder'
  BY <1>1, <1>2 DEF GotFromQueue, AppReadsInOrder, appVars
<1> QED BY <1>3, <1>5, <1>6

(* A message arrives: whether it is queued or not, a tickle is behind all
   that is on the link, or it was lost. *)
LEMMA MessageStep ==
  ASSUME SyncIInv, NEW code \in Codes, addToOfflineQueue(code), Tickle
  PROVE  SyncIInv'
<1> DEFINE f == Reply("MSG_WAITING")
<1> USE DEF SyncIInv, LinkIInv
<1>1. IInv'
  BY NextIInv DEF Next
<1>2. Synced' = Synced
  BY DEF addToOfflineQueue, Synced
<1>3. "MSG_WAITING" \in Pushed /\ f \in LinkFrame /\ f.code = "MSG_WAITING"
  BY LinkFrameCodes DEF Pushed
<1>4. CASE connected
  <2>1. /\ writeFrame(f) /\ tickleLost' = (tickleLost \/ ~Accepts)
        /\ UNCHANGED <<app_target_ver, connected, toDevice, appVars>>
    BY <1>4 DEF Tickle
  <2>2. tickleLost' \in BOOLEAN
    BY <2>1 DEF LinkTypes, Accepts
  <2>3. LinkTypes' /\ OneQuestion' /\ GotFromQueue' /\ AppReadsInOrder'
    BY <1>2, <1>3, <2>1, <2>2, PushKeeps
  <2>4. CASE Accepts
    <3> DEFINE last == Len(toApp) + 1
    <3>1. /\ last \in DOMAIN toApp' /\ toApp'[last] = f
          /\ DOMAIN toApp' = DOMAIN toApp \union {last}
          /\ \A i \in DOMAIN toApp : i < last
      <4>1. /\ DOMAIN toApp = 1..Len(toApp) /\ Len(toApp) \in Nat
            /\ DOMAIN toApp' = DOMAIN toApp \union {last}
            /\ toApp'[last] = f
        <5> HIDE DEF f
        <5> QED BY <1>3, <2>1, <2>4, Written
      <4> QED BY <4>1
    <3>2. toApp'[last].code = "MSG_WAITING"
      BY <1>3, <3>1
    <3>3. \A i \in DOMAIN toApp' :
            toApp'[i].code = "NO_MORE_MESSAGES" => i < last
      BY <3>1, <3>2
    <3> HIDE DEF last
    <3> QED BY <1>1, <2>3, <3>1, <3>2, <3>3 DEF TickleBehind, NoLostWakeUp
  <2>5. CASE ~Accepts
    BY <1>1, <2>1, <2>3, <2>5 DEF TickleBehind, NoLostWakeUp
  <2> QED BY <2>4, <2>5
<1>5. CASE ~connected
  <2>1. UNCHANGED <<app_target_ver, linkVars, appVars, tickleLost>>
    BY <1>5 DEF Tickle, linkVars
  <2> QED
    BY <1>1, <1>2, <1>5, <2>1
    DEF linkVars, appVars, LinkTypes, OneQuestion, GotFromQueue,
        AppReadsInOrder, TickleBehind, NoLostWakeUp
<1> QED BY <1>4, <1>5 DEF LinkTypes

(* What a handler leaves the queue untouched leaves its invariant. *)
LEMMA QueueUntouched ==
  ASSUME SyncIInv, UNCHANGED queueVars
  PROVE  IInv' /\ Synced' = Synced /\ offline_queue_len' = offline_queue_len
  BY NextIInv DEF SyncIInv, queueVars, Synced

(* A pushed log frame takes room on the link and means nothing else. *)
LEMMA LogStep ==
  ASSUME SyncIInv, logRxRaw
  PROVE  SyncIInv'
<1> DEFINE f == Reply("LOG_RX_DATA")
<1> USE DEF SyncIInv, LinkIInv
<1>1. /\ IInv' /\ Synced' = Synced
      /\ offline_queue_len' = offline_queue_len
  BY QueueUntouched DEF logRxRaw
<1>2. "LOG_RX_DATA" \in Pushed /\ f \in LinkFrame /\ f.code = "LOG_RX_DATA"
  BY LinkFrameCodes DEF Pushed
<1>3. /\ writeFrame(f)
      /\ UNCHANGED <<app_target_ver, connected, toDevice, appVars, tickleLost>>
  BY DEF logRxRaw
<1>4. LinkTypes' /\ OneQuestion' /\ GotFromQueue' /\ AppReadsInOrder'
  BY <1>1, <1>2, <1>3, PushKeeps DEF LinkTypes
<1>5. /\ \A i \in DOMAIN toApp : i \in DOMAIN toApp' /\ toApp'[i] = toApp[i]
      /\ \A i \in DOMAIN toApp' :
           toApp'[i].code = "NO_MORE_MESSAGES" => i \in DOMAIN toApp
  BY <1>2, <1>3, Written
<1>6. TickleBehind' /\ NoLostWakeUp'
  BY <1>1, <1>3, <1>5 DEF TickleBehind, NoLostWakeUp, appVars
<1> QED BY <1>1, <1>4, <1>6

-----------------------------------------------------------------------------
\* Commands: the only question is answered by the only answer.

(* The answer to the only question is the only answer on the link. *)
LEMMA AnswerKeeps ==
  ASSUME LinkIInv, NEW name, TakeCommand(name), NEW f \in LinkFrame,
         writeFrame(f), f.code \notin Pushed,
         app = IF f.code = "DEVICE_INFO" THEN "asking" ELSE "reading",
         app_target_ver' \in AppVersions \union {0}, tickleLost' = tickleLost
  PROVE  /\ LinkTypes' /\ OneQuestion'
         /\ \A i \in DOMAIN toApp : toApp[i].code \in Pushed
         /\ \A i \in DOMAIN toApp' :
              \/ i \in DOMAIN toApp /\ toApp'[i] = toApp[i]
              \/ toApp'[i] = f
<1> USE DEF LinkIInv
<1>1. /\ toDevice # <<>> /\ toDevice' = <<>> /\ UNCHANGED appVars
      /\ connected' = connected
  BY CommandTaken
<1>2. AnswersIn(toApp) = {}
  BY <1>1 DEF OneQuestion
<1>3. \A i \in DOMAIN toApp : toApp[i].code \in Pushed
  BY <1>2 DEF AnswersIn
<1>4. /\ toApp' \in Seq(LinkFrame) /\ Len(toApp') <= LinkCap
      /\ \/ /\ DOMAIN toApp' = DOMAIN toApp \union {Len(toApp) + 1}
            /\ toApp'[Len(toApp) + 1] = f
            /\ \A i \in DOMAIN toApp : toApp'[i] = toApp[i]
         \/ toApp' = toApp
      /\ ~connected => toApp' = toApp
  BY Written DEF Accepts
<1>5. LinkTypes'
  BY <1>1, <1>4 DEF LinkTypes, appVars
<1>6. \A i \in AnswersIn(toApp') : i = Len(toApp) + 1 /\ toApp'[i] = f
  BY <1>3, <1>4 DEF AnswersIn
<1>7. OneQuestion'
  BY <1>1, <1>6 DEF OneQuestion, appVars
<1> QED BY <1>3, <1>4, <1>5, <1>7

(* DEVICE_QUERY is answered by DEVICE_INFO, if the link has room. *)
LEMMA QueryStep ==
  ASSUME SyncIInv, CmdDeviceQuery
  PROVE  SyncIInv'
<1> DEFINE f == Reply("DEVICE_INFO")
<1> USE DEF SyncIInv, LinkIInv
<1>1. /\ IInv' /\ Synced' = Synced
      /\ offline_queue_len' = offline_queue_len
  BY QueueUntouched DEF CmdDeviceQuery
<1>2. /\ TakeCommand("DEVICE_QUERY") /\ writeFrame(f)
      /\ app_target_ver' = Head(toDevice).ver /\ tickleLost' = tickleLost
  BY DEF CmdDeviceQuery
<1>3. /\ f \in LinkFrame /\ f.code = "DEVICE_INFO"
      /\ f.code \notin Pushed /\ f.code \notin Codes
  BY LinkFrameCodes DEF Plain, Pushed
<1>4. Head(toDevice) \in Commands /\ app = "asking" /\ UNCHANGED appVars
  BY <1>2, CommandTaken DEF OneQuestion
<1>5. app_target_ver' \in AppVersions \union {0}
  BY <1>2, <1>4 DEF Commands
<1>6. /\ LinkTypes' /\ OneQuestion'
      /\ \A i \in DOMAIN toApp : toApp[i].code \in Pushed
      /\ \A i \in DOMAIN toApp' :
           \/ i \in DOMAIN toApp /\ toApp'[i] = toApp[i]
           \/ toApp'[i] = f
  BY <1>2, <1>3, <1>4, <1>5, AnswerKeeps
<1>7. \A i \in DOMAIN toApp' :
        toApp'[i].code \notin Codes /\ toApp'[i].code # "NO_MORE_MESSAGES"
  BY <1>3, <1>6, LinkFrameCodes DEF Pushed
<1>8. GotFromQueue' /\ AppReadsInOrder' /\ TickleBehind' /\ NoLostWakeUp'
  BY <1>1, <1>4, <1>7
  DEF GotFromQueue, AppReadsInOrder, TickleBehind, NoLostWakeUp, appVars
<1> QED BY <1>1, <1>6, <1>8

(* SYNC_NEXT_MESSAGE is answered by the oldest message of the queue, newer
   than all the app has read, or by NO_MORE_MESSAGES. *)
LEMMA SyncStep ==
  ASSUME SyncIInv, CmdSyncNextMessage
  PROVE  SyncIInv'
<1> USE DEF SyncIInv, LinkIInv
<1>1. /\ TakeCommand("SYNC_NEXT_MESSAGE") /\ tickleLost' = tickleLost
      /\ app_target_ver' = app_target_ver
  BY DEF CmdSyncNextMessage
<1>2. app = "reading" /\ UNCHANGED appVars
  BY <1>1, CommandTaken DEF OneQuestion
<1>3. app_target_ver' \in AppVersions \union {0}
  BY <1>1 DEF LinkTypes
<1>4. NoLostWakeUp'
  BY <1>2 DEF NoLostWakeUp, appVars
<1>5. CASE offline_queue_len > 0
  <2> DEFINE f == offline_queue[0]
  <2>1. getFromOfflineQueue /\ writeFrame(f)
    BY <1>5 DEF CmdSyncNextMessage
  <2>2. IInv'
    BY <2>1, NextIInv DEF Next
  <2>3. Synced' = Synced \union {f} /\ 0 \in InUse
    BY <2>1, GetSynced, GetQueued
  <2>4. f \in Frame /\ \A s \in Synced : s.id < f.id
    BY <2>3 DEF IInv, TypeOK, ArrivalOrder, Synced
  <2>5. /\ f \in LinkFrame /\ f.code \in Codes
        /\ f.code \notin Pushed /\ f.code \notin Plain
    BY <2>4, LinkFrameCodes
  <2>6. f.code # "DEVICE_INFO" /\ f.code # "NO_MORE_MESSAGES"
    BY <2>5 DEF Plain
  <2>7. /\ LinkTypes' /\ OneQuestion'
        /\ \A i \in DOMAIN toApp : toApp[i].code \in Pushed
        /\ \A i \in DOMAIN toApp' :
             \/ i \in DOMAIN toApp /\ toApp'[i] = toApp[i]
             \/ toApp'[i] = f
    BY <1>1, <1>2, <1>3, <2>1, <2>5, <2>6, AnswerKeeps
  <2> HIDE DEF f
  <2>8. \A i \in DOMAIN toApp' :
          /\ toApp'[i].code # "NO_MORE_MESSAGES"
          /\ toApp'[i].code \in Codes => toApp'[i] = f
    BY <2>6, <2>7, LinkFrameCodes DEF Pushed
  <2>9. GotFromQueue' /\ AppReadsInOrder' /\ TickleBehind'
    BY <1>2, <2>3, <2>4, <2>8
    DEF GotFromQueue, AppReadsInOrder, TickleBehind, appVars
  <2> QED BY <1>4, <2>2, <2>7, <2>9
<1>6. CASE ~(offline_queue_len > 0)
  <2> DEFINE f == Reply("NO_MORE_MESSAGES")
  <2>1. writeFrame(f) /\ UNCHANGED queueVars
    BY <1>6 DEF CmdSyncNextMessage
  <2>2. /\ IInv' /\ Synced' = Synced
        /\ offline_queue_len' = offline_queue_len
    BY <2>1, QueueUntouched
  <2>3. /\ f \in LinkFrame /\ f.code \notin Pushed /\ f.code \notin Codes
        /\ f.code # "DEVICE_INFO"
    BY LinkFrameCodes DEF Plain, Pushed
  <2>4. /\ LinkTypes' /\ OneQuestion'
        /\ \A i \in DOMAIN toApp : toApp[i].code \in Pushed
        /\ \A i \in DOMAIN toApp' :
             \/ i \in DOMAIN toApp /\ toApp'[i] = toApp[i]
             \/ toApp'[i] = f
    BY <1>1, <1>2, <1>3, <2>1, <2>3, AnswerKeeps
  <2> HIDE DEF f
  <2>5. \A i \in DOMAIN toApp' : toApp'[i].code \notin Codes
    BY <2>3, <2>4, LinkFrameCodes
  <2>6. GotFromQueue' /\ AppReadsInOrder' /\ TickleBehind'
    BY <1>2, <1>6, <2>2, <2>5
    DEF GotFromQueue, AppReadsInOrder, TickleBehind, appVars
  <2> QED BY <1>4, <2>2, <2>4, <2>6
<1> QED BY <1>5, <1>6

-----------------------------------------------------------------------------
\* The app and the life of the link.

(* While the app is gone nothing is on the link; a new one begins anew. *)
LEMMA ConnectStep ==
  ASSUME SyncIInv, NEW v \in AppVersions, Connect(v)
  PROVE  SyncIInv'
<1> USE DEF SyncIInv, LinkIInv
<1>1. IInv' /\ Synced' = Synced
  BY QueueUntouched DEF Connect, nodeVars
<1>2. /\ toApp = <<>> /\ toDevice = <<>>
      /\ UNCHANGED <<app_target_ver, toApp, toDevice, received>>
      /\ connected' = TRUE /\ app' = "hello" /\ appVer' = v
      /\ tickleLost' = FALSE
  BY DEF Connect, nodeVars, LinkTypes
<1>3. LinkTypes'
  BY <1>2 DEF LinkTypes, AppStates
<1>4. DOMAIN toApp = {}
  BY <1>2
<1>5. OneQuestion' /\ GotFromQueue' /\ AppReadsInOrder'
  BY <1>1, <1>2, <1>4
  DEF OneQuestion, AnswersIn, GotFromQueue, AppReadsInOrder
<1>6. TickleBehind' /\ NoLostWakeUp'
  BY <1>2, <1>4 DEF TickleBehind, NoLostWakeUp
<1> QED BY <1>1, <1>3, <1>5, <1>6

(* A connection that breaks takes with it all that was on the link. *)
LEMMA DisconnectStep ==
  ASSUME SyncIInv, Disconnect
  PROVE  SyncIInv'
<1> USE DEF SyncIInv, LinkIInv
<1>1. IInv' /\ Synced' = Synced
  BY QueueUntouched DEF Disconnect, nodeVars
<1>2. /\ toApp' = <<>> /\ toDevice' = <<>> /\ app' = "away"
      /\ connected' = FALSE
      /\ UNCHANGED <<app_target_ver, appVer, received, tickleLost>>
  BY DEF Disconnect, nodeVars
<1>3. NothingOnLink
  BY EmptyLink
<1>4. LinkTypes'
  <2>1. app' \in AppStates
    BY <1>2 DEF AppStates
  <2>2. /\ app_target_ver \in AppVersions \union {0}
        /\ tickleLost \in BOOLEAN /\ received \in Seq(Frame)
    BY DEF LinkTypes
  <2> QED BY <1>2, <1>3, <2>1, <2>2 DEF LinkTypes, NothingOnLink
<1>5. DOMAIN toApp' = {}
  BY <1>2
<1>6. OneQuestion' /\ GotFromQueue' /\ AppReadsInOrder'
  BY <1>1, <1>2, <1>5
  DEF OneQuestion, AnswersIn, GotFromQueue, AppReadsInOrder
<1>7. TickleBehind' /\ NoLostWakeUp'
  BY <1>2 DEF TickleBehind, NoLostWakeUp
<1> QED BY <1>1, <1>4, <1>6, <1>7

(* A question is asked when none is under way. *)
LEMMA SendStep ==
  ASSUME SyncIInv, SendQuery \/ SendSync
  PROVE  SyncIInv'
<1> DEFINE hello == [cmd |-> "DEVICE_QUERY", ver |-> appVer]
           next  == [cmd |-> "SYNC_NEXT_MESSAGE", ver |-> 0]
<1> USE DEF SyncIInv, LinkIInv
<1>1. /\ connected /\ app \in {"hello", "behind"}
      /\ connected' = connected
      /\ UNCHANGED <<queueVars, app_target_ver, toApp, appVer, received>>
      /\ \/ app' = "asking" /\ toDevice' = Append(toDevice, hello)
         \/ app' = "reading" /\ toDevice' = Append(toDevice, next)
      /\ tickleLost' \in {tickleLost, FALSE}
  BY DEF SendQuery, SendSync, Send, nodeVars
<1>2. IInv' /\ Synced' = Synced
  BY <1>1, QueueUntouched
<1>3. AnswersIn(toApp) = {} /\ toDevice = <<>>
  BY <1>1 DEF OneQuestion
<1>4. hello \in Commands /\ next \in Commands
  BY <1>1 DEF LinkTypes, Commands
<1>5. \/ app' = "asking" /\ toDevice' = <<hello>>
      \/ app' = "reading" /\ toDevice' = <<next>>
  BY <1>1, <1>3
<1>6. LinkTypes'
  <2>1. toDevice' \in Seq(Commands) /\ Len(toDevice') = 1
    <3>1. \A c \in Commands : <<c>> \in Seq(Commands) /\ Len(<<c>>) = 1
      OBVIOUS
    <3> HIDE DEF hello, next
    <3> QED BY <1>4, <1>5, <3>1
  <2>2. app' \in AppStates /\ app' # "away"
    BY <1>5 DEF AppStates
  <2>3. tickleLost' \in BOOLEAN
    BY <1>1 DEF LinkTypes
  <2> QED BY <1>1, <2>1, <2>2, <2>3 DEF LinkTypes
<1>7. OneQuestion'
  <2>1. AnswersIn(toApp') = {}
    BY <1>1, <1>3
  <2>2. app' = IF Head(toDevice').cmd = "DEVICE_QUERY" THEN "asking"
               ELSE "reading"
    BY <1>5
  <2> QED BY <2>1, <2>2 DEF OneQuestion
<1>8. GotFromQueue' /\ AppReadsInOrder'
  BY <1>1, <1>2 DEF GotFromQueue, AppReadsInOrder
<1>9. \A i \in DOMAIN toApp' : toApp'[i].code \in Pushed
  BY <1>1, <1>3 DEF AnswersIn
<1>10. TickleBehind' /\ NoLostWakeUp'
  BY <1>1, <1>9 DEF TickleBehind, NoLostWakeUp, Pushed
<1> QED BY <1>2, <1>6, <1>7, <1>8, <1>10

(* An app whose answer was lost asks again when nothing is on its way. *)
LEMMA RetryStep ==
  ASSUME SyncIInv, AppRetry
  PROVE  SyncIInv'
<1> USE DEF SyncIInv, LinkIInv
<1>1. /\ app \in {"asking", "reading"} /\ app' \in {"hello", "behind"}
      /\ toDevice = <<>> /\ AnswersIn(toApp) = {}
      /\ UNCHANGED <<queueVars, app_target_ver, toApp, toDevice, connected,
                     appVer, received, tickleLost>>
  BY DEF AppRetry, nodeVars, linkVars, AnswersIn, Pushed
<1>2. /\ IInv' /\ Synced' = Synced
      /\ offline_queue_len' = offline_queue_len
  BY <1>1, QueueUntouched
<1>3. LinkTypes'
  BY <1>1 DEF LinkTypes, AppStates
<1>4. OneQuestion' /\ GotFromQueue' /\ AppReadsInOrder'
  BY <1>1, <1>2 DEF OneQuestion, GotFromQueue, AppReadsInOrder
<1>5. TickleBehind' /\ NoLostWakeUp'
  BY <1>1, <1>2 DEF TickleBehind, NoLostWakeUp
<1> QED BY <1>2, <1>3, <1>4, <1>5

(* What the app reads is a message newer than all before, or an answer, or a
   push; NO_MORE_MESSAGES has a tickle behind it if there is more by now. *)
LEMMA ReceiveStep ==
  ASSUME SyncIInv, AppReceive
  PROVE  SyncIInv'
<1> DEFINE f == toApp[1]
<1> USE DEF SyncIInv, LinkIInv
<1>1. /\ toApp # <<>> /\ toApp' = Tail(toApp)
      /\ app' = AppAfter(Head(toApp))
      /\ received' = IF Head(toApp).code \in Codes
                     THEN Append(received, Head(toApp)) ELSE received
      /\ UNCHANGED <<queueVars, app_target_ver, toDevice, connected, appVer,
                     tickleLost>>
  BY DEF AppReceive, nodeVars
<1>2. /\ IInv' /\ Synced' = Synced
      /\ offline_queue_len' = offline_queue_len
  BY <1>1, QueueUntouched
<1>3. /\ toApp' \in Seq(LinkFrame) /\ Len(toApp') <= LinkCap
      /\ 1 \in DOMAIN toApp /\ Head(toApp) = f /\ f \in LinkFrame
      /\ DOMAIN toApp \subseteq Nat
      /\ \A i \in DOMAIN toApp' : /\ i \in Nat \ {0} /\ i + 1 \in DOMAIN toApp
                                  /\ toApp'[i] = toApp[i + 1]
      /\ \A i \in DOMAIN toApp : i > 1 =>
           i - 1 \in DOMAIN toApp' /\ toApp'[i - 1] = toApp[i]
  BY <1>1, Taken
<1>4. /\ f.code \in Codes \union Plain
      /\ f.code \in Codes => f \in Frame
  BY <1>3, LinkFrameCodes
<1>5. connected /\ app # "away"
  BY <1>1 DEF LinkTypes
<1>6. /\ app' = AppAfter(f)
      /\ received' = IF f.code \in Codes THEN Append(received, f) ELSE received
  BY <1>1, <1>3
<1>7. /\ f.code \in Codes => app' = "behind"
      /\ f.code = "DEVICE_INFO" => app' = "behind"
      /\ f.code = "NO_MORE_MESSAGES" => app' = "resting"
      /\ f.code = "MSG_WAITING" =>
           app' = IF app = "resting" THEN "behind" ELSE app
      /\ f.code = "LOG_RX_DATA" => app' = app
  BY <1>6 DEF AppAfter, Codes, DirectCodes, ChannelCodes
<1>8. f.code \in Codes \union {"DEVICE_INFO", "NO_MORE_MESSAGES"} <=>
        1 \in AnswersIn(toApp)
  BY <1>3, <1>4, LinkFrameCodes DEF AnswersIn, Pushed, Plain
<1> HIDE DEF f
<1>9. LinkTypes'
  <2>1. received' \in Seq(Frame)
    BY <1>4, <1>6 DEF LinkTypes
  <2>2. app' \in AppStates /\ app' # "away"
    BY <1>4, <1>5, <1>7 DEF LinkTypes, AppStates, Plain
  <2> QED BY <1>1, <1>3, <1>5, <2>1, <2>2 DEF LinkTypes
<1>10. OneQuestion'
  <2>1. \A i \in AnswersIn(toApp') :
          i + 1 \in AnswersIn(toApp) /\ toApp'[i] = toApp[i + 1] /\ i \in Nat \ {0}
    BY <1>3 DEF AnswersIn
  <2>2. CASE 1 \in AnswersIn(toApp)
    <3>1. AnswersIn(toApp') = {}
      <4>1. \A i \in AnswersIn(toApp') : i + 1 = 1
        BY <2>1, <2>2 DEF OneQuestion
      <4> QED BY <2>1, <4>1
    <3>2. toDevice' = <<>>
      BY <1>1, <2>2 DEF OneQuestion
    <3> QED BY <3>1, <3>2 DEF OneQuestion
  <2>3. CASE 1 \notin AnswersIn(toApp)
    <3>1. f.code \in Pushed
      BY <1>4, <1>8, <2>3 DEF Plain, Pushed
    <3>2. app' = app \/ (app = "resting" /\ app' = "behind")
      BY <1>7, <3>1 DEF Pushed
    <3>3. app \in {"asking", "reading"} => app' = app
      BY <3>2
    <3>4. AnswersIn(toApp') # {} => AnswersIn(toApp) # {}
      BY <2>1
    <3>5. \A i, j \in AnswersIn(toApp') : i = j
      <4> SUFFICES ASSUME NEW i \in AnswersIn(toApp'),
                          NEW j \in AnswersIn(toApp')
                   PROVE  i = j
        OBVIOUS
      <4>1. i + 1 = j + 1 /\ i \in Nat /\ j \in Nat
        BY <2>1 DEF OneQuestion
      <4> QED BY <4>1
    <3>6. \A i \in AnswersIn(toApp') :
            app' = IF toApp'[i].code = "DEVICE_INFO" THEN "asking"
                   ELSE "reading"
      <4> SUFFICES ASSUME NEW i \in AnswersIn(toApp')
                   PROVE  app' = IF toApp'[i].code = "DEVICE_INFO"
                                 THEN "asking" ELSE "reading"
        OBVIOUS
      <4>1. app = IF toApp'[i].code = "DEVICE_INFO" THEN "asking"
                  ELSE "reading"
        BY <2>1 DEF OneQuestion
      <4> QED BY <3>3, <4>1
    <3>7. toDevice' # <<>> =>
            /\ AnswersIn(toApp') = {}
            /\ app' = IF Head(toDevice').cmd = "DEVICE_QUERY" THEN "asking"
                      ELSE "reading"
      <4>1. toDevice' = toDevice
        BY <1>1
      <4>2. toDevice # <<>> => AnswersIn(toApp) = {}
        BY DEF OneQuestion
      <4>3. toDevice # <<>> =>
              app = IF Head(toDevice).cmd = "DEVICE_QUERY" THEN "asking"
                    ELSE "reading"
        BY DEF OneQuestion
      <4> QED BY <3>3, <3>4, <4>1, <4>2, <4>3
    <3>8. AnswersIn(toApp') # {} => app' \in {"asking", "reading"}
      BY <3>3, <3>4 DEF OneQuestion
    <3> QED BY <3>5, <3>6, <3>7, <3>8 DEF OneQuestion
  <2> QED BY <2>2, <2>3
<1>11. GotFromQueue' /\ AppReadsInOrder'
  <2>1. CASE f.code \in Codes
    <3>1. f \in Synced /\ \A k \in DOMAIN received : received[k].id < f.id
      BY <1>3, <2>1 DEF GotFromQueue, f
    <3>2. /\ DOMAIN received' = DOMAIN received \union {Len(received) + 1}
          /\ DOMAIN received = 1..Len(received) /\ Len(received) \in Nat
          /\ received'[Len(received) + 1] = f
          /\ \A k \in DOMAIN received : received'[k] = received[k]
      BY <1>4, <1>6, <2>1 DEF LinkTypes
    <3>3. AppReadsInOrder'
      BY <3>1, <3>2 DEF AppReadsInOrder
    <3>4. \A i \in DOMAIN toApp' : toApp'[i].code \notin Codes
      <4> SUFFICES ASSUME NEW i \in DOMAIN toApp', toApp'[i].code \in Codes
                   PROVE  FALSE
        OBVIOUS
      <4>1. i + 1 \in AnswersIn(toApp) /\ 1 \in AnswersIn(toApp)
        BY <1>3, <1>8, <2>1, LinkFrameCodes DEF AnswersIn
      <4>2. i + 1 = 1 /\ i \in Nat \ {0}
        BY <1>3, <4>1 DEF OneQuestion
      <4> QED BY <4>2
    <3>5. GotFromQueue'
      BY <1>2, <3>1, <3>2, <3>4 DEF GotFromQueue
    <3> QED BY <3>3, <3>5
  <2>2. CASE f.code \notin Codes
    BY <1>2, <1>3, <1>6, <2>2 DEF GotFromQueue, AppReadsInOrder
  <2> QED BY <2>1, <2>2
<1>12. TickleBehind'
  <2> SUFFICES ASSUME connected, offline_queue_len > 0, ~tickleLost,
                      NEW i \in DOMAIN toApp',
                      toApp'[i].code = "NO_MORE_MESSAGES"
               PROVE  \E j \in DOMAIN toApp' :
                        j > i /\ toApp'[j].code = "MSG_WAITING"
    BY <1>1, <1>2 DEF TickleBehind
  <2>1. PICK j \in DOMAIN toApp : j > i + 1 /\ toApp[j].code = "MSG_WAITING"
    BY <1>3 DEF TickleBehind
  <2>2. /\ j - 1 \in DOMAIN toApp' /\ j - 1 > i
        /\ toApp'[j - 1].code = "MSG_WAITING"
    BY <1>3, <2>1
  <2> QED BY <2>2
<1>13. NoLostWakeUp'
  <2> SUFFICES ASSUME connected, app' = "resting", offline_queue_len > 0,
                      ~tickleLost
               PROVE  \E i \in DOMAIN toApp' : toApp'[i].code = "MSG_WAITING"
    BY <1>1, <1>2 DEF NoLostWakeUp
  <2>1. \E j \in DOMAIN toApp : j > 1 /\ toApp[j].code = "MSG_WAITING"
    <3>1. CASE f.code = "NO_MORE_MESSAGES"
      BY <1>3, <3>1 DEF TickleBehind, f
    <3>2. CASE f.code # "NO_MORE_MESSAGES"
      <4>1. app = "resting" /\ f.code = "LOG_RX_DATA"
        BY <1>4, <1>7, <3>2 DEF Plain
      <4>2. PICK j \in DOMAIN toApp : toApp[j].code = "MSG_WAITING"
        BY <4>1 DEF NoLostWakeUp
      <4>3. j # 1
        BY <4>1, <4>2 DEF f
      <4>4. DOMAIN toApp = 1..Len(toApp) /\ Len(toApp) \in Nat
        BY <1>1, Taken
      <4> QED BY <4>2, <4>3, <4>4
    <3> QED BY <3>1, <3>2
  <2> QED BY <1>3, <2>1
<1> QED BY <1>2, <1>9, <1>10, <1>11, <1>12, <1>13

-----------------------------------------------------------------------------

(* It holds after boot, with no app there and nothing on the link. *)
LEMMA SyncInitIInv == SyncInit => SyncIInv
<1> SUFFICES ASSUME SyncInit PROVE SyncIInv
  OBVIOUS
<1>1. IInv
  BY InitIInv DEF SyncInit
<1>2. /\ toApp = <<>> /\ toDevice = <<>> /\ received = <<>>
      /\ app = "away" /\ connected = FALSE /\ tickleLost = FALSE
      /\ app_target_ver = 0
  BY DEF SyncInit
<1>3. NothingOnLink
  BY EmptyLink
<1>4. LinkTypes
  <2>1. received \in Seq(Frame)
    BY <1>2
  <2>2. app_target_ver \in AppVersions \union {0} /\ app \in AppStates
    BY <1>2 DEF AppStates
  <2>3. app = "away" /\ connected \in BOOLEAN /\ tickleLost \in BOOLEAN
    BY <1>2
  <2> QED BY <1>2, <1>3, <2>1, <2>2, <2>3 DEF LinkTypes, NothingOnLink
<1>5. DOMAIN toApp = {} /\ DOMAIN received = {}
  BY <1>2
<1>6. OneQuestion /\ GotFromQueue /\ AppReadsInOrder
  BY <1>2, <1>5 DEF OneQuestion, AnswersIn, GotFromQueue, AppReadsInOrder
<1>7. TickleBehind /\ NoLostWakeUp
  BY <1>2 DEF TickleBehind, NoLostWakeUp
<1> QED BY <1>1, <1>4, <1>6, <1>7 DEF SyncIInv, LinkIInv

(* No step of the radio, the node, the app or the link breaks the invariant. *)
LEMMA SyncNextIInv == SyncIInv /\ [SyncNext]_syncVars => SyncIInv'
<1> SUFFICES ASSUME SyncIInv, [SyncNext]_syncVars PROVE SyncIInv'
  OBVIOUS
<1>1. CASE Radio
  <2>1. \A code \in Codes : addToOfflineQueue(code) /\ Tickle => SyncIInv'
    BY MessageStep
  <2>2. /\ "CONTACT_MSG_RECV" \in Codes /\ "CONTACT_MSG_RECV_V3" \in Codes
        /\ "CHANNEL_MSG_RECV" \in Codes /\ "CHANNEL_MSG_RECV_V3" \in Codes
        /\ "CHANNEL_DATA_RECV" \in Codes
    BY DEF Codes, DirectCodes, ChannelCodes
  <2> QED BY <1>1, <2>1, <2>2, LogStep
          DEF Radio, queueMessage, onChannelMessageRecv, onChannelDataRecv
<1>2. CASE Command
  BY <1>2, QueryStep, SyncStep DEF Command
<1>3. CASE App
  BY <1>3, SendStep, ReceiveStep, RetryStep DEF App
<1>4. CASE Disconnect
  BY <1>4, DisconnectStep
<1>5. CASE \E v \in AppVersions : Connect(v)
  BY <1>5, ConnectStep
<1>6. CASE UNCHANGED syncVars
  <2>1. /\ IInv' /\ Synced' = Synced
        /\ offline_queue_len' = offline_queue_len
    BY <1>6, QueueUntouched DEF syncVars
  <2>2. UNCHANGED <<app_target_ver, linkVars, appVars, tickleLost>>
    BY <1>6 DEF syncVars
  <2> QED
    BY <2>1, <2>2
    DEF SyncIInv, LinkIInv, linkVars, appVars, LinkTypes, OneQuestion,
        GotFromQueue, AppReadsInOrder, TickleBehind, NoLostWakeUp
<1> QED BY <1>1, <1>2, <1>3, <1>4, <1>5, <1>6 DEF SyncNext

(* The strengthened invariant holds through every interleaving of the radio,
   the commands, the app and the link. *)
THEOREM SyncInvariant == SyncSpec => []SyncIInv
  BY SyncInitIInv, SyncNextIInv, PTL DEF SyncSpec

(* The link and the app stay within their protocol. *)
THEOREM SyncTypeCorrect == SyncSpec => []SyncTypeOK
<1>1. SyncIInv => SyncTypeOK
  <2> SUFFICES ASSUME SyncIInv PROVE SyncTypeOK
    OBVIOUS
  <2>1. TypeOK /\ LinkTypes
    BY DEF SyncIInv, LinkIInv, IInv
  <2>2. \A i \in DOMAIN toApp : toApp[i].code \in Codes \union Plain
    <3>1. \A i \in DOMAIN toApp : toApp[i] \in LinkFrame
      BY <2>1 DEF LinkTypes
    <3> QED BY <3>1, LinkFrameCodes
  <2>3. \A i \in DOMAIN toDevice : toDevice[i] \in Commands
    BY <2>1 DEF LinkTypes
  <2> QED BY <2>1, <2>2, <2>3 DEF SyncTypeOK, LinkTypes
<1> QED BY <1>1, SyncInvariant, PTL

(* For every size of queue and link: an app that rests while messages wait
   has a tickle coming, unless the link was too full for it. *)
THEOREM WakeUpNeverMissed == SyncSpec => []NoLostWakeUp
<1>1. SyncIInv => NoLostWakeUp
  BY DEF SyncIInv, LinkIInv
<1> QED BY <1>1, SyncInvariant, PTL

(* Over all sessions, losses and retries, what the app gets is in the order
   of arrival and without repeats. *)
THEOREM AppReadsInArrivalOrder == SyncSpec => []AppReadsInOrder
<1>1. SyncIInv => AppReadsInOrder
  BY DEF SyncIInv, LinkIInv
<1> QED BY <1>1, SyncInvariant, PTL

(* Delivery composes with the queue: whatever the handlers, the app and the
   link do, the queue takes only steps of its own specification, so all that
   is proved of it holds here, and it implements the abstract inbox. *)
THEOREM SyncImplementsInbox == SyncSpec => Spec /\ ImplementsInbox
<1>1. SyncInit => Init
  BY DEF SyncInit
<1>2. [SyncNext]_syncVars => [Next]_queueVars
  <2> SUFFICES ASSUME SyncNext PROVE [Next]_queueVars
    BY DEF syncVars
  <2>1. CASE Radio
    <3>1. /\ "CONTACT_MSG_RECV" \in Codes /\ "CONTACT_MSG_RECV_V3" \in Codes
          /\ "CHANNEL_MSG_RECV" \in Codes /\ "CHANNEL_MSG_RECV_V3" \in Codes
          /\ "CHANNEL_DATA_RECV" \in Codes
      BY DEF Codes, DirectCodes, ChannelCodes
    <3> QED BY <2>1, <3>1
            DEF Radio, queueMessage, onChannelMessageRecv, onChannelDataRecv,
                logRxRaw, Next
  <2>2. CASE Command
    BY <2>2 DEF Command, CmdDeviceQuery, CmdSyncNextMessage, Next
  <2>3. CASE App
    BY <2>3 DEF App, SendQuery, SendSync, Send, AppReceive, AppRetry, nodeVars
  <2>4. CASE Disconnect \/ \E v \in AppVersions : Connect(v)
    BY <2>4 DEF Disconnect, Connect, nodeVars
  <2> QED BY <2>1, <2>2, <2>3, <2>4 DEF SyncNext
<1>3. SyncSpec => Spec
  BY <1>1, <1>2, PTL DEF SyncSpec, Spec
<1> QED BY <1>3, QueueIsInbox, PTL

=============================================================================
