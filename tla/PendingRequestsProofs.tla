----------------------- MODULE PendingRequestsProofs -----------------------
(***************************************************************************)
(* What PendingRequests promises, for all peers, server clocks and numbers *)
(* of requests.  The inductive invariant adds to the properties that every *)
(* push is paid for by a request: one that is pending has not been pushed  *)
(* yet, so it leaves room for one more push of its kind.                   *)
(***************************************************************************)
EXTENDS PendingRequests, FiniteSetTheorems, TLAPS

Request == [kind : Kinds, to : Peers]

Types ==
  /\ pending \in [Kinds -> Nat]
  /\ connections \subseteq Peers
  /\ sent \in Seq(Request)
  /\ Latest <= MaxRequests
  /\ pushes \in [Kinds -> Nat]
  /\ settled \in BOOLEAN

PushesPaidFor ==
  \A kind \in Kinds :
    /\ pushes[kind] <= Cardinality(Asked(kind))
    /\ pending[kind] # 0 => pushes[kind] < Cardinality(Asked(kind))

LastPushSent ==
  lastPush.kind \in TagKinds =>
    /\ lastPush.of \in DOMAIN sent
    /\ \/ lastPush.of = lastPush.latest
          /\ sent[lastPush.of].kind = lastPush.kind
       \/ sent[lastPush.of].kind = "login"

IInv == /\ Types
        /\ OnlyLatestPending
        /\ LatestAwaited
        /\ PushesPaidFor
        /\ LastPushSent

-----------------------------------------------------------------------------
\* Requests, answers and how many there are.

(* Requests of a kind are finitely many, at most as many as were sent. *)
LEMMA AskedFinite ==
  ASSUME Types, NEW kind \in Kinds
  PROVE  /\ IsFiniteSet(Asked(kind))
         /\ Cardinality(Asked(kind)) \in Nat
         /\ Cardinality(Asked(kind)) <= Latest
<1>1. Latest \in Nat /\ DOMAIN sent = 1..Latest
  BY DEF Types, Latest
<1>2. IsFiniteSet(1..Latest) /\ Cardinality(1..Latest) = Latest
  BY <1>1, FS_Interval
<1>3. Asked(kind) \subseteq 1..Latest
  BY <1>1 DEF Asked
<1>4. IsFiniteSet(Asked(kind)) /\ Cardinality(Asked(kind)) <= Latest
  BY <1>2, <1>3, FS_Subset
<1> QED BY <1>4, FS_CardinalityType

(* The peer's answer to a request comes from that request's peer; its tag is
   the request's, or a clock if the request was a login, and never 0. *)
LEMMA AnswerShape ==
  ASSUME Types, NEW a \in Answers
  PROVE  /\ a.of \in DOMAIN sent
         /\ From(a) \in Peers
         /\ From(a) # 0
         /\ a.tag \in Nat \ {0}
         /\ sent[a.of].kind = "login" \/ a.tag = a.of
<1>1. PICK k \in DOMAIN sent : a \in AnswersTo(k)
  BY DEF Answers
<1>2. a.of = k /\ k \in Nat \ {0}
  BY <1>1 DEF AnswersTo, Types
<1>3. sent[k] \in Request
  BY DEF Types
<1>4. a.tag \in (IF sent[k].kind = "login" THEN ServerTimes ELSE {k})
  BY <1>1 DEF AnswersTo
<1> QED
  BY <1>1, <1>2, <1>3, <1>4, PendingRequestsAssumption DEF From, Request

-----------------------------------------------------------------------------
\* The inductive invariant.

(* It holds after boot. *)
LEMMA InitIInv == Init => IInv
<1> SUFFICES ASSUME Init PROVE IInv
  OBVIOUS
<1>1. sent = <<>> /\ Latest = 0 /\ DOMAIN sent = {}
  BY DEF Init, Latest
<1>2. Types
  BY <1>1, PendingRequestsAssumption DEF Init, Types, NonePending
<1>3. PushesPaidFor
  <2> SUFFICES ASSUME NEW kind \in Kinds
               PROVE  /\ pushes[kind] <= Cardinality(Asked(kind))
                      /\ pending[kind] = 0
    BY DEF PushesPaidFor
  <2>1. Cardinality(Asked(kind)) \in Nat
    BY <1>2, AskedFinite
  <2> QED BY <2>1 DEF Init, NonePending
<1>4. OnlyLatestPending /\ LatestAwaited
  BY <1>1 DEF Init, NonePending, OnlyLatestPending, LatestAwaited
<1>5. LastPushSent
  BY DEF Init, NoPush, LastPushSent, TagKinds
<1> QED BY <1>2, <1>3, <1>4, <1>5 DEF IInv

(* A request that is sent becomes the only one awaited. *)
LEMMA SendIInv ==
  ASSUME IInv, NEW kind \in Kinds, NEW to \in Peers, SendRequest(kind, to)
  PROVE  IInv'
<1> DEFINE r  == [kind |-> kind, to |-> to]
           id == IF kind \in PrefixKinds THEN to ELSE Latest + 1
<1>1. /\ Latest \in Nat
      /\ r \in Request
      /\ id \in Nat \ {0}
  BY PendingRequestsAssumption DEF IInv, Types, Latest, Request
<1>2. /\ sent' = Append(sent, r)
      /\ Latest' = Latest + 1
      /\ DOMAIN sent' = DOMAIN sent \union {Latest'}
      /\ sent'[Latest'] = r
      /\ \A k \in DOMAIN sent : sent'[k] = sent[k]
      /\ Latest' \notin DOMAIN sent
  BY <1>1 DEF IInv, Types, Latest, SendRequest
<1>3. pending' = [NonePending EXCEPT ![kind] = id]
  BY DEF SendRequest, SetPending
<1>4. \A other \in Kinds : pending'[other] = IF other = kind THEN id ELSE 0
  BY <1>3 DEF NonePending
<1>5. Types'
  <2>1. pending' \in [Kinds -> Nat]
    BY <1>1, <1>3 DEF NonePending
  <2>2. sent' \in Seq(Request) /\ Latest' <= MaxRequests
    BY <1>1, <1>2, PendingRequestsAssumption
    DEF IInv, Types, SendRequest
  <2> QED BY <2>1, <2>2 DEF IInv, Types, SendRequest
<1>6. Id(Latest)' = id
  BY <1>2 DEF Id
<1>7. OnlyLatestPending' /\ LatestAwaited'
  BY <1>1, <1>2, <1>4, <1>6 DEF OnlyLatestPending, LatestAwaited
<1>8. PushesPaidFor'
  <2> SUFFICES ASSUME NEW other \in Kinds
               PROVE  /\ pushes'[other] <= Cardinality(Asked(other)')
                      /\ pending'[other] # 0 =>
                           pushes'[other] < Cardinality(Asked(other)')
    BY DEF PushesPaidFor
  <2>1. /\ IsFiniteSet(Asked(other))
        /\ Cardinality(Asked(other)) \in Nat
        /\ pushes[other] <= Cardinality(Asked(other))
        /\ pushes'[other] = pushes[other] /\ pushes[other] \in Nat
    BY AskedFinite DEF IInv, Types, PushesPaidFor, SendRequest
  <2>2. CASE other = kind
    <3>1. Asked(other)' = Asked(other) \union {Latest'}
      BY <1>2, <2>2 DEF Asked
    <3>2. Latest' \notin Asked(other)
      BY <1>2 DEF Asked
    <3>3. Cardinality(Asked(other)') = Cardinality(Asked(other)) + 1
      BY <2>1, <3>1, <3>2, FS_AddElement
    <3> QED BY <2>1, <3>3
  <2>3. CASE other # kind
    <3>1. Asked(other)' = Asked(other)
      BY <1>2, <2>3 DEF Asked
    <3> QED BY <1>4, <2>1, <2>3, <3>1
  <2> QED BY <2>2, <2>3
<1>9. LastPushSent'
  BY <1>2 DEF IInv, LastPushSent, SendRequest
<1> QED BY <1>5, <1>7, <1>8, <1>9 DEF IInv

(* An answer is pushed for a request that is awaited; an answer matched by
   tag is the newest request's, unless a login's clock shows its tag. *)
LEMMA PushIInv ==
  ASSUME IInv, NEW kind \in Kinds, NEW a \in Answers,
         pending[kind] # 0,
         kind \in TagKinds => a.tag = pending[kind],
         Push(kind, a),
         sent' = sent, connections' \subseteq Peers
  PROVE  IInv'
<1>1. /\ pending' = [pending EXCEPT ![kind] = 0]
      /\ pushes' = [pushes EXCEPT ![kind] = @ + 1]
      /\ lastPush' = [kind |-> kind, of |-> a.of, latest |-> Latest]
      /\ settled' = TRUE
  BY DEF Push
<1>2. Latest' = Latest
  BY DEF Latest
<1>3. Types'
  BY <1>1, <1>2 DEF IInv, Types
<1>4. OnlyLatestPending' /\ LatestAwaited'
  BY <1>1, <1>2
  DEF IInv, Types, OnlyLatestPending, LatestAwaited, Id
<1>5. PushesPaidFor'
  <2> SUFFICES ASSUME NEW other \in Kinds
               PROVE  /\ pushes'[other] <= Cardinality(Asked(other))
                      /\ pending'[other] # 0 =>
                           pushes'[other] < Cardinality(Asked(other))
    BY DEF PushesPaidFor, Asked
  <2>1. Cardinality(Asked(other)) \in Nat
    BY AskedFinite DEF IInv
  <2> QED BY <1>1, <2>1 DEF IInv, Types, PushesPaidFor
<1>6. LastPushSent'
  <2> SUFFICES ASSUME kind \in TagKinds
               PROVE  /\ a.of \in DOMAIN sent
                      /\ \/ a.of = Latest /\ sent[a.of].kind = kind
                         \/ sent[a.of].kind = "login"
    BY <1>1 DEF LastPushSent
  <2>1. /\ a.of \in DOMAIN sent
        /\ sent[a.of].kind = "login" \/ a.tag = a.of
    BY AnswerShape DEF IInv
  <2>2. kind = sent[Latest].kind /\ pending[kind] = Id(Latest)
    BY DEF IInv, OnlyLatestPending
  <2>3. kind \notin PrefixKinds
    BY DEF TagKinds, PrefixKinds
  <2>4. a.tag = Latest
    BY <2>2, <2>3 DEF Id
  <2> QED BY <2>1, <2>2, <2>4
<1> QED BY <1>3, <1>4, <1>5, <1>6 DEF IInv

(* An answer of any kind is for a request that is awaited. *)
LEMMA ResponseIInv ==
  ASSUME IInv, NEW a \in Answers, onContactResponse(a)
  PROVE  IInv'
<1>1. /\ From(a) \in Peers /\ From(a) # 0
      /\ a.tag # 0
  BY AnswerShape DEF IInv
<1>2. sent' = sent
  BY DEF onContactResponse
<1>3. CASE ForLogin(a) /\ LoginAnswer(a)
  <2>1. Push("login", a) /\ connections' \subseteq Peers
    BY <1>1, <1>3 DEF LoginAnswer, IInv, Types
  <2>2. "login" \in Kinds /\ "login" \notin TagKinds
    BY DEF Kinds, PrefixKinds, TagKinds
  <2>3. pending["login"] # 0
    BY <1>1, <1>3 DEF ForLogin
  <2> QED BY <1>2, <2>1, <2>2, <2>3, PushIInv
<1>4. CASE OtherAnswer(a)
  <2>1. connections' \subseteq Peers
    BY <1>4 DEF OtherAnswer, IInv, Types
  <2>2. CASE ForStatus(a) /\ Push("status", a)
    <3>1. "status" \in Kinds /\ "status" \notin TagKinds
      BY DEF Kinds, PrefixKinds, TagKinds
    <3>2. pending["status"] # 0
      BY <1>1, <2>2 DEF ForStatus
    <3> QED BY <1>2, <2>1, <2>2, <3>1, <3>2, PushIInv
  <2>3. CASE \E kind \in {"telemetry", "req"} :
               ForTag(kind, a) /\ Push(kind, a)
    <3>1. PICK kind \in {"telemetry", "req"} :
            ForTag(kind, a) /\ Push(kind, a)
      BY <2>3
    <3>2. kind \in Kinds
      BY DEF Kinds, TagKinds
    <3>3. a.tag = pending[kind]
      BY <3>1 DEF ForTag
    <3> QED BY <1>1, <1>2, <2>1, <3>1, <3>2, <3>3, PushIInv
  <2> QED BY <1>4, <2>2, <2>3 DEF OtherAnswer
<1> QED BY <1>3, <1>4 DEF onContactResponse

(* A discovery answer uses up its request, shown or not. *)
LEMMA DiscoveryIInv ==
  ASSUME IInv, NEW a \in Answers, NEW validPaths \in BOOLEAN,
         a.tag = pending["discovery"],
         DiscoveryAnswer(a, validPaths)
  PROVE  IInv'
<1>1. "discovery" \in Kinds
  BY DEF Kinds, TagKinds
<1>2. pending["discovery"] # 0
  BY AnswerShape DEF IInv
<1>3. CASE validPaths
  <2>1. /\ Push("discovery", a)
        /\ sent' = sent /\ connections' \subseteq Peers
    BY <1>3 DEF DiscoveryAnswer, IInv, Types
  <2> QED BY <1>1, <1>2, <2>1, PushIInv
<1>4. CASE ~validPaths
  <2>1. /\ pending' = [pending EXCEPT !["discovery"] = 0]
        /\ settled' = TRUE
        /\ UNCHANGED <<pushes, lastPush, connections, sent>>
    BY <1>4 DEF DiscoveryAnswer
  <2>2. Latest' = Latest
    BY <2>1 DEF Latest
  <2>3. Types'
    BY <2>1, <2>2 DEF IInv, Types
  <2>4. OnlyLatestPending' /\ LatestAwaited'
    BY <2>1, <2>2 DEF IInv, Types, OnlyLatestPending, LatestAwaited, Id
  <2>5. PushesPaidFor'
    BY <2>1 DEF IInv, Types, PushesPaidFor, Asked
  <2>6. LastPushSent'
    BY <2>1 DEF IInv, LastPushSent
  <2> QED BY <2>3, <2>4, <2>5, <2>6 DEF IInv
<1> QED BY <1>3, <1>4

(* A step that leaves requests and pushes alone disturbs nothing. *)
LEMMA QuietIInv ==
  ASSUME IInv, connections' \subseteq connections,
         UNCHANGED <<pending, sent, pushes, lastPush, settled>>
  PROVE  IInv'
<1>1. Types'
  BY DEF IInv, Types, Latest
<1>2. OnlyLatestPending' /\ LatestAwaited' /\ PushesPaidFor' /\ LastPushSent'
  BY DEF IInv, OnlyLatestPending, LatestAwaited, PushesPaidFor, LastPushSent,
         Latest, Id, Asked
<1> QED BY <1>1, <1>2 DEF IInv

(* Every command and every answer preserves it. *)
LEMMA NextIInv == IInv /\ [Next]_reqVars => IInv'
<1> SUFFICES ASSUME IInv, [Next]_reqVars PROVE IInv'
  OBVIOUS
<1>1. ASSUME NEW kind \in Kinds, NEW to \in Peers, CmdSendRequest(kind, to)
      PROVE  IInv'
  <2>1. CASE SendRequest(kind, to)
    BY <2>1, SendIInv
  <2>2. CASE SendFails
    BY <2>2, QuietIInv DEF SendFails, reqVars
  <2> QED BY <1>1, <2>1, <2>2 DEF CmdSendRequest
<1>2. ASSUME NEW peer \in Peers, CmdLogout(peer)
      PROVE  IInv'
  BY <1>2, QuietIInv DEF CmdLogout
<1>3. ASSUME NEW peer \in Peers, ConnectionExpires(peer)
      PROVE  IInv'
  BY <1>2, <1>3 DEF ConnectionExpires
<1>4. ASSUME NEW a \in Answers, onContactResponse(a)
      PROVE  IInv'
  BY <1>4, ResponseIInv
<1>5. ASSUME NEW a \in Answers, NEW validPaths \in BOOLEAN,
             onContactPathRecv(a, validPaths)
      PROVE  IInv'
  BY <1>5, ResponseIInv, DiscoveryIInv DEF onContactPathRecv
<1>6. CASE UNCHANGED reqVars
  BY <1>6, QuietIInv DEF reqVars
<1> QED BY <1>1, <1>2, <1>3, <1>4, <1>5, <1>6 DEF Next

(* The invariant holds throughout. *)
THEOREM InvariantIInv == Spec => []IInv
  BY InitIInv, NextIInv, PTL DEF Spec

-----------------------------------------------------------------------------
\* What follows from it.

(* Fields, connections and counters keep their types (the pending_ fields,
   clearPendingReqs). *)
THEOREM TypeCorrect == Spec => []TypeOK
<1>1. IInv => TypeOK
  <2> SUFFICES ASSUME IInv PROVE TypeOK
    OBVIOUS
  <2>1. ASSUME NEW kind \in Kinds PROVE pushes[kind] \in 0..MaxRequests
    <3>1. /\ Cardinality(Asked(kind)) \in Nat
          /\ Cardinality(Asked(kind)) <= Latest
      BY AskedFinite DEF IInv
    <3> QED BY <3>1, PendingRequestsAssumption
            DEF IInv, Types, PushesPaidFor, Latest
  <2>2. pushes \in [Kinds -> 0..MaxRequests]
    BY <2>1 DEF IInv, Types
  <2> QED BY <2>2 DEF IInv, Types, TypeOK, Request
<1> QED BY <1>1, InvariantIInv, PTL

(* Only the newest request is ever awaited (clearPendingReqs before each
   field is set). *)
THEOREM NewestAwaitedOnly == Spec => []OnlyLatestPending
<1>1. IInv => OnlyLatestPending
  BY DEF IInv
<1> QED BY <1>1, InvariantIInv, PTL

(* The newest request stays awaited until something is accepted as its answer,
   whatever late answers and failing commands come in between. *)
THEOREM NewestStaysAwaited == Spec => []LatestAwaited
<1>1. IInv => LatestAwaited
  BY DEF IInv
<1> QED BY <1>1, InvariantIInv, PTL

(* However often the mesh repeats its answers, there are no more pushes of a
   kind than requests of that kind. *)
THEOREM OnePushPerRequest == Spec => []NoMorePushesThanRequests
<1>1. IInv => NoMorePushesThanRequests
  BY DEF IInv, PushesPaidFor, NoMorePushesThanRequests
<1> QED BY <1>1, InvariantIInv, PTL

(* An answer matched by tag belongs to the newest request, or to a login whose
   clock shows its tag. *)
THEOREM TagPushIsNewest == Spec => []TagPushesMatchLatest
<1>1. IInv => TagPushesMatchLatest
  BY DEF IInv, LastPushSent, TagPushesMatchLatest
<1> QED BY <1>1, InvariantIInv, PTL

=============================================================================
