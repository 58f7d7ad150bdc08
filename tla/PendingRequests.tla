-------------------------- MODULE PendingRequests --------------------------
(***************************************************************************)
(* The requests the companion app sends through the node to other nodes    *)
(* and the matching of what comes back (src/MyMesh.cpp: the request        *)
(* commands of handleCmdFrame, onContactResponse, onContactPathRecv; the   *)
(* five pending_ fields and clearPendingReqs of src/MyMesh.h).             *)
(*                                                                         *)
(* A login or status request is remembered by the first four bytes of the  *)
(* peer's key, the others by the tag sendRequest chose.  The mesh keeps    *)
(* what it carries: an answer may come late, twice, in any order, or       *)
(* never, and there is no timeout.  Every command sets the link a reply;   *)
(* only the pushes matter here.  A command for an unknown contact changes  *)
(* nothing; the contact CMD_SEND_ANON_REQ adds is in ContactStore.         *)
(***************************************************************************)
EXTENDS Naturals, FiniteSets, Sequences

CONSTANTS
  Peers,        \* the peers' four-byte prefixes; 0 would read as "none"
  ServerTimes,  \* what the clocks of login servers show; never 0
  MaxRequests   \* bound: requests sent in one behaviour

ASSUME PendingRequestsAssumption ==
  /\ Peers \subseteq Nat \ {0}
  /\ ServerTimes \subseteq Nat \ {0}
  /\ MaxRequests \in Nat

VARIABLES
  pending,      \* [Kinds -> Nat]: pending_login .. pending_req, 0 for none
  connections,  \* the peers startConnection keeps alive (external)
  sent,         \* history: the requests sent; a request's tag is its index
  pushes,       \* history: how many answers of each kind the app has got
  lastPush,     \* history: the newest push and the answer it was made from
  settled       \* history: the newest request needs no answer any more

reqVars == <<pending, connections, sent, pushes, lastPush, settled>>

PrefixKinds == {"login", "status"}
TagKinds    == {"telemetry", "discovery", "req"}
Kinds       == PrefixKinds \union TagKinds

Latest == Len(sent)

\* What the answer to request k may look like.  The peer reflects the tag,
\* except that a login answer carries the server's clock.  The bytes after
\* the tag are the peer's; onContactResponse tells three patterns apart, one
\* of them with or without a keep-alive time.
Bodies == {"OK", "LOGIN_OK", "LOGIN_OK_KEEP_ALIVE", "other"}

AnswersTo(k) ==
  [of   : {k},
   tag  : IF sent[k].kind = "login" THEN ServerTimes ELSE {k},
   long : IF sent[k].kind = "login" THEN {TRUE} ELSE BOOLEAN,
   body : Bodies]

Answers == UNION {AnswersTo(k) : k \in DOMAIN sent}

From(a) == sent[a.of].to

NoPush == [kind |-> "none", of |-> 0, latest |-> 0]

-----------------------------------------------------------------------------
\* Requests.

NonePending == [kind \in Kinds |-> 0]

\* Variant: the earlier request stays pending.
SetPendingOnly(kind, id) == pending' = [pending EXCEPT ![kind] = id]

\* clearPendingReqs, then the one field.
SetPending(kind, id) == pending' = [NonePending EXCEPT ![kind] = id]

SendRequest(kind, to) ==
  /\ Latest < MaxRequests
  /\ sent' = Append(sent, [kind |-> kind, to |-> to])
  /\ SetPending(kind, IF kind \in PrefixKinds THEN to ELSE Latest + 1)
  /\ settled' = FALSE
  /\ UNCHANGED <<connections, pushes, lastPush>>

\* Variant: the fields are cleared before the result is known.
SendFailsCleared ==
  /\ pending' = NonePending
  /\ UNCHANGED <<connections, sent, pushes, lastPush, settled>>

\* The packet pool is empty: the app gets ERR_CODE_TABLE_FULL.
SendFails == UNCHANGED reqVars

\* CMD_SEND_LOGIN, CMD_SEND_STATUS_REQ, CMD_SEND_TELEMETRY_REQ,
\* CMD_SEND_PATH_DISCOVERY_REQ, CMD_SEND_BINARY_REQ and CMD_SEND_ANON_REQ; the
\* last two share pending_req.
CmdSendRequest(kind, to) == SendRequest(kind, to) \/ SendFails

CmdLogout(peer) ==
  /\ peer \in connections
  /\ connections' = connections \ {peer}
  /\ UNCHANGED <<pending, sent, pushes, lastPush, settled>>

-----------------------------------------------------------------------------
\* Answers.

\* Variant: the field is not cleared.
PushKeepsPending(kind, a) ==
  /\ UNCHANGED pending
  /\ pushes' = [pushes EXCEPT ![kind] = @ + 1]
  /\ lastPush' = [kind |-> kind, of |-> a.of, latest |-> Latest]
  /\ settled' = TRUE

Push(kind, a) ==
  /\ pending' = [pending EXCEPT ![kind] = 0]
  /\ pushes' = [pushes EXCEPT ![kind] = @ + 1]
  /\ lastPush' = [kind |-> kind, of |-> a.of, latest |-> Latest]
  /\ settled' = TRUE

ForLogin(a)  == pending["login"] = From(a)
ForStatus(a) == ~ForLogin(a) /\ a.long /\ pending["status"] = From(a)

\* Variant: any answer serves while one is pending.
ForTagUnmatched(kind, a) ==
  ~ForLogin(a) /\ ~ForStatus(a) /\ a.long /\ pending[kind] # 0

ForTag(kind, a) ==
  ~ForLogin(a) /\ ~ForStatus(a) /\ a.long /\ a.tag = pending[kind]

\* LOGIN_SUCCESS or LOGIN_FAIL.  When the answer holds no more than the tag
\* the bytes after it are left over from an earlier packet.
LoginAnswer(a) ==
  /\ Push("login", a)
  /\ \E body \in IF a.long THEN {a.body} ELSE Bodies :
       connections' = IF body = "LOGIN_OK_KEEP_ALIVE"
                      THEN connections \union {From(a)} ELSE connections

OtherAnswer(a) ==
  /\ \/ ForStatus(a) /\ Push("status", a)
     \/ \E kind \in {"telemetry", "req"} : ForTag(kind, a) /\ Push(kind, a)
  /\ UNCHANGED connections

onContactResponse(a) ==
  /\ \/ ForLogin(a) /\ LoginAnswer(a)
     \/ OtherAnswer(a)
  /\ UNCHANGED sent

\* The answer to a discovery request, its two paths of a valid length or not:
\* if not, it is used up but not shown.
DiscoveryAnswer(a, validPaths) ==
  /\ IF validPaths
     THEN Push("discovery", a)
     ELSE /\ pending' = [pending EXCEPT !["discovery"] = 0]
          /\ settled' = TRUE
          /\ UNCHANGED <<pushes, lastPush>>
  /\ UNCHANGED <<connections, sent>>

\* An answer that travels with a returned path.  The base class (external)
\* hands the answer on to onContactResponse.
onContactPathRecv(a, validPaths) ==
  IF a.long /\ a.tag = pending["discovery"]
  THEN DiscoveryAnswer(a, validPaths)
  ELSE onContactResponse(a)

\* BaseChatMesh gives up a connection that is not kept alive (external).
ConnectionExpires(peer) == CmdLogout(peer)

-----------------------------------------------------------------------------

Init ==
  /\ pending = NonePending
  /\ connections = {}
  /\ sent = <<>>
  /\ pushes = [kind \in Kinds |-> 0]
  /\ lastPush = NoPush
  /\ settled = TRUE

Next ==
  \/ \E kind \in Kinds, to \in Peers : CmdSendRequest(kind, to)
  \/ \E peer \in Peers : CmdLogout(peer)
  \/ \E peer \in Peers : ConnectionExpires(peer)
  \/ \E a \in Answers : onContactResponse(a)
  \/ \E a \in Answers, validPaths \in BOOLEAN :
       onContactPathRecv(a, validPaths)

Spec == Init /\ [][Next]_reqVars

-----------------------------------------------------------------------------
\* Properties.

(* The fields hold a prefix, a tag or nothing; connections and pushes belong
   to peers and requests there were. *)
TypeOK ==
  /\ pending \in [Kinds -> Nat]
  /\ connections \subseteq Peers
  /\ sent \in Seq([kind : Kinds, to : Peers])
  /\ pushes \in [Kinds -> 0..MaxRequests]
  /\ settled \in BOOLEAN

\* What a request is remembered by.
Id(k) == IF sent[k].kind \in PrefixKinds THEN sent[k].to ELSE k

(* Only the newest request is ever awaited: whatever the order of commands
   and late answers, a field that is set is the newest request's own. *)
OnlyLatestPending ==
  \A kind \in Kinds : pending[kind] # 0 =>
    Latest > 0 /\ kind = sent[Latest].kind /\ pending[kind] = Id(Latest)

(* The request the app was last told is SENT stays awaited until something is
   accepted as its answer: an answer to an older request and a command that
   fails in between do not make the node forget it. *)
LatestAwaited ==
  Latest > 0 /\ ~settled => pending[sent[Latest].kind] = Id(Latest)

\* The requests of one kind.
Asked(kind) == {k \in DOMAIN sent : sent[k].kind = kind}

(* A repeated answer is shown once: the app gets no more pushes of a kind than
   it sent requests of that kind. *)
NoMorePushesThanRequests ==
  \A kind \in Kinds : pushes[kind] <= Cardinality(Asked(kind))

(* A push that is matched by tag is made from the answer to the newest
   request, which is of that kind, however late older answers come.  Only a
   login answer, which carries a clock instead of a tag, can pass for one. *)
TagPushesMatchLatest ==
  lastPush.kind \in TagKinds =>
    \/ lastPush.of = lastPush.latest /\ sent[lastPush.of].kind = lastPush.kind
    \/ sent[lastPush.of].kind = "login"

(* "yes, is response to pending sendLogin()" (src/MyMesh.cpp:969): what the app
   is shown as the outcome of a login was a peer's answer to a login. *)
LoginPushIsForLogin ==
  lastPush.kind = "login" => sent[lastPush.of].kind = "login"

=============================================================================
