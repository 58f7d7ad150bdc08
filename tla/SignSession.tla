---------------------------- MODULE SignSession ----------------------------
(***************************************************************************)
(* CMD_SIGN_START, CMD_SIGN_DATA and CMD_SIGN_FINISH (src/MyMesh.cpp): a   *)
(* buffer from the heap that the parts of a message are copied to, one     *)
(* after the other, until the message is signed.  The buffer is not bound  *)
(* to the app's session.  The heap and the signature are external; what a  *)
(* fresh buffer holds is Junk.                                             *)
(***************************************************************************)
EXTENDS Naturals, Sequences

CONSTANTS
  Bytes,              \* the bytes a message is made of
  Junk,               \* what a byte of a fresh buffer may be
  NoMessage,          \* the abstract message when there is no buffer
  MAX_SIGN_DATA_LEN,  \* bytes of the buffer
  MaxPart             \* bytes in one CMD_SIGN_DATA frame

ASSUME SignSessionAssumption ==
  /\ MAX_SIGN_DATA_LEN \in Nat \ {0} /\ MaxPart \in Nat \ {0}
  /\ NoMessage \notin UNION {[1..n -> Bytes \union {Junk}] :
                               n \in 0..MAX_SIGN_DATA_LEN}

VARIABLES
  sign_data,       \* the buffer, or <<>> for the null pointer
  sign_data_len,   \* the bytes copied so far
  signature        \* history: the bytes that were signed last

signVars == <<sign_data, sign_data_len, signature>>

Parts == UNION {[1..n -> Bytes] : n \in 1..MaxPart}
FreshBuffer == [i \in 1..MAX_SIGN_DATA_LEN |-> Junk]

SignInit ==
  /\ sign_data = <<>>
  /\ sign_data_len = 0
  /\ signature = NoMessage

\* Variant: the length is not reset.
CmdSignStartAppending ==
  /\ sign_data' \in {FreshBuffer, <<>>}
  /\ UNCHANGED <<sign_data_len, signature>>

\* The answer is sent before the memory is asked for.
CmdSignStart ==
  /\ sign_data' \in {FreshBuffer, <<>>}
  /\ sign_data_len' = 0
  /\ UNCHANGED signature

\* Variant: only a full buffer is refused.
CmdSignDataOverrun(part) ==
  /\ sign_data # <<>>
  /\ sign_data_len < MAX_SIGN_DATA_LEN
  /\ sign_data_len' = sign_data_len + Len(part)
  /\ UNCHANGED <<sign_data, signature>>

\* Refused with ERR_CODE_BAD_STATE without a buffer, with
\* ERR_CODE_TABLE_FULL when the part does not fit; nothing changes then.
CmdSignData(part) ==
  /\ sign_data # <<>>
  /\ sign_data_len + Len(part) <= MAX_SIGN_DATA_LEN
  /\ sign_data' = [i \in 1..MAX_SIGN_DATA_LEN |->
                     IF i - sign_data_len \in DOMAIN part
                     THEN part[i - sign_data_len] ELSE sign_data[i]]
  /\ sign_data_len' = sign_data_len + Len(part)
  /\ UNCHANGED signature

CmdSignFinish ==
  /\ sign_data # <<>>
  /\ signature' = SubSeq(sign_data, 1, sign_data_len)
  /\ sign_data' = <<>>
  /\ UNCHANGED sign_data_len

SignNext ==
  \/ CmdSignStart
  \/ \E part \in Parts : CmdSignData(part)
  \/ CmdSignFinish

-----------------------------------------------------------------------------
\* Properties.

SignTypesOK ==
  /\ sign_data \in {<<>>} \union
                   [1..MAX_SIGN_DATA_LEN -> Bytes \union {Junk}]
  /\ sign_data_len \in 0..MAX_SIGN_DATA_LEN

Signing == INSTANCE Signer WITH
  Part <- Parts, Longest <- MAX_SIGN_DATA_LEN, None <- NoMessage,
  message <- IF sign_data = <<>> THEN NoMessage
             ELSE SubSeq(sign_data, 1, sign_data_len),
  signed <- signature

(* Through any sequence of the three commands, with the memory failing at any
   START, the buffer and its length implement the abstract signer: what is
   signed is the parts acknowledged since the last START and nothing else. *)
ImplementsSigner == Signing!SignerSpec

=============================================================================
