------------------------------ MODULE Signer ------------------------------
(***************************************************************************)
(* What the signing commands promise the app: the node signs the message   *)
(* begun last, made of the parts it acknowledged, in their order, no       *)
(* longer than MAX_SIGN_DATA_LEN, and signs a message once.                *)
(***************************************************************************)
EXTENDS Naturals, Sequences

CONSTANTS
  Part,        \* the parts a message may be sent in, sequences of bytes
  Longest,     \* the length no message exceeds
  None         \* no message is under way

VARIABLES
  message,     \* the message under way, or None
  signed       \* the message of the newest signature, or None

signerVars == <<message, signed>>

SignerInit == message = None /\ signed = None

Begin == message' = <<>> /\ UNCHANGED signed

\* The node has no memory for a message.
BeginRefused == message' = None /\ UNCHANGED signed

Add(part) ==
  /\ message # None
  /\ Len(message) + Len(part) <= Longest
  /\ message' = message \o part
  /\ UNCHANGED signed

Sign ==
  /\ message # None
  /\ signed' = message
  /\ message' = None

SignerNext == Begin \/ BeginRefused \/ (\E part \in Part : Add(part)) \/ Sign

SignerSpec == SignerInit /\ [][SignerNext]_signerVars

=============================================================================
