------------------------------- MODULE Digest -------------------------------
(***************************************************************************)
(* SHA-512 over data that comes in parts (lib/ed25519/sha512.c): what is   *)
(* compressed, block by block, with what is kept in between.  A signature  *)
(* hashes a key and a message of any length in separate parts, and its     *)
(* verifier must hash the same.  Bytes are numbered as they come; what a   *)
(* compression does to the state is not modelled.                          *)
(***************************************************************************)
EXTENDS Naturals, Sequences, SequencesExt

CONSTANTS
  BLOCK,       \* 128
  LENGTH_AT,   \* 112: a block with more than this has no room for the length
  ZEROS_TO,    \* 120: where the 64 bits of the length begin
  MaxMessage   \* bound: bytes in one message

ASSUME DigestAssumption ==
  /\ BLOCK \in Nat /\ LENGTH_AT \in Nat /\ ZEROS_TO \in Nat
  /\ 0 < LENGTH_AT /\ LENGTH_AT <= ZEROS_TO /\ ZEROS_TO < BLOCK
  /\ MaxMessage \in Nat

VARIABLES
  md,       \* [buf : the bytes kept, length : what was compressed, counted]
  in,       \* what sha512_update has still to take
  hashed,   \* the blocks compressed
  message,  \* number of bytes given so far
  final     \* sha512_final is done

digestVars == <<md, in, hashed, message, final>>

Numbers(from, to) == [i \in 1..(to - from + 1) |-> from + i - 1]

DigestInit ==
  /\ md = [buf |-> <<>>, length |-> 0]
  /\ in = <<>> /\ hashed = <<>> /\ message = 0 /\ final = FALSE

sha512_update(n) ==
  /\ in = <<>> /\ ~final /\ message + n <= MaxMessage
  /\ in' = Numbers(message + 1, message + n)
  /\ message' = message + n
  /\ UNCHANGED <<md, hashed, final>>

\* One turn of its loop: a whole block from where it is, or into the buffer.
UpdateTurn ==
  /\ in # <<>>
  /\ LET direct == md.buf = <<>> /\ Len(in) >= BLOCK
         room == BLOCK - Len(md.buf)
         n == IF Len(in) < room THEN Len(in) ELSE room
         buf == md.buf \o SubSeq(in, 1, n)
     IN  IF direct \/ Len(buf) = BLOCK
         THEN /\ hashed' = Append(hashed, buf)
              /\ md' = [buf |-> <<>>, length |-> md.length + BLOCK]
              /\ in' = SubSeq(in, n + 1, Len(in))
         ELSE /\ md' = [md EXCEPT !.buf = buf]
              /\ in' = <<>>
              /\ UNCHANGED hashed
  /\ UNCHANGED <<message, final>>

Filled(buf, to) == buf \o [i \in 1..(to - Len(buf)) |-> "0"]

\* Variant: the bit that ends the message is not counted against the room.
EndingUncounted(buf, length) ==
  LET marked == Append(buf, "80")   count == <<"length", length>> IN
  IF Len(buf) > LENGTH_AT
  THEN <<Filled(marked, BLOCK), Append(Filled(<<>>, ZEROS_TO), count)>>
  ELSE <<Append(Filled(marked, ZEROS_TO), count)>>

\* The last block or two: a bit, zeros, and the length.
Ending(buf, length) ==
  LET marked == Append(buf, "80")   count == <<"length", length>> IN
  IF Len(marked) > LENGTH_AT
  THEN <<Filled(marked, BLOCK), Append(Filled(<<>>, ZEROS_TO), count)>>
  ELSE <<Append(Filled(marked, ZEROS_TO), count)>>

sha512_final ==
  /\ in = <<>> /\ ~final
  /\ hashed' = hashed \o Ending(md.buf, md.length + Len(md.buf))
  /\ md' = [md EXCEPT !.length = @ + Len(md.buf)]
  /\ final' = TRUE
  /\ UNCHANGED <<in, message>>

DigestNext ==
  \/ \E n \in 0..MaxMessage : sha512_update(n)
  \/ UpdateTurn \/ sha512_final

-----------------------------------------------------------------------------
\* Properties.

\* FIPS 180-4, 5.1.2: a 1, the least number of zeros, and the length at the
\* end of a block; the upper half of the length is zero.
Padding ==
  LET free == LENGTH_AT - 1 - message
      zeros == (free + BLOCK * (message + 1)) % BLOCK
  IN  <<"80">> \o [i \in 1..(zeros + ZEROS_TO - LENGTH_AT) |-> "0"]
        \o <<<<"length", message>>>>

(* However the message is cut into parts, the bytes compressed, kept and not
   yet taken are the message in its order; and the whole is what the standard
   says for the message: nothing depends on the parts. *)
DigestRight ==
  IF final THEN FlattenSeq(hashed) = Numbers(1, message) \o Padding
  ELSE /\ FlattenSeq(hashed) \o md.buf \o in = Numbers(1, message)
       /\ \A i \in DOMAIN hashed : Len(hashed[i]) = BLOCK
       /\ Len(md.buf) < BLOCK /\ md.length = BLOCK * Len(hashed)

=============================================================================
