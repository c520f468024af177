----------------------------- MODULE FrameCodec -----------------------------
(* ObjEncoder and ObjDecoder on the two ends of a connection: a message is   *)
(* its serialized bytes behind a length of four bytes, TCP delivers the      *)
(* bytes in pieces of any size, and ByteToMessageDecoder calls decode as     *)
(* long as it makes progress on what has come in. Either end may close.      *)
EXTENDS Integers, Sequences

CONSTANTS Base,     \* the values of a byte, 256
          Data,     \* serialized messages: sequences of bytes, possibly empty
          MaxFrames \* bound: messages sent

Byte == 0 .. Base - 1
Half == Base \div 2   \* from here on the first byte makes an int negative

ASSUME BaseIsNat == Base \in Nat \ {0}

\* The length of a Java array is an int that is not negative.
ASSUME DataAreBytes == /\ Data \subseteq Seq(Byte)
                       /\ \A d \in Data : Len(d) < Base * (Base * (Base * Half))
ASSUME FramesAreNat == MaxFrames \in Nat

VARIABLES sent,    \* history: the messages written, in order
          wire,    \* bytes on their way
          in,      \* the decoder's buffer, from its reader index on
          stuck,   \* decode has returned without progress on this buffer
          out,     \* the messages decoded, in order
          cut      \* the connection is closed

codecVars == <<sent, wire, in, stuck, out, cut>>

CodecInit == sent = <<>> /\ wire = <<>> /\ in = <<>> /\ stuck = TRUE /\ out = <<>> /\ cut = FALSE
----------------------------------------------------------------------------
\* Four bytes, the highest first; an int that is read is negative when its
\* first byte is in the upper half.
writeInt(n) == LET n1 == n \div Base
                   n2 == n1 \div Base
                   n3 == n2 \div Base IN
               <<n3, n2 % Base, n1 % Base, n % Base>>
readInt(b) == LET n == ((b[1] * Base + b[2]) * Base + b[3]) * Base + b[4] IN
              IF b[1] < Half THEN n ELSE n - Base * (Base * (Base * Base))
Skip(b, n) == SubSeq(b, n + 1, Len(b))

encode(d) == /\ ~cut /\ Len(sent) < MaxFrames
             /\ sent' = Append(sent, d)
             /\ wire' = wire \o writeInt(Len(d)) \o d
             /\ UNCHANGED <<in, stuck, out, cut>>

\* The next n bytes are read from the socket, once decode is done with the
\* ones before.
Deliver(n) == /\ stuck /\ ~cut
              /\ in' = in \o SubSeq(wire, 1, n)
              /\ wire' = Skip(wire, n)
              /\ stuck' = FALSE
              /\ UNCHANGED <<sent, out, cut>>

\* Mutant: the length is not read again when the rest has come.
decode_NoReset ==
  LET n == readInt(in)
      rest == Skip(in, 4) IN
  /\ ~stuck
  /\ IF Len(in) < 4
     THEN stuck' = TRUE /\ UNCHANGED <<in, out>>
     ELSE IF n < 0 \/ Len(rest) < n
     THEN in' = rest /\ stuck' = TRUE /\ UNCHANGED out
     ELSE /\ out' = Append(out, SubSeq(rest, 1, n))
          /\ in' = Skip(rest, n)
          /\ UNCHANGED stuck
  /\ UNCHANGED <<sent, wire, cut>>

\* Mutant: waits for a byte more than the frame has.
decode_OneMore ==
  LET n == readInt(in)
      rest == Skip(in, 4) IN
  /\ ~stuck
  /\ IF Len(in) < 4 \/ Len(rest) <= n
     THEN stuck' = TRUE /\ UNCHANGED <<in, out>>
     ELSE /\ out' = Append(out, SubSeq(rest, 1, n))
          /\ in' = Skip(rest, n)
          /\ UNCHANGED stuck
  /\ UNCHANGED <<sent, wire, cut>>

\* One call of decode: a part of a frame is left for the next piece.
decode ==
  LET n == readInt(in)
      rest == Skip(in, 4) IN
  /\ ~stuck
  /\ IF Len(in) < 4 \/ Len(rest) < n
     THEN stuck' = TRUE /\ UNCHANGED <<in, out>>
     ELSE /\ out' = Append(out, SubSeq(rest, 1, n))
          /\ in' = Skip(rest, n)
          /\ UNCHANGED stuck
  /\ UNCHANGED <<sent, wire, cut>>

\* What has not arrived is lost.
CloseWire == /\ ~cut
             /\ cut' = TRUE
             /\ wire' = <<>>
             /\ UNCHANGED <<sent, in, stuck, out>>

Transfer == decode \/ \E n \in 1 .. Len(wire) : Deliver(n)

CodecNext == Transfer \/ CloseWire \/ \E d \in Data : encode(d)

CodecSpec == CodecInit /\ [][CodecNext]_codecVars
----------------------------------------------------------------------------
(* The messages decoded are the first of those sent, unchanged and in order, *)
(* however the bytes are cut into pieces: in the middle of a length, of a    *)
(* message, or several messages at a time, an empty message included.        *)
DecodedIsPrefix == Len(out) <= Len(sent) /\ out = SubSeq(sent, 1, Len(out))

(* Nothing waits for the next message: once decode makes no more progress,   *)
(* nothing is on its way and the connection is up, every message sent has    *)
(* been decoded, whatever pieces it came in.                                 *)
NothingHeldBack == stuck /\ wire = <<>> /\ ~cut => Len(out) = Len(sent)
============================================================================
