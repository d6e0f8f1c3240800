---------------------------- MODULE CodecHarness ----------------------------
(***************************************************************************)
(* How a codec of the library is used: a make...() function builds a       *)
(* buffer, the peer's transport hands it to the other side (possibly       *)
(* damaged: a peer may send any bytes), and decode...() functions are      *)
(* applied to it, any number of times and of any kind -- a decoder may    *)
(* patch the buffer it is given, so a later decoder sees the patch.        *)
(*                                                                         *)
(* The codec is a parameter: a protocol face instantiates this module     *)
(* with its kinds, its encoder, its decoders and their failure values.    *)
(* One message is followed through each behaviour.                        *)
(***************************************************************************)
EXTENDS NetBuffer

CONSTANTS
  Kinds,          \* the message kinds a make...() function builds
  Decoders,       \* the kinds that have a decode...() function
  Values(_),      \* the values a make...() function of a kind is given
  Encode(_, _),   \* Encode(k, v): the buffer make...() returns
  Decode(_, _),   \* Decode(k, buf): <<result, buffer after the call>>
  IsFailure(_, _),\* IsFailure(k, r): r is the failure value of decoder k
  Hang            \* the result of a decoder that never returns

VARIABLES
  msg,      \* the kind and value last given to a make...() function
  sent,     \* the buffer it returned
  wire,     \* the buffer as the receiver holds it
  tampered, \* how the transport damaged it, "none" if it did not
  decoded   \* the decoder last applied, its input and its result

vars == <<msg, sent, wire, tampered, decoded>>

NoMessage == [kind |-> "none", val |-> <<>>]
NoDecode == [kind |-> "none", input |-> <<>>, val |-> <<>>]
Damages == {"none", "cut", "cut_reframed", "extended", "extended_reframed"}

Init ==
  /\ msg = NoMessage
  /\ sent = <<>>
  /\ wire = <<>>
  /\ tampered = "none"
  /\ decoded = NoDecode

(* A make...() call; its buffer is handed to the transport.                *)
Send ==
  /\ msg.kind = "none"
  /\ \E k \in Kinds : \E v \in Values(k) :
       /\ msg' = [kind |-> k, val |-> v]
       /\ sent' = Encode(k, v)
       /\ wire' = Encode(k, v)
  /\ tampered' = "none"
  /\ decoded' = NoDecode

Body(buf) == SubSeq(buf, 5, Len(buf))

(* The bytes arrive cut short, or followed by an extra byte, with the      *)
(* length field left as it was or rewritten to match; at most once, before *)
(* the first decode.                                                       *)
Damage(how, new) ==
  /\ msg.kind /= "none" /\ tampered = "none" /\ decoded.kind = "none"
  /\ wire' = new
  /\ tampered' = how
  /\ UNCHANGED <<msg, sent, decoded>>

Cut == \E k \in 0 .. Len(wire) - 1 : Damage("cut", SubSeq(wire, 1, k))

CutReframed ==
  /\ Len(wire) > 5
  /\ \E k \in 1 .. Len(wire) - 5 :
       Damage("cut_reframed", Framed(SubSeq(Body(wire), 1, k)))

Extend == Damage("extended", wire \o <<0>>)

ExtendReframed == Damage("extended_reframed", Framed(Body(wire) \o <<0>>))

(* A decode...() call on the buffer the receiver holds.                    *)
Receive ==
  /\ msg.kind /= "none"
  /\ \E k \in Decoders :
       LET d == Decode(k, wire)
       IN  /\ decoded' = [kind |-> k, input |-> wire, val |-> d[1]]
           /\ wire' = d[2]
  /\ UNCHANGED <<msg, sent, tampered>>

Next == Send \/ Cut \/ CutReframed \/ Extend \/ ExtendReframed \/ Receive

Spec == Init /\ [][Next]_vars

-----------------------------------------------------------------------------
TypeOK ==
  /\ msg.kind \in Kinds \cup {"none"}
  /\ sent \in Seq(Bytes) /\ wire \in Seq(Bytes)
  /\ tampered \in Damages
  /\ decoded.kind \in Decoders \cup {"none"}
  /\ decoded.input \in Seq(Bytes)

(* Round trip (spec section 8, "decode(encode(v)) == v"): the bytes a      *)
(* make...() function returns, given unchanged to the decoder of the same  *)
(* kind, decode to the value that was encoded.                             *)
RoundTrip ==
  decoded.kind = msg.kind /\ decoded.input = sent =>
    decoded.val = msg.val

(* The message-id check (spec section 4, check (b)): the bytes a make...() *)
(* function returns, given unchanged to the decoder of another kind,       *)
(* decode to that decoder's failure value.                                 *)
KindMismatchRejected ==
  decoded.kind \notin {"none", msg.kind} /\ decoded.input = sent =>
    IsFailure(decoded.kind, decoded.val)

(* The frame check (spec section 4, check (a), and bounded truncation     *)
(* safety of section 8): a buffer whose length field disagrees with its   *)
(* size -- a frame cut short or followed by extra bytes -- is rejected by  *)
(* every decoder, whatever its fields hold.                               *)
FrameMismatchRejected ==
  decoded.kind /= "none"
  /\ Len(decoded.input) /= (Read(Reader(decoded.input), 4)[1] + 4) % Mod(4)
  => IsFailure(decoded.kind, decoded.val)

(* Decoding is total (spec section 4): every decoder returns, whatever     *)
(* the bytes of the buffer.                                                *)
DecodeTerminates == decoded.val /= Hang

(* A decoder reports success only for a buffer that encodes exactly what  *)
(* it returned (spec section 4: a field that overruns the buffer, or an   *)
(* odd string length, is a decode failure).                                *)
DecodeSound ==
  decoded.kind /= "none" /\ decoded.val /= Hang
  /\ ~IsFailure(decoded.kind, decoded.val)
  => Encode(decoded.kind, decoded.val) = decoded.input

=============================================================================
