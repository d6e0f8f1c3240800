------------------------- MODULE MC_ClientProtocol -------------------------
(* The client codec in the harness, with small value sets.  Radix is 12 in *)
(* the cfg: a byte must hold the message ids 0..11, and an 8-byte value    *)
(* (12^8) must stay below TLC's 2^31.  One code unit value and one element *)
(* per list put a length, a count and a string in every message.           *)
EXTENDS ClientProtocol

VARIABLES msg, sent, wire, tampered, decoded

H == INSTANCE CodecHarness
       WITH Kinds <- Kinds, Decoders <- Decoders, Values <- Values,
            Encode <- Encode, Decode <- Decode, IsFailure <- IsFailure,
            Hang <- Hang

Spec == H!Spec
TypeOK == H!TypeOK
RoundTrip == H!RoundTrip
KindMismatchRejected == H!KindMismatchRejected
FrameMismatchRejected == H!FrameMismatchRejected
DecodeTerminates == H!DecodeTerminates
DecodeSound == H!DecodeSound

MCStrs == {<<>>, <<1>>}
MCTimes == {-1, 1}
MCBlobs == {<<>>, <<1>>}
MCWeights == {-1, 2}
EmptyURIList == {<<>>}
OneURILists == {<<>>, <<<<1>>>>}
=============================================================================
