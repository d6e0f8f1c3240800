------------------------ MODULE MC_MessageReceiver -------------------------
(***************************************************************************)
(* Instances of MessageReceiver for TLC.  A byte has Radix = 4 values, so *)
(* a uint32_t wraps at 4^4 = 256 instead of 2^32; frames are a few bytes. *)
(***************************************************************************)
EXTENDS MessageReceiver

(* A well-formed frame: the uint32_t length of the body, then the body    *)
(* (message id and payload), as every make...Msg function builds it.      *)
Frame(body) == EncodeU32(Len(body)) \o body

(* Two frames of different lengths: a 1-byte and a 3-byte body.           *)
TwoFrames == <<Frame(<<1>>), Frame(<<2, 3, 1>>)>>

(* A peer that declares the largest uint32_t length (2^32 - 1 in the      *)
(* code), followed by a well-formed frame.                                *)
HugeLengthFrames == <<EncodeU32(U32 - 1) \o <<1>>, Frame(<<2>>)>>
=============================================================================
