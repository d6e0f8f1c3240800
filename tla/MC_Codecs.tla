------------------------------ MODULE MC_Codecs ------------------------------
(* The solver face, the sample codecs and the transmitter codec in the  *)
(* harness, with small value sets.  Faces chooses which links take part; their kinds are disjoint,  *)
(* so each operator dispatches on the face that owns the kind.  Radix is  *)
(* 12: a byte holds every message id and an 8-byte value stays below      *)
(* TLC's 2^31.                                                             *)
EXTENDS Integers, Sequences

CONSTANTS Radix, Strs, Aliases, Times, Blobs, MaxItems,
          Phys, U128s, RSSs, Intervals, Indeterminate, Hang, Faces

VARIABLES msg, sent, wire, tampered, decoded

S == INSTANCE SolverProtocol
A == INSTANCE GrailTypes

FaceKinds == [solver |-> S!Kinds, sensor |-> A!SensorKinds,
              aggregator |-> A!AggregatorKinds, grail |-> A!GrailKinds]

Kinds == UNION {FaceKinds[f] : f \in Faces}
Decoders == Kinds \cap (S!Decoders \cup A!Decoders \cup A!GrailKinds)
Values(k) ==
  CASE k \in S!Kinds -> S!Values(k)
    [] k \in A!GrailKinds -> A!GrailValues(k)
    [] OTHER -> A!Values(k)
Encode(k, v) ==
  CASE k \in S!Kinds -> S!Encode(k, v)
    [] k \in A!GrailKinds -> A!GrailEncode(k, v)
    [] OTHER -> A!Encode(k, v)
Decode(k, buf) ==
  CASE k \in S!Kinds -> S!Decode(k, buf)
    [] k \in A!GrailKinds -> A!GrailDecode(k, buf)
    [] OTHER -> A!Decode(k, buf)
IsFailure(k, v) ==
  CASE k \in S!Kinds -> S!IsFailure(k, v)
    [] k \in A!GrailKinds -> A!GrailIsFailure(k, v)
    [] OTHER -> A!IsFailure(k, v)

H == INSTANCE CodecHarness

Spec == H!Spec
TypeOK == H!TypeOK
RoundTrip == H!RoundTrip
FrameMismatchRejected == H!FrameMismatchRejected
DecodeSound == H!DecodeSound

(* The uint128_t ids a decoder returned in the current state.             *)
DecodedIds ==
  IF decoded.kind \in {"sensor_sample", "server_sample"}
     /\ decoded.val.valid
  THEN {decoded.val.tx_id, decoded.val.rx_id} ELSE {}

(* Lexicographic order of two byte sequences of the same length.          *)
BytesBefore(s, t) ==
  \E i \in DOMAIN s : s[i] < t[i] /\ \A j \in 1 .. i - 1 : s[j] = t[j]

(* uint128_t operator< (sample_data.cpp lines 54-56) and operator== agree  *)
(* with the order and equality of the ids' big-endian wire bytes, i.e. of *)
(* the 128-bit numbers, for every id a decoder returns and every id with   *)
(* halves 0..1 (ties on upper and on lower both occur).                    *)
U128OrderIsNumeric ==
  \A a, b \in [upper : 0 .. 1, lower : 0 .. 1] \cup DecodedIds :
    /\ A!U128Less(a, b) <=> BytesBefore(A!U128Bytes(a), A!U128Bytes(b))
    /\ A!U128Eq(a, b) <=> A!U128Bytes(a) = A!U128Bytes(b)

(* readTransmitterFromBuffer and readTransmitter (grail_types.cpp lines   *)
(* 16-30) return the same transmitter for every buffer the receiver holds: *)
(* the one writeTransmitter built, or that buffer cut short at any byte,   *)
(* extended, or reframed.  With a buffer that holds phy and the upper half *)
(* only, the cursor-based reader must still keep the upper half, as the    *)
(* offset-based one does.                                                  *)
TransmitterReadersAgree ==
  decoded.kind = "transmitter" =>
    decoded.val = A!ReadTransmitter(decoded.input)

(* transmitter operator< and operator== (grail_types.cpp lines 3-10) agree *)
(* with the order and equality of the bytes writeTransmitter writes: phy,  *)
(* then the id, as a packed struct's bytes would sort.  Checked, whenever  *)
(* a transmitter was decoded, for it and every one with phy and id halves  *)
(* in 0..1.                                                                *)
TransmitterOrderIsWireOrder ==
  decoded.kind = "transmitter" =>
    \A a, b \in [phy : 0 .. 1, id : [upper : 0 .. 1, lower : 0 .. 1]]
                \cup {decoded.val} :
      /\ A!TxLess(a, b) <=> BytesBefore(A!WriteTransmitter(a), A!WriteTransmitter(b))
      /\ A!TxEq(a, b) <=> A!WriteTransmitter(a) = A!WriteTransmitter(b)

(* The wire is big-endian on every host (spec section 1: "the wire is     *)
(* always big-endian"), so the host-free Val, Read and U128Bytes the other *)
(* properties use are what the code computes: for every window of a      *)
(* buffer a make...() function returned, on a little- and on a big-endian *)
(* host, readPrimitive of a 1-, 2-, 4- or 8-byte value yields the window's *)
(* big-endian value and pushBackVal of it writes the window back; a       *)
(* 16-byte window read into a uint128_t (fromNetworkEndian of size 16)    *)
(* yields the halves U128Bytes writes, and pushBackVal of it writes the   *)
(* window back.  Test machines are little-endian, so the other branch of  *)
(* toNetworkEndian and fromNetworkEndian runs nowhere else.               *)
WireIsBigEndianOnEveryHost ==
  decoded.kind = "none" /\ tampered = "none" =>
    \A little \in BOOLEAN :
      /\ \A w \in {1, 2, 4, 8} : \A i \in 0 .. Len(wire) - w :
           LET b == SubSeq(wire, i + 1, i + w)
               v == A!HostReadPrimitive(b, little)
           IN  v = A!BigEndian(b) /\ A!HostPushBackVal(v, w, little) = b
      /\ \A i \in 0 .. Len(wire) - 16 :
           LET b == SubSeq(wire, i + 1, i + 16)
               x == A!HostU128(A!FromNetworkEndian(b, little), little)
           IN  /\ A!U128Bytes(x) = b
               /\ A!ToNetworkEndian(A!HostU128Memory(x, little), little) = b

MCStrs == {<<>>, <<1>>}
MCTimes == {-1, 1}
MCBlobs == {<<>>, <<1>>}
MCU128s == {[upper |-> 1, lower |-> 2]}
=============================================================================
