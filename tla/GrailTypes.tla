----------------------------- MODULE GrailTypes -----------------------------
(***************************************************************************)
(* The transmitter type of grail_types.hpp and its helpers (grail_types.cpp)*)
(* A transmitter is a record [phy, id]: a uint8_t physical layer and a     *)
(* uint128_t id.  On the wire it is the phy byte, then the id's two        *)
(* uint64_t halves, each big-endian, upper first: 17 bytes, with no frame  *)
(* and no message id.                                                       *)
(*                                                                         *)
(* Two readers decode it: readTransmitterFromBuffer advances a BuffReader  *)
(* (a failed read latches the flag and leaves the cursor where it was),    *)
(* readTransmitter reads at the fixed offsets 0, 1 and 9 of a buffer with  *)
(* the free readPrimitive(buff, index), which yields 0 for a value that    *)
(* does not fit.                                                            *)
(***************************************************************************)
EXTENDS SampleProtocol

GrailKinds == {"transmitter"}

(* Mutant: the ids compared whatever the physical layers.                *)
TxLessNoTie(a, b) == a.phy < b.phy \/ U128Less(a.id, b.id)

(* operator< (lines 3-6): phy first, then the uint128_t order.            *)
TxLess(a, b) ==
  a.phy < b.phy \/ (a.phy = b.phy /\ U128Less(a.id, b.id))

(* operator== (lines 8-10).                                                *)
TxEq(a, b) == a.phy = b.phy /\ U128Eq(a.id, b.id)

(* writeTransmitter (lines 32-35): pushBackVal of the uint8_t phy and of   *)
(* the two uint64_t halves.                                                *)
WriteTransmitter(t) == Val(t.phy, 1) \o Val(t.id.upper, 8) \o Val(t.id.lower, 8)

(* Mutant: the id read as one readPrimitive<uint128_t>, so a buffer that   *)
(* holds the upper half but not the lower one yields an id of 0.          *)
ReadTransmitterWhole(r) ==
  LET phy == Read(r, 1)
      id == ReadU128(phy[2])
  IN  << [phy |-> phy[1], id |-> id[1]], id[2] >>

(* readTransmitterFromBuffer (lines 16-22): convertPrimitive(t.phy), then  *)
(* upper and lower as two readPrimitive<uint64_t> calls.                   *)
ReadTransmitterFromBuffer(r) ==
  LET phy == Read(r, 1)
      upper == Read(phy[2], 8)
      lower == Read(upper[2], 8)
  IN  << [phy |-> phy[1], id |-> [upper |-> upper[1], lower |-> lower[1]]],
         lower[2] >>

(* The free readPrimitive<T>(buff, index) (netbuffer.hpp lines 209-224):  *)
(* the w bytes at index when index + w - 1 < buff.size(), 0 otherwise.     *)
ReadAt(buf, index, w) ==
  IF index + w - 1 < Len(buf)
  THEN BigEndian(SubSeq(buf, index + 1, index + w))
  ELSE 0

(* readTransmitter(buff) (lines 24-30): phy at 0, upper at 1, lower at     *)
(* 1 + sizeof(uint64_t).                                                   *)
ReadTransmitter(buf) ==
  [phy |-> ReadAt(buf, 0, 1),
   id |-> [upper |-> ReadAt(buf, 1, 8), lower |-> ReadAt(buf, 9, 8)]]

-----------------------------------------------------------------------------
(* The transmitter codec as CodecHarness uses it: writeTransmitter builds  *)
(* the buffer and readTransmitterFromBuffer, on a fresh BuffReader, reads  *)
(* it back.  The readers have no failure value: a short buffer yields     *)
(* zero fields.                                                            *)

Transmitters == [phy : Phys, id : U128s]

GrailValues(k) == Transmitters

GrailEncode(k, v) == WriteTransmitter(v)

GrailDecode(k, buf) == << ReadTransmitterFromBuffer(Reader(buf))[1], buf >>

GrailIsFailure(k, v) == FALSE

=============================================================================
