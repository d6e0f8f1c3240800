--------------------------- MODULE SampleProtocol ---------------------------
(***************************************************************************)
(* The sample codecs: the sensor -> aggregator sample message              *)
(* (sensor_aggregator_protocol.cpp) and the aggregator <-> solver          *)
(* subscription and server sample messages (aggregator_solver_protocol.cpp,*)
(* in sample_data.cpp), with the 128-bit identifier type of                *)
(* sample_data.hpp.                                                        *)
(*                                                                         *)
(* A uint128_t is a record [upper, lower] of two uint64_t halves; on the   *)
(* wire it is 16 bytes, each half big-endian, upper first (toNetworkEndian  *)
(* swaps the two 8-byte halves separately).  rss is a float: its four     *)
(* bytes are carried as an opaque 4-byte pattern.  The decoders take the   *)
(* buffer and its length, as the code does; callers pass buff.size().     *)
(***************************************************************************)
EXTENDS NetBuffer

CONSTANTS
  Phys,          \* physical layer tags (unsigned char)
  U128s,         \* transmitter and receiver ids, masks
  Times,         \* rx_timestamp values (int64_t)
  RSSs,          \* bit patterns of the float rss
  Blobs,         \* sense_data byte sequences
  Intervals,     \* update_interval values (uint64_t)
  MaxItems,      \* the longest list of rules or transmitters
  Indeterminate  \* the value of a field that was never initialised

(* enum MessageID of aggregator_solver (the sensor protocol has no id).   *)
MessageID == [keep_alive |-> 0, certificate |-> 1, ack_certificate |-> 2,
              subscription_request |-> 3, subscription_response |-> 4,
              device_position |-> 5, server_sample |-> 6, buffer_overrun |-> 7]

(* The sensor -> aggregator link carries one kind, the aggregator <->     *)
(* solver link the other two.                                              *)
SensorKinds == {"sensor_sample"}
AggregatorKinds == {"server_sample", "subscription_request"}
Kinds == SensorKinds \cup AggregatorKinds

Lists(S) == UNION {[1 .. n -> S] : n \in 0 .. MaxItems}

-----------------------------------------------------------------------------
(* uint128_t (sample_data.hpp lines 34-49, sample_data.cpp lines 17-66).   *)

(* uint128_t(uint64_t val) and operator=(val): upper is zeroed.            *)
FromU64(v) == [upper |-> 0, lower |-> v]

U128Eq(a, b) == a.upper = b.upper /\ a.lower = b.lower

(* Mutant: the lower halves compared without requiring equal upper halves.*)
U128LessNoTie(a, b) == a.upper < b.upper \/ a.lower < b.lower

U128Less(a, b) ==
  a.upper < b.upper \/ (a.upper = b.upper /\ a.lower < b.lower)

(* pushBackVal<uint128_t>: sixteen bytes, each half big-endian.           *)
U128Bytes(x) == Val(x.upper, 8) \o Val(x.lower, 8)

(* readPrimitive<uint128_t>(): one 16-byte read; (T)0 when it does not fit.*)
ReadU128(r) ==
  IF r.cur + 16 <= Len(r.buf)
  THEN << [upper |-> Read(r, 8)[1], lower |-> Read(Read(r, 8)[2], 8)[1]],
          [r EXCEPT !.cur = @ + 16] >>
  ELSE << FromU64(0), [r EXCEPT !.oor = TRUE] >>

(* The packed struct uint128_t in host memory: upper, then lower, each in *)
(* host byte order.                                                        *)
HostU128Memory(x, little) ==
  HostBytes(x.upper, 8, little) \o HostBytes(x.lower, 8, little)

(* The uint128_t whose memory is mem.                                       *)
HostU128(mem, little) ==
  [upper |-> HostValue(SubSeq(mem, 1, 8), little),
   lower |-> HostValue(SubSeq(mem, 9, 16), little)]

-----------------------------------------------------------------------------
(* The sample record.                                                      *)

(* The fields of a sample; pushContainer(sense_data) adds its bytes with   *)
(* no length (and nothing when it is empty).                              *)
SampleBytes(s) ==
  Val(s.physical_layer, 1) \o U128Bytes(s.tx_id) \o U128Bytes(s.rx_id)
  \o Val(s.rx_timestamp, 8) \o Val(s.rss, 4) \o s.sense_data

(* "SampleData sample; sample.valid = false;": every other field is left  *)
(* uninitialised, sense_data is empty.                                     *)
InvalidSample ==
  [physical_layer |-> Indeterminate, tx_id |-> Indeterminate,
   rx_id |-> Indeterminate, rx_timestamp |-> Indeterminate,
   rss |-> Indeterminate, sense_data |-> <<>>, valid |-> FALSE]

(* The body of both decodeSampleMsg functions once the checks passed:      *)
(* valid is set first, then the fields are read; sense_data is a vector of *)
(* length - cur_index bytes filled by readPrimitiveContainer while the     *)
(* buffer lasts.  The out-of-range flag is never consulted.               *)
ReadSample(r, length) ==
  LET phy == Read(r, 1)
      tx == ReadU128(phy[2])
      rx == ReadU128(tx[2])
      time == ReadSigned(rx[2], 8)
      rss == Read(time[2], 4)
      left == length - rss[2].cur
      n == IF Left(rss[2]) < left THEN Left(rss[2]) ELSE left
  IN  [physical_layer |-> phy[1], tx_id |-> tx[1], rx_id |-> rx[1],
       rx_timestamp |-> time[1], rss |-> rss[1],
       sense_data |-> SubSeq(r.buf, rss[2].cur + 1, rss[2].cur + n)
                      \o [i \in 1 .. left - n |-> 0],
       valid |-> TRUE]

-----------------------------------------------------------------------------
(* sensor_aggregator (sensor_aggregator_protocol.cpp lines 21-77).         *)

(* makeSampleMsg: the length counts the sample only; there is no id byte. *)
MakeSensorSample(s) == Framed(SampleBytes(s))

(* decodeSampleMsg(buff, length): only the length field is checked.       *)
DecodeSensorSample(buf, length) ==
  LET len == Read(Reader(buf), 4)
  IN  IF length > 4 /\ (len[1] + 4) % Mod(4) = length
      THEN ReadSample(len[2], length)
      ELSE InvalidSample

-----------------------------------------------------------------------------
(* aggregator_solver (sample_data.cpp lines 135-277).                      *)

TxerBytes(t) == U128Bytes(t.base_id) \o U128Bytes(t.mask)

RuleBytes(rule) ==
  Val(rule.physical_layer, 1) \o Val(Len(rule.txers), 4)
  \o FlattenSeq([i \in DOMAIN rule.txers |-> TxerBytes(rule.txers[i])])
  \o Val(rule.update_interval, 8)

(* makeSubscribeReqMsg: id, rule count, then each rule.                   *)
MakeSubscribeReqMsg(rules) ==
  Framed(<<MessageID.subscription_request>> \o Val(Len(rules), 4)
         \o FlattenSeq([i \in DOMAIN rules |-> RuleBytes(rules[i])]))

ReadTxer(r) ==
  LET base == ReadU128(r)
      mask == ReadU128(base[2])
  IN  << [base_id |-> base[1], mask |-> mask[1]], mask[2] >>

BlankTxer == [base_id |-> FromU64(0), mask |-> FromU64(0)]

BlankRule == [physical_layer |-> 0, txers |-> <<>>, update_interval |-> 0]

ReadRule(r) ==
  LET phy == Read(r, 1)
      count == Read(phy[2], 4)
      txers == ReadSeq(count[2], count[1], ReadTxer, BlankTxer, 16)
      interval == Read(txers[2], 8)
  IN  << [physical_layer |-> phy[1], txers |-> txers[1],
          update_interval |-> interval[1]], interval[2] >>

(* decodeSubscribeMsg(buff, length): request or response id, then the     *)
(* rules; the out-of-range flag is never consulted.                        *)
DecodeSubscribeMsg(buf, length) ==
  LET h == Read(Reader(buf), 4)
      mid == Read(h[2], 1)
      count == Read(mid[2], 4)
  IN  IF /\ length > 4 /\ (h[1] + 4) % Mod(4) = length
         /\ mid[1] \in {MessageID.subscription_request,
                        MessageID.subscription_response}
      THEN ReadSeq(count[2], count[1], ReadRule, BlankRule, 1)[1]
      ELSE <<>>

(* makeSampleMsg: id server_sample, then the sample.                      *)
MakeServerSample(s) == Framed(<<MessageID.server_sample>> \o SampleBytes(s))

(* decodeSampleMsg(buff, length): the length field and the id are checked.*)
DecodeServerSample(buf, length) ==
  LET h == Read(Reader(buf), 4)
      mid == Read(h[2], 1)
  IN  IF /\ length > 4 /\ (h[1] + 4) % Mod(4) = length
         /\ mid[1] = MessageID.server_sample
      THEN ReadSample(mid[2], length)
      ELSE InvalidSample

-----------------------------------------------------------------------------
(* The codec as CodecHarness uses it.                                       *)

Samples == [physical_layer : Phys, tx_id : U128s, rx_id : U128s,
            rx_timestamp : Times, rss : RSSs, sense_data : Blobs,
            valid : {TRUE}]
Rules == [physical_layer : Phys,
          txers : Lists([base_id : U128s, mask : U128s]),
          update_interval : Intervals]

Values(k) == IF k = "subscription_request" THEN Lists(Rules) ELSE Samples

Encode(k, v) ==
  CASE k = "sensor_sample" -> MakeSensorSample(v)
    [] k = "server_sample" -> MakeServerSample(v)
    [] k = "subscription_request" -> MakeSubscribeReqMsg(v)

Decode(k, buf) ==
  CASE k = "sensor_sample" -> << DecodeSensorSample(buf, Len(buf)), buf >>
    [] k = "server_sample" -> << DecodeServerSample(buf, Len(buf)), buf >>
    [] k = "subscription_request" -> << DecodeSubscribeMsg(buf, Len(buf)), buf >>

Decoders == Kinds

(* An invalid sample; an empty subscription.                              *)
IsFailure(k, v) == IF k = "subscription_request" THEN v = <<>> ELSE ~v.valid

=============================================================================
