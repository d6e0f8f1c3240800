# TLA+ models of the owl common library

This directory holds TLA+ models of the C++ code under `src/`, and the TLC
configurations that check them. The library (cpp-owl-common) is the shared
networking layer of the Owl/GRAIL platform.

## The system and how its parts interact

| Part | Source | Role |
|---|---|---|
| sockets | `src/unnamed/part_001` (ClientSocket, ServerSocket, socketCleanup), `part_005` (header) | Thin wrappers over POSIX sockets. `receive` reads at most `raw_messages.size()` bytes. `inputReady` polls. `send` loops over partial writes. |
| MessageReceiver | `src/unnamed/part_001` lines 41-165, `src/include/message_receiver.hpp` | The framer. Several threads share one `previous_unfinished` buffer under `sock_mutex`. It turns a TCP byte stream into length-prefixed frames. |
| netbuffer | `src/unnamed/part_004` (netbuffer.hpp), `src/src/netbuffer.cpp` | Big-endian encoding onto a `vector<unsigned char>` (`pushBackVal`, `pushBackSizedUTF16`, ...). `BuffReader` decodes: it has a cursor and a latched out-of-range flag. |
| world model protocol | `src/src/world_model_protocol.cpp`, `src/include/world_model_protocol.hpp` | A `make…` / `decode…` pair per message, for the client face and the solver face. Every frame is `uint32 length, uint8 id, fields`. Every decoder checks the length and the id, reads the fields, and returns an empty value if a read ran out of bytes. |
| grail types | `src/unnamed/part_000` (grail_types.cpp), `src/include/grail_types.hpp` | The `transmitter` record (phy + 128-bit id), its `<` and `==`, `writeTransmitter` (17 bytes: phy, upper, lower) and two readers: `readTransmitterFromBuffer` on a BuffReader and `readTransmitter` at fixed offsets. |
| sample data / aggregator-solver, sensor-aggregator | `src/src/sample_data.cpp`, `src/src/sensor_aggregator_protocol.cpp`, `src/include/sample_data.hpp` | The 128-bit id type `uint128_t`, the sample record, and the sample and subscription messages of the sensor → aggregator and aggregator ↔ solver links. The sensor sample has no message id. |

How the parts work together: a peer writes frames built by a `make…` function
and `ClientSocket::send`. The receiving side calls `messageAvailable` and
`getNextMessage` on a MessageReceiver, which returns whole frames. The
application then gives each frame to the `decode…` function of its kind.

## Modules

- **MessageReceiver.tla** models the framer and its environment.
  - State: `pending` is `previous_unfinished`. `piece[t]` is each call's local
    `piece_length`. `pc[t]` says where each thread is. `lock` is `sock_mutex`.
    `arrived` and `rcvd` track the kernel queue and what `receive()` consumed.
    `peerClosed` records the FIN. `interrupted` is the caller's flag.
    `delivered` holds the frames returned. `promised[t]` is the last
    `messageAvailable` result.
  - `messageAvailable`:
    - `MaStart` is the pre-lock read of lines 50-53.
    - The body runs under the lock as one step per outcome: `MaNoIO`,
      `MaTimeout` (`inputReady` false), `MaReceive` and `MaClosed` (FIN, throws).
  - `getNextMessage`:
    - `GnStart` is the pre-lock read of lines 100-104, and `GnLock` takes the mutex.
    - The loop runs as `GnContinue` then `GnRecv`. `GnRecv` has three outcomes:
      data, would-block (sleep and loop), and FIN (throw).
    - `GnInterrupted` and `GnDeliver` end the call.
    - The pre-lock read is a separate step, because it is not under the mutex.
  - The peer is `ClientSocket::send`, one call per frame: `SendCall` starts a
    call, `SendWrite` is one poll-and-write iteration that writes any number of
    the unsent bytes, and `SendFail` is the poll timeout
    (`temporarily_unavailable`) or a failed `::send`, part-way through a frame,
    after which the peer closes the connection. `SendRetry` is the other
    answer to `temporarily_unavailable` that spec section 7 allows: the
    caller calls `send(buff)` again with the same frame, and the new call
    starts at `written = 0`. It is taken at most `MaxRetries` times
    (`retries` counts them).
  - Environment actions: `Arrive` (TCP delivers written bytes in segments of
    any size), `PeerClose` (between send calls) and `Interrupt`. `read()`
    returns 0 (`AtEOF`) only after every written byte has been read.
  - Reads of memory past a vector's end are undefined behaviour. They are
    modelled as any bytes (`Overread`).
  - `Getters` is the set of threads that call `getNextMessage`; every thread
    may call `messageAvailable`.
  - `ImplementsFrameChannel` is the refinement: `INSTANCE FrameChannel WITH
    complete <- CompleteFrames, delivered <- delivered, stopped <-
    interrupted`, where `CompleteFrames` counts the frames the peer's send
    calls have written whole.
  - `WireFrames` is a reference framing of a byte string (a 4-byte length n,
    then n bytes, while whole frames remain). `WireFramesPreserved` compares
    the framer with it on the bytes actually received, so it does not
    assume the peer wrote each frame once.
- **FrameChannel.tla** is the abstract specification of what
  `message_receiver.hpp` (lines 64-78) promises. The peer finishes a frame
  (`Write`), `getNextMessage` hands out the next one whole (`Deliver`), and
  once the interrupt flag is set it hands out nothing (`Stop`). Weak fairness
  on `Deliver` says a frame that is written whole is eventually returned,
  unless the flag is set first.
- **NetBuffer.tla** holds the byte codec as operators.
  - A reader is `[buf, cur, oor]`, and a read returns `<<value, reader'>>`.
  - A failed `readPrimitive` latches `oor` and leaves the cursor where it was,
    as the code does (part_004 lines 109-117). A later, narrower read can then
    still succeed.
  - Byte order. `HostBytes(v, w, little)` is the in-memory layout of a
    `w`-byte value on a little- or big-endian host (`littleEndian()`), and
    `HostValue` reads a layout back. `ToNetworkEndian` and
    `FromNetworkEndian` are the two switch statements of netbuffer.cpp:
    nothing on a big-endian host; on a little-endian host sizes 2, 4 and 8
    are reversed, size 16 is reversed as two 8-byte halves, and other sizes
    are left alone. `HostPushBackVal` and `HostReadPrimitive` are
    `pushBackVal` and `readPrimitive` on that host. SampleProtocol's
    `HostU128Memory` and `HostU128` are the packed `uint128_t` struct
    (`upper` first) in memory. The codec modules use the host-free form
    (`Val`, `BigEndian`), and `WireIsBigEndianOnEveryHost` checks that this
    is what both hosts produce.
  - `ReadSeq` is the decoders' `for i < count` loop, written as a RECURSIVE
    operator. It stops iterating once no later read can succeed, which gives
    the same result.
- **ClientProtocol.tla** and **SolverProtocol.tla** model every `make…` and
  `decode…` function of the two faces.
  - Each function is written from its source lines, including the in-place
    patch of `buff[4]` by the range, stream, origin-alias and stop-on-demand
    decoders.
  - `Encode(k, v)` and `Decode(k, buf)` dispatch on the message kind.
  - `IsFailure(k, r)` is the empty value decoder `k` returns on failure.
  - The uninitialised `start` and `stop_period` of a default `client::Request`
    are the model value `Indeterminate`.
  - A decoder loop that never ends has the result `Hang`.
- **SampleProtocol.tla** models the sample codecs the same way.
  - `uint128_t` is a record `[upper, lower]`. On the wire it is 16 bytes:
    each half big-endian, upper first (`toNetworkEndian` swaps the two
    halves separately). `ReadU128` is one 16-byte `readPrimitive`.
  - `ReadSample` is the shared body of both `decodeSampleMsg` functions:
    `valid` is set before the reads, the out-of-range flag is never read,
    and `sense_data` is `length - cur_index` bytes filled while the buffer
    lasts. A failed check returns `InvalidSample`, whose other fields are the
    model value `Indeterminate`.
  - `DecodeSubscribeMsg` accepts a request or a response id and reads the
    rules with `ReadSeq`, again without looking at the out-of-range flag.
  - `U128Less` and `U128Eq` are `operator<` and `operator==`.
- **GrailTypes.tla** extends SampleProtocol with the transmitter.
  - `TxLess` and `TxEq` are `operator<` and `operator==`.
  - `WriteTransmitter` is `writeTransmitter`.
  - `ReadTransmitterFromBuffer` makes three BuffReader reads (1, 8 and 8
    bytes); a failed one yields 0 and leaves the cursor.
  - `ReadTransmitter` uses the free `readPrimitive(buff, index)` (`ReadAt`)
    at offsets 0, 1 and 9, which yields 0 when the value does not fit.
  - For the harness, the `transmitter` kind encodes with `writeTransmitter`
    and decodes with `readTransmitterFromBuffer`. Neither reader has a
    failure value.
- **CodecHarness.tla** models how a codec is used, and is instantiated with
  either face.
  - `Send`: a `make…` call.
  - The transport may damage the buffer once: `Cut`, `CutReframed`, `Extend` or
    `ExtendReframed` (a peer can send any bytes).
  - `Receive`: any decoder, any number of times, on the buffer as it now is.
  - It states the codec properties: `RoundTrip`, `KindMismatchRejected`,
    `FrameMismatchRejected`, `DecodeTerminates` and `DecodeSound`.
- **MC_MessageReceiver.tla** and **MC_ClientProtocol.tla** instantiate their
  modules with small values.
- **MC_Codecs.tla** instantiates SolverProtocol and GrailTypes (which
  extends SampleProtocol) side by side (`S` and `A`) and gives CodecHarness
  their union. The constant `Faces` picks the links that take part:
  `solver`, `sensor`, `aggregator`, `grail`.
  A link's decoders only see the messages of the links in `Faces`, so a
  sensor sample decoder is never given a solver message, as on a real
  connection.

## Runs

| Run | Config | Expect | Shows |
|---|---|---|---|
| mr_pass | MC_MessageReceiver.cfg | pass | With one caller on a non-blocking socket, two frames split in every possible way are returned whole and in order. Nothing is lost or duplicated (`FramesPreserved`). A true `messageAvailable` means the next `getNextMessage` does not wait (`AvailableMeansReady`). Every call returns (`CallCompletes`) and the interrupt is honoured (`InterruptHonoured`). The framer implements FrameChannel (`ImplementsFrameChannel`): each step returns the next whole frame or nothing, none after the interrupt, and every frame written whole is eventually returned. This holds also when a send fails mid-frame and the peer closes. |
| mr_threads | MC_MessageReceiver_threads.cfg | violation | One thread calls `getNextMessage` and a second only polls `messageAvailable`. The getter reads `piece_length` (0) before the lock. The poller then receives exactly a 4-byte header. The getter's loop ends, and a 5-byte frame is copied from a 4-byte buffer. A single consumer is therefore not safe either. Spec section 5 ("Shared resources") says concurrent calls on one framer serialize on its mutex; the header says nothing about threads. |
| mr_wrap | MC_MessageReceiver_wrap.cfg | violation | A length field of 2^32-1 wraps `piece_length` and a partial frame is returned. |
| mr_retry | MC_MessageReceiver_retry.cfg | violation | The peer retries one `send(buff)` after `temporarily_unavailable`, as spec section 7 allows. The frame's prefix that the failed call wrote goes on the wire again, and the receiver returns a message the peer never sent. In TLC's trace this is `<<0, 0, 0, 0>>`, an empty message, instead of the first frame. |
| mr_retry_wire | MC_MessageReceiver_retry_wire.cfg | pass | With the same retrying peer, the framer still returns exactly the reference framing of the bytes it received, with nothing lost or invented (`WireFramesPreserved`). So the corruption in mr_retry comes from the sender's restart, not from the receiver. `CallCompletes` is not checked here: a corrupted length field may ask for bytes that never come, and the call then waits until the peer closes or the flag is set. |
| mr_blocking | MC_MessageReceiver_blocking.cfg | violation | `ClientSocket`'s `sock_flags` defaults to 0 (part_005 line 58), so a socket built with the defaults is blocking. Spec section 4.7 specifies a non-blocking receive. On such a socket the caller stays in `read()` after the interrupt flag is set, so the prompt return that spec section 5 promises on cancellation does not happen. The header (message_receiver.hpp line 76) does not promise it: it says the interrupt is "most effective when the ClientSocket is non-blocking". |
| client_pass | MC_ClientProtocol.cfg | pass | The client messages round-trip. Every decoder of another kind rejects them. A frame whose length field disagrees with its size is rejected. |
| client_arg_order | MC_ClientProtocol_arg_order.cfg | violation | When `make_pair` arguments are evaluated right to left, origin preferences do not round-trip. |
| client_overrun | MC_ClientProtocol_overrun.cfg | violation | A truncated and reframed snapshot request decodes to a value that no encoder produces: a real ticket with an empty request. |
| client_hang | MC_ClientProtocol_hang.cfg | violation | 1-3 trailing bytes make `decodeOriginPreference` loop forever. |
| codecs_pass | MC_Codecs.cfg | pass | The solver, sensor-sample, server-sample, subscription and transmitter encodings round-trip (`RoundTrip`). `uint128_t`'s `<` and `==` agree with the order of the ids' big-endian wire bytes (`U128OrderIsNumeric`), and transmitter's with the bytes `writeTransmitter` writes (`TransmitterOrderIsWireOrder`). The two transmitter readers return the same transmitter on every buffer, cut at any byte or extended (`TransmitterReadersAgree`). On a little-endian and a big-endian host alike, `pushBackVal` of every width 1, 2, 4 and 8 and of `uint128_t` writes the big-endian bytes, and `readPrimitive` reads them back, for every window of every wire buffer (`WireIsBigEndianOnEveryHost`). |
| aggregator_truncated | MC_Codecs_truncated.cfg | violation | A subscription or server sample that is cut short and reframed decodes as a success. The decoder returns a rule of zeros, or a `valid` sample with zeroed ids, because neither decoder reads the out-of-range flag. With `Faces = {"sensor"}` the sensor decoder fails `DecodeSound` the same way. |

Each violation is recorded as a finding in PROJECT.json, with the source line
and what the spec or a comment says instead. The client pass run leaves out the
non-empty URI search responses and uses the left-to-right evaluation order.
The codecs pass run leaves out FrameMismatchRejected, KindMismatchRejected
and DecodeSound.

Two divergences found while modelling have no run, because any unit test
meets them. Adding `Faces` values to a cfg shows them with the same modules:

- `decodeURISearchResponse` (world_model_protocol.cpp line 415) reads a
  uint32_t count before the URIs, but `makeURISearchResponse` (lines
  398-400) writes none. A non-empty response therefore fails `RoundTrip`.
- `decodeTypeAnnounceMsg` (line 543) reads the origin after the frame
  check's `if` block. A frame that fails the check still yields an origin,
  which fails `FrameMismatchRejected`.

The type-announce decoder also violates KindMismatchRejected and DecodeSound. The sample decoders violate DecodeSound
(aggregator_truncated). The sensor sample has no id, so it cannot reject
other kinds.

## Bounds and why they are enough

- **Radix (values per byte).**
  - The receiver uses Radix 4. A uint32_t then wraps at 256, so the wrap case
    is reachable with frames of a few bytes.
  - The codecs use Radix 12. A byte can then hold every message id (up to 11),
    and 12^8 is still a TLC integer.
  - Every operator depends on the radix only through `% Radix^w`, so the code's
    behaviour at 256 has the same shape.
- **Frames.** Two frames of different lengths (1- and 3-byte bodies), split
  at every point and in every segment size. This covers a header split
  across segments, two frames in one segment, and a frame in many segments.
  `RecvBuf` is larger than any stream, like the code's 10000-byte
  `raw_messages`.
- **Peer.** The peer writes each frame in any number of partial writes, and
  may fail after any of them. So the receiver sees every prefix of the stream
  followed by a FIN. `MaxRetries` is 0 except in the two retry runs, where
  it is 1. One retry after any partial write of either frame already
  duplicates a prefix of every length.
- **Hosts.** `WireIsBigEndianOnEveryHost` ranges over both byte orders, the
  widths 1, 2, 4, 8 and 16, and every window of every wire buffer the codec
  runs build, so values of every width meet both branches of the switch.
- **Threads.** mr_pass has one caller and mr_threads two (one getter, one
  poller). Two are enough: the stale read needs one step of another thread
  between the getter's read and its lock.
- **Codec values.**
  - Strings: empty or one code unit.
  - Times and weights: one negative and one positive value.
  - Lists: `MaxItems = 1` item, so a subscription has zero or one rule and a
    rule zero or one transmitter.
  - Transmitters: phy 1 with that id. Cuts at every length reach the
    buffers that hold the phy, the phy and the upper half, and all of it.
    The order properties also range over every transmitter with phy and id
    halves in 0..1, so ties on each field occur.
  - Samples: one id `[upper |-> 1, lower |-> 2]` (the two halves differ, so a
    swap of the halves shows), sense data empty or one byte.
  - One message per behaviour, damaged at most once. The damage is a cut at
    every length, a cut with the length fixed, or an extra byte with and
    without the length fixed.
  - Every field is both present and absent, and every read can fail at every
    position.

## Fairness

Weak fairness is assumed for each thread's steps, for the peer's `SendCall`
and `SendWrite`, and for `Arrive`:

- the OS keeps scheduling a runnable thread;
- the peer keeps sending its frames, and its kernel eventually has room;
- TCP eventually delivers what the peer wrote.

Strong fairness is assumed for each `getNextMessage` caller's `GnStart`: a
caller that reads messages calls `getNextMessage` again and again, whatever
`messageAvailable` calls it makes in between. This is an assumption about
the caller, as in a client's receive loop. The code's `std::mutex` is not
fair, so no stronger fairness is assumed for taking it. `FrameChannel`'s
weak fairness on `Deliver` follows from these assumptions, and mr_pass
checks that.

The peer's close, a failing send and the interrupt are not fair: they may
never happen. No
fairness is used for the codecs, because their properties are invariants.

## Not modelled

- Two threads sending on one socket. `send` takes no lock.
- `socketCleanup`'s drain loop, connect and accept.
- errno paths other than EAGAIN. They only throw.
- The handshakes. They are fixed strings. The client face sends
  "GRAIL client protocol" (world_model_protocol.cpp line 37). The spec's
  client-face section names "GRAIL world model protocol", while its
  handshake framing list includes both strings. The model does not
  compare these strings.
- `BuffReader::discard`. No code calls it.
- The text conversions of `uint128_t` (`operator<<`, `operator>>`,
  `to_string`, `to_u16string`), `operator&`, and `msecTime`, which reads
  the clock. `makeCertMsg` and `ackCertMsg` are declared but never defined.
- A bound on how long `messageAvailable` waits for `sock_mutex` held by
  `getNextMessage`. Spec section 5 only promises that calls serialise. Any
  `getNextMessage` that waits for data would break such a bound.
- The free `readUTF16(buff, start, size)` and `readSizedUTF16(buff, start)`
  (netbuffer.cpp lines 151-168). No code of the library calls them. Reading
  the code shows that `readSizedUTF16` passes a count of code units. The loop
  of `readUTF16` runs while `index*2 < size`, so only half the string comes
  back.
- `unpackGRAILVector` (grail_types.hpp lines 34-43), a template nothing
  instantiates, and the transmitter's `operator<<`.
- `temporarily_unavailable` is an exception class with no state. The failing
  send that throws it is `SendFail`, or `SendRetry` when the caller retries.
- Spec section 3 says a transmitter is "11 bytes on the wire", but
  `writeTransmitter` writes 17 (1 + 8 + 8). The model follows the code, and
  `RoundTrip` checks the 17-byte form.

PROJECT.json lists the hazards these leave uncovered.
