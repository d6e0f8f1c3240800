-------------------------- MODULE MessageReceiver --------------------------
(***************************************************************************)
(* The message framer of the owl common library (MessageReceiver in       *)
(* message_receiver.cpp) over the receiving side of one TCP connection.   *)
(*                                                                         *)
(* The peer writes Frames, one ClientSocket::send call each, onto the     *)
(* connection; each call may write its buffer in several partial writes   *)
(* and may fail, and the peer then closes.  The written bytes arrive in   *)
(* the kernel receive queue in segments of any size, followed by the FIN  *)
(* if the peer closed; the framer's callers (Threads) read them with      *)
(* messageAvailable and getNextMessage, which share the buffer            *)
(* previous_unfinished (here: pending) under sock_mutex.  Both calls read *)
(* previous_unfinished to compute piece_length BEFORE they take the       *)
(* mutex, exactly as the code does; that read is a step of its own.       *)
(*                                                                         *)
(* A byte is a number in 0..Radix-1 (Radix = 256 in the code); a uint32_t *)
(* is four bytes and arithmetic on it wraps modulo Radix^4 (2^32).        *)
(***************************************************************************)
EXTENDS Naturals, Sequences, SequencesExt

CONSTANTS
  Threads,    \* the threads that call the same MessageReceiver
  Getters,    \* those of them that call getNextMessage (all call
              \* messageAvailable)
  NoThread,   \* model value: nobody holds sock_mutex
  Frames,     \* the messages the peer writes, each a sequence of bytes
  Radix,      \* number of values of a byte
  RecvBuf,    \* size of raw_messages: the most one receive() returns
  Blocking,   \* TRUE iff the ClientSocket is a blocking socket
  MaxRetries  \* how many times the peer retries a send that timed out

ASSUME /\ NoThread \notin Threads
       /\ Getters \subseteq Threads
       /\ Radix \in Nat \ {0, 1}
       /\ RecvBuf \in Nat \ {0}
       /\ Blocking \in BOOLEAN
       /\ MaxRetries \in Nat

Bytes == 0 .. Radix - 1
U32 == Radix ^ 4                 \* 2^32: uint32_t arithmetic is modulo U32
Stream == FlattenSeq(Frames)     \* the bytes the peer means to write

(* pushBackVal<uint32_t>: the four big-endian bytes of n.                  *)
EncodeU32(n) == [i \in 1..4 |-> (n \div Radix ^ (4 - i)) % Radix]

(* readPrimitive<uint32_t>(buff, 0): the big-endian value of the first    *)
(* four bytes, or 0 when the buffer holds fewer than four bytes.          *)
ReadU32(buf) ==
  IF Len(buf) >= 4
  THEN ((buf[1] * Radix + buf[2]) * Radix + buf[3]) * Radix + buf[4]
  ELSE 0

(* Mutant: the length field taken as the whole frame's length.           *)
PieceLengthWithoutHeader(buf) == ReadU32(buf) % U32

(* piece_length = readPrimitive<uint32_t>(previous_unfinished, 0) + 4,    *)
(* computed in a uint32_t.                                                 *)
PieceLength(buf) == (ReadU32(buf) + 4) % U32

VARIABLES
  pending,      \* previous_unfinished
  piece,        \* piece_length, the local variable of each thread's call
  pc,           \* where each thread is
  lock,         \* holder of sock_mutex
  arrived,      \* bytes of out that reached the kernel receive queue
  rcvd,         \* bytes of out that receive() has handed to the framer
  peerClosed,   \* the peer has closed the connection (FIN)
  interrupted,  \* the bool& interrupted flag the callers pass in
  delivered,    \* history: the messages getNextMessage returned, in order
  promised,     \* history: messageAvailable last returned true to thread
  out,          \* the bytes the peer's send() calls have written
  sendNo,       \* the frame of the peer's current send() call (0: none yet)
  written,      \* send()'s local written: bytes of that frame written
  retries       \* how many times the peer has called send() again after
                \* temporarily_unavailable

vars == <<pending, piece, pc, lock, arrived, rcvd, peerClosed, interrupted,
          delivered, promised, out, sendNo, written, retries>>

PCs == {"idle", "ma", "gn_lock", "gn_loop", "gn_recv"}

TypeOK ==
  /\ pending \in Seq(Bytes)
  /\ piece \in [Threads -> 0 .. U32 - 1]
  /\ pc \in [Threads -> PCs]
  /\ lock \in Threads \cup {NoThread}
  /\ out \in Seq(Bytes)
  /\ sendNo \in 0 .. Len(Frames)
  /\ written \in 0 .. Len(Stream)
  /\ retries \in 0 .. MaxRetries
  /\ arrived \in 0 .. Len(out)
  /\ rcvd \in 0 .. arrived
  /\ peerClosed \in BOOLEAN
  /\ interrupted \in BOOLEAN
  /\ delivered \in Seq(Seq(Bytes))
  /\ promised \in [Threads -> BOOLEAN]

(* MessageReceiver(ClientSocket&): previous_unfinished starts empty.       *)
Init ==
  /\ pending = <<>>
  /\ piece = [t \in Threads |-> 0]
  /\ pc = [t \in Threads |-> "idle"]
  /\ lock = NoThread
  /\ arrived = 0
  /\ rcvd = 0
  /\ peerClosed = FALSE
  /\ interrupted = FALSE
  /\ delivered = <<>>
  /\ promised = [t \in Threads |-> FALSE]
  /\ out = <<>>
  /\ sendNo = 0
  /\ written = 0
  /\ retries = 0

-----------------------------------------------------------------------------
(* The connection and the caller's environment.                            *)

(* The peer's state.                                                        *)
peerVars == <<out, sendNo, written, retries>>

(* The framer's state, untouched by the peer and the network.            *)
framerVars == <<pending, piece, pc, lock, rcvd, interrupted, delivered,
                promised>>

(* The peer is inside a send() call: its loop (line 331) has not ended.   *)
Sending == sendNo > 0 /\ written < Len(Frames[sendNo])

(* The peer calls send(buff) with its next frame.                         *)
SendCall ==
  /\ ~peerClosed /\ ~Sending /\ sendNo < Len(Frames)
  /\ sendNo' = sendNo + 1
  /\ written' = 0
  /\ UNCHANGED <<framerVars, arrived, peerClosed, out, retries>>

(* Lines 331-355, one iteration of send()'s loop: poll reports POLLOUT   *)
(* and ::send writes k of the arr.length() - written unsent bytes, from   *)
(* arr.c_str() + written.                                                 *)
SendWrite ==
  /\ ~peerClosed /\ Sending
  /\ \E k \in 1 .. Len(Frames[sendNo]) - written :
       /\ out' = out \o SubSeq(Frames[sendNo], written + 1, written + k)
       /\ written' = written + k
  /\ UNCHANGED <<framerVars, arrived, peerClosed, sendNo, retries>>

(* Lines 336-339 and 343-351: the send() call fails part-way.  Either    *)
(* poll expires without POLLOUT and send() throws temporarily_unavailable, *)
(* or ::send fails, socketCleanup closes the socket and send() throws     *)
(* runtime_error; the peer gives up and the FIN follows the bytes already *)
(* written.                                                               *)
SendFail ==
  /\ ~peerClosed /\ Sending
  /\ peerClosed' = TRUE
  /\ UNCHANGED <<framerVars, arrived, peerVars>>

(* Lines 336-339, then the caller's retry (spec section 7: on transient   *)
(* unavailability "Caller may retry"): poll expires and send() throws     *)
(* temporarily_unavailable with part of the frame written; the caller     *)
(* calls send(buff) again with the same buffer, and the new call starts  *)
(* with written = 0 (line 329).  At most MaxRetries times.                *)
SendRetry ==
  /\ ~peerClosed /\ Sending
  /\ retries < MaxRetries
  /\ retries' = retries + 1
  /\ written' = 0
  /\ UNCHANGED <<framerVars, arrived, peerClosed, out, sendNo>>

(* The peer closes its end between send() calls.                          *)
PeerClose ==
  /\ ~peerClosed /\ ~Sending
  /\ peerClosed' = TRUE
  /\ UNCHANGED <<framerVars, arrived, peerVars>>

(* TCP hands the next segment of the written bytes to the receive queue.  *)
Arrive ==
  /\ arrived < Len(out)
  /\ \E k \in 1 .. Len(out) - arrived : arrived' = arrived + k
  /\ UNCHANGED <<framerVars, peerClosed, peerVars>>

(* The owner of the flag sets it (e.g. from a signal handler).            *)
Interrupt ==
  /\ ~interrupted
  /\ interrupted' = TRUE
  /\ UNCHANGED <<pending, piece, pc, lock, arrived, rcvd, peerClosed,
                 delivered, promised, peerVars>>

Queued == arrived - rcvd          \* bytes a read() can return now

(* read() returns 0: the FIN has arrived after every written byte.        *)
AtEOF == Queued = 0 /\ peerClosed /\ arrived = Len(out)

(* Mutant: a receive count one larger than what was read.                 *)
ChunksOffByOne ==
  LET n == IF Queued < RecvBuf THEN Queued ELSE RecvBuf
  IN  {SubSeq(out, rcvd + 1, rcvd + k) :
         k \in 1 .. IF arrived < Len(out) THEN n + 1 ELSE n}

(* The chunks one ClientSocket::receive into raw_messages can return.      *)
Chunks == {SubSeq(out, rcvd + 1, rcvd + k) :
             k \in 1 .. IF Queued < RecvBuf THEN Queued ELSE RecvBuf}

(* A call returns: the thread leaves sock_mutex (unique_lock's destructor, *)
(* also when the call throws).                                            *)
Return(t) ==
  /\ pc' = [pc EXCEPT ![t] = "idle"]
  /\ lock' = NoThread

-----------------------------------------------------------------------------
(* messageAvailable(interrupted), message_receiver.cpp lines 45-93.        *)

(* Lines 50-53: piece_length from previous_unfinished, before the lock.   *)
MaStart(t) ==
  /\ pc[t] = "idle"
  /\ pc' = [pc EXCEPT ![t] = "ma"]
  /\ piece' = [piece EXCEPT ![t] =
                 IF Len(pending) >= 4 THEN PieceLength(pending) ELSE 0]
  /\ UNCHANGED <<peerVars, pending, lock, arrived, rcvd, peerClosed, interrupted,
                 delivered, promised>>

(* The condition of line 58: more data is needed and not interrupted.     *)
MaNeedsData(t) ==
  ~interrupted /\ (Len(pending) < 4 \/ Len(pending) < piece[t])

(* Mutant: one byte short of a packet counted as a packet.               *)
HasPacketOffByOne(buf) == PieceLength(buf) <= Len(buf) + 1

(* Lines 91-92: is a whole packet in the buffer?                           *)
HasPacket(buf) == PieceLength(buf) <= Len(buf)

(* The body runs entirely under sock_mutex; no other caller can observe   *)
(* it half done, so each outcome is one step that takes and leaves the    *)
(* lock.                                                                  *)

(* Lines 58 and 91-92 without I/O.                                          *)
MaNoIO(t) ==
  /\ pc[t] = "ma" /\ lock = NoThread
  /\ ~MaNeedsData(t)
  /\ promised' = [promised EXCEPT ![t] = HasPacket(pending)]
  /\ pc' = [pc EXCEPT ![t] = "idle"]
  /\ UNCHANGED <<peerVars, pending, piece, lock, arrived, rcvd, peerClosed, interrupted,
                 delivered>>

(* Lines 62-64: inputReady(10) times out, nothing to read.                 *)
MaTimeout(t) ==
  /\ pc[t] = "ma" /\ lock = NoThread
  /\ MaNeedsData(t)
  /\ Queued = 0 /\ ~AtEOF
  /\ promised' = [promised EXCEPT ![t] = FALSE]
  /\ pc' = [pc EXCEPT ![t] = "idle"]
  /\ UNCHANGED <<peerVars, pending, piece, lock, arrived, rcvd, peerClosed, interrupted,
                 delivered>>

(* Lines 67, 85-92: receive() returns data, appended to the buffer.       *)
MaReceive(t) ==
  /\ pc[t] = "ma" /\ lock = NoThread
  /\ MaNeedsData(t)
  /\ \E c \in Chunks :
       /\ pending' = pending \o c
       /\ rcvd' = rcvd + Len(c)
       /\ promised' = [promised EXCEPT ![t] = HasPacket(pending \o c)]
  /\ pc' = [pc EXCEPT ![t] = "idle"]
  /\ UNCHANGED <<peerVars, piece, lock, arrived, peerClosed, interrupted, delivered>>

(* Lines 81-84: receive() returns 0 after the peer's FIN: throws.          *)
MaClosed(t) ==
  /\ pc[t] = "ma" /\ lock = NoThread
  /\ MaNeedsData(t)
  /\ AtEOF
  /\ promised' = [promised EXCEPT ![t] = FALSE]
  /\ pc' = [pc EXCEPT ![t] = "idle"]
  /\ UNCHANGED <<peerVars, pending, piece, lock, arrived, rcvd, peerClosed, interrupted,
                 delivered>>

-----------------------------------------------------------------------------
(* getNextMessage(interrupted), message_receiver.cpp lines 95-165.         *)

(* Lines 100-104: piece_length from previous_unfinished, before the lock. *)
GnStart(t) ==
  /\ t \in Getters /\ pc[t] = "idle"
  /\ pc' = [pc EXCEPT ![t] = "gn_lock"]
  /\ piece' = [piece EXCEPT ![t] =
                 IF Len(pending) >= 4 THEN PieceLength(pending) ELSE 0]
  /\ UNCHANGED <<peerVars, pending, lock, arrived, rcvd, peerClosed, interrupted,
                 delivered, promised>>

(* Line 105: take sock_mutex.                                               *)
GnLock(t) ==
  /\ pc[t] = "gn_lock" /\ lock = NoThread
  /\ lock' = t
  /\ pc' = [pc EXCEPT ![t] = "gn_loop"]
  /\ UNCHANGED <<peerVars, pending, piece, arrived, rcvd, peerClosed, interrupted,
                 delivered, promised>>

(* Mutants: the loop also waits when the buffer holds exactly a packet,  *)
(* and the loop condition without the interrupt test.                      *)
GnNeedsDataInclusive(t) ==
  ~interrupted /\ (Len(pending) < 4 \/ Len(pending) <= piece[t])
GnNeedsDataIgnoringInterrupt(t) ==
  Len(pending) < 4 \/ Len(pending) < piece[t]

(* Lines 108-110: the loop condition, with the thread's piece_length.     *)
GnNeedsData(t) ==
  ~interrupted /\ (Len(pending) < 4 \/ Len(pending) < piece[t])

(* The loop condition holds: go round once more and receive.              *)
GnContinue(t) ==
  /\ pc[t] = "gn_loop"
  /\ GnNeedsData(t)
  /\ pc' = [pc EXCEPT ![t] = "gn_recv"]
  /\ UNCHANGED <<peerVars, pending, piece, lock, arrived, rcvd, peerClosed, interrupted,
                 delivered, promised>>

(* Lines 113-141, one iteration.  Data: append it and, once four bytes    *)
(* are there, recompute piece_length.  Would-block on a non-blocking     *)
(* socket: sleep and loop.  A blocking socket instead stays in read()     *)
(* until data or the FIN comes (no step).  Zero bytes (FIN): throw.       *)
GnRecv(t) ==
  /\ pc[t] = "gn_recv"
  /\ \/ \E c \in Chunks :
          /\ pending' = pending \o c
          /\ rcvd' = rcvd + Len(c)
          /\ piece' = [piece EXCEPT ![t] =
                         IF Len(pending \o c) >= 4
                         THEN PieceLength(pending \o c) ELSE piece[t]]
          /\ pc' = [pc EXCEPT ![t] = "gn_loop"]
          /\ UNCHANGED lock
     \/ /\ Queued = 0 /\ ~AtEOF /\ ~Blocking
        /\ pc' = [pc EXCEPT ![t] = "gn_loop"]
        /\ UNCHANGED <<pending, rcvd, piece, lock>>
     \/ /\ AtEOF
        /\ Return(t)
        /\ UNCHANGED <<pending, rcvd, piece>>
  /\ UNCHANGED <<peerVars, arrived, peerClosed, interrupted, delivered, promised>>

(* Lines 144-146: interrupted, return an empty vector; the buffer stays.  *)
GnInterrupted(t) ==
  /\ pc[t] = "gn_loop"
  /\ ~GnNeedsData(t) /\ interrupted
  /\ Return(t)
  /\ promised' = [promised EXCEPT ![t] = FALSE]
  /\ UNCHANGED <<peerVars, pending, piece, arrived, rcvd, peerClosed, interrupted,
                 delivered>>

(* Bytes a read past the end of a vector yields: undefined behaviour,    *)
(* any bytes at all.                                                       *)
Overread(n) == IF n <= 0 THEN {<<>>} ELSE [1 .. n -> Bytes]

(* Mutant: the interrupted test of line 144 skipped when the loop ends.   *)
GnDeliverIgnoringInterrupt(t) ==
  /\ pc[t] = "gn_loop"
  /\ ~GnNeedsData(t)
  /\ LET p == PieceLength(pending)
         kept == IF p < Len(pending) THEN p ELSE Len(pending)
     IN  /\ \E junk \in Overread(p - Len(pending)) :
              delivered' = Append(delivered, SubSeq(pending, 1, kept) \o junk)
         /\ pending' = IF p < Len(pending)
                       THEN SubSeq(pending, p + 1, Len(pending))
                       ELSE <<>>
  /\ Return(t)
  /\ promised' = [promised EXCEPT ![t] = FALSE]
  /\ UNCHANGED <<peerVars, piece, arrived, rcvd, peerClosed, interrupted>>

(* Lines 148-164: piece_length is read afresh from the buffer; the first  *)
(* piece_length bytes are the message (read past the end if the buffer is *)
(* shorter) and the rest is kept, or the buffer is cleared.               *)
GnDeliver(t) ==
  /\ pc[t] = "gn_loop"
  /\ ~GnNeedsData(t) /\ ~interrupted
  /\ LET p == PieceLength(pending)
         kept == IF p < Len(pending) THEN p ELSE Len(pending)
     IN  /\ \E junk \in Overread(p - Len(pending)) :
              delivered' = Append(delivered, SubSeq(pending, 1, kept) \o junk)
         /\ pending' = IF p < Len(pending)
                       THEN SubSeq(pending, p + 1, Len(pending))
                       ELSE <<>>
  /\ Return(t)
  /\ promised' = [promised EXCEPT ![t] = FALSE]
  /\ UNCHANGED <<peerVars, piece, arrived, rcvd, peerClosed, interrupted>>

-----------------------------------------------------------------------------
Thread(t) ==
  \/ MaStart(t) \/ MaNoIO(t) \/ MaTimeout(t) \/ MaReceive(t) \/ MaClosed(t)
  \/ GnStart(t) \/ GnLock(t) \/ GnContinue(t) \/ GnRecv(t)
  \/ GnInterrupted(t) \/ GnDeliver(t)

Peer == SendCall \/ SendWrite \/ SendFail \/ SendRetry \/ PeerClose

Next ==
  \/ \E t \in Threads : Thread(t)
  \/ Peer \/ Arrive \/ Interrupt

(* Every thread is scheduled by the OS, the peer keeps calling send() and  *)
(* its kernel keeps taking bytes, and TCP delivers what was written; a    *)
(* failing send, the peer's close and the interrupt are the environment's *)
(* choice.  A caller of getNextMessage calls it again and again, whatever *)
(* messageAvailable calls it makes in between (the receive loop of a      *)
(* client); the mutex is not fair, so this is an assumption on callers.  *)
Fairness ==
  /\ \A t \in Threads : WF_vars(Thread(t))
  /\ \A t \in Getters : SF_vars(GnStart(t))
  /\ WF_vars(SendCall \/ SendWrite)
  /\ WF_vars(Arrive)

Spec == Init /\ [][Next]_vars /\ Fairness

-----------------------------------------------------------------------------
(* Properties.                                                              *)

(* Boundaries are preserved (header comment of getNextMessage: "always    *)
(* returns whole single messages regardless of how packets are combined  *)
(* or split in transit"): the messages returned so far are the first      *)
(* frames the peer sent, and the bytes received are exactly those         *)
(* messages followed by previous_unfinished: nothing is lost, invented or  *)
(* handed out twice, whatever the segmentation and the callers' timing.   *)
FramesPreserved ==
  /\ IsPrefix(delivered, Frames)
  /\ FlattenSeq(delivered) \o pending = SubSeq(Stream, 1, rcvd)

(* The reference framing of a byte string: a uint32_t big-endian length  *)
(* n, then n bytes, as long as whole frames remain (spec section 3, the   *)
(* length prefix counts the bytes after itself).                          *)
RECURSIVE WireFrames(_)
WireFrames(s) ==
  IF Len(s) >= 4 /\ Len(s) >= ReadU32(s) + 4
  THEN <<SubSeq(s, 1, ReadU32(s) + 4)>> \o
       WireFrames(SubSeq(s, ReadU32(s) + 5, Len(s)))
  ELSE <<>>

(* The framer is faithful to the bytes on the wire, whatever they are:    *)
(* the messages returned so far are the first frames of the reference     *)
(* framing of the bytes received, and those bytes are the messages        *)
(* followed by previous_unfinished.  Unlike FramesPreserved it does not   *)
(* assume the peer wrote each frame once, so it holds whatever a retrying  *)
(* peer put on the wire (a duplicated prefix makes later length fields    *)
(* arbitrary); it is about the piece_length arithmetic and the buffer     *)
(* handling of getNextMessage (lines 100-160).                            *)
WireFramesPreserved ==
  LET r == SubSeq(out, 1, rcvd)
  IN  /\ FlattenSeq(delivered) \o pending = r
      /\ IsPrefix(delivered, WireFrames(r))

(* messageAvailable's promise (header comment: "If this returns true then *)
(* the getNextMessage function will return a new packet immediately"):    *)
(* a thread told true never goes back to the socket in its next           *)
(* getNextMessage.  It relates the completeness test of lines 91-92 to    *)
(* the loop condition of lines 108-110.                                  *)
AvailableMeansReady ==
  \A t \in Threads : promised[t] => pc[t] # "gn_recv"

(* A getNextMessage call that starts while frames are still to come       *)
(* returns: it gets the frame, sees the FIN or sees the interrupt.  It     *)
(* catches a loop condition that asks for more bytes than a frame has.   *)
CallCompletes ==
  \A t \in Threads :
    (pc[t] = "gn_loop" /\ Len(delivered) < Len(Frames)) ~> (pc[t] = "idle")

(* Once the interrupt flag is set, eventually no caller ever waits in     *)
(* receive() again (spec: setting the flag "causes a prompt return").      *)
InterruptHonoured ==
  <>[](interrupted => \A t \in Threads : pc[t] # "gn_recv")

-----------------------------------------------------------------------------
(* Refinement of FrameChannel, the promise of message_receiver.hpp.        *)

(* How many frames the peer's send() calls have written whole.            *)
CompleteFrames ==
  LET Whole(n) == Len(FlattenSeq(SubSeq(Frames, 1, n))) <= Len(out)
  IN  CHOOSE n \in 0 .. Len(Frames) :
        Whole(n) /\ (n = Len(Frames) \/ ~Whole(n + 1))

FC == INSTANCE FrameChannel
        WITH complete <- CompleteFrames, delivered <- delivered,
             stopped <- interrupted

(* The framer implements FrameChannel: every getNextMessage step returns  *)
(* the next frame the peer wrote whole, or nothing, and no frame once the *)
(* interrupted flag is set; and every frame written whole is returned     *)
(* eventually unless the flag is set first -- whatever the partial        *)
(* writes, the segmentation, a failing send and the peer's close.         *)
ImplementsFrameChannel == FC!Spec

=============================================================================
