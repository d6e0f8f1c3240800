---------------------------- MODULE FrameChannel ----------------------------
(***************************************************************************)
(* What MessageReceiver promises its callers (message_receiver.hpp lines   *)
(* 64-78), with no sockets, buffers or threads: the peer's messages       *)
(* become available whole, one at a time, and getNextMessage hands them   *)
(* out in order, each once; once the caller's interrupted flag is set it  *)
(* returns empty buffers.  A message that is available is handed out      *)
(* eventually, unless the flag is set first.                               *)
(***************************************************************************)
EXTENDS Naturals, Sequences

CONSTANT Frames     \* the messages the peer sends, in order

VARIABLES
  complete,   \* how many of Frames the peer has written whole
  delivered,  \* the messages getNextMessage has returned
  stopped     \* the interrupted flag is set

vars == <<complete, delivered, stopped>>

Init ==
  /\ complete = 0
  /\ delivered = <<>>
  /\ stopped = FALSE

(* The peer finishes writing its next message.                            *)
Write ==
  /\ complete < Len(Frames)
  /\ complete' = complete + 1
  /\ UNCHANGED <<delivered, stopped>>

(* getNextMessage returns the next message, whole (lines 71-74).          *)
Deliver ==
  /\ ~stopped
  /\ Len(delivered) < complete
  /\ delivered' = Append(delivered, Frames[Len(delivered) + 1])
  /\ UNCHANGED <<complete, stopped>>

(* The flag becomes true; from then on the call returns an empty buffer  *)
(* (line 75).                                                              *)
Stop ==
  /\ ~stopped
  /\ stopped' = TRUE
  /\ UNCHANGED <<complete, delivered>>

Next == Write \/ Deliver \/ Stop

Spec == Init /\ [][Next]_vars /\ WF_vars(Deliver)

=============================================================================
