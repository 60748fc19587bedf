------------------------------ MODULE SpscQueue ------------------------------
(***************************************************************************)
(* The single-producer single-consumer ring buffer of common/src/queue.rs: *)
(* two free-running 64-bit positions in a shared header, a ring of bytes,  *)
(* and frames made of a four-byte little-endian length and a payload.      *)
(*                                                                         *)
(* A step of the model is what one side does between two accesses to the   *)
(* memory it shares with the other: the check of the free space (one       *)
(* Acquire load of tail), the copy of the length, the copy of the payload, *)
(* the Release store of head; on the other side the Acquire load of head,  *)
(* the copy of the length, the copy of the payload and the Release store   *)
(* of tail.  That a copy may be one step is what NoSharedByte justifies:   *)
(* no byte is being written while it is being read.                        *)
(***************************************************************************)
EXTENDS Integers, Sequences

CONSTANTS
  Capacity,              \* bytes of the ring; a power of two in the code
  PosMod,                \* positions wrap here (2^64 in the code)
  MAX_RING_FRAME_BYTES,  \* ceiling on a frame, whatever the capacity
  Payloads,              \* the messages the producer may be asked to send
  OutputLens,            \* lengths of the storage offered to try_recv_into
  OwnerLens              \* lengths of the backing a try_recv_with owner gives

MSG_HEADER_SIZE == 4
MAX_SHARED_QUEUE_CAPACITY == 256 * 256 * 256
Byte == 0..255

(* Capacity divides 2^64 because both are powers of two. *)
ASSUME GeometryAssumption ==
  /\ Capacity \in Nat /\ Capacity >= MSG_HEADER_SIZE
  /\ PosMod \in Nat /\ PosMod > Capacity
  /\ PosMod % Capacity = 0

(* Asserted in the code, next to the constants. *)
ASSUME FrameAssumption ==
  /\ MAX_RING_FRAME_BYTES \in Nat /\ MAX_RING_FRAME_BYTES >= MSG_HEADER_SIZE
  /\ MAX_RING_FRAME_BYTES <= MAX_SHARED_QUEUE_CAPACITY

ASSUME PayloadAssumption ==
  /\ Payloads \subseteq Seq(Byte)
  /\ OutputLens \subseteq Nat
  /\ OwnerLens \subseteq Nat

VARIABLES
  head,       \* next write position, owned by the producer
  tail,       \* next read position, owned by the consumer
  buf,        \* the ring
  ppc,        \* where the producer is in try_send
  msg,        \* the message it sends
  bounded,    \* whether it came through send_bounded and retries
  cpc,        \* where the consumer is in a receive operation
  avail,      \* bytes it saw available
  length,     \* payload length it validated
  out,        \* <<payload>> once copied out, <<>> when it copied none
  received,   \* what the last completed receive gave its caller
  frames      \* history: [off, msg] of the published frames, off from tail

prodVars == <<ppc, msg, bounded>>
consVars == <<cpc, avail, length, out, received>>
vars == <<head, tail, buf, ppc, msg, bounded, cpc, avail, length, out,
          received, frames>>
-----------------------------------------------------------------------------
(* Geometry. *)

max_message_bytes ==
  (IF Capacity < MAX_RING_FRAME_BYTES THEN Capacity ELSE MAX_RING_FRAME_BYTES)
    - MSG_HEADER_SIZE

(* Mutant: the length is held against the frame limit, header forgotten. *)
LenValidForgetsHeader(n) == n <= max_message_bytes + MSG_HEADER_SIZE

message_len_valid(n) == n <= max_message_bytes

FrameSize(n) == MSG_HEADER_SIZE + n

(* head.wrapping_sub(tail) *)
Used == (head - tail) % PosMod

(* u32::to_le_bytes and u32::from_le_bytes *)
to_le_bytes(n) ==
  <<n % 256, (n \div 256) % 256, (n \div (256 * 256)) % 256,
    (n \div (256 * 256 * 256)) % 256>>

from_le_bytes(b) == b[1] + 256 * (b[2] + 256 * (b[3] + 256 * b[4]))

(* Mutant: the copy stops at the end of the ring. *)
WriteBytesOneCopy(ring, offset, data) ==
  LET start == offset % Capacity
  IN  [i \in 0..(Capacity - 1) |->
         IF start <= i /\ i < start + Len(data) THEN data[i - start + 1]
         ELSE ring[i]]

(* Two copies: up to the end of the ring, then the rest from its start. *)
write_bytes(ring, offset, data) ==
  LET start == offset % Capacity
      first == IF Len(data) <= Capacity - start THEN Len(data)
                                                ELSE Capacity - start
  IN  [i \in 0..(Capacity - 1) |->
         IF start <= i /\ i < start + first THEN data[i - start + 1]
         ELSE IF i < Len(data) - first THEN data[first + i + 1]
         ELSE ring[i]]

read_bytes(ring, offset, n) ==
  LET start == offset % Capacity
  IN  [k \in 1..n |-> IF start + k - 1 < Capacity
                      THEN ring[start + k - 1]
                      ELSE ring[start + k - 1 - Capacity]]
-----------------------------------------------------------------------------
Init ==
  /\ head = 0 /\ tail = 0
  /\ buf = [i \in 0..(Capacity - 1) |-> 0]
  /\ ppc = "idle" /\ msg = <<>> /\ bounded = FALSE
  /\ cpc = "idle" /\ avail = 0 /\ length = 0 /\ out = <<>> /\ received = <<>>
  /\ frames = <<>>
-----------------------------------------------------------------------------
(* The producer. *)

(* A call of try_send or of send_bounded.  An oversize message is refused  *)
(* before anything is touched, so only the valid lengths go on.            *)
Call(m, b) ==
  /\ ppc = "idle"
  /\ message_len_valid(Len(m))
  /\ ppc' = "check" /\ msg' = m /\ bounded' = b
  /\ UNCHANGED <<head, tail, buf, frames>> /\ UNCHANGED consVars

(* Mutant: send_bounded goes on after one refusal. *)
CheckSpaceOnce ==
  /\ ppc = "check"
  /\ ppc' = IF Used <= Capacity /\ Capacity - Used >= FrameSize(Len(msg))
            THEN "header"
            ELSE IF bounded THEN "header" ELSE "idle"
  /\ UNCHANGED <<head, tail, buf, msg, bounded, frames>>
  /\ UNCHANGED consVars

(* Mutant: one byte is kept free, as rings with masked positions do. *)
CheckSpaceStrict ==
  /\ ppc = "check"
  /\ ppc' = IF Used <= Capacity /\ Capacity - Used > FrameSize(Len(msg))
            THEN "header"
            ELSE IF bounded THEN "check" ELSE "idle"
  /\ UNCHANGED <<head, tail, buf, msg, bounded, frames>>
  /\ UNCHANGED consVars

(* A refusal ends try_send; send_bounded spins and checks again. *)
CheckSpace ==
  /\ ppc = "check"
  /\ ppc' = IF Used <= Capacity /\ Capacity - Used >= FrameSize(Len(msg))
            THEN "header"
            ELSE IF bounded THEN "check" ELSE "idle"
  /\ UNCHANGED <<head, tail, buf, msg, bounded, frames>>
  /\ UNCHANGED consVars

WriteHeader ==
  /\ ppc = "header"
  /\ buf' = write_bytes(buf, head, to_le_bytes(Len(msg)))
  /\ ppc' = "payload"
  /\ UNCHANGED <<head, tail, msg, bounded, frames>> /\ UNCHANGED consVars

WritePayload ==
  /\ ppc = "payload"
  /\ buf' = write_bytes(buf, head + MSG_HEADER_SIZE, msg)
  /\ ppc' = "publish"
  /\ UNCHANGED <<head, tail, msg, bounded, frames>> /\ UNCHANGED consVars

Publish ==
  /\ ppc = "publish"
  /\ head' = (head + FrameSize(Len(msg))) % PosMod
  /\ frames' = Append(frames, [off |-> Used, msg |-> msg])
  /\ ppc' = "idle"
  /\ UNCHANGED <<tail, buf, msg, bounded>> /\ UNCHANGED consVars
-----------------------------------------------------------------------------
(* The consumer.  try_recv_into, try_recv_with and try_recv all begin with *)
(* readable_frame (LoadHead, ReadLength) and differ in what they do next.  *)

(* An empty ring, or one whose header cannot be right, ends the operation. *)
LoadHead ==
  /\ cpc = "idle"
  /\ Used <= Capacity /\ Used >= MSG_HEADER_SIZE
  /\ cpc' = "length" /\ avail' = Used
  /\ UNCHANGED <<head, tail, buf, frames, length, out, received>>
  /\ UNCHANGED prodVars

(* A length above the maximum is skipped, header only; a frame that is not *)
(* complete is left alone.                                                 *)
ReadLength ==
  LET n == from_le_bytes(read_bytes(buf, tail, MSG_HEADER_SIZE))
      corrupt == n > max_message_bytes
      partial == FrameSize(n) > Capacity \/ avail < FrameSize(n)
  IN  /\ cpc = "length"
      /\ tail' = IF corrupt THEN (tail + MSG_HEADER_SIZE) % PosMod ELSE tail
      /\ cpc' = IF corrupt \/ partial THEN "idle" ELSE "frame"
      /\ length' = IF corrupt \/ partial THEN length ELSE n
      /\ UNCHANGED <<head, buf, frames, avail, out, received>>
      /\ UNCHANGED prodVars

(* Mutant: the payload is read from where the frame starts. *)
CopyOutWithHeader ==
  /\ out' = <<read_bytes(buf, tail, length)>>
  /\ cpc' = "consume"

CopyOut ==
  /\ out' = <<read_bytes(buf, tail + MSG_HEADER_SIZE, length)>>
  /\ cpc' = "consume"

(* Storage that is too short leaves the frame in place. *)
TryRecvInto(n) ==
  /\ cpc = "frame"
  /\ IF n < length THEN cpc' = "idle" /\ out' = <<>> ELSE CopyOut
  /\ UNCHANGED <<head, tail, buf, frames, avail, length, received>>
  /\ UNCHANGED prodVars

(* The owner gives a backing of n bytes; too short a one is an error after *)
(* which the frame is consumed all the same.                               *)
TryRecvWith(n) ==
  /\ cpc = "frame"
  /\ IF n < length THEN cpc' = "consume" /\ out' = <<>> ELSE CopyOut
  /\ UNCHANGED <<head, tail, buf, frames, avail, length, received>>
  /\ UNCHANGED prodVars

(* The owner refuses, or declines this frame: consumed without a copy. *)
TryRecvRefused ==
  /\ cpc = "frame"
  /\ cpc' = "consume" /\ out' = <<>>
  /\ UNCHANGED <<head, tail, buf, frames, avail, length, received>>
  /\ UNCHANGED prodVars

(* try_recv and recv allocate exactly what the frame needs. *)
TryRecv ==
  /\ cpc = "frame"
  /\ CopyOut
  /\ UNCHANGED <<head, tail, buf, frames, avail, length, received>>
  /\ UNCHANGED prodVars

Shift(fs, n) == [i \in 1..(Len(fs) - 1) |-> [off |-> fs[i + 1].off - n,
                                             msg |-> fs[i + 1].msg]]

consume_frame ==
  /\ cpc = "consume"
  /\ tail' = (tail + FrameSize(length)) % PosMod
  /\ received' = out
  /\ frames' = Shift(frames, FrameSize(length))
  /\ cpc' = "idle"
  /\ UNCHANGED <<head, buf, avail, length, out>> /\ UNCHANGED prodVars
-----------------------------------------------------------------------------
Producer ==
  \/ \E m \in Payloads, b \in BOOLEAN : Call(m, b)
  \/ CheckSpace \/ WriteHeader \/ WritePayload \/ Publish

Consumer ==
  \/ LoadHead \/ ReadLength
  \/ \E n \in OutputLens : TryRecvInto(n)
  \/ \E n \in OwnerLens : TryRecvWith(n)
  \/ TryRecvRefused \/ TryRecv \/ consume_frame

Next == Producer \/ Consumer

Spec == Init /\ [][Next]_vars

(* The two sides are threads that keep running: a producer inside an       *)
(* operation goes on, and a consumer keeps polling, not for ever with too  *)
(* short a storage.                                                        *)
Fairness ==
  /\ WF_vars(CheckSpace) /\ WF_vars(WriteHeader)
  /\ WF_vars(WritePayload) /\ WF_vars(Publish)
  /\ WF_vars(Consumer) /\ SF_vars(TryRecv \/ TryRecvRefused)

FairSpec == Spec /\ Fairness
-----------------------------------------------------------------------------
(* Properties. *)

Frame == [off : Int, msg : Seq(Byte)]

(* Every variable stays in its type, and the message being sent is one the *)
(* ring can hold.                                                          *)
TypeOK ==
  /\ head \in 0..(PosMod - 1)
  /\ tail \in 0..(PosMod - 1)
  /\ buf \in [0..(Capacity - 1) -> Byte]
  /\ ppc \in {"idle", "check", "header", "payload", "publish"}
  /\ msg \in Seq(Byte) /\ Len(msg) <= max_message_bytes
  /\ bounded \in BOOLEAN
  /\ cpc \in {"idle", "length", "frame", "consume"}
  /\ avail \in Nat
  /\ length \in Nat
  /\ out \in Seq(Seq(Byte))
  /\ received \in Seq(Seq(Byte))
  /\ frames \in Seq(Frame)

(* Cell(p, j) is the index of the ring byte j places after position p. *)
Cell(p, j) == (p + j) % Capacity

(* The bytes try_send may write until it publishes: the frame it sends. *)
WriteSet ==
  IF ppc \in {"header", "payload", "publish"}
  THEN {Cell(head, j) : j \in 0..(FrameSize(Len(msg)) - 1)} ELSE {}

(* The bytes a receive operation may read until it moves tail: all those   *)
(* readable_frame found available, as far as it trusts them.               *)
ReadSet ==
  IF cpc = "length" THEN {Cell(tail, j) : j \in 0..(MSG_HEADER_SIZE - 1)}
  ELSE IF cpc \in {"frame", "consume"}
  THEN {Cell(tail, j) : j \in 0..(FrameSize(length) - 1)} ELSE {}

(* The ring never holds more than its capacity, across the wrap of the     *)
(* positions too; try_send's and readable_frame's "used > capacity" tests  *)
(* never fire between two conforming endpoints.                            *)
UsedWithinCapacity == Used <= Capacity

(* Producer and consumer never touch the same byte at the same time: the   *)
(* exclusive reservation the unsafe copies of write_bytes and read_bytes   *)
(* rely on ("owns exactly these ring bytes").                              *)
NoSharedByte == WriteSet \cap ReadSet = {}

FrameBytes(m) == to_le_bytes(Len(m)) \o m

(* Every published frame is intact in the ring until it is consumed,       *)
(* wherever it wraps and whatever the producer is writing behind it.       *)
FramesIntact ==
  \A i \in 1..Len(frames) :
    \A j \in 1..FrameSize(Len(frames[i].msg)) :
      buf[Cell(tail, frames[i].off + j - 1)] = FrameBytes(frames[i].msg)[j]

(* readable_frame always finds the length of the oldest frame, so that its *)
(* "corrupted" and "incomplete" branches are dead between conforming       *)
(* endpoints and never desynchronise the framing.                          *)
LengthIsRight ==
  /\ cpc = "length" =>
       /\ frames # <<>>
       /\ from_le_bytes(read_bytes(buf, tail, MSG_HEADER_SIZE))
            = Len(frames[1].msg)
       /\ FrameSize(Len(frames[1].msg)) <= avail
  /\ cpc \in {"frame", "consume"} =>
       frames # <<>> /\ length = Len(frames[1].msg)

(* The ring is a first-in first-out queue of whole messages. *)
Abstract == INSTANCE MessageQueue
  WITH Messages <- Payloads,
       queue <- [i \in 1..Len(frames) |-> frames[i].msg],
       received <- received

ImplementsMessageQueue == Abstract!Spec

(* send_bounded returns: its spin ends because the consumer frees space. *)
BoundedSendReturns == (ppc = "check" /\ bounded) ~> (ppc = "idle")
-----------------------------------------------------------------------------
(* The inductive invariant behind the safety properties. *)

Sending == ppc \in {"header", "payload", "publish"}
Receiving == cpc \in {"frame", "consume"}

(* What each side knows of the other's position stays true: only the       *)
(* producer takes space and only the consumer gives it back.               *)
Reservation ==
  /\ UsedWithinCapacity
  /\ Sending => Used + FrameSize(Len(msg)) <= Capacity
  /\ cpc = "length" => avail <= Used /\ MSG_HEADER_SIZE <= avail
  /\ Receiving => FrameSize(length) <= Used

(* The published frames tile the bytes from tail to head. *)
FramesTile ==
  /\ frames = <<>> => Used = 0
  /\ frames # <<>> => /\ frames[1].off = 0
                      /\ frames[Len(frames)].off
                           + FrameSize(Len(frames[Len(frames)].msg)) = Used
  /\ \A i \in 1..Len(frames) :
       /\ frames[i].off >= 0
       /\ Len(frames[i].msg) <= max_message_bytes
       /\ frames[i].off + FrameSize(Len(frames[i].msg)) <= Used
  /\ \A i \in 1..(Len(frames) - 1) :
       frames[i + 1].off = frames[i].off + FrameSize(Len(frames[i].msg))
  /\ \A i, j \in 1..Len(frames) :
       i < j => frames[i].off + FrameSize(Len(frames[i].msg)) <= frames[j].off

(* What try_send has copied so far is in the ring. *)
Copied ==
  /\ ppc # "idle" => msg \in Payloads
  /\ ppc \in {"payload", "publish"} =>
       \A j \in 1..MSG_HEADER_SIZE :
         buf[Cell(head, j - 1)] = to_le_bytes(Len(msg))[j]
  /\ ppc = "publish" =>
       \A j \in 1..Len(msg) :
         buf[Cell(head, MSG_HEADER_SIZE + j - 1)] = msg[j]

(* A receive operation is about the oldest frame and hands it over whole. *)
OldestInHand ==
  /\ cpc = "length" => /\ frames # <<>>
                       /\ FrameSize(Len(frames[1].msg)) <= avail
  /\ Receiving => frames # <<>> /\ length = Len(frames[1].msg)
  /\ cpc = "consume" => out = <<>> \/ out = <<frames[1].msg>>

IndInv ==
  TypeOK /\ Reservation /\ FramesTile /\ FramesIntact /\ Copied /\ OldestInHand
=============================================================================
