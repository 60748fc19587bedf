---------------------------- MODULE MessageQueue ----------------------------
(***************************************************************************)
(* What one direction of a shared-memory channel promises its two users: a *)
(* first-in first-out queue of whole messages.  A message that was sent is *)
(* handed over once, in order and unchanged, or it is discarded by the     *)
(* receiver; it is never lost, duplicated, reordered, cut or merged.       *)
(* SpscQueue implements this module.                                       *)
(***************************************************************************)
EXTENDS Sequences

CONSTANT Messages     \* what may be sent

VARIABLES queue,      \* the messages sent and not yet taken
          received    \* <<m>> after m was handed over, <<>> after a discard

vars == <<queue, received>>

Init == queue = <<>> /\ received = <<>>

Send(m) == queue' = Append(queue, m) /\ UNCHANGED received

(* The receiver takes the oldest message. *)
Receive ==
  /\ queue # <<>>
  /\ received' = <<Head(queue)>>
  /\ queue' = Tail(queue)

(* The receiver drops the oldest message without looking at its content. *)
Discard ==
  /\ queue # <<>>
  /\ received' = <<>>
  /\ queue' = Tail(queue)

Next == (\E m \in Messages : Send(m)) \/ Receive \/ Discard

Spec == Init /\ [][Next]_vars
=============================================================================
