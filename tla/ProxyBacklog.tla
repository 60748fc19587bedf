---------------------------- MODULE ProxyBacklog ------------------------------
(***************************************************************************)
(* The bytes the TCP proxy holds for the enclave (host/src/tcp_proxy.rs):  *)
(* send_to_enclave puts a message into the data ring, or, when that is     *)
(* full, into pending_to_enclave, which is bounded by                      *)
(* MAX_PENDING_TO_ENCLAVE bytes.  Exceeding the bound stops the proxy.     *)
(* read_sockets (feature stream-read-credit) therefore reads only what is  *)
(* left after a reserve for the closes of all connections.                 *)
(*                                                                         *)
(* A message is its size, the connection it announces if any, and whether  *)
(* the reserve counts it: data, closes, and what is sent after the gate    *)
(* found the backlog empty.  With Marks = 2 any two messages may be        *)
(* numbered 1 and 2, in the order of sending; 0 numbers the rest.  The     *)
(* bounds: a connection reports at most MaxCredits  *)
(* write credits, the quanta of one window, since a full ring means that   *)
(* the enclave takes no credit and opens no window; and the enclave asks   *)
(* for MaxConnects connections.                                            *)
(***************************************************************************)
EXTENDS Integers, Sequences, FiniteSets, SequencesExt

CONSTANTS Conns,                    \* at most MAX_CONNS sockets
          MAX_CONNS, MAX_PENDING_TO_ENCLAVE, TCP_READ_BUF,
          CHANNEL_MSG_HEADER, WordBytes, NewBytes,
          RingBytes, MSG_HEADER_SIZE, MaxCredits, MaxConnects, Marks

\* A TcpWriteCredit, a TcpReadIdentity and a TcpConnected carry one word
\* (WordBytes); a TcpConnectFailed carries its reason too.
FailedBytes == WordBytes + 1

\* The backlog has room for the announcement and the close of every socket.
ASSUME SizesAssumption ==
    /\ Cardinality(Conns) <= MAX_CONNS
    /\ CHANNEL_MSG_HEADER \in Nat \ {0}
    /\ MAX_PENDING_TO_ENCLAVE \in Nat /\ RingBytes \in Nat
    /\ TCP_READ_BUF + CHANNEL_MSG_HEADER + MSG_HEADER_SIZE <= RingBytes
    /\ MAX_CONNS * (NewBytes + WordBytes + CHANNEL_MSG_HEADER) <= MAX_PENDING_TO_ENCLAVE

VARIABLES
    phase,          \* where the proxy's loop is
    unseen,         \* the sockets read_sockets has still to visit
    available,      \* what it may still read
    batch,          \* the messages it is about to send, in order
    socket,         \* Conns -> new, connecting, open, credited, ended, closed
    credits,        \* Conns -> credits still to be reported
    connects,       \* the connections the enclave may still ask for
    ring, ring_free,
    pending_to_enclave, pending_bytes,
    sent,           \* the last number given to a message
    shutdown

table == <<socket, credits, connects>>
queue == <<ring, ring_free, pending_to_enclave, pending_bytes, sent, shutdown>>
round == <<unseen, available, batch>>
vars == <<phase, round, table, queue>>

Init ==
    /\ phase = "loop"
    /\ unseen = {} /\ available = 0 /\ batch = <<>>
    /\ socket = [c \in Conns |-> "new"]
    /\ credits = [c \in Conns |-> MaxCredits]
    /\ connects = MaxConnects
    /\ ring = <<>> /\ ring_free = RingBytes
    /\ pending_to_enclave = <<>> /\ pending_bytes = 0
    /\ sent = 0
    /\ shutdown = FALSE

Open == {c \in Conns : socket[c] \in {"open", "credited"}}
Becomes(c, state) == socket' = [socket EXCEPT ![c] = state]
Looping == phase = "loop" /\ ~shutdown
Monus(a, b) == IF a > b THEN a - b ELSE 0
Fits(size) == size + MSG_HEADER_SIZE <= ring_free

\* A message of this size about no new connection, and a TcpNew.
NoConn == "none"
Sized(size) == [size |-> size, new |-> NoConn]
Announcing(c) == [size |-> NewBytes, new |-> c]

\* A message, numbered or not.
Numbered(m) == m.n \in {0, sent + 1} /\ sent' = IF m.n = 0 THEN sent ELSE m.n

IntoRing(m) ==
    /\ ring' = Append(ring, m)
    /\ ring_free' = ring_free - (m.size + MSG_HEADER_SIZE)

\* Mutant of Direct: the ring is used whenever it has room.
DirectAlways(size) == Fits(size)

\* The ring is used only when nothing waits before the message.
Direct(size) == pending_to_enclave = <<>> /\ Fits(size)

\* send_to_enclave: into the ring, else into the backlog, else the proxy stops.
send_to_enclave(message, counted) ==
    \E m \in {[size |-> message.size, new |-> message.new, counted |-> counted, n |-> n]
                : n \in 0..Marks} :
        /\ Numbered(m)
        /\ \/ /\ Direct(m.size)
              /\ IntoRing(m)
              /\ UNCHANGED <<pending_to_enclave, pending_bytes, shutdown>>
           \/ /\ ~Direct(m.size)
              /\ pending_bytes + m.size <= MAX_PENDING_TO_ENCLAVE
              /\ pending_to_enclave' = Append(pending_to_enclave, m)
              /\ pending_bytes' = pending_bytes + m.size
              /\ UNCHANGED <<ring, ring_free, shutdown>>
           \/ /\ ~Direct(m.size)
              /\ pending_bytes + m.size > MAX_PENDING_TO_ENCLAVE
              /\ shutdown' = TRUE
              /\ UNCHANGED <<ring, ring_free, pending_to_enclave, pending_bytes>>

\* Mutant of flush_pending_to_enclave: only when the whole backlog fits.
FlushWhole ==
    /\ Looping
    /\ pending_to_enclave # <<>>
    /\ Fits(pending_bytes)
    /\ IntoRing(Head(pending_to_enclave))
    /\ pending_to_enclave' = Tail(pending_to_enclave)
    /\ pending_bytes' = pending_bytes - Head(pending_to_enclave).size
    /\ UNCHANGED <<phase, round, table, sent, shutdown>>

\* flush_pending_to_enclave: the oldest waiting message, one per round.
flush_pending_to_enclave ==
    /\ Looping
    /\ pending_to_enclave # <<>>
    /\ Fits(Head(pending_to_enclave).size)
    /\ IntoRing(Head(pending_to_enclave))
    /\ pending_to_enclave' = Tail(pending_to_enclave)
    /\ pending_bytes' = pending_bytes - Head(pending_to_enclave).size
    /\ UNCHANGED <<phase, round, table, sent, shutdown>>

-------------------------------------------------------------------------------
(* The parts of the loop that run, and send, whatever the backlog:         *)
(* drain_enclave_output, flush_socket_writes and reap_idle_connections.    *)

\* TcpWriteCredit: the enclave, having taken the announcement of a connection,
\* asks for its credits.
GrantCredit(c) ==
    /\ Looping /\ socket[c] = "open"
    /\ \A m \in Range(ring \o pending_to_enclave) : m.new # c
    /\ Becomes(c, "credited")
    /\ UNCHANGED <<phase, round, credits, connects, queue>>

\* flush_socket_writes: a quantum of a credited connection has been written.
ReportCredit(c) ==
    /\ Looping /\ socket[c] = "credited" /\ credits[c] > 0
    /\ credits' = [credits EXCEPT ![c] = @ - 1]
    /\ send_to_enclave(Sized(WordBytes), FALSE)
    /\ UNCHANGED <<phase, round, socket, connects>>

\* A connection ends outside read_sockets: the reaper, a failed write, output
\* beyond the cap, or the answer to the enclave's close.
Close(c) ==
    /\ Looping /\ c \in Open
    /\ Becomes(c, "closed")
    /\ send_to_enclave(Sized(CHANNEL_MSG_HEADER), TRUE)
    /\ UNCHANGED <<phase, round, credits, connects>>

\* close_from_enclave: without credit the close is not answered.
CloseUnanswered(c) ==
    /\ Looping /\ socket[c] \in {"connecting", "open"}
    /\ Becomes(c, "closed")
    /\ UNCHANGED <<phase, round, credits, connects, queue>>

Asked ==
    /\ Looping /\ connects > 0
    /\ connects' = connects - 1
    /\ UNCHANGED <<phase, round, credits>>

\* begin_outbound_connection, start_outbound_connect: a connect in progress, or
\* connected at once.
ConnectStarts(c) ==
    /\ Asked /\ socket[c] = "new"
    /\ \/ Becomes(c, "connecting") /\ UNCHANGED queue
       \/ Becomes(c, "open") /\ send_to_enclave(Sized(WordBytes), FALSE)

\* A refused connect is told by TcpConnectFailed or, for a peer, TcpClose.
ConnectRefused ==
    /\ Asked
    /\ \E size \in {FailedBytes, CHANNEL_MSG_HEADER} : send_to_enclave(Sized(size), FALSE)
    /\ UNCHANGED socket

\* reap_idle_connections: an attempt still connecting.
ReapConnecting(c) ==
    /\ Looping /\ socket[c] = "connecting"
    /\ Becomes(c, "closed")
    /\ send_to_enclave(Sized(FailedBytes), FALSE)
    /\ UNCHANGED <<phase, round, credits, connects>>

\* send_tick_if_due: only on an empty backlog, but in any round.
Tick ==
    /\ Looping /\ pending_to_enclave = <<>>
    /\ send_to_enclave(Sized(CHANNEL_MSG_HEADER), FALSE)
    /\ UNCHANGED <<phase, round, table>>

Ungated ==
    \/ ConnectRefused \/ Tick
    \/ \E c \in Conns : \/ GrantCredit(c) \/ ReportCredit(c) \/ Close(c) \/ CloseUnanswered(c)
                         \/ ConnectStarts(c) \/ ReapConnecting(c)

-------------------------------------------------------------------------------
(* The gated part of the loop. *)

\* The loop's gate: accept and read only when nothing waits.
Gate ==
    /\ Looping
    /\ pending_to_enclave = <<>>
    /\ phase' = "accept"
    /\ UNCHANGED <<round, table, queue>>

\* accept_connections: TcpNew and TcpReadIdentity.
accept_connections(c) ==
    /\ phase = "accept"
    /\ socket[c] = "new"
    /\ Becomes(c, "open")
    /\ phase' = "announce"
    /\ batch' = <<Announcing(c), Sized(WordBytes)>>
    /\ UNCHANGED <<unseen, available, credits, connects, queue>>

\* progress_outbound_connections, poll_pending_connects: TcpConnected or
\* TcpConnectFailed, for a peer PeerTcpConnected or TcpClose.
ConnectEnds(c) ==
    /\ phase = "accept"
    /\ socket[c] = "connecting"
    /\ phase' = "announce"
    /\ \/ Becomes(c, "open") /\ \E size \in {WordBytes, CHANNEL_MSG_HEADER} : batch' = <<Sized(size)>>
       \/ Becomes(c, "closed") /\ \E size \in {FailedBytes, CHANNEL_MSG_HEADER} : batch' = <<Sized(size)>>
    /\ UNCHANGED <<unseen, available, credits, connects, queue>>

\* Mutant of StartReading: no reserve for the closes.
StartUnreserved ==
    /\ phase = "accept"
    /\ phase' = "read"
    /\ unseen' = Open
    /\ batch' = <<>>
    /\ available' = Monus(MAX_PENDING_TO_ENCLAVE, pending_bytes)
    /\ UNCHANGED <<table, queue>>

\* read_sockets: reserve the closes of all connections.
StartReading ==
    /\ phase = "accept"
    /\ phase' = "read"
    /\ unseen' = Open
    /\ batch' = <<>>
    /\ available' = Monus(Monus(MAX_PENDING_TO_ENCLAVE, pending_bytes),
                          MAX_CONNS * CHANNEL_MSG_HEADER)
    /\ UNCHANGED <<table, queue>>

\* Mutant of Maximum: the header of the message is not debited.
MaximumBare == IF TCP_READ_BUF < available THEN TCP_READ_BUF ELSE available

\* The most the next read may take; at 0 the round ends.
Maximum == LET room == Monus(available, CHANNEL_MSG_HEADER)
           IN  IF TCP_READ_BUF < room THEN TCP_READ_BUF ELSE room

\* read_sockets: a socket has nothing, has n bytes, or is closed.  A paused
\* socket is passed over or found closed even when nothing may be read.
NothingRead(c) ==
    /\ phase = "read" /\ c \in unseen
    /\ unseen' = unseen \ {c}
    /\ UNCHANGED <<phase, available, batch, table, queue>>

SocketRead(c, n) ==
    /\ phase = "read" /\ c \in unseen
    /\ n \in 1..Maximum
    /\ unseen' = unseen \ {c}
    /\ available' = available - (n + CHANNEL_MSG_HEADER)
    /\ batch' = Append(batch, Sized(n + CHANNEL_MSG_HEADER))
    /\ UNCHANGED <<phase, table, queue>>

\* The close is sent after all the data; it is kept in the table until then.
SocketEnded(c) ==
    /\ phase = "read" /\ c \in unseen
    /\ unseen' = unseen \ {c}
    /\ Becomes(c, "ended")
    /\ UNCHANGED <<phase, available, batch, credits, connects, queue>>

ReadEnds ==
    /\ phase = "read"
    /\ unseen = {} \/ Maximum = 0
    /\ phase' = "send"
    /\ batch' = batch \o [i \in 1..Cardinality({c \in Conns : socket[c] = "ended"})
                              |-> Sized(CHANNEL_MSG_HEADER)]
    /\ socket' = [c \in Conns |-> IF socket[c] = "ended" THEN "closed" ELSE socket[c]]
    /\ UNCHANGED <<unseen, available, credits, connects, queue>>

SendBatch ==
    /\ phase \in {"announce", "send"} /\ batch # <<>>
    /\ batch' = Tail(batch)
    /\ send_to_enclave(Head(batch), TRUE)
    /\ UNCHANGED <<phase, unseen, available, table>>

BatchSent ==
    /\ phase \in {"announce", "send"} /\ batch = <<>>
    /\ phase' = IF phase = "announce" THEN "accept" ELSE "loop"
    /\ UNCHANGED <<round, table, queue>>

\* The control loop of the enclave takes a message from the ring.
EnclaveTakes ==
    /\ ring # <<>>
    /\ ring' = Tail(ring)
    /\ ring_free' = ring_free + Head(ring).size + MSG_HEADER_SIZE
    /\ UNCHANGED <<phase, round, table, pending_to_enclave, pending_bytes, sent, shutdown>>

Proxy ==
    \/ flush_pending_to_enclave \/ Gate \/ StartReading \/ ReadEnds \/ SendBatch \/ BatchSent
    \/ Ungated
    \/ \E c \in Conns :
        \/ accept_connections(c) \/ ConnectEnds(c)
        \/ NothingRead(c) \/ SocketEnded(c)
        \/ \E n \in {1, Maximum} : SocketRead(c, n)

Next == Proxy \/ EnclaveTakes

Spec == Init /\ [][Next]_vars

\* The proxy's loop runs, flushing once per round, and the enclave reads.
LiveSpec == /\ Spec
            /\ WF_vars(Proxy) /\ WF_vars(EnclaveTakes)
            /\ SF_vars(flush_pending_to_enclave)

-------------------------------------------------------------------------------
(* Properties. *)

Drafts == [size : Nat, new : Conns \cup {NoConn}]
Messages == [n : 0..Marks, size : Nat, new : Conns \cup {NoConn}, counted : BOOLEAN]

\* Every variable stays in its type; in particular the backlog never holds
\* more than MAX_PENDING_TO_ENCLAVE bytes and available never wraps below 0.
TypeOK ==
    /\ phase \in {"loop", "accept", "announce", "read", "send"}
    /\ unseen \subseteq Conns
    /\ available \in 0..MAX_PENDING_TO_ENCLAVE
    /\ batch \in Seq(Drafts)
    /\ socket \in [Conns -> {"new", "connecting", "open", "credited", "ended", "closed"}]
    /\ credits \in [Conns -> 0..MaxCredits]
    /\ connects \in 0..MaxConnects
    /\ ring \in Seq(Messages) /\ ring_free \in 0..RingBytes
    /\ pending_to_enclave \in Seq(Messages)
    /\ pending_bytes \in 0..MAX_PENDING_TO_ENCLAVE
    /\ sent \in 0..Marks
    /\ shutdown \in BOOLEAN

\* The enclave gets the messages in the order in which the proxy sent them:
\* nothing overtakes the backlog when the ring has room again.
InOrder ==
    LET all == ring \o pending_to_enclave
    IN  \A i, j \in 1..Len(all) : all[i].n = 1 /\ all[j].n = 2 => i < j

\* "a full ring cannot overflow the shared backlog" (read_sockets): whatever
\* the enclave leaves unread, the proxy never stops over its own backlog.
ProxyNeverStops == ~shutdown

Size(messages) == FoldLeft(LAMBDA total, m : total + m.size, 0, messages)
Counted == SelectSeq(pending_to_enclave, LAMBDA m : m.counted)

\* What read_sockets reserves is kept: the data, the closes and the
\* announcements in the backlog, with those about to be sent, leave room for
\* the close of every connection still in the table, however many credits and
\* answers to connects have gone into the backlog.  Only these, which the
\* reserve does not count, can take the room of a close and stop the proxy.
ReserveKept ==
    Size(Counted) + Size(batch)
        + CHANNEL_MSG_HEADER
          * Cardinality({c \in Conns : socket[c] \in {"connecting", "open", "credited", "ended"}})
      <= MAX_PENDING_TO_ENCLAVE

\* A backlog is worked off once the enclave reads again, while the proxy runs.
BacklogDrains ==
    pending_to_enclave # <<>> ~> (pending_to_enclave = <<>> \/ shutdown)
===============================================================================
