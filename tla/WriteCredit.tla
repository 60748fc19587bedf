------------------------------ MODULE WriteCredit ------------------------------
(***************************************************************************)
(* The output of one ingress connection: the enclave's TcpWriteWindow      *)
(* (common/src/channel.rs, used by enclave/src/ratls/server.rs) and the    *)
(* host's write buffer and WrittenCredit (host/src/tcp_proxy.rs), over the *)
(* two FIFO data channels (each a ring and the backlog in front of it).    *)
(*                                                                         *)
(* Bytes are named by their position in the connection's output: a data    *)
(* message carries the position of its end, so the host's buffer holds the *)
(* positions from total to received.                                       *)
(***************************************************************************)
EXTENDS Naturals, Sequences

CONSTANTS
  Window,        \* TCP_WRITE_WINDOW
  Quantum,       \* WRITE_CREDIT_QUANTUM
  Step,          \* TLS_RESPONSE_STEP_BYTES
  MaxPending,    \* MAX_PENDING_WRITE
  Flights,       \* sizes of outputs sent without asking for credit
  MaxSent,       \* the counters' last value, u64::MAX in the code
  Backlog,       \* messages the enclave may have on their way to the host
  Inbox          \* messages after which the host reads no more input

(* What the comment on WRITE_CREDIT_QUANTUM computes: with less than a     *)
(* quantum unreported the window still has room for a step.                *)
ASSUME WindowAssumption ==
  /\ Window \in Nat /\ Quantum \in Nat /\ Step \in Nat /\ MaxPending \in Nat
  /\ 0 < Quantum /\ 0 < Step /\ Quantum + Step <= Window + 1
  /\ Window <= MaxPending
ASSUME BoundAssumption ==
  Flights \subseteq Nat /\ MaxSent \in Nat /\ Backlog \in Nat /\ Inbox \in Nat

VARIABLES
  enclave,     \* "new", "live" (the connection has a window), "gone", or
               \* "dropped": forgotten without a word to the host
  sent,        \* TcpWriteWindow.sent
  written,     \* TcpWriteWindow.written
  to_host, to_enclave,  \* messages on their way, oldest first
  host,        \* "plain", "credited", "closing" (close_after_write), "gone"
  received,    \* position up to which the host has the output
  total,       \* WrittenCredit.total: position up to which it is written
  reported     \* WrittenCredit.reported

counters == <<sent, written, received, total, reported>>
vars == <<enclave, sent, written, to_host, to_enclave, host, received, total,
          reported>>

Message(k, n) == [kind |-> k, n |-> n]

Init ==
  /\ enclave = "new" /\ host = "plain"
  /\ sent = 0 /\ written = 0 /\ received = 0 /\ total = 0 /\ reported = 0
  /\ to_host = <<>> /\ to_enclave = <<Message("new", 0)>>

available == Window - (sent - written)

(* A bound.  In the code a message beyond the backlog stops the enclave    *)
(* (output_failed, the origin IngressOutputCreditBacklog of Lifecycle).    *)
Room == Len(to_host) < Backlog
Send(k, n) == Room /\ to_host' = Append(to_host, Message(k, n))
Consume(k) ==
  /\ to_enclave # <<>> /\ Head(to_enclave).kind = k
  /\ to_enclave' = Tail(to_enclave)
-----------------------------------------------------------------------------
(* The enclave: RaTlsServer. *)

(* A connection with a fresh id. The window opens with the request for     *)
(* credits, before any output.                                             *)
TcpNew ==
  /\ enclave = "new" /\ Consume("new") /\ Send("credit", 0)
  /\ enclave' = "live"
  /\ UNCHANGED <<counters, host>>

TcpNewRefused ==
  /\ enclave = "new" /\ Consume("new") /\ Send("close", 0)
  /\ enclave' = "gone"
  /\ UNCHANGED <<counters, host>>

(* Mutant: any credit is enough to start a step. *)
ProgressWithCredit(n) ==
  /\ enclave = "live" /\ available > 0
  /\ sent + n <= MaxSent
  /\ sent' = sent + n
  /\ Send("data", sent + n)
  /\ UNCHANGED <<enclave, written, to_enclave, host, received, total, reported>>

(* A response step is produced only with credit for the largest one. *)
progress_output(n) ==
  /\ enclave = "live" /\ available >= Step
  /\ sent + n <= MaxSent
  /\ sent' = sent + n
  /\ Send("data", sent + n)
  /\ UNCHANGED <<enclave, written, to_enclave, host, received, total, reported>>

(* The window refuses a step with which its counter would wrap. *)
OutputRefused ==
  /\ enclave = "live" /\ available >= Step
  /\ \E n \in 1..Step : sent + n > MaxSent
  /\ Send("close", 0)
  /\ UNCHANGED <<enclave, counters, to_enclave, host>>

(* dispatch_requests returns false without a close when a request to be    *)
(* deferred has no channel binder, no nonce or no slot; its callers then   *)
(* drop the session and its window.  Its other refusals send a close.      *)
dispatch_requests == enclave' \in {"live", "dropped"}

(* The turn progress_output gives to a session without a response. *)
DispatchTurn ==
  /\ enclave = "live" /\ available >= Step
  /\ dispatch_requests
  /\ UNCHANGED <<counters, to_host, to_enclave, host>>

(* handle_tcp_data: TLS flights and small replies to what the peer sent go *)
(* out without asking for credit first.                                    *)
handle_tcp_data ==
  /\ enclave = "live" /\ Consume("data")
  /\ \E n \in Flights :
       /\ n <= available /\ sent + n <= MaxSent
       /\ Send("data", sent + n) /\ sent' = sent + n
  /\ dispatch_requests
  /\ UNCHANGED <<written, host, received, total, reported>>

(* Refused by the window: the output is lost, a close goes out and the     *)
(* session lives on until the host answers it.                             *)
SendRefused ==
  /\ enclave = "live" /\ Consume("data")
  /\ \E n \in Flights : n > available \/ sent + n > MaxSent
  /\ Send("close", 0)
  /\ dispatch_requests
  /\ UNCHANGED <<counters, host>>

(* The input asks for no output, or has no session. *)
DataUnanswered ==
  /\ Consume("data")
  /\ IF enclave = "live" THEN dispatch_requests ELSE UNCHANGED enclave
  /\ UNCHANGED <<counters, to_host, host>>

(* flush_response after the last byte, an error, a cancelled deferral. *)
close_deferred_transport ==
  /\ enclave = "live" /\ Send("close", 0)
  /\ enclave' = "gone"
  /\ UNCHANGED <<counters, to_enclave, host>>

(* Mutant: a credit is added to the ones before. *)
AcknowledgeAdds(n) == written' = written + n

acknowledge(n) == written' = n

AcceptCredit ==
  /\ enclave = "live" /\ Consume("credit")
  /\ LET n == Head(to_enclave).n
     IN n >= written /\ n <= sent /\ acknowledge(n)
  /\ UNCHANGED <<enclave, sent, to_host, host, received, total, reported>>

(* An invalid credit, or one for a connection without a window. *)
RejectCredit ==
  /\ Consume("credit")
  /\ LET n == Head(to_enclave).n
     IN enclave # "live" \/ n < written \/ n > sent
  /\ Send("close", 0)
  /\ enclave' = "gone"
  /\ UNCHANGED <<counters, host>>

(* close_notify goes out after the window is gone, uncounted. *)
TcpClose ==
  /\ Consume("close")
  /\ enclave' = "gone"
  /\ \/ enclave = "live" /\ Send("notify", 0)
     \/ UNCHANGED to_host
  /\ UNCHANGED <<counters, host>>
-----------------------------------------------------------------------------
(* The host: TcpProxy. *)

Open == host \in {"plain", "credited", "closing"}
Receive(k) ==
  /\ to_host # <<>> /\ Head(to_host).kind = k
  /\ to_host' = Tail(to_host)

Tell(m) == to_enclave' = Append(to_enclave, m)
Credit(n) == Message("credit", n)
Close == Message("close", 0)

(* drain_enclave_output, TcpWriteCredit *)
HostCredit ==
  /\ Open /\ Receive("credit")
  /\ IF host = "plain" /\ received = 0
     THEN host' = "credited" /\ UNCHANGED to_enclave
     ELSE host' = "gone" /\ Tell(Close)
  /\ UNCHANGED <<enclave, counters>>

(* The pending bytes and the new ones together are capped. *)
write_to_socket ==
  /\ Open /\ Receive("data")
  /\ IF Head(to_host).n - total <= MaxPending
     THEN received' = Head(to_host).n /\ UNCHANGED <<host, to_enclave>>
     ELSE host' = "gone" /\ Tell(Close) /\ UNCHANGED received
  /\ UNCHANGED <<enclave, sent, written, total, reported>>

(* Without credits nobody is told. *)
ClosePlain ==
  /\ host = "plain" /\ Receive("close")
  /\ host' = "gone"
  /\ UNCHANGED <<enclave, counters, to_enclave>>

(* The close waits for the buffer. *)
CloseAfterWrite ==
  /\ host \in {"credited", "closing"} /\ received > total /\ Receive("close")
  /\ host' = "closing"
  /\ UNCHANGED <<enclave, counters, to_enclave>>

(* Mutant: removed with an empty buffer as an uncredited connection is. *)
CloseUntold ==
  /\ host \in {"credited", "closing"} /\ received = total /\ Receive("close")
  /\ host' = "gone"
  /\ UNCHANGED <<enclave, counters, to_enclave>>

(* record(0, true), then the close. *)
Reporting ==
  IF total # reported THEN Append(to_enclave, Credit(total)) ELSE to_enclave

CloseNow ==
  /\ host \in {"credited", "closing"} /\ received = total /\ Receive("close")
  /\ host' = "gone" /\ reported' = total
  /\ to_enclave' = Append(Reporting, Close)
  /\ UNCHANGED <<enclave, sent, written, received, total>>

(* Messages for a connection that is no longer in the table. *)
Ignored ==
  /\ host = "gone" /\ to_host # <<>>
  /\ to_host' = Tail(to_host)
  /\ UNCHANGED <<enclave, counters, to_enclave, host>>

(* Mutant: a report only beyond the quantum. *)
DueAbove(n) == total + n - reported > Quantum

(* record: a quantum is reported. *)
Due(n) == total + n - reported >= Quantum

(* flush_socket_writes: the socket takes some bytes, and if the connection *)
(* is closing not all of them.                                             *)
SocketTakes(n) ==
  /\ host \in {"credited", "closing"}
  /\ total + n <= received /\ (total + n = received => host = "credited")
  /\ total' = total + n
  /\ UNCHANGED <<enclave, sent, written, to_host, host, received>>

SocketWrite(n) == SocketTakes(n) /\ ~Due(n) /\ UNCHANGED <<reported, to_enclave>>

ReportWrite(n) ==
  /\ SocketTakes(n) /\ Due(n)
  /\ reported' = total + n /\ Tell(Credit(total + n))

(* The last bytes of a closing connection, reported whatever they are. *)
LastWrite ==
  /\ host = "closing" /\ total < received
  /\ total' = received /\ reported' = received
  /\ host' = "gone"
  /\ to_enclave' = Append(Append(to_enclave, Credit(received)), Close)
  /\ UNCHANGED <<enclave, sent, written, to_host, received>>

(* read_sockets *)
ReadSocket ==
  /\ Open /\ Len(to_enclave) < Inbox
  /\ Tell(Message("data", 0))
  /\ UNCHANGED <<enclave, counters, to_host, host>>

(* Mutant: the end of the input leaves the connection open for output. *)
HalfClose ==
  /\ Open /\ Len(to_enclave) < Inbox
  /\ Tell(Close)
  /\ UNCHANGED <<enclave, counters, to_host, host>>

(* The peer closes or fails, or the connection idles for too long. *)
HostCloses ==
  /\ Open
  /\ host' = "gone" /\ Tell(Close)
  /\ UNCHANGED <<enclave, counters, to_host>>
-----------------------------------------------------------------------------
EnclaveReceives ==
  TcpNew \/ TcpNewRefused \/ handle_tcp_data \/ SendRefused
  \/ DataUnanswered \/ AcceptCredit \/ RejectCredit \/ TcpClose

HostReceives ==
  HostCredit \/ write_to_socket \/ ClosePlain \/ CloseAfterWrite \/ CloseNow
  \/ Ignored

flush_socket_writes == LastWrite \/ \E n \in 1..MaxPending : SocketWrite(n) \/ ReportWrite(n)

Next ==
  \/ EnclaveReceives \/ HostReceives \/ flush_socket_writes \/ HostCloses
  \/ ReadSocket \/ (\E n \in 1..Step : progress_output(n))
  \/ OutputRefused \/ DispatchTurn \/ close_deferred_transport

Spec == Init /\ [][Next]_vars

(* Both loops run, and the peer goes on reading what it asked for. *)
FairSpec ==
  Spec /\ WF_vars(EnclaveReceives) /\ WF_vars(HostReceives)
       /\ WF_vars(flush_socket_writes)
-----------------------------------------------------------------------------
ToHost == {"credit", "data", "close", "notify"}
ToEnclave == {"new", "data", "credit", "close"}
Messages(kinds) == [kind : kinds, n : Nat]

(* Every variable stays in its type; in particular neither counter of the  *)
(* window passes the last value of its type.                               *)
TypeOK ==
  /\ enclave \in {"new", "live", "dropped", "gone"}
  /\ host \in {"plain", "credited", "closing", "gone"}
  /\ sent \in 0..MaxSent /\ written \in 0..MaxSent /\ received \in Nat
  /\ total \in Nat /\ reported \in Nat
  /\ to_host \in Seq(Messages(ToHost))
  /\ to_enclave \in Seq(Messages(ToEnclave))

(* A credited connection is never closed for a full buffer: all that is on *)
(* its way fits, whatever the socket has taken so far.                     *)
NeverOverflows ==
  \A i \in 1..Len(to_host) :
    Open /\ to_host[i].kind = "data" => to_host[i].n - total <= MaxPending

(* The messages of kind k in q are between lo and hi, and in order. *)
Ordered(q, k, lo, hi) ==
  \A i \in 1..Len(q) :
    q[i].kind = k =>
      /\ lo <= q[i].n /\ q[i].n <= hi
      /\ \A j \in 1..i : q[j].kind = k => q[j].n <= q[i].n

(* No credit of this host is refused: each is between what the enclave     *)
(* already knows and what it has sent, and they arrive in order.           *)
CreditsAccepted ==
  enclave = "live" => Ordered(to_enclave, "credit", written, sent)

Contains(q, k) == \E i \in 1..Len(q) : q[i].kind = k

(* The close_notify the enclave sends outside the window never reaches a   *)
(* buffer: its connection is gone before.                                  *)
UncountedIgnored == Contains(to_host, "notify") => host = "gone"

(* "A producer requiring at most 64 KiB of credit cannot deadlock on this  *)
(* delay": with nothing on its way and nothing to write, there is credit   *)
(* for a step, although the last bytes were never reported.                *)
NoCreditDeadlock ==
  /\ enclave = "live" /\ host = "credited"
  /\ to_host = <<>> /\ to_enclave = <<>> /\ received = total
  => available >= Step

(* A response that waits for credit goes on, or its connection ends. *)
CreditReturns ==
  (enclave = "live" /\ available < Step) ~>
    (enclave \in {"dropped", "gone"} \/ available >= Step)

(* Neither side keeps a connection the other has closed, whichever of them *)
(* closes first and whatever is on its way.  A session that dispatch_      *)
(* requests drops is told to nobody: its socket then lives until its peer  *)
(* or the host ends it, and at the latest until the next credit, which the *)
(* enclave answers with a close.                                           *)
BothForget ==
  /\ (host = "gone") ~> (enclave = "gone")
  /\ (enclave = "gone") ~> (host = "gone")
  /\ (enclave = "dropped" /\ Contains(to_enclave, "credit")) ~> (host = "gone")
-----------------------------------------------------------------------------
(* The inductive invariant. *)

(* Bytes are sent, received, written, reported and acknowledged in turn. *)
CountersOrdered ==
  /\ written <= reported /\ reported <= total /\ total <= received
  /\ received <= sent /\ sent <= written + Window

DataOrdered == Ordered(to_host, "data", received, sent)
CreditsOrdered == Ordered(to_enclave, "credit", written, reported)

(* Whoever knows lo learns hi from the messages of kind k in q. *)
Reaches(q, k, lo, hi) ==
  lo = hi \/ \E i \in 1..Len(q) : q[i].kind = k /\ q[i].n = hi

DataArrives == Open => Reaches(to_host, "data", received, sent)
CreditsArrive ==
  enclave # "gone" => Reaches(to_enclave, "credit", written, reported)

UnreportedBounded == Open => total < reported + Quantum

CloseIsLast == Contains(to_enclave, "close") => host = "gone"

IndInv ==
  /\ TypeOK /\ CountersOrdered /\ DataOrdered /\ CreditsOrdered
  /\ DataArrives /\ CreditsArrive /\ UnreportedBounded
  /\ CloseIsLast /\ UncountedIgnored
=============================================================================
