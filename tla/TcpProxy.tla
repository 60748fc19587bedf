------------------------------- MODULE TcpProxy -------------------------------
(***************************************************************************)
(* The connection table of the host's TCP proxy (host/src/tcp_proxy.rs)    *)
(* and the conversation it has with the enclave about each connection.     *)
(*                                                                         *)
(* The proxy is one thread.  Each of its loops over the table is a family  *)
(* of actions, one per connection; the enclave and the network interleave  *)
(* between them.  A socket is what it may answer next, a byte string is    *)
(* the number of writes it came from.  How many bytes are credited, and    *)
(* the reports of them, are the subject of WriteCredit; here a connection  *)
(* only has credit or not, because that decides whether its close is       *)
(* answered.                                                               *)
(*                                                                         *)
(* The bounds: MaxGenerations accepted TCP connections, MaxWrites and      *)
(* MaxControls messages of the enclave, OutSlots of them waiting, and      *)
(* InSlots messages to it before the proxy accepts, polls or reads.  With  *)
(* Wraps the identifiers are used again from 1, as after 2^30 connections; *)
(* without, accepting stops when they are used up.                         *)
(***************************************************************************)
EXTENDS Integers, Sequences, FiniteSets

CONSTANTS MAX_CONNS, CONN_ID_PEER_IN_BASE, Peers, Requests,
          MAX_PENDING_WRITE, MAX_PENDING_CONNECT_WRITE, InSlots, OutSlots,
          Wraps, MaxGenerations, MaxWrites, MaxControls

\* The identifiers the proxy hands out, and those the enclave chooses.
Ids == 1..(CONN_ID_PEER_IN_BASE - 1)
Conns == Ids \cup Peers

\* There is always an identifier left below the cap, and what was buffered
\* before the connect fits the buffer of the connection.
ASSUME RangesAssumption ==
    /\ MAX_CONNS \in Nat \ {0}
    /\ CONN_ID_PEER_IN_BASE - 1 > MAX_CONNS
    /\ Peers \cap 0..CONN_ID_PEER_IN_BASE = {}
    /\ MAX_PENDING_CONNECT_WRITE <= MAX_PENDING_WRITE

VARIABLES
    ready,          \* the enclave has signalled DataReady
    connections,    \* connections and pending_connects: Conns -> Connection
    next_conn_id,
    generation,     \* next_read_generation
    to_enclave,     \* the data ring to the enclave, then pending_to_enclave
    to_host,        \* the data ring from the enclave
    view,           \* what the enclave holds of each connection
    identity,       \* stream_generations of the enclave, 0 when absent
    paused_reads,   \* paused_stream_reads of the enclave
    revision,       \* read_revision of the enclave
    asked,          \* the endpoint of each outbound request, or no
    answers,        \* the completions it has received for each
    writes          \* the enclave's data messages, for the bound

host == <<ready, connections, next_conn_id, generation>>
reads == <<identity, paused_reads, revision>>
enclave == <<view, reads, asked, answers, writes>>
vars == <<host, to_enclave, to_host, enclave>>

\* A session of the ingress server, or a link of the adopter's hook; dropped
\* is a session given up without a word to the proxy.
Views == {"none", "session", "dropped", "left", "connecting", "linked"}
\* An empty endpoint makes a request that decode_tcp_connect refuses.
Endpoints == {"named", "empty"}

Origins == {"free", "inbound", "pending", "connecting", "outbound"}
NoRequest == 0

Connection == [origin : Origins, request : Requests \cup {NoRequest},
               generation : 0..MaxGenerations, revision : 0..MaxControls,
               paused : BOOLEAN, buffered : 0..MAX_PENDING_WRITE,
               closing : BOOLEAN, credit : BOOLEAN]

Fresh(origin, request, g) ==
    [origin |-> origin, request |-> request, generation |-> g, revision |-> 0,
     paused |-> FALSE, buffered |-> 0, closing |-> FALSE, credit |-> FALSE]

Free == Fresh("free", NoRequest, 0)

\* Messages about a connection, and about a request.
About(type, id) == [type |-> type, id |-> id]
Asking(r, e) == [type |-> "TcpConnect", request |-> r, endpoint |-> e, id |-> 0]
Failed(r) == [type |-> "TcpConnectFailed", request |-> r, id |-> 0]
Connected(r, id) == [type |-> "TcpConnected", request |-> r, id |-> id]
Identity(id, g) == [type |-> "TcpReadIdentity", id |-> id, generation |-> g]
Control(id, g, n, p) == [type |-> "TcpReadControl", id |-> id, generation |-> g,
                         revision |-> n, paused |-> p]

Init ==
    /\ ready = FALSE
    /\ connections = [id \in Conns |-> Free]
    /\ next_conn_id = 1
    /\ generation = 0
    /\ to_enclave = <<>>
    /\ to_host = <<About("DataReady", 0)>>
    /\ view = [id \in Conns |-> "none"]
    /\ identity = [id \in Conns |-> 0]
    /\ paused_reads = [id \in Conns |-> FALSE]
    /\ revision = 0
    /\ asked = [r \in Requests |-> "no"]
    /\ answers = [r \in Requests |-> 0]
    /\ writes = 0

-------------------------------------------------------------------------------
(* The proxy's table. *)

Tracked == {id \in Conns : connections[id].origin # "free"}
\* Mutant of Full: the peer connects in progress are not counted.
FullForgetsPending ==
    Cardinality({id \in Tracked : connections[id].origin # "pending"}) >= MAX_CONNS

Full == Cardinality(Tracked) >= MAX_CONNS

\* run: accepting, polling the connects and reading are skipped in a round that
\* found pending_to_enclave occupied.  The test is part of ProxyBacklog; here
\* they may run at any occupancy up to the bound InSlots.
Gated == ready /\ Len(to_enclave) < InSlots

Open(id) == connections[id].origin \in {"inbound", "outbound"}

Set(id, c) == connections' = [connections EXCEPT ![id] = c]
Remove(id) == Set(id, Free)
Say(messages) == to_enclave' = to_enclave \o messages
SayClose(id) == Say(<<About("TcpClose", id)>>)

\* The identifier k steps after next_conn_id, around the range.
Candidate(k) == ((next_conn_id - 1 + k) % (CONN_ID_PEER_IN_BASE - 1)) + 1

Allocates(k) ==
    /\ k \in 0..MAX_CONNS
    /\ connections[Candidate(k)].origin = "free"
    /\ \A j \in 0..(k - 1) : connections[Candidate(j)].origin # "free"
    /\ Wraps \/ next_conn_id + k < CONN_ID_PEER_IN_BASE - 1

\* Mutant of allocate_conn_id: the counter does not go around.
AllocateOnward(id) ==
    \E k \in 0..MAX_CONNS :
        Allocates(k) /\ id = Candidate(k) /\ next_conn_id' = next_conn_id + k + 1

\* allocate_conn_id: the next free identifier; the counter moves past it.
allocate_conn_id(id) ==
    \E k \in 0..MAX_CONNS :
        /\ Allocates(k)
        /\ id = Candidate(k)
        /\ next_conn_id' = Candidate(k + 1)

Accepting == Gated /\ ~Full

\* accept_connections: announce the socket, then its read identity.
accept_connections(id) ==
    /\ Accepting
    /\ generation < MaxGenerations
    /\ allocate_conn_id(id)
    /\ generation' = generation + 1
    /\ Set(id, Fresh("inbound", NoRequest, generation'))
    /\ Say(<<About("TcpNew", id), Identity(id, generation')>>)
    /\ UNCHANGED <<ready, to_host, enclave>>

accept_local_control_connections(id) ==
    /\ Accepting
    /\ allocate_conn_id(id)
    /\ Set(id, Fresh("inbound", NoRequest, 0))
    /\ Say(<<About("LocalControlNew", id)>>)
    /\ UNCHANGED <<ready, generation, to_host, enclave>>

\* read_sockets: forward what the peer sent.
ReadData(id) ==
    /\ Gated /\ Open(id)
    /\ ~connections[id].paused
    /\ Say(<<About("TcpData", id)>>)
    /\ UNCHANGED <<host, to_host, enclave>>

\* Mutant of PeerCloses: the enclave is not told.
PeerClosesUntold(id) ==
    /\ Gated /\ Open(id)
    /\ Remove(id)
    /\ UNCHANGED <<ready, next_conn_id, generation, to_enclave, to_host, enclave>>

\* read_sockets: the peer closed, or its socket failed.  A paused socket is
\* only asked whether it is disconnected.
PeerCloses(id) ==
    /\ Gated /\ Open(id)
    /\ Remove(id)
    /\ SayClose(id)
    /\ UNCHANGED <<ready, next_conn_id, generation, to_host, enclave>>

\* Mutant of reap_idle_connections: every connection is answered by a close.
ReapByClose(id) ==
    /\ ready /\ connections[id].origin \notin {"free", "pending"}
    /\ Remove(id)
    /\ SayClose(id)
    /\ UNCHANGED <<ready, next_conn_id, generation, to_host, enclave>>

\* reap_idle_connections: an attempt still connecting is answered by its
\* request, because its identifier has not been told to the enclave.
reap_idle_connections(id) ==
    /\ ready /\ connections[id].origin \notin {"free", "pending"}
    /\ Remove(id)
    /\ IF connections[id].origin = "connecting"
       THEN Say(<<Failed(connections[id].request)>>)
       ELSE SayClose(id)
    /\ UNCHANGED <<ready, next_conn_id, generation, to_host, enclave>>

\* flush_socket_writes: the socket takes the n oldest writes.
SocketTakes(id, n) ==
    LET c == connections[id]
        finished == n = c.buffered /\ c.closing
    IN  /\ ready /\ Open(id)
        /\ n \in 1..c.buffered
        /\ Set(id, IF finished THEN Free
                               ELSE [c EXCEPT !.buffered = c.buffered - n])
        /\ Say(IF finished /\ c.credit THEN <<About("TcpClose", id)>> ELSE <<>>)
        /\ UNCHANGED <<ready, next_conn_id, generation, to_host, enclave>>

\* Mutant of WriteFails: the connection stays in the table.
WriteFailsKept(id) ==
    /\ ready /\ Open(id) /\ connections[id].buffered > 0
    /\ SayClose(id)
    /\ UNCHANGED <<host, to_host, enclave>>

\* flush_socket_writes: the write fails.
WriteFails(id) ==
    /\ ready /\ Open(id) /\ connections[id].buffered > 0
    /\ Remove(id)
    /\ SayClose(id)
    /\ UNCHANGED <<ready, next_conn_id, generation, to_host, enclave>>

\* progress_outbound_connections: the connect has succeeded or failed.
OutboundConnects(id) ==
    /\ Gated /\ connections[id].origin = "connecting"
    /\ Set(id, [connections[id] EXCEPT !.origin = "outbound", !.request = NoRequest])
    /\ Say(<<Connected(connections[id].request, id)>>)
    /\ UNCHANGED <<ready, next_conn_id, generation, to_host, enclave>>

OutboundFails(id) ==
    /\ Gated /\ connections[id].origin = "connecting"
    /\ Remove(id)
    /\ Say(<<Failed(connections[id].request)>>)
    /\ UNCHANGED <<ready, next_conn_id, generation, to_host, enclave>>

\* poll_pending_connects: the peer connect has succeeded, and takes along
\* what was buffered, or it has failed or timed out.
PeerConnects(id) ==
    /\ Gated /\ connections[id].origin = "pending"
    /\ Set(id, [connections[id] EXCEPT !.origin = "outbound"])
    /\ Say(<<About("PeerTcpConnected", id)>>)
    /\ UNCHANGED <<ready, next_conn_id, generation, to_host, enclave>>

\* Mutant of PeerFails: the enclave is not told.
PeerFailsUntold(id) ==
    /\ Gated /\ connections[id].origin = "pending"
    /\ Remove(id)
    /\ UNCHANGED <<ready, next_conn_id, generation, to_enclave, to_host, enclave>>

PeerFails(id) ==
    /\ Gated /\ connections[id].origin = "pending"
    /\ Remove(id)
    /\ SayClose(id)
    /\ UNCHANGED <<ready, next_conn_id, generation, to_host, enclave>>

-------------------------------------------------------------------------------
(* drain_enclave_output: the proxy takes one message of the enclave. *)

Takes(type) ==
    /\ to_host # <<>>
    /\ Head(to_host).type = type
    /\ to_host' = Tail(to_host)
    /\ UNCHANGED <<generation, enclave>>

DataReady ==
    /\ Takes("DataReady")
    /\ ready' = TRUE
    /\ UNCHANGED <<connections, next_conn_id, to_enclave>>

\* TcpWriteCredit: asked for once, before any output; anything else closes.
WriteCredit ==
    /\ Takes("TcpWriteCredit")
    /\ LET id == Head(to_host).id
           c == connections[id]
           known == c.origin \notin {"free", "pending"}
           granted == known /\ ~c.credit /\ c.buffered = 0
       IN  /\ Set(id, IF granted THEN [c EXCEPT !.credit = TRUE]
                      ELSE IF known THEN Free ELSE c)
           /\ Say(IF known /\ ~granted THEN <<About("TcpClose", id)>> ELSE <<>>)
    /\ UNCHANGED <<ready, next_conn_id>>

\* Mutant of ReadControl: the generation is not compared.
ReadControlOfAny ==
    /\ Takes("TcpReadControl")
    /\ LET m == Head(to_host)
           c == connections[m.id]
           applies == c.origin \notin {"free", "pending"} /\ m.revision > c.revision
       IN  Set(m.id, IF applies THEN [c EXCEPT !.revision = m.revision,
                                               !.paused = m.paused]
                                ELSE c)
    /\ UNCHANGED <<ready, next_conn_id, to_enclave>>

\* TcpReadControl: only for this generation, and only a newer revision.
ReadControl ==
    /\ Takes("TcpReadControl")
    /\ LET m == Head(to_host)
           c == connections[m.id]
           applies == /\ c.origin \notin {"free", "pending"}
                      /\ m.generation = c.generation
                      /\ m.revision > c.revision
       IN  Set(m.id, IF applies THEN [c EXCEPT !.revision = m.revision,
                                               !.paused = m.paused]
                                ELSE c)
    /\ UNCHANGED <<ready, next_conn_id, to_enclave>>

\* write_to_socket: buffer the output, or close when its cap is exceeded.
\* Output for an attempt still connecting, or for no connection, is dropped.
write_to_socket ==
    /\ Takes("TcpData")
    /\ LET id == Head(to_host).id
           c == connections[id]
           cap == IF c.origin = "pending" THEN MAX_PENDING_CONNECT_WRITE
                                          ELSE MAX_PENDING_WRITE
           kept == Open(id) \/ c.origin = "pending"
           overflows == kept /\ c.buffered + 1 > cap
       IN  /\ Set(id, IF overflows THEN Free
                      ELSE IF kept THEN [c EXCEPT !.buffered = c.buffered + 1] ELSE c)
           /\ Say(IF overflows THEN <<About("TcpClose", id)>> ELSE <<>>)
    /\ UNCHANGED <<ready, next_conn_id>>

\* Mutant of close_from_enclave: the close always waits for a write.
CloseOnlyAfterWrite ==
    /\ Takes("TcpClose")
    /\ LET id == Head(to_host).id
           c == connections[id]
       IN  Set(id, IF c.origin \in {"free", "pending"} THEN Free ELSE [c EXCEPT !.closing = TRUE])
    /\ UNCHANGED <<ready, next_conn_id, to_enclave>>

\* close_from_enclave: at once when nothing is left to write; answered only
\* on a connection with credit.
close_from_enclave ==
    /\ Takes("TcpClose")
    /\ LET id == Head(to_host).id
           c == connections[id]
           now == c.origin = "pending" \/ c.buffered = 0
       IN  /\ Set(id, IF now THEN Free ELSE [c EXCEPT !.closing = TRUE])
           /\ Say(IF now /\ c.credit THEN <<About("TcpClose", id)>> ELSE <<>>)
    /\ UNCHANGED <<ready, next_conn_id>>

\* begin_outbound_connection: a request that cannot be decoded is dropped, and
\* nobody is told.
ConnectDropped ==
    /\ Takes("TcpConnect") /\ Head(to_host).endpoint = "empty"
    /\ UNCHANGED <<ready, connections, next_conn_id, to_enclave>>

\* begin_outbound_connection: every other outcome but an attempt in progress
\* answers the request at once.
Decoded == Takes("TcpConnect") /\ Head(to_host).endpoint = "named"

ConnectStarts ==
    /\ Decoded
    /\ ~Full
    /\ \E id \in Ids :
        /\ allocate_conn_id(id)
        /\ Set(id, Fresh("connecting", Head(to_host).request, 0))
    /\ UNCHANGED <<ready, to_enclave>>

ConnectedAtOnce ==
    /\ Decoded
    /\ ~Full
    /\ \E id \in Ids :
        /\ allocate_conn_id(id)
        /\ Set(id, Fresh("outbound", NoRequest, 0))
        /\ Say(<<Connected(Head(to_host).request, id)>>)
    /\ UNCHANGED ready

\* A bad endpoint is refused before or after an identifier is drawn for it,
\* the cap and a failing socket after.
ConnectRefused ==
    /\ Decoded
    /\ Say(<<Failed(Head(to_host).request)>>)
    /\ \/ next_conn_id' = next_conn_id
       \/ \E id \in Ids : allocate_conn_id(id)
    /\ UNCHANGED <<ready, connections>>

\* start_outbound_connect: a duplicate, the cap and every failure are told
\* by a close.
PeerConnectStarts ==
    /\ Takes("PeerTcpConnect")
    /\ LET id == Head(to_host).id
       IN  connections[id].origin = "free" /\ ~Full /\ Set(id, Fresh("pending", NoRequest, 0))
    /\ UNCHANGED <<ready, next_conn_id, to_enclave>>

PeerConnectRefused ==
    /\ Takes("PeerTcpConnect")
    /\ SayClose(Head(to_host).id)
    /\ UNCHANGED <<ready, connections, next_conn_id>>

drain_enclave_output ==
    \/ DataReady \/ WriteCredit \/ ReadControl \/ write_to_socket \/ close_from_enclave
    \/ ConnectDropped \/ ConnectStarts \/ ConnectedAtOnce \/ ConnectRefused
    \/ PeerConnectStarts \/ PeerConnectRefused

-------------------------------------------------------------------------------
(* The enclave: the ingress server for the connections it is told of, and  *)
(* the adopter's hook for those it asks for.                               *)

Hears(type) ==
    /\ to_enclave # <<>>
    /\ Head(to_enclave).type = type
    /\ Head(to_enclave).id \notin Peers
    /\ to_enclave' = Tail(to_enclave)
    /\ UNCHANGED host

\* The enclave's output; at most OutSlots messages wait in its ring.
Tell(message) ==
    /\ Len(to_host) < OutSlots
    /\ to_host' = Append(to_host, message)

\* What the enclave keeps for the reads of a connection is forgotten.
ForgetReads(id) ==
    /\ identity' = [identity EXCEPT ![id] = 0]
    /\ paused_reads' = [paused_reads EXCEPT ![id] = FALSE]
    /\ UNCHANGED revision

\* handle_message, TcpNew and LocalControlNew: a session that asks for write
\* credit, or a close when it cannot be kept.
Announced ==
    /\ Hears("TcpNew") \/ Hears("LocalControlNew")
    /\ LET id == Head(to_enclave).id
       IN  /\ ForgetReads(id)
           /\ \/ view' = [view EXCEPT ![id] = "session"] /\ Tell(About("TcpWriteCredit", id))
              \/ view' = [view EXCEPT ![id] = "left"] /\ Tell(About("TcpClose", id))
    /\ UNCHANGED <<asked, answers, writes>>

ReadIdentity ==
    /\ Hears("TcpReadIdentity")
    /\ LET m == Head(to_enclave)
       IN  identity' = IF view[m.id] = "session"
                       THEN [identity EXCEPT ![m.id] = m.generation] ELSE identity
    /\ UNCHANGED <<to_host, view, paused_reads, revision, asked, answers, writes>>

\* What the session makes of the data are the writes, pauses and closes below.
Data ==
    /\ Hears("TcpData")
    /\ UNCHANGED <<to_host, enclave>>

\* handle_message, TcpClose: a session may still send its close_notify.
Closed ==
    /\ Hears("TcpClose")
    /\ LET id == Head(to_enclave).id
       IN  /\ view' = [view EXCEPT ![id] = "none"]
           /\ ForgetReads(id)
           /\ \/ UNCHANGED <<to_host, writes>>
              \/ /\ view[id] = "session" /\ writes < MaxWrites
                 /\ Tell(About("TcpData", id)) /\ writes' = writes + 1
    /\ UNCHANGED <<asked, answers>>

Completed ==
    /\ Hears("TcpConnected") \/ Hears("TcpConnectFailed")
    /\ LET m == Head(to_enclave)
       IN  /\ answers' = [answers EXCEPT ![m.request] = @ + 1]
           /\ view' = IF m.type = "TcpConnected" THEN [view EXCEPT ![m.id] = "linked"] ELSE view
    /\ UNCHANGED <<to_host, reads, asked, writes>>

\* run_control_loop: what is about an identifier outside the ingress range
\* reaches neither the server nor the hook.
Discarded ==
    /\ to_enclave # <<>>
    /\ Head(to_enclave).id \in Peers
    /\ to_enclave' = Tail(to_enclave)
    /\ UNCHANGED <<host, to_host, enclave>>

handle_message == Announced \/ ReadIdentity \/ Data \/ Closed \/ Completed \/ Discarded

\* send_to_proxy: output of a session, or of a link, connected or not.  Output
\* beyond a session's window is replaced by a close, and the session stays.
send_to_proxy(id) ==
    /\ writes < MaxWrites
    /\ writes' = writes + 1
    /\ \/ view[id] \in {"session", "linked", "connecting"} /\ Tell(About("TcpData", id))
       \/ view[id] = "session" /\ Tell(About("TcpClose", id))
    /\ UNCHANGED <<host, to_enclave, view, reads, asked, answers>>

\* dispatch_requests: a request to be deferred has no channel binder, no nonce
\* or no slot.  The session goes without a close; handle_tcp_data forgets its
\* reads, progress_output does not.
SessionDropped(id) ==
    /\ view[id] = "session"
    /\ view' = [view EXCEPT ![id] = "dropped"]
    /\ ForgetReads(id) \/ UNCHANGED reads
    /\ UNCHANGED <<host, to_enclave, to_host, asked, answers, writes>>

\* close_deferred_transport: the enclave gives the connection up.
close_deferred_transport(id) ==
    /\ view[id] \in {"session", "linked", "connecting"}
    /\ view' = [view EXCEPT ![id] = "left"]
    /\ ForgetReads(id)
    /\ Tell(About("TcpClose", id))
    /\ UNCHANGED <<host, to_enclave, asked, answers, writes>>

\* stream_read_control: pause or resume the reads of an identified connection.
stream_read_control(id) ==
    /\ view[id] = "session" /\ identity[id] # 0
    /\ revision < MaxControls
    /\ revision' = revision + 1
    /\ paused_reads' = [paused_reads EXCEPT ![id] = ~@]
    /\ Tell(Control(id, identity[id], revision', paused_reads'[id]))
    /\ UNCHANGED <<host, to_enclave, view, identity, asked, answers, writes>>

\* The hook asks for an outbound connection, by request, or by identifier and
\* then once for each.
Connect(r, e) ==
    /\ asked[r] = "no"
    /\ asked' = [asked EXCEPT ![r] = e]
    /\ Tell(Asking(r, e))
    /\ UNCHANGED <<host, to_enclave, view, reads, answers, writes>>

PeerConnect(id) ==
    /\ view[id] = "none"
    /\ view' = [view EXCEPT ![id] = "connecting"]
    /\ Tell(About("PeerTcpConnect", id))
    /\ UNCHANGED <<host, to_enclave, reads, asked, answers, writes>>

-------------------------------------------------------------------------------
Poll(id) == OutboundConnects(id) \/ OutboundFails(id) \/ PeerConnects(id) \/ PeerFails(id)
Flush(id) == (\E n \in 1..MAX_PENDING_WRITE : SocketTakes(id, n)) \/ WriteFails(id)

Next ==
    \/ drain_enclave_output \/ handle_message
    \/ \E id \in Ids : accept_connections(id) \/ accept_local_control_connections(id)
    \/ \E id \in Conns :
        \/ ReadData(id) \/ PeerCloses(id) \/ reap_idle_connections(id)
        \/ Flush(id) \/ Poll(id)
        \/ send_to_proxy(id) \/ SessionDropped(id) \/ close_deferred_transport(id)
        \/ stream_read_control(id)
    \/ \E r \in Requests, e \in Endpoints : Connect(r, e)
    \/ \E id \in Peers : PeerConnect(id)

Spec == Init /\ [][Next]_vars

\* Both loops keep taking messages, a peer reads what is written to it, and a
\* connect that does not end is reaped (the idle scan, or CONNECT_TIMEOUT).
Fairness ==
    /\ WF_vars(drain_enclave_output)
    /\ WF_vars(handle_message)
    /\ \A id \in Conns : WF_vars(Flush(id))
    /\ \A id \in Ids :
        WF_vars(connections[id].origin = "connecting" /\ reap_idle_connections(id))
    /\ \A id \in Peers : SF_vars(PeerConnects(id) \/ PeerFails(id))

LiveSpec == Spec /\ Fairness

-------------------------------------------------------------------------------
(* Properties. *)

\* Every variable stays in its type.
TypeOK ==
    /\ ready \in BOOLEAN
    /\ connections \in [Conns -> Connection]
    /\ next_conn_id \in Ids
    /\ generation \in 0..MaxGenerations
    /\ view \in [Conns -> Views]
    /\ identity \in [Conns -> 0..MaxGenerations]
    /\ paused_reads \in [Conns -> BOOLEAN]
    /\ revision \in 0..MaxControls
    /\ asked \in [Requests -> Endpoints \cup {"no"}]
    /\ answers \in [Requests -> Nat]
    /\ writes \in 0..MaxWrites

\* Accepted connections, requested ones and peer connects in progress, which
\* two tables and four handlers keep, together never exceed MAX_CONNS.
WithinCap == Cardinality(Tracked) <= MAX_CONNS

Announces(m) == m.type \in {"TcpNew", "LocalControlNew", "TcpConnected", "PeerTcpConnected"}
Pending(id) == SelectSeq(to_enclave, LAMBDA m : m.id = id)

\* What the enclave is told about a connection it does not hold starts with an
\* announcement, whichever of accept, connect, read, write, reap and close
\* raced; after a close nothing follows but a new announcement.
AnnouncedFirst ==
    \A id \in Conns :
        LET p == Pending(id)
        IN  /\ p # <<>> /\ view[id] = "none" => Announces(Head(p))
            /\ \A k \in 1..(Len(p) - 1) : p[k].type = "TcpClose" => Announces(p[k + 1])

\* A read control never reaches another connection under the same identifier:
\* once none is on its way, a connection that both sides hold is paused
\* exactly when the enclave has paused it.
PausedAsAsked ==
    \A id \in Ids :
        /\ view[id] = "session" /\ Open(id)
        /\ identity[id] # 0 /\ identity[id] = connections[id].generation
        /\ \A k \in 1..Len(to_host) : to_host[k].type = "TcpReadControl" =>
               to_host[k].generation # identity[id]
        => connections[id].paused = paused_reads[id]

Count(s, type, r) == Len(SelectSeq(s, LAMBDA m : m.type = type /\ m.request = r))

\* While identifiers are not used again, an outbound request with an endpoint
\* is in exactly one place: on its way to the proxy, connecting, on its way
\* back, or answered; no outcome of the connect, the reaper or the cap loses or
\* doubles it.  A request without an endpoint never gets beyond the proxy.
AnsweredOnce ==
    \A r \in Requests :
        LET waiting == Count(to_host, "TcpConnect", r)
            begun == Cardinality({id \in Ids : connections[id].request = r})
                     + Count(to_enclave, "TcpConnected", r)
                     + Count(to_enclave, "TcpConnectFailed", r) + answers[r]
        IN  /\ asked[r] = "named" => waiting + begun = 1
            /\ asked[r] = "empty" => begun = 0

Waits(s, id, types) == \E k \in 1..Len(s) : s[k].id = id /\ s[k].type \in types

\* While identifiers are not used again, a connection the enclave holds is in
\* the proxy's table or its close is on the way.
HeldByBoth ==
    \A id \in Conns : view[id] \in {"session", "linked"} =>
        \/ Open(id)
        \/ Waits(to_enclave, id, {"TcpClose"})

\* Every outbound request with an endpoint is answered, and every peer connect
\* ends in the news of a connection, a close, or the enclave's own close.
ConnectsAnswered ==
    /\ \A r \in Requests : asked[r] = "named" ~> answers[r] > 0
    /\ \A id \in Peers :
        Waits(to_host, id, {"PeerTcpConnect"})
          ~> (Waits(to_enclave, id, {"PeerTcpConnected", "TcpClose"}) \/ view[id] = "left")

\* A connection the enclave has left with a close leaves the proxy's table,
\* whatever was still to be written.  The socket of a dropped session is not
\* in this: it lives until its peer closes or falls silent, or until a report
\* of written bytes makes the enclave send the close (BothForget of
\* WriteCredit).
SocketsReturned ==
    \A id \in Conns : view[id] = "left" ~> connections[id].origin = "free"
===============================================================================
