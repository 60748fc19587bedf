# Verification of Enclave OS (mini)

TLA+ models of the operating system in this repository: what runs inside the
SGX enclave, what runs on the host, and the shared memory between them. Each
module is written from the source; TLC checks it on small instances and TLAPS
proves the theorems of the `*_proofs` modules for every value of the constants.

- [The system](#the-system)
- [Modules and runs](#modules-and-runs)
- [What is proved](#what-is-proved)
- [Bounds, fairness and what the models leave out](#bounds-fairness-and-what-the-models-leave-out)
- [Disagreements with the code's own words](#disagreements-with-the-codes-own-words)
- [Inventory](#inventory)
- [Plan](#plan)

Run a model with `tlc -config X.cfg M` and check a proof with `tlapm M.tla`, in
this directory. `PROJECT.json` lists every run with its properties, the source
lines of every definition, the hazards, the mutants and the theorems.

## The system

A host process loads one enclave and enters it twice: the *control* ECALL
(`ecall_run`) serves the network, the *execution* ECALL (`run_execution_worker`)
runs the adopter's work. They talk to the host only through six single-producer
single-consumer rings in untrusted memory:

```
            enclave                                    host
  control   RpcClient  ── requests / responses ──  control dispatcher ─┐ storage,
  execution RpcClient  ── requests / responses ──  execution dispatcher┘ quotes, time
  RaTlsServer          ── data channel ─────────   TcpProxy ── sockets
```

- **Rings** (`common/src/queue.rs`) carry length-prefixed frames. State: two
  positions and the bytes. Hard: both sides copy through raw pointers at the same
  time, positions and frames wrap.
- **RPC** (`enclave/src/rpc_client.rs`, `host/src/dispatcher.rs`) gives each role
  one client, used by several enclave threads, by blocking calls, by durable puts
  and by polled operations that may be abandoned. Hard: late responses, full
  rings, a reservation taken without a lock.
- **Wake signals** (`host/src/dispatcher_wake.rs`) put idle dispatchers and a
  waiting worker to sleep. Hard: the gap between a test and the sleep after it.
- **Data channel** (`host/src/tcp_proxy.rs`, `enclave/src/ratls/server.rs`)
  multiplexes all sockets. Hard: two tables of connections that are kept in step by
  messages only, limits on every buffer, credit in both directions.
- **Lifecycle** (`common/src/core_phase.rs`, `enclave/src/lib.rs`,
  `host/src/main.rs`): start, failure and stop, seen by three threads.
- **Above them**: RA-TLS sessions with deferred and streamed requests, the sealed
  configuration, the allocation pool, and the modules of `crates/` (Merkle store,
  key-value store, vault, FIDO2, egress, WASM). These are not modelled yet; see the
  [inventory](#inventory).

## Modules and runs

Names follow the source. A definition whose comment says *mutant* is a plausible
bug in the definition after it; no specification uses it.

### `SpscQueue`, `MessageQueue`: the ring

A step is what one side does between two accesses to shared memory: the load of
the other's position, the copy of the length, the copy of the payload, the store
of its own position. `try_send`, `send_bounded` and the three receive operations
are all there, with the checks that refuse a frame. `MessageQueue` is a FIFO of
whole messages.

`spsc_ring` (170,125 states) takes a 12-byte ring whose positions wrap at 24. No
byte is written while it is read (`NoSharedByte`), published frames stay intact
(`FramesIntact`), the ring implements `MessageQueue`, and `send_bounded` returns
when the consumer polls, for a frame as large as the ring too. The positions are
taken modulo `PosMod`, a multiple of the capacity as 2^64 is. Payloads of 0, 1 and
8 bytes make frames of 4, 5 and 12, which put the end of the ring at each byte of a
frame; one of 9 bytes is refused.

### `DispatcherWake`: retained notifications

Two dispatcher loops, a synchronous caller, the execution worker, `main` and a
proxy that fails. A condition variable forgets a notification nobody waits for;
the per-role bits and the order of publication and notification must make up for
it. `NothingSleptThrough` says that they do, for requests, shutdown, responses and
cancellation. `WaitsEnd` and `ShutdownEnds` say that calls return, the parked worker
is released without its timeout, both dispatchers stop and the `Shutdown` call is
answered. Run `dispatcher_wake` checks them on 139,996 states. `ParkingEnds` states
two exceptions, both of which leave a parked worker to its timeout: a proxy that
fails raises the flag and wakes the dispatchers but does not cancel a parked
response wait, and `publish` drops a response that is too large or finds its ring
full, after which nothing is outstanding. Threads may return from the enclave and
stop, so deadlock is not checked.

### `RpcExchange`: one client, many threads

Ids are drawn and the client reserved in two steps; blocking and durable
operations hold a mutex, polled ones do not. The dispatcher takes one request at
a time. It drops a polled response that finds its ring full or that `publish`
refuses for its size, so the model lets it drop any; such an operation ends by a late
frame of another one, or by its owner's abandonment (`OperationEnds`). `MaxId` stands
for `u64::MAX`: the runs include a counter that runs out. Legacy frames on the
execution ring are answered by the code but sent by no one, and are left out.

| run | states | shows |
|---|---|---|
| `rpc_exchange` | 97,238 | three threads and one-frame rings full of abandoned traffic: one owner of the rings, no response is taken twice or for another operation, unexpected responses only after an abandonment, and every reserved operation ends |
| `rpc_exchange_control` | 18,977 | the control client, with synchronous and durable callers only, refuses nobody |

### `WriteCredit`: output of one connection

Bytes are positions in the output. The enclave's window, the host's buffer, the
quanta it reports and the close that reports the rest. `NoCreditDeadlock` is the
claim in the comment on `WRITE_CREDIT_QUANTUM`; `NeverOverflows` that the window
keeps the host's buffer within its cap; `UncountedIgnored` that the one output
sent outside the window, the close_notify after a `TcpClose`, finds no connection.
`CreditReturns` says that a starved response goes on, and `BothForget` that neither
side keeps a connection the other has closed. One path tells nobody:
`dispatch_requests` refuses a request it cannot prepare (no channel binder, no nonce
left, no room for the owner) and its callers drop session and window without a close.
The socket then lives until its peer or the host ends it, or until the next credit,
which finds no window and is answered with a close; `BothForget` says exactly that of
a dropped session. Run `write_credit` (29,746 states) checks all of them; a connection
may end for good, so it does not check deadlock.

### `TcpProxy`: the connection tables

The proxy's table (`connections` and `pending_connects`), the enclave's view of it,
and the messages between them. Each loop of the proxy over its table is a family of
actions, one per connection. That lets the enclave act between two connections of
one loop, which it really does, and lets the proxy visit them in any order, which
covers the hash map's order. A socket is what it may answer next.

| run | states | shows |
|---|---|---|
| `tcp_proxy` | 1,282,563 | the enclave hears of a connection first by its announcement and last by its close (`AnnouncedFirst`); an outbound request with an endpoint is in exactly one place until answered (`AnsweredOnce`); accepted, requested and peer connections together never exceed the cap (`WithinCap`) |
| `tcp_proxy_wrap` | 652,625 | identifiers used again: the counter stays in the ingress range (`TypeOK`), and a read control never applies to the next connection with the identifier (`PausedAsAsked`) |
| `tcp_proxy_live` | 111,521 | what the enclave holds the proxy holds, or a close is on its way (`HeldByBoth`); requests and peer connects are answered; a connection the enclave has left with a close gives back its socket |

Three paths of the code end in silence, and the properties say so:

- `begin_outbound_connection` drops a `TcpConnect` that does not decode. The encoder
  makes one for an empty endpoint, which the decoder refuses. `AnsweredOnce` and
  `ConnectsAnswered` are about requests with an endpoint, and `AnsweredOnce` adds that
  the others are never begun. Frames the encoder cannot make are not modelled.
- A session that `dispatch_requests` drops sends no close (`SessionDropped`).
  `SocketsReturned` is about connections left with a close; `BothForget` of
  `WriteCredit` says what becomes of the others.
- `run_control_loop` discards what concerns identifiers outside the ingress range, so
  the enclave never hears how a peer connect ended (`Discarded`). The peer half of
  `ConnectsAnswered` is therefore about the message the proxy sends. No code in the
  repository's enclave asks for a peer connection; the proxy serves one all the same.

`InSlots` bounds the messages under way to the enclave. What the code does when they
are many, the gate on accepts and reads, is modelled in `ProxyBacklog`; likewise a full
backlog of the enclave is a stop of `Lifecycle` (`IngressOutputCreditBacklog`), and
`OutSlots` is a bound here.

`tcp_proxy` and `tcp_proxy_live` end when identifiers run out, so they do not check
deadlock. `AnnouncedFirst`, `AnsweredOnce` and `HeldByBoth` do not survive the reuse of
an identifier while a message for its former connection is under way: `TcpClose`,
`TcpData` and `TcpWriteCredit` carry no generation, and what protects them is that
2^30 connections pass in between.

### `ProxyBacklog`: bytes held for the enclave

`send_to_enclave` puts a message into the ring, or into a backlog of at most
`MAX_PENDING_TO_ENCLAVE` bytes, and stops the proxy when that is full. The model
keeps sizes and follows one round of the loop: flush, the enclave's requests, credits
and closes, connects and their ends, the reaper, the tick, the gate, accept, read with
its reserve, send. `read_sockets` reserves a close for every connection. Three kinds of
message are sent whatever the backlog and are not in the reserve: write credits, the
immediate answer to a request to connect (a success, a failure, or the close that
refuses a peer connect), and the reaper's `TcpConnectFailed`. `ReserveKept` says what
the reserve does give: data, announcements and closes alone always leave room for the
closes to come, so only those three can stop the proxy; a tick needs an empty backlog. `Marks` messages may be numbered; two are enough to
check the order of all (`InOrder`).

| run | states | shows |
|---|---|---|
| `proxy_backlog` | 1,768,796 | counters in range, also when the proxy stops; the reserve is kept |
| `proxy_backlog_order` | 598,457 | nothing overtakes the backlog; it drains while the proxy runs |
| `proxy_backlog_credits` | violation | the reserve does not keep the proxy from stopping; see [below](#disagreements-with-the-codes-own-words) |

The proxy may stop, so these runs do not check deadlock.

### `Lifecycle`: start and stop

The phase cell, the shutdown flag and its origin, each load, store and
compare-exchange a step. Three callers may signal shutdown at the same time; the
two ECALLs are entered in either order; `main` joins them in turn. `lifecycle`
(26,587 states) checks that the origin is known before the stop is visible, neither
ECALL returns and leaves the other in its loop, success is reported only for a
graceful origin, and a signalled shutdown or a failed initialisation lets `main` go
on. SGX may refuse either ECALL before it is entered; the other then waits until a
shutdown is signalled, from where on `HostStops` speaks; the refusal itself signals
nothing. That the first origin is never replaced, that work is done only in a running
core and that the phase only advances is proved. A shutdown between the publication of `Running` and the first test of
`run_control_loop` is reported as -24 even when its origin is graceful; the code's
documentation promises zero only, not always, for those origins.

## What is proved

All theorems are for every value of the constants that satisfies the named
assumptions in the modules; TLC evaluates the same assumptions in every run.

| theorem | says | rests on |
|---|---|---|
| `SpscQueue_proofs!SpaceCorrect` | types, capacity, `NoSharedByte` | where each side is in its copy determines the bytes it may touch; arithmetic of remainders (`ModUnique`, `ModShift`, ...) |
| `SpscQueue_proofs!ContentCorrect` | `FramesIntact`, `LengthIsRight` | the published frames, as history, tile the used part of the ring; the length field decodes to what was encoded |
| `SpscQueue_proofs!RingImplementsQueue` | `Spec => MessageQueue!Spec` | the two theorems above; a publication maps to a send, a release to a receive, everything else to a stutter |
| `DispatcherWake_proofs!NoLostWake` | `NothingSleptThrough` | between the empty read and the sleep, the bit is set or the notifier has still to act (`RequestRetained`, `ResponseRetained`) |
| `RpcExchange_proofs!EndpointsOwned` | `ExclusiveEndpoints`, `TokenStaysPending` | an id belongs to one operation at a time (`IdsDistinct`), so only its owner clears a reservation |
| `WriteCredit_proofs!CreditSound` | `NeverOverflows`, `CreditsAccepted`, `UncountedIgnored`, `NoCreditDeadlock` | acknowledged <= reported <= written <= received <= sent, and the last message of each kind carries the newest counter (`DataArrives`, `CreditsArrive`) |
| `Lifecycle_proofs!LifecycleSafe` | the state properties of `lifecycle`, `WorkOnlyWhileRunning` | what each thread may rely on at each of its steps (`ControlKnows`, `WorkerKnows`, `SignalsInOrder`, `ReturnKnows`) |
| `Lifecycle_proofs!FirstOriginWins`, `PhaseOnlyAdvances` | `OriginKept`, `PhaseAdvances` | single steps |

The invariants that are checked are not inductive as they stand. `NoLostRequest`,
for example, speaks of a dispatcher that sleeps; whether it may fall asleep is
decided a step earlier, so the invariant must cover the dispatcher that is about
to. The strengthened invariants are `IndInv` in each module (`Inv` parts in
`SpscQueue_proofs`), and were model-checked before they were proved.

Only model-checked: all liveness properties; `AnsweredOnce` and
`StaleOnlyAfterAbandon` of `RpcExchange`; everything in `TcpProxy` and
`ProxyBacklog`. Liveness under fairness is outside the prover's reach.

## Bounds, fairness and what the models leave out

*Bounds.* Each is a constant. Rings of one or two frames are enough to be full, to
be empty, and to hold a stale frame before a fresh one. Two connections meet a cap
of two; three identifiers make a counter go around it. Two or three threads give an
operation a predecessor and a competitor. `MaxSent`, `MaxId`, `MaxWrites`,
`MaxControls`, `MaxGenerations`, `MaxCredits`, `MaxConnects`, `InSlots`, `OutSlots` and
`Backlog` bound counters and queues that the
code bounds by their width or by memory.

*Fairness.* Weak fairness of a thread that polls or loops: the operating system
schedules it. Strong fairness in four places: a receive, because a consumer that is refused for
its buffer comes back with one that is large enough (`SpscQueue`); the adopter's hook returns when it
finds the phase not running (`Lifecycle`); a peer connect ends, which
`CONNECT_TIMEOUT` gives (`TcpProxy`); the flush, which every round of the loop
tries while the model may take other steps of the round (`ProxyBacklog`). The
liveness properties assume that the peer of a socket reads; the code does not force it to,
and a closing connection whose peer sends but never reads is not reaped, because
reads refresh its last activity.

*Left out.* Names, addresses, contents of messages, logging and metrics. Memory
orderings weaker than those of the code's Acquire and Release pairs are not
explored: a step of the models is atomic and seen by all. The enclave's output is
lossless in `TcpProxy`; a failed `queue_to_proxy` stops the enclave. The peer
listener is left out: `run_control_loop` answers each of its connections with a close.
`cancellation_revision` and the cancellation datagrams of `dispatcher_wake.rs` serve
the readiness probes and are left out with them.

## Disagreements with the code's own words

`read_sockets` says: "Reserve all possible close headers first. Debit each payload
before reading another socket, so a full ring cannot overflow the shared backlog."
(`host/src/tcp_proxy.rs:784`.) The reserve holds the closes, `MAX_CONNS` times five
bytes. But `flush_socket_writes` runs whatever the backlog and reports write
credits, 13 bytes each and up to eight per connection while the enclave does not
read. After a round that filled the backlog up to the reserve, 308 credits exceed
`MAX_PENDING_TO_ENCLAVE`, and `send_to_enclave` stops the proxy. Run
`proxy_backlog_credits` shows it with two connections.

## Inventory

What the repository has, and what is hard about it. `PROJECT.json` has the same
list with all files.

| part | state | operations | hard behaviours | properties | modelled by |
|---|---|---|---|---|---|
| rings | positions, bytes | send, receive | concurrent copies, wrap | FIFO of whole messages | `SpscQueue` |
| wake signals | bits, flags | notify, wait, cancel, shutdown | lost wake-ups | none lost, all stop | `DispatcherWake`; cancellation of readiness probes planned |
| RPC | counter, reservation, rings | call, put, try, poll, abandon | late and dropped responses | one owner, right answer, ends | `RpcExchange` |
| RPC codec, batches | none | encode, decode | limits, partial batches | round trip | planned |
| write credit | window, buffer, counters | send, write, credit, close | deadlock below a quantum | no overflow, no deadlock | `WriteCredit` |
| proxy | tables, identifiers, backlog | accept, connect, read, write, reap, close | crossing closes, reuse, limits | both sides agree, order, progress | `TcpProxy`, `ProxyBacklog` |
| lifecycle | phase, flag, origin | start, fail, signal, stop | three racing threads | classified, nobody left behind | `Lifecycle` |
| deferred ingress | owners, tokens | defer, complete, cancel, drain | completion after close or reuse | each request answered once | planned |
| stream ingress | stages, receivers, credit | feed, take, finish, cancel | pause against input | bounded, none lost | planned |
| control loop | budgets, cursors | one turn | starvation | every source served | start and stop in `Lifecycle` |
| TLS session | buffers, response | input, step, output | framing, backpressure | response whole or closed | planned |
| enclave output | backlog | push, flush | limits | order, failure stops | planned |
| certificates | cached configurations | issue, renew, invalidate | stale configuration | no expired leaf served | planned |
| sealed configuration | file, keys | load, regenerate, replace | crash between steps | identity survives restart | planned |
| allocation pool | reserved bytes, escrow | reserve, split, return | threads, failure in between | never over, all returned | planned |
| host storage, sealed store | map on disk | get, put, batch | crash, partial batch | durable when acknowledged | put in `RpcExchange` |
| Merkle store | nodes, roots, cache | put, commit, prune, fork, prove | snapshots against pruning | reachable nodes kept, proofs right | planned |
| vault | keys, policies, approvals | create, use, approve, update | approvals against changed policy | policy at use | planned |
| FIDO2 | challenges, sessions | begin, complete | reuse, expiry | once only | planned |
| egress | exchange, credentials | connect, step, renew | timeouts, late answers | ends once | planned |
| WASM applications | registry, keys | load, unload, call | reload during use | registry matches store | planned |
| session relay | counters, sessions | bootstrap, open, seal | replay, expiry | counters never reused | planned |
| readiness | probe | poll, cancel | cancel against completion | one outcome | planned |
| attestation, JSON, wire types, primitives, WASI, tools | none or one call | | pure data or external | | not modelled |

## Plan

1. *Ingress*: `DeferredIngress` and `StreamIngress` with cancellation and reuse of
   identifiers, composed with the enclave half of `TcpProxy`; an abstract
   specification "each accepted request is answered at most once, and exactly once
   on a connection that stays" which the detailed one implements. Then the turns of
   the control loop and its budgets, the TLS session and the output backlog.
2. *Memory*: `AllocationPool` with escrow and several threads; refinement of a
   counter that never exceeds its limit.
3. *Persistence*: `SealedConfig` and host storage with crashes and restarts
   between the steps; the Merkle store over an untrusted map, with pruning and
   snapshots, proofs checked against a reference map.
4. *Modules*: vault policies and approvals, FIDO2 challenges, the egress exchange,
   the WASM registry, the session relay.
5. *Theorems*: `AnsweredOnce` of `RpcExchange`; the order and table invariants of
   `TcpProxy` (`AnnouncedFirst`, `HeldByBoth`) for any number of connections;
   `InOrder` and the byte bounds of `ProxyBacklog`; then the invariants of the new
   modules, and the refinement of the ingress.
