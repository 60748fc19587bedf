------------------------------ MODULE RpcExchange ------------------------------
(***************************************************************************)
(* One RpcClient of the enclave (enclave/src/rpc_client.rs), shared by     *)
(* several threads, and the host dispatcher of its rings                   *)
(* (host/src/dispatcher.rs).                                               *)
(*                                                                         *)
(* An operation is a "call" (call, call_config, kv_get_into and            *)
(* qe_call_admitted: wait for ring space, discard the responses of others),*)
(* "durable" (kv_put_durable: refuse a full ring, end with the first       *)
(* response) or "polled" (try_execution_request, then poll_execution_rpc   *)
(* until a response comes or the operation is abandoned).  Only the first  *)
(* two take the mutex; all three reserve the client.                       *)
(***************************************************************************)
EXTENDS Naturals, Sequences

CONSTANTS
  Threads,        \* enclave threads that use this client
  KindsOf,        \* the operations each of them performs
  RequestSlots,   \* requests the enc_to_host ring holds
  ResponseSlots,  \* responses the host_to_enc ring holds
  MaxId           \* the counter's last value, u64::MAX in the code

Kinds == {"call", "durable", "polled"}

ASSUME KindsAssumption == \A t \in Threads : KindsOf[t] \subseteq Kinds
ASSUME SlotsAssumption == RequestSlots \in Nat /\ ResponseSlots \in Nat
ASSUME IdAssumption == MaxId \in Nat /\ MaxId > 0

NoThread == "none"
ASSUME NoThreadAssumption == NoThread \notin Threads

VARIABLES
  next_id,    \* NEXT_REQ_ID
  in_flight,  \* in_flight_request_id, 0 when idle
  exchange,   \* holder of the synchronous_exchange mutex
  requests,   \* enc_to_host, oldest first
  handling,   \* the request in the dispatcher, at most one
  responses,  \* host_to_enc, oldest first
  pc, kind, op, result,   \* of each thread; op is its request id
  abandons,   \* ids of the abandoned operations
  accepted    \* ids whose response was taken for its operation

thread == <<pc, kind, op, result>>
vars == <<next_id, in_flight, exchange, requests, handling, responses, thread,
          abandons, accepted>>

Init ==
  /\ next_id = 1 /\ in_flight = 0 /\ exchange = NoThread
  /\ requests = <<>> /\ handling = <<>> /\ responses = <<>>
  /\ pc = [t \in Threads |-> "idle"] /\ kind = [t \in Threads |-> "call"]
  /\ op = [t \in Threads |-> 0] /\ result = [t \in Threads |-> "none"]
  /\ abandons = {} /\ accepted = {}
-----------------------------------------------------------------------------
Begin(t, k) ==
  /\ pc[t] = "idle"
  /\ kind' = [kind EXCEPT ![t] = k]
  /\ pc' = [pc EXCEPT ![t] = IF k = "polled" THEN "id" ELSE "lock"]
  /\ result' = [result EXCEPT ![t] = "none"]
  /\ UNCHANGED <<next_id, in_flight, exchange, requests, handling, responses,
                 op, abandons, accepted>>

(* Mutant: the exchanges are not serialised. *)
LockNothing(t) ==
  /\ pc[t] = "lock"
  /\ exchange' = t
  /\ pc' = [pc EXCEPT ![t] = "id"]
  /\ UNCHANGED <<next_id, in_flight, requests, handling, responses, kind, op,
                 result, abandons, accepted>>

Lock(t) ==
  /\ pc[t] = "lock" /\ exchange = NoThread
  /\ exchange' = t
  /\ pc' = [pc EXCEPT ![t] = "id"]
  /\ UNCHANGED <<next_id, in_flight, requests, handling, responses, kind, op,
                 result, abandons, accepted>>

Unlock(t) ==
  /\ pc[t] = "unlock"
  /\ exchange' = NoThread
  /\ pc' = [pc EXCEPT ![t] = "idle"]
  /\ UNCHANGED <<next_id, in_flight, requests, handling, responses, kind, op,
                 result, abandons, accepted>>

(* An operation that ends gives the mutex back, if it has it. *)
Ended(t) == IF kind[t] = "polled" THEN "idle" ELSE "unlock"

(* Mutant: the counter is read and not advanced. *)
next_req_id_stuck(t) ==
  /\ pc[t] = "id" /\ next_id < MaxId
  /\ op' = [op EXCEPT ![t] = next_id]
  /\ pc' = [pc EXCEPT ![t] = "reserve"]
  /\ UNCHANGED <<next_id, in_flight, exchange, requests, handling, responses,
                 kind, result, abandons, accepted>>

(* Mutant: the last value is given out and the counter wraps. *)
next_req_id_wraps(t) ==
  /\ pc[t] = "id"
  /\ op' = [op EXCEPT ![t] = next_id]
  /\ next_id' = (next_id + 1) % (MaxId + 1)
  /\ pc' = [pc EXCEPT ![t] = "reserve"]
  /\ UNCHANGED <<in_flight, exchange, requests, handling, responses, kind,
                 result, abandons, accepted>>

(* fetch_update: the last value is never given out. *)
next_req_id(t) ==
  /\ pc[t] = "id" /\ next_id < MaxId
  /\ op' = [op EXCEPT ![t] = next_id]
  /\ next_id' = next_id + 1
  /\ pc' = [pc EXCEPT ![t] = "reserve"]
  /\ UNCHANGED <<in_flight, exchange, requests, handling, responses, kind,
                 result, abandons, accepted>>

OperationIdExhausted(t) ==
  /\ pc[t] = "id" /\ next_id = MaxId
  /\ pc' = [pc EXCEPT ![t] = Ended(t)]
  /\ result' = [result EXCEPT ![t] = "exhausted"]
  /\ UNCHANGED <<next_id, in_flight, exchange, requests, handling, responses,
                 kind, op, abandons, accepted>>

(* Mutant: the reservation is a plain store. *)
ReserveStore(t) ==
  /\ pc[t] = "reserve"
  /\ in_flight' = op[t]
  /\ pc' = [pc EXCEPT ![t] = "send"]
  /\ UNCHANGED <<next_id, exchange, requests, handling, responses, kind, op,
                 result, abandons, accepted>>

(* The compare-exchange, a step after the id was drawn. *)
try_reserve_request(t) ==
  /\ pc[t] = "reserve" /\ in_flight = 0
  /\ in_flight' = op[t]
  /\ pc' = [pc EXCEPT ![t] = "send"]
  /\ UNCHANGED <<next_id, exchange, requests, handling, responses, kind, op,
                 result, abandons, accepted>>

Busy(t) ==
  /\ pc[t] = "reserve" /\ in_flight # 0
  /\ pc' = [pc EXCEPT ![t] = Ended(t)]
  /\ result' = [result EXCEPT ![t] = "busy"]
  /\ UNCHANGED <<next_id, in_flight, exchange, requests, handling, responses,
                 kind, op, abandons, accepted>>

(* The frame cannot be encoded, or its buffers not be admitted. *)
RequestFails(t) ==
  /\ pc[t] = "send"
  /\ pc' = [pc EXCEPT ![t] = "release"]
  /\ result' = [result EXCEPT ![t] = "failed"]
  /\ UNCHANGED <<next_id, in_flight, exchange, requests, handling, responses,
                 kind, op, abandons, accepted>>

(* send_bounded, which waits for space, or try_send. *)
Send(t) ==
  /\ pc[t] = "send" /\ Len(requests) < RequestSlots
  /\ requests' = Append(requests, [id |-> op[t], kind |-> kind[t]])
  /\ pc' = [pc EXCEPT ![t] = "receive"]
  /\ UNCHANGED <<next_id, in_flight, exchange, handling, responses, kind, op,
                 result, abandons, accepted>>

(* try_send refused *)
QueueFull(t) ==
  /\ pc[t] = "send" /\ kind[t] # "call" /\ Len(requests) >= RequestSlots
  /\ pc' = [pc EXCEPT ![t] = "release"]
  /\ result' = [result EXCEPT ![t] = "full"]
  /\ UNCHANGED <<next_id, in_flight, exchange, requests, handling, responses,
                 kind, op, abandons, accepted>>
-----------------------------------------------------------------------------
(* Mutant: a copy that leaves the frame at the head of the ring. *)
CopyResponse == responses # <<>> /\ UNCHANGED responses

ConsumeResponse == responses # <<>> /\ responses' = Tail(responses)

(* The oldest response is the operation's own. *)
Receive(t) ==
  /\ pc[t] = "receive"
  /\ ConsumeResponse /\ Head(responses).id = op[t]
  /\ accepted' = accepted \cup {op[t]}
  /\ result' = [result EXCEPT ![t] = "ok"]
  /\ pc' = [pc EXCEPT ![t] = "release"]
  /\ UNCHANGED <<next_id, in_flight, exchange, requests, handling, kind, op,
                 abandons>>

(* A call reads on past the responses of others. *)
CallDiscards(t) ==
  /\ pc[t] = "receive" /\ kind[t] = "call"
  /\ ConsumeResponse /\ Head(responses).id # op[t]
  /\ result' = [result EXCEPT ![t] = "unexpected"]
  /\ UNCHANGED <<next_id, in_flight, exchange, requests, handling, pc, kind,
                 op, abandons, accepted>>

(* kv_put_durable and poll_execution_rpc end with it. *)
UnexpectedResponse(t) ==
  /\ pc[t] = "receive" /\ kind[t] # "call"
  /\ ConsumeResponse /\ Head(responses).id # op[t]
  /\ result' = [result EXCEPT ![t] = "unexpected"]
  /\ pc' = [pc EXCEPT ![t] = "release"]
  /\ UNCHANGED <<next_id, in_flight, exchange, requests, handling, kind, op,
                 abandons, accepted>>

release_request(t) ==
  /\ pc[t] = "release"
  /\ in_flight' = IF in_flight = op[t] THEN 0 ELSE in_flight
  /\ pc' = [pc EXCEPT ![t] = Ended(t)]
  /\ UNCHANGED <<next_id, exchange, requests, handling, responses, kind, op,
                 result, abandons, accepted>>

(* The NotPending answers of abandon_execution_rpc and poll_execution_rpc  *)
(* are what TokenStaysPending excludes.                                    *)
abandon_execution_rpc(t) ==
  /\ pc[t] = "receive" /\ kind[t] = "polled"
  /\ in_flight' = IF in_flight = op[t] THEN 0 ELSE in_flight
  /\ result' = [result EXCEPT ![t] = "abandoned"]
  /\ pc' = [pc EXCEPT ![t] = "idle"]
  /\ abandons' = abandons \cup {op[t]}
  /\ UNCHANGED <<next_id, exchange, requests, handling, responses, kind, op,
                 accepted>>
-----------------------------------------------------------------------------
(* The host: one request at a time.  A frame that does not decode gets no  *)
(* response; every frame of this client does decode.                       *)

dispatch ==
  /\ handling = <<>> /\ requests # <<>>
  /\ handling' = <<Head(requests)>>
  /\ requests' = Tail(requests)
  /\ UNCHANGED <<next_id, in_flight, exchange, responses, thread, abandons,
                 accepted>>

Respond ==
  /\ handling # <<>> /\ Len(responses) < ResponseSlots
  /\ responses' = Append(responses, Head(handling))
  /\ handling' = <<>>
  /\ UNCHANGED <<next_id, in_flight, exchange, requests, thread, abandons,
                 accepted>>

(* Mutant: a full ring drops a legacy response as well. *)
ResponseDroppedAny ==
  /\ handling # <<>>
  /\ Head(handling).kind = "polled" \/ Len(responses) >= ResponseSlots
  /\ handling' = <<>>
  /\ UNCHANGED <<next_id, in_flight, exchange, requests, responses, thread,
                 abandons, accepted>>

(* A legacy response waits for space, and one too long for the ring is     *)
(* replaced by a bare -90.  An Honest one is dropped: by a full ring, and  *)
(* by any ring when it is longer than a frame may be.                      *)
ResponseDropped ==
  /\ handling # <<>> /\ Head(handling).kind = "polled"
  /\ handling' = <<>>
  /\ UNCHANGED <<next_id, in_flight, exchange, requests, responses, thread,
                 abandons, accepted>>

Step(t) ==
  \/ Lock(t) \/ next_req_id(t) \/ OperationIdExhausted(t)
  \/ try_reserve_request(t) \/ Busy(t) \/ Send(t) \/ QueueFull(t)
  \/ Receive(t) \/ CallDiscards(t) \/ UnexpectedResponse(t)
  \/ release_request(t) \/ Unlock(t)

HostStep == dispatch \/ Respond \/ ResponseDropped

Next ==
  \/ \E t \in Threads : \/ \E k \in KindsOf[t] : Begin(t, k)
                        \/ Step(t)
                        \/ RequestFails(t) \/ abandon_execution_rpc(t)
  \/ HostStep

Spec == Init /\ [][Next]_vars

(* The threads and the dispatcher run; nothing is assumed of when an       *)
(* operation starts or is abandoned.                                       *)
FairSpec ==
  /\ Spec
  /\ \A t \in Threads : WF_vars(Step(t))
  /\ WF_vars(HostStep)
-----------------------------------------------------------------------------
Frames == requests \o handling \o responses
Frame == [id : Nat, kind : Kinds]
Owns(t) == pc[t] \in {"send", "receive", "release"}

RingTypeOK ==
  /\ requests \in Seq(Frame) /\ Len(requests) <= RequestSlots
  /\ responses \in Seq(Frame) /\ Len(responses) <= ResponseSlots
  /\ handling \in Seq(Frame) /\ Len(handling) <= 1

ClientTypeOK ==
  /\ next_id \in Nat /\ next_id > 0 /\ next_id <= MaxId
  /\ in_flight \in Nat
  /\ exchange \in Threads \cup {NoThread}
  /\ pc \in [Threads -> {"idle", "lock", "id", "reserve", "send", "receive",
                         "release", "unlock"}]
  /\ kind \in [Threads -> Kinds] /\ op \in [Threads -> Nat]
  /\ result \in [Threads -> {"none", "exhausted", "busy", "full", "ok",
                             "failed", "unexpected", "abandoned"}]
  /\ abandons \subseteq Nat /\ accepted \subseteq Nat

(* Every variable stays in its type: the rings hold what fits, and the     *)
(* counter of request ids never passes its last value.                     *)
TypeOK == ClientTypeOK /\ RingTypeOK

(* The rings have one producer and one consumer: never two threads between *)
(* reservation and release, although polled operations take no lock.       *)
ExclusiveEndpoints ==
  \A t, u \in Threads : Owns(t) /\ Owns(u) => t = u

(* The owner of a token can always poll or abandon it: no other thread's   *)
(* refused or finished request ever clears its reservation.                *)
TokenStaysPending ==
  \A t \in Threads : Owns(t) => in_flight = op[t]

(* A response taken for an operation is the only one it will ever have: no *)
(* ring holds another frame that a later operation could take for its own. *)
AnsweredOnce ==
  /\ \A i \in 1..Len(Frames) : Frames[i].id \notin accepted
  /\ \A i, j \in 1..Len(Frames) : Frames[i].id = Frames[j].id => i = j

(* "Mismatched ID - shouldn't happen in SPSC": without an abandonment      *)
(* every response found in the ring is the reader's own.                   *)
StaleOnlyAfterAbandon ==
  abandons = {} => \A t \in Threads : result[t] # "unexpected"

(* Where only synchronous operations share a client, the mutex leaves the  *)
(* reservation free for its holder and the rings empty: no caller of the   *)
(* control client is refused with -16 or -11.                              *)
SerialisedNeverRefused ==
  (\A t \in Threads : "polled" \notin KindsOf[t]) =>
    \A t \in Threads : result[t] \notin {"busy", "full"}

(* Nothing is under way on the rings that could end a polled operation. *)
Unanswered(t) ==
  kind[t] = "polled" /\ pc[t] = "receive" /\ Frames = <<>>

(* An operation that reserved the client ends.  A call returns even with   *)
(* the late responses of abandoned operations in front of its own and a    *)
(* full request ring.  A polled operation ends too, be it by the late      *)
(* response of another, unless its own response was dropped and no frame   *)
(* is left to end it: then only its owner's abandonment does.              *)
OperationEnds ==
  \A t \in Threads : pc[t] = "send" ~> (pc[t] = "idle" \/ Unanswered(t))
-----------------------------------------------------------------------------
(* The inductive invariant: an id belongs to one operation at a time, and  *)
(* only its operation clears a reservation.                                *)

Identified(t) == pc[t] = "reserve" \/ Owns(t)

IdsDistinct ==
  /\ \A t \in Threads : Identified(t) => op[t] > 0 /\ op[t] < next_id
  /\ \A t, u \in Threads : Identified(t) /\ Identified(u) /\ op[t] = op[u] =>
                             t = u

IndInv == TypeOK /\ IdsDistinct /\ TokenStaysPending
=============================================================================
