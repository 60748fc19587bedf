---------------------------- MODULE DispatcherWake ----------------------------
(***************************************************************************)
(* The retained wake signals of host/src/dispatcher_wake.rs and the        *)
(* threads that use them: the two dispatcher loops of host/src/dispatcher, *)
(* the enclave's control caller (a synchronous RpcClient call), its        *)
(* execution worker (a polled operation that parks between polls), the     *)
(* host's main thread and its TCP proxy, which both may order a shutdown.  *)
(*                                                                         *)
(* The rings are sequences here (SpscQueue shows that they are); a request *)
(* is the Shutdown method or any other one.  A condition variable forgets  *)
(* a notification nobody waits for: notify_all moves the threads that are  *)
(* asleep back to the test of their predicate, and nothing else.           *)
(***************************************************************************)
EXTENDS Naturals, Sequences

CONSTANTS
  RequestSlots,    \* requests a ring holds
  ResponseSlots    \* responses a ring holds

ASSUME SlotsAssumption ==
  RequestSlots \in Nat \ {0} /\ ResponseSlots \in Nat \ {0}

Roles == {"control", "execution"}

(* Shutdown is a legacy method: honest_role_allows_method keeps it from    *)
(* polled operations.  The execution dispatcher would take legacy frames   *)
(* too; no code sends one on that ring, whose client the execution worker  *)
(* only polls.                                                             *)
Kinds(r) == IF r = "control" THEN {"work", "stop"} ELSE {"work"}

(* The threads that may call shutdown(): the dispatcher of that method and *)
(* main.                                                                   *)
Actors == {"control", "main"}

VARIABLES
  requests,    \* requests[r]: the enc_to_host ring of role r
  responses,   \* responses[r]: how many frames its host_to_enc ring holds
  pending,     \* pending[r]: retained request notification
  hint,        \* responses.0[r]: retained response notification
  cancelled,   \* responses.1: no response wait may go on
  shutdown,    \* the flag the dispatchers and the proxy poll
  dispatcher,  \* dispatcher[r]: where its loop is
  caller,      \* caller[r]: where the enclave thread using the role is
  stage,       \* stage[a]: the next step of a's call of shutdown, 0 if none
  proxy        \* the TCP proxy, which fails closed when its backlog is full

vars == <<requests, responses, pending, hint, cancelled, shutdown, dispatcher,
          caller, stage, proxy>>
-----------------------------------------------------------------------------
Init ==
  /\ requests = [r \in Roles |-> <<>>] /\ responses = [r \in Roles |-> 0]
  /\ pending = [r \in Roles |-> FALSE] /\ hint = [r \in Roles |-> FALSE]
  /\ cancelled = FALSE /\ shutdown = FALSE
  /\ dispatcher = [r \in Roles |-> "check"]
  /\ caller = [r \in Roles |-> "idle"]
  /\ stage = [a \in Actors |-> 0]
  /\ proxy = "running"
-----------------------------------------------------------------------------
(* The wake signals. *)

(* Every dispatcher asleep on the condition variable tests again. *)
WakeDispatchers ==
  dispatcher' = [r \in Roles |-> IF dispatcher[r] = "asleep" THEN "wait"
                                                             ELSE dispatcher[r]]

notify == pending' = [r \in Roles |-> TRUE] /\ WakeDispatchers

(* The same for the execution worker, the only caller that parks. *)
Unpark(c) == [c EXCEPT !["execution"] = IF @ = "parked" THEN "waiting" ELSE @]

(* Mutant: clears the signals of both roles. *)
WaitClearsAll(r) ==
  /\ dispatcher[r] = "wait"
  /\ IF pending[r] \/ shutdown
     THEN /\ pending' = [q \in Roles |-> FALSE]
          /\ dispatcher' = [dispatcher EXCEPT ![r] = "check"]
     ELSE /\ dispatcher' = [dispatcher EXCEPT ![r] = "asleep"]
          /\ UNCHANGED pending
  /\ UNCHANGED <<requests, responses, hint, cancelled, shutdown, caller,
                 stage, proxy>>

(* The predicate is tested under the mutex notify takes. *)
wait(r) ==
  /\ dispatcher[r] = "wait"
  /\ IF pending[r] \/ shutdown
     THEN /\ pending' = [pending EXCEPT ![r] = FALSE]
          /\ dispatcher' = [dispatcher EXCEPT ![r] = "check"]
     ELSE /\ dispatcher' = [dispatcher EXCEPT ![r] = "asleep"]
          /\ UNCHANGED pending
  /\ UNCHANGED <<requests, responses, hint, cancelled, shutdown, caller,
                 stage, proxy>>

SpuriousWake(r) ==
  /\ dispatcher[r] = "asleep"
  /\ dispatcher' = [dispatcher EXCEPT ![r] = "wait"]
  /\ UNCHANGED <<requests, responses, pending, hint, cancelled, shutdown,
                 caller, stage, proxy>>

(* ocall_wait_execution_response: -1 becomes WaitUnavailable, on which the *)
(* worker abandons its operation; 0 consumes the hint and lets it poll     *)
(* again.                                                                  *)
wait_response ==
  /\ caller["execution"] = "waiting"
  /\ caller' = [caller EXCEPT !["execution"] =
                  IF cancelled THEN "idle"
                  ELSE IF hint["execution"] THEN "poll" ELSE "parked"]
  /\ hint' = [hint EXCEPT !["execution"] = @ /\ cancelled]
  /\ UNCHANGED <<requests, responses, pending, cancelled, shutdown,
                 dispatcher, stage, proxy>>

(* The interval is over: 1, and the worker polls again. *)
WaitTimeout ==
  /\ caller["execution"] = "parked"
  /\ caller' = [caller EXCEPT !["execution"] = "poll"]
  /\ UNCHANGED <<requests, responses, pending, hint, cancelled, shutdown,
                 dispatcher, stage, proxy>>
-----------------------------------------------------------------------------
(* shutdown(), a step at a time; its caller does nothing else meanwhile. *)

ShutdownCancel(a) ==
  /\ stage[a] = 1
  /\ cancelled' = TRUE
  /\ caller' = Unpark(caller)
  /\ stage' = [stage EXCEPT ![a] = 2]
  /\ UNCHANGED <<requests, responses, pending, hint, shutdown, dispatcher,
                 proxy>>

(* The revision and the datagram it also sends are for net/readiness.rs. *)
notify_execution_cancel ==
  /\ hint' = [hint EXCEPT !["execution"] = TRUE]
  /\ caller' = Unpark(caller)

ShutdownHint(a) ==
  /\ stage[a] = 2
  /\ notify_execution_cancel
  /\ stage' = [stage EXCEPT ![a] = 3]
  /\ UNCHANGED <<requests, responses, pending, cancelled, shutdown,
                 dispatcher, proxy>>

ShutdownStore(a) ==
  /\ stage[a] = 3
  /\ shutdown' = TRUE
  /\ stage' = [stage EXCEPT ![a] = 4]
  /\ UNCHANGED <<requests, responses, pending, hint, cancelled, dispatcher,
                 caller, proxy>>

(* Mutant: the Shutdown method ends its dispatcher's turn. *)
ShutdownNoResponse(a) ==
  /\ stage[a] = 4
  /\ pending' = [r \in Roles |-> TRUE]
  /\ stage' = [stage EXCEPT ![a] = 0]
  /\ dispatcher' = [r \in Roles |-> IF r = a THEN "check"
                                    ELSE IF dispatcher[r] = "asleep" THEN "wait"
                                    ELSE dispatcher[r]]
  /\ UNCHANGED <<requests, responses, hint, cancelled, shutdown, caller,
                 proxy>>

(* The dispatcher that ran the Shutdown method goes on to its response. *)
ShutdownNotify(a) ==
  /\ stage[a] = 4
  /\ pending' = [r \in Roles |-> TRUE]
  /\ stage' = [stage EXCEPT ![a] = 0]
  /\ dispatcher' = [r \in Roles |-> IF r = a THEN "publish"
                                    ELSE IF dispatcher[r] = "asleep" THEN "wait"
                                    ELSE dispatcher[r]]
  /\ UNCHANGED <<requests, responses, hint, cancelled, shutdown, caller,
                 proxy>>

(* main, once both long-lived ECALLs have returned. *)
MainShutdown ==
  /\ stage["main"] = 0 /\ \A r \in Roles : caller[r] = "returned"
  /\ stage' = [stage EXCEPT !["main"] = 1]
  /\ caller' = [r \in Roles |-> "joined"]
  /\ UNCHANGED <<requests, responses, pending, hint, cancelled, shutdown,
                 dispatcher, proxy>>

(* send_to_enclave with a full backlog: the flag, then the notification. *)
ProxyFails ==
  /\ proxy = "running"
  /\ shutdown' = TRUE /\ proxy' = "failing"
  /\ UNCHANGED <<requests, responses, pending, hint, cancelled, dispatcher,
                 caller, stage>>

ProxyNotifies ==
  /\ proxy = "failing"
  /\ notify
  /\ proxy' = "failed"
  /\ UNCHANGED <<requests, responses, hint, cancelled, shutdown, caller,
                 stage>>
-----------------------------------------------------------------------------
(* RpcDispatcher::run *)

CheckShutdown(r) ==
  /\ dispatcher[r] = "check"
  /\ dispatcher' = [dispatcher EXCEPT ![r] = IF shutdown THEN "stopped"
                                                         ELSE "receive"]
  /\ UNCHANGED <<requests, responses, pending, hint, cancelled, shutdown,
                 caller, stage, proxy>>

ReceiveEmpty(r) ==
  /\ dispatcher[r] = "receive" /\ requests[r] = <<>>
  /\ dispatcher' = [dispatcher EXCEPT ![r] = "wait"]
  /\ UNCHANGED <<requests, responses, pending, hint, cancelled, shutdown,
                 caller, stage, proxy>>

(* Every request but Shutdown is handled within the step. *)
dispatch(r) ==
  /\ dispatcher[r] = "receive" /\ requests[r] # <<>>
  /\ Head(requests[r]) # "stop"
  /\ requests' = [requests EXCEPT ![r] = Tail(@)]
  /\ dispatcher' = [dispatcher EXCEPT ![r] = "publish"]
  /\ UNCHANGED <<responses, pending, hint, cancelled, shutdown, caller, stage,
                 proxy>>

DispatchShutdown ==
  /\ dispatcher["control"] = "receive" /\ requests["control"] # <<>>
  /\ Head(requests["control"]) = "stop"
  /\ requests' = [requests EXCEPT !["control"] = Tail(@)]
  /\ stage' = [stage EXCEPT !["control"] = 1]
  /\ dispatcher' = [dispatcher EXCEPT !["control"] = "stopping"]
  /\ UNCHANGED <<responses, pending, hint, cancelled, shutdown, caller, proxy>>

(* A legacy response waits for space and gives no hint. *)
PublishLegacy ==
  /\ dispatcher["control"] = "publish"
  /\ responses["control"] < ResponseSlots
  /\ responses' = [responses EXCEPT !["control"] = @ + 1]
  /\ dispatcher' = [dispatcher EXCEPT !["control"] = "check"]
  /\ UNCHANGED <<requests, pending, hint, cancelled, shutdown, caller, stage,
                 proxy>>

(* Mutant: publication without the space check. *)
PublishUnchecked ==
  /\ dispatcher["execution"] = "publish"
  /\ responses' = [responses EXCEPT !["execution"] = @ + 1]
  /\ dispatcher' = [dispatcher EXCEPT !["execution"] = "hint"]
  /\ UNCHANGED <<requests, pending, hint, cancelled, shutdown, caller, stage,
                 proxy>>

(* Mutant: the worker is left to its timeout. *)
PublishWithoutHint ==
  /\ dispatcher["execution"] = "publish"
  /\ responses' = [responses EXCEPT !["execution"] =
                     IF @ < ResponseSlots THEN @ + 1 ELSE @]
  /\ dispatcher' = [dispatcher EXCEPT !["execution"] = "check"]
  /\ UNCHANGED <<requests, pending, hint, cancelled, shutdown, caller, stage,
                 proxy>>

(* An Honest response that fits is published and the hint follows.  It is  *)
(* dropped, without a hint, by a full ring and by any ring when it is      *)
(* longer than a frame may be.                                             *)
publish ==
  /\ dispatcher["execution"] = "publish"
  /\ \/ /\ responses["execution"] < ResponseSlots
        /\ responses' = [responses EXCEPT !["execution"] = @ + 1]
        /\ dispatcher' = [dispatcher EXCEPT !["execution"] = "hint"]
     \/ /\ dispatcher' = [dispatcher EXCEPT !["execution"] = "check"]
        /\ UNCHANGED responses
  /\ UNCHANGED <<requests, pending, hint, cancelled, shutdown, caller, stage,
                 proxy>>

notify_response ==
  /\ dispatcher["execution"] = "hint"
  /\ hint' = [hint EXCEPT !["execution"] = TRUE]
  /\ caller' = Unpark(caller)
  /\ dispatcher' = [dispatcher EXCEPT !["execution"] = "check"]
  /\ UNCHANGED <<requests, responses, pending, cancelled, shutdown, stage,
                 proxy>>
-----------------------------------------------------------------------------
(* The enclave: RpcClient's synchronous calls on the control ring and its  *)
(* polled operations on the execution ring.                                *)

Submit(r, k) ==
  /\ caller[r] = "idle" /\ Len(requests[r]) < RequestSlots
  /\ requests' = [requests EXCEPT ![r] = Append(@, k)]
  /\ caller' = [caller EXCEPT ![r] = "notify"]
  /\ UNCHANGED <<responses, pending, hint, cancelled, shutdown, dispatcher,
                 stage, proxy>>

notify_host(r) ==
  /\ caller[r] = "notify"
  /\ notify
  /\ caller' = [caller EXCEPT ![r] = IF r = "control" THEN "receive" ELSE "poll"]
  /\ UNCHANGED <<requests, responses, hint, cancelled, shutdown, stage, proxy>>

(* call spins on recv. *)
CallReceives ==
  /\ caller["control"] = "receive" /\ responses["control"] > 0
  /\ responses' = [responses EXCEPT !["control"] = @ - 1]
  /\ caller' = [caller EXCEPT !["control"] = "idle"]
  /\ UNCHANGED <<requests, pending, hint, cancelled, shutdown, dispatcher,
                 stage, proxy>>

(* A frame ends the operation, whether it is its response or an older one; *)
(* with none the worker goes on to wait_execution_rpc.                     *)
poll_execution_rpc ==
  /\ caller["execution"] = "poll"
  /\ IF responses["execution"] > 0
     THEN /\ responses' = [responses EXCEPT !["execution"] = @ - 1]
          /\ caller' = [caller EXCEPT !["execution"] = "idle"]
     ELSE /\ caller' = [caller EXCEPT !["execution"] = "waiting"]
          /\ UNCHANGED responses
  /\ UNCHANGED <<requests, pending, hint, cancelled, shutdown, dispatcher,
                 stage, proxy>>

abandon_execution_rpc ==
  /\ caller["execution"] = "poll"
  /\ caller' = [caller EXCEPT !["execution"] = "idle"]
  /\ UNCHANGED <<requests, responses, pending, hint, cancelled, shutdown,
                 dispatcher, stage, proxy>>

(* The enclave's control thread has published a fence or a stop and wakes  *)
(* the execution worker to look at it.                                     *)
ocall_notify_execution_waiter ==
  /\ caller["control"] = "idle"
  /\ notify_execution_cancel
  /\ UNCHANGED <<requests, responses, pending, cancelled, shutdown,
                 dispatcher, stage, proxy>>

(* The long-lived ECALL of the role returns to main. *)
EcallReturns(r) ==
  /\ caller[r] = "idle"
  /\ caller' = [caller EXCEPT ![r] = "returned"]
  /\ UNCHANGED <<requests, responses, pending, hint, cancelled, shutdown,
                 dispatcher, stage, proxy>>
-----------------------------------------------------------------------------
DispatcherStep(r) ==
  CheckShutdown(r) \/ ReceiveEmpty(r) \/ dispatch(r) \/ wait(r)

ShutdownStep(a) ==
  ShutdownCancel(a) \/ ShutdownHint(a) \/ ShutdownStore(a) \/ ShutdownNotify(a)

Next ==
  \/ \E r \in Roles : DispatcherStep(r) \/ SpuriousWake(r)
  \/ DispatchShutdown \/ PublishLegacy \/ publish \/ notify_response
  \/ \E a \in Actors : ShutdownStep(a)
  \/ MainShutdown \/ ProxyFails \/ ProxyNotifies
  \/ \E r \in Roles : \/ \E k \in Kinds(r) : Submit(r, k)
                      \/ notify_host(r) \/ EcallReturns(r)
  \/ CallReceives \/ poll_execution_rpc \/ abandon_execution_rpc
  \/ ocall_notify_execution_waiter
  \/ wait_response \/ WaitTimeout

Spec == Init /\ [][Next]_vars

(* Threads that can run do.  Nothing is assumed of timeouts, of spurious   *)
(* wake-ups or of what the enclave chooses to do next.                     *)
Fairness ==
  /\ \A r \in Roles : WF_vars(DispatcherStep(r)) /\ WF_vars(notify_host(r))
  /\ WF_vars(DispatchShutdown) /\ WF_vars(PublishLegacy)
  /\ WF_vars(publish) /\ WF_vars(notify_response)
  /\ \A a \in Actors : WF_vars(ShutdownStep(a))
  /\ WF_vars(ProxyNotifies)
  /\ WF_vars(CallReceives) /\ WF_vars(poll_execution_rpc)
  /\ WF_vars(wait_response)

FairSpec == Spec /\ Fairness
-----------------------------------------------------------------------------
(* Properties. *)

(* Every variable stays in its type; in particular a response is published *)
(* only into a ring that has room.                                         *)
TypeOK ==
  /\ requests \in [Roles -> Seq({"work", "stop"})]
  /\ responses \in [Roles -> 0..ResponseSlots]
  /\ pending \in [Roles -> BOOLEAN]
  /\ hint \in [Roles -> BOOLEAN]
  /\ cancelled \in BOOLEAN /\ shutdown \in BOOLEAN
  /\ dispatcher \in [Roles -> {"check", "receive", "wait", "asleep", "publish",
                               "hint", "stopping", "stopped"}]
  /\ caller \in [Roles -> {"idle", "notify", "receive", "poll", "waiting",
                           "parked", "returned", "joined"}]
  /\ stage \in [Actors -> 0..4]
  /\ proxy \in {"running", "failing", "failed"}

(* A dispatcher never sleeps on a request: whatever the order of the other *)
(* role's traffic, of its own empty read and of the enclave's publication, *)
(* the notification is still to come.                                      *)
NoLostRequest ==
  \A r \in Roles :
    dispatcher[r] = "asleep" /\ requests[r] # <<>> => caller[r] = "notify"

(* Nor does it sleep through a shutdown, whoever orders it: the one that   *)
(* stored the flag has not notified yet.                                   *)
NoLostShutdown ==
  \A r \in Roles :
    dispatcher[r] = "asleep" /\ shutdown =>
      proxy = "failing" \/ \E a \in Actors : stage[a] = 4

(* The execution worker is never parked on a response it could have: the   *)
(* hint comes after the publication and is retained.                       *)
NoLostResponse ==
  caller["execution"] = "parked" /\ responses["execution"] > 0 =>
    dispatcher["execution"] = "hint"

(* After shutdown() began nobody parks, with or without a response. *)
CancelReleases == cancelled => caller["execution"] # "parked"

(* No notification is lost between a test and the sleep after it, whoever  *)
(* sends it: no thread sleeps through what it waits for.                   *)
NothingSleptThrough ==
  NoLostRequest /\ NoLostShutdown /\ NoLostResponse /\ CancelReleases

(* A synchronous call returns, unless a shutdown stops its dispatcher. *)
CallReturns ==
  caller["control"] = "receive" ~> (caller["control"] = "idle" \/ shutdown)

(* Something is under way that can end the worker's operation. *)
Outstanding ==
  \/ requests["execution"] # <<>> \/ responses["execution"] > 0
  \/ dispatcher["execution"] \in {"publish", "hint"}

(* A parked worker is released by a response or a cancellation: timeouts   *)
(* are "solely a finite fence/cancellation boundary, not pacing".  There   *)
(* are two exceptions: a proxy that failed stops the dispatchers by the    *)
(* flag alone, and a response that was dropped leaves nothing outstanding. *)
ParkingEnds ==
  caller["execution"] = "parked" ~>
    (caller["execution"] # "parked" \/ proxy # "running" \/ ~Outstanding)

(* Whoever waits for a response that is coming gets on without the help of *)
(* a timeout.                                                              *)
WaitsEnd == CallReturns /\ ParkingEnds

(* Both dispatchers stop once the flag is up, asleep or not, and main's    *)
(* joins return.                                                           *)
ShutdownStops ==
  \A r \in Roles : shutdown ~> (dispatcher[r] = "stopped")

(* The Shutdown call itself is answered: its dispatcher publishes the      *)
(* response before it looks at the flag it has raised.                     *)
ShutdownAnswered ==
  (dispatcher["control"] = "stopping") ~> (caller["control"] = "idle")

(* A shutdown goes through, and the one who asked for it hears of it. *)
ShutdownEnds == ShutdownStops /\ ShutdownAnswered
-----------------------------------------------------------------------------
(* The inductive invariant: what holds while a dispatcher or the worker is *)
(* between the test that found nothing and its sleep.                      *)

RequestRetained ==
  \A r \in Roles :
    dispatcher[r] \in {"wait", "asleep"} /\ requests[r] # <<>> =>
      pending[r] \/ caller[r] = "notify"

SleepsUnnotified == \A r \in Roles : dispatcher[r] = "asleep" => ~pending[r]

ShutdownInHandler ==
  stage["control"] # 0 => dispatcher["control"] = "stopping"

ResponseRetained ==
  caller["execution"] \in {"waiting", "parked"} /\ responses["execution"] > 0 =>
    hint["execution"] \/ dispatcher["execution"] = "hint"

ParksUnhinted == caller["execution"] = "parked" => ~hint["execution"]

IndInv ==
  /\ TypeOK
  /\ RequestRetained /\ SleepsUnnotified
  /\ ShutdownInHandler /\ NoLostShutdown
  /\ ResponseRetained /\ ParksUnhinted /\ CancelReleases
=============================================================================
