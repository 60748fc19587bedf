------------------------------- MODULE Lifecycle -------------------------------
(***************************************************************************)
(* Start and stop of the enclave: the phase cell (common/src/core_phase.rs) *)
(* and the shutdown flag and origin (enclave/src/lib.rs), shared by the    *)
(* control ECALL (ecall_run), the execution ECALL (run_execution_worker),  *)
(* a caller of ecall_shutdown on a spare TCS, and the host's main, which   *)
(* enters the first two in either order and joins them.                    *)
(*                                                                         *)
(* Each load and compare-exchange is a step. request_shutdown retries its  *)
(* compare-exchange until it takes, so it is one step.                     *)
(***************************************************************************)
EXTENDS Integers

CONSTANTS
  Codes          \* the codes the adopter passes to shutdown

ASSUME CodesAssumption == Codes \subseteq 0..255

Unclassified == 1
AdopterHook == 2
IngressExplicitHttpRequest == 3
IngressOutputCreditBacklog == 4
StateLockUnavailable == 5
UnexpectedExecutionHookReturn == 6
ExternalEcall == 7

(* What the adopter's hooks can signal: signal_shutdown without an origin,  *)
(* and signal_shutdown_with_adopter_code, where 0 is "retained as an        *)
(* unclassified origin".                                                    *)
AdopterCodes == {Unclassified} \cup {256 + c : c \in Codes \ {0}}
Origins == 1..7 \cup AdopterCodes

Callers == {"control", "worker", "external"}

VARIABLES
  phase,      \* CORE_PHASE
  SHUTDOWN,   \* "set" once shutdown is signalled
  origin,     \* SHUTDOWN_ORIGIN, 0 when there is none
  signal,     \* per caller: its next step in signal_shutdown_with_origin
  by,         \* per caller: the origin it signals
  control,    \* where the control ECALL is
  worker,     \* where the execution ECALL is
  control_ret, execution_ret,
  main        \* where the host's main is

shared == <<phase, SHUTDOWN, origin>>
vars == <<phase, SHUTDOWN, origin, signal, by, control, worker, control_ret,
          execution_ret, main>>

Init ==
  /\ phase = "Initialising" /\ SHUTDOWN = "clear" /\ origin = 0
  /\ signal = [c \in Callers |-> "none"]
  /\ by = [c \in Callers |-> Unclassified]
  /\ control = "outside" /\ worker = "outside"
  /\ control_ret = 0 /\ execution_ret = 0
  /\ main = "control"
-----------------------------------------------------------------------------
(* signal_shutdown_with_origin, in three steps *)

Begin(c, o) ==
  /\ signal[c] = "none"
  /\ signal' = [signal EXCEPT ![c] = "record"]
  /\ by' = [by EXCEPT ![c] = o]

Then(c, s) == signal' = [signal EXCEPT ![c] = s] /\ UNCHANGED by

Signalling ==
  UNCHANGED <<control, worker, control_ret, execution_ret, main>>

(* Mutant: the last writer wins. *)
record_last(c) ==
  /\ signal[c] = "record" /\ Then(c, "store")
  /\ origin' = by[c]
  /\ UNCHANGED <<phase, SHUTDOWN>> /\ Signalling

(* Mutant: the adopter's base is added to every origin. *)
record_rebased(c) ==
  /\ signal[c] = "record" /\ Then(c, "store")
  /\ origin' = IF origin = 0 THEN 256 + by[c] ELSE origin
  /\ UNCHANGED <<phase, SHUTDOWN>> /\ Signalling

(* Mutant: the flag is set before the origin is recorded. *)
record_late(c) ==
  /\ signal[c] = "record" /\ Then(c, "store")
  /\ SHUTDOWN' = "set"
  /\ UNCHANGED <<phase, origin>> /\ Signalling

(* compare_exchange(0, origin) *)
record_shutdown_origin(c) ==
  /\ signal[c] = "record" /\ Then(c, "store")
  /\ origin' = IF origin = 0 THEN by[c] ELSE origin
  /\ UNCHANGED <<phase, SHUTDOWN>> /\ Signalling

StoreShutdown(c) ==
  /\ signal[c] = "store" /\ Then(c, "request")
  /\ SHUTDOWN' = "set"
  /\ UNCHANGED <<phase, origin>> /\ Signalling

request_shutdown(c) ==
  /\ signal[c] = "request" /\ Then(c, "none")
  /\ phase' = IF phase \in {"Initialising", "Running"} THEN "ShuttingDown"
              ELSE phase
  /\ UNCHANGED <<SHUTDOWN, origin>> /\ Signalling

Signal(c) ==
  record_shutdown_origin(c) \/ StoreShutdown(c) \/ request_shutdown(c)

(* ecall_shutdown, any number of times *)
ecall_shutdown ==
  /\ Begin("external", ExternalEcall)
  /\ UNCHANGED shared /\ Signalling
-----------------------------------------------------------------------------
(* The control ECALL *)

At(p) == control = p /\ signal["control"] = "none"
Goto(p) == control' = p /\ UNCHANGED <<worker, execution_ret, main>>
Quiet == UNCHANGED <<signal, by>>

(* Success of sgx's ecall_run: the ECALL is entered. *)
EnterControl ==
  /\ At("outside") /\ Goto("initialising")
  /\ UNCHANGED <<shared, control_ret>> /\ Quiet

(* SGX refuses the ECALL: call_ecall_run returns -1, and no code of the    *)
(* enclave has run, so nobody is told.                                     *)
ControlNotEntered ==
  /\ At("outside") /\ Goto("refused")
  /\ control_ret' = -1
  /\ UNCHANGED shared /\ Quiet

(* Any early return before the phase is published. *)
InitialisationFails ==
  /\ At("initialising") /\ Goto("dropping")
  /\ control_ret' = -1
  /\ UNCHANGED shared /\ Quiet

publish_running ==
  /\ At("initialising") /\ phase = "Initialising" /\ Goto("published")
  /\ phase' = "Running"
  /\ UNCHANGED <<SHUTDOWN, origin, control_ret>> /\ Quiet

PublishRefused ==
  /\ At("initialising") /\ phase # "Initialising" /\ Goto("dropping")
  /\ control_ret' = -23
  /\ UNCHANGED shared /\ Quiet

(* CoreInitialisationGuard::drop: a load, then a compare-exchange. *)
GuardReads ==
  /\ At("dropping")
  /\ Goto(IF phase = "Initialising" THEN "failing" ELSE "returned")
  /\ UNCHANGED <<shared, control_ret>> /\ Quiet

(* Mutant: an early return leaves the phase. *)
publish_nothing ==
  /\ At("failing") /\ Goto("returned")
  /\ UNCHANGED <<shared, control_ret>> /\ Quiet

publish_failed ==
  /\ At("failing") /\ Goto("returned")
  /\ phase' = IF phase = "Initialising" THEN "Failed" ELSE phase
  /\ UNCHANGED <<SHUTDOWN, origin, control_ret>> /\ Quiet

run_control_loop ==
  /\ At("published")
  /\ IF phase = "Running"
     THEN Goto("looping") /\ UNCHANGED control_ret
     ELSE Goto("returned") /\ control_ret' = -24
  /\ UNCHANGED shared /\ Quiet

(* A turn that ends the loop from inside: the adopter's hook returns       *)
(* Shutdown or signals by itself.                                          *)
apply_control_action ==
  /\ At("looping") /\ SHUTDOWN = "clear"
  /\ \E o \in {AdopterHook} \cup AdopterCodes : Begin("control", o)
  /\ UNCHANGED <<shared, control_ret>> /\ Goto("looping")

(* Or the ingress server asks for it, on a stop request or a full backlog, *)
(* or its lock is poisoned.                                                *)
progress_control_output ==
  /\ At("looping") /\ SHUTDOWN = "clear"
  /\ \E o \in {IngressExplicitHttpRequest, IngressOutputCreditBacklog,
               StateLockUnavailable} : Begin("control", o)
  /\ UNCHANGED <<shared, control_ret>> /\ Goto("looping")

(* The loop sees the flag: a last signal, unclassified. *)
LeaveLoop ==
  /\ At("looping") /\ SHUTDOWN = "set"
  /\ Begin("control", Unclassified)
  /\ UNCHANGED <<shared, control_ret>> /\ Goto("draining")

shutdown_return_code ==
  IF origin \in {IngressExplicitHttpRequest, ExternalEcall} THEN 0
  ELSE IF origin = 0 THEN -Unclassified ELSE -origin

ReturnFromLoop ==
  /\ At("draining") /\ Goto("returned")
  /\ control_ret' = shutdown_return_code
  /\ UNCHANGED shared /\ Quiet
-----------------------------------------------------------------------------
(* The execution ECALL *)

AtWorker(p) == worker = p /\ signal["worker"] = "none"
WorkerGoto(p) == worker' = p /\ UNCHANGED <<control, control_ret, main>>
WorkerReturns(r) == WorkerGoto("returned") /\ execution_ret' = r

EnterWorker ==
  /\ AtWorker("outside") /\ WorkerGoto("waiting")
  /\ UNCHANGED <<shared, execution_ret>> /\ Quiet

(* SGX refuses the ECALL: call_ecall_execution_worker returns -1. *)
WorkerNotEntered ==
  /\ AtWorker("outside") /\ WorkerGoto("refused")
  /\ execution_ret' = -1
  /\ UNCHANGED shared /\ Quiet

(* The adopter's hook, or the default loop that only watches the phase. *)
StartWork ==
  /\ AtWorker("waiting") /\ phase = "Running"
  /\ WorkerGoto("hook") \/ WorkerGoto("watching")
  /\ UNCHANGED <<shared, execution_ret>> /\ Quiet

SeesFailed ==
  /\ AtWorker("waiting") /\ phase = "Failed"
  /\ WorkerReturns(-62)
  /\ UNCHANGED shared /\ Quiet

(* Both loops; no other thread stops the core, and a failed one never ran, *)
(* so the watching loop meets neither. publish_stopped follows the load    *)
(* that saw ShuttingDown.                                                  *)
SeesShuttingDown ==
  /\ worker \in {"waiting", "watching"} /\ phase = "ShuttingDown"
  /\ WorkerGoto("stopping")
  /\ UNCHANGED <<shared, execution_ret>> /\ Quiet

(* The hook may itself signal, with a code of its own or without one. *)
HookSignals ==
  /\ AtWorker("hook")
  /\ \E o \in AdopterCodes : Begin("worker", o)
  /\ UNCHANGED <<shared, execution_ret>> /\ WorkerGoto("hook")

HookReturns ==
  /\ AtWorker("hook") /\ WorkerGoto("left")
  /\ execution_ret' \in {0, -1}
  /\ UNCHANGED shared /\ Quiet

UnexpectedReturn ==
  /\ AtWorker("left") /\ phase = "Running"
  /\ Begin("worker", UnexpectedExecutionHookReturn)
  /\ UNCHANGED <<shared, execution_ret>> /\ WorkerGoto("reporting")

ExpectedReturn ==
  /\ AtWorker("left") /\ phase # "Running" /\ WorkerGoto("reporting")
  /\ UNCHANGED <<shared, execution_ret>> /\ Quiet

AfterReport ==
  /\ AtWorker("reporting")
  /\ WorkerGoto(IF phase = "ShuttingDown" THEN "stopping" ELSE "returned")
  /\ UNCHANGED <<shared, execution_ret>> /\ Quiet

publish_stopped ==
  /\ AtWorker("stopping") /\ WorkerGoto("returned")
  /\ phase' = IF phase = "ShuttingDown" THEN "Stopped" ELSE phase
  /\ UNCHANGED <<SHUTDOWN, origin, execution_ret>> /\ Quiet
-----------------------------------------------------------------------------
(* The host's main joins the control thread, then the execution thread. *)
Join(p, next) ==
  /\ main = p /\ main' = next
  /\ UNCHANGED <<shared, control, worker, control_ret, execution_ret>> /\ Quiet

JoinControl ==
  control \in {"returned", "refused"} /\ Join("control", "execution")
JoinExecution ==
  worker \in {"returned", "refused"} /\ Join("execution", "stopping")
-----------------------------------------------------------------------------
ControlStep ==
  \/ EnterControl \/ ControlNotEntered
  \/ InitialisationFails \/ publish_running \/ PublishRefused
  \/ GuardReads \/ publish_failed \/ run_control_loop
  \/ apply_control_action \/ progress_control_output
  \/ LeaveLoop \/ ReturnFromLoop

WorkerStep ==
  \/ EnterWorker \/ WorkerNotEntered
  \/ StartWork \/ SeesFailed \/ SeesShuttingDown \/ HookSignals
  \/ HookReturns \/ UnexpectedReturn \/ ExpectedReturn \/ AfterReport
  \/ publish_stopped

MainStep == JoinControl \/ JoinExecution

Next ==
  \/ ControlStep \/ WorkerStep \/ MainStep \/ ecall_shutdown
  \/ \E c \in Callers : Signal(c)

Spec == Init /\ [][Next]_vars

(* The threads run. An adopter's hook returns once the phase is not        *)
(* Running; nothing else is asked of it, and nothing of the loop's turns   *)
(* but that each of them ends.                                             *)
FairSpec ==
  /\ Spec
  /\ \A c \in Callers : WF_vars(Signal(c))
  /\ WF_vars(EnterControl \/ ControlNotEntered)
  /\ WF_vars(EnterWorker \/ WorkerNotEntered)
  /\ WF_vars(InitialisationFails \/ publish_running \/ PublishRefused)
  /\ WF_vars(GuardReads \/ publish_failed \/ run_control_loop)
  /\ WF_vars(LeaveLoop) /\ WF_vars(ReturnFromLoop)
  /\ WF_vars(StartWork \/ SeesFailed \/ SeesShuttingDown)
  /\ SF_vars(phase # "Running" /\ HookReturns)
  /\ WF_vars(UnexpectedReturn \/ ExpectedReturn \/ AfterReport \/ publish_stopped)
  /\ WF_vars(MainStep)
-----------------------------------------------------------------------------
(* Every variable stays in its type; the origin is one some caller signals. *)
TypeOK ==
  /\ phase \in {"Initialising", "Running", "Failed", "ShuttingDown", "Stopped"}
  /\ SHUTDOWN \in {"clear", "set"}
  /\ origin \in Origins \cup {0}
  /\ signal \in [Callers -> {"none", "record", "store", "request"}]
  /\ by \in [Callers -> Origins]
  /\ control \in {"outside", "initialising", "dropping", "failing",
                  "published", "looping", "draining", "returned", "refused"}
  /\ worker \in {"outside", "waiting", "hook", "watching", "left",
                 "reporting", "stopping", "returned", "refused"}
  /\ control_ret \in Int /\ execution_ret \in Int
  /\ main \in {"control", "execution", "stopping"}

(* Whoever sees that the enclave is stopping finds out why: the origin is  *)
(* recorded before the flag, and the flag set before the phase.            *)
ClassifiedFirst ==
  /\ SHUTDOWN = "set" => origin # 0
  /\ phase \in {"ShuttingDown", "Stopped"} => SHUTDOWN = "set"

(* "First-writer-wins": however many callers signal, the first origin is   *)
(* the one that is reported.                                               *)
OriginKept == [][origin # 0 => origin' = origin]_vars

(* The worker "cannot perform work until that publication is visible", and *)
(* Stopped is not published while it works.                                *)
WorkOnlyWhileRunning ==
  worker \in {"hook", "watching"} => phase \in {"Running", "ShuttingDown"}

(* "Initialisation failure is terminal", and nobody revives a core that is *)
(* stopping.                                                               *)
PhaseAdvances ==
  [][/\ phase \in {"Failed", "Stopped"} => phase' = phase
     /\ phase = "ShuttingDown" => phase' \in {"ShuttingDown", "Stopped"}
     /\ phase = "Running" => phase' \in {"Running", "ShuttingDown"}]_vars

(* No ECALL that was entered returns and leaves the other in its loop: a   *)
(* control ECALL that returned, by whatever path, has released the worker, *)
(* and a worker that returned has stopped the control loop. (An ECALL that *)
(* SGX refused tells nobody; the other then waits for a shutdown.)         *)
NoneLeftBehind ==
  /\ control = "returned" => phase \notin {"Initialising", "Running"}
  /\ worker = "returned" => phase \in {"Failed", "Stopped"}

(* The host exits with success only after one of the two graceful origins. *)
SuccessIsGraceful ==
  main = "stopping" /\ control_ret = 0 =>
    origin \in {IngressExplicitHttpRequest, ExternalEcall}

(* A shutdown that was signalled, or an initialisation that failed, ends   *)
(* both ECALLs and lets main go on to stop the dispatchers, also when one  *)
(* of the two ECALLs was refused by SGX and the other has waited for it.   *)
HostStops ==
  (SHUTDOWN = "set" \/ control = "dropping") ~> (main = "stopping")
-----------------------------------------------------------------------------
(* The inductive invariant: what each thread may rely on where it is. *)

SignalsInOrder ==
  \A c \in Callers :
    /\ signal[c] \in {"store", "request"} => origin # 0
    /\ signal[c] = "request" => SHUTDOWN = "set"

ControlKnows ==
  /\ control \in {"outside", "initialising", "dropping", "failing"} =>
       phase \in {"Initialising", "ShuttingDown", "Stopped"}
  /\ control \in {"published", "looping", "draining"} =>
       phase \in {"Running", "ShuttingDown", "Stopped"}
  /\ control = "draining" /\ signal["control"] = "none" => phase # "Running"
  /\ control = "returned" => phase \notin {"Initialising", "Running"}
  /\ control \in {"dropping", "failing"} => control_ret # 0

WorkerKnows ==
  /\ worker \in {"hook", "watching", "left", "reporting"} =>
       phase \in {"Running", "ShuttingDown"}
  /\ worker = "reporting" /\ signal["worker"] = "none" => phase = "ShuttingDown"
  /\ worker = "stopping" => phase = "ShuttingDown"
  /\ worker \in {"outside", "waiting"} => phase # "Stopped"
  /\ worker = "returned" => phase \in {"Failed", "Stopped"}

ReturnKnows ==
  /\ control = "returned" /\ control_ret = 0 =>
       origin \in {IngressExplicitHttpRequest, ExternalEcall}
  /\ control = "refused" => control_ret # 0
  /\ main # "control" => control \in {"returned", "refused"}

IndInv ==
  /\ TypeOK /\ ClassifiedFirst /\ SignalsInOrder
  /\ ControlKnows /\ WorkerKnows /\ ReturnKnows
=============================================================================
