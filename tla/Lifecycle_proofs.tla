--------------------------- MODULE Lifecycle_proofs ---------------------------
(***************************************************************************)
(* The start and stop of the enclave for every set of adopter codes: IndInv *)
(* says what each thread may rely on at each of its steps, and implies the *)
(* safety properties; the action properties follow from single steps.      *)
(***************************************************************************)
EXTENDS Lifecycle, TLAPS

(* The origins are numbers other than 0, and all that the callers signal *)
(* is among them.                                                        *)
LEMMA OriginFacts ==
  /\ 0 \notin Origins
  /\ Origins \subseteq Int
  /\ AdopterCodes \subseteq Origins
  /\ {Unclassified, AdopterHook, IngressExplicitHttpRequest,
       IngressOutputCreditBacklog, StateLockUnavailable,
       UnexpectedExecutionHookReturn, ExternalEcall} \subseteq Origins
BY CodesAssumption DEF Origins, AdopterCodes, Unclassified, AdopterHook,
   IngressExplicitHttpRequest, IngressOutputCreditBacklog,
   StateLockUnavailable, UnexpectedExecutionHookReturn, ExternalEcall

(* Every step of every thread keeps the inductive invariant. *)
LEMMA IndInvKept == IndInv /\ [Next]_vars => IndInv'
<1> SUFFICES ASSUME IndInv, [Next]_vars PROVE IndInv'
  OBVIOUS
<1> USE OriginFacts DEF IndInv, TypeOK, ClassifiedFirst, SignalsInOrder,
     ControlKnows, WorkerKnows, ReturnKnows, Callers, shared
<1>1. CASE EnterControl
  BY <1>1 DEF EnterControl, At, Goto, Quiet
<1>2. CASE ControlNotEntered
  BY <1>2 DEF ControlNotEntered, At, Goto, Quiet
<1>3. CASE InitialisationFails
  BY <1>3 DEF InitialisationFails, At, Goto, Quiet
<1>4. CASE publish_running
  BY <1>4 DEF publish_running, At, Goto, Quiet
<1>5. CASE PublishRefused
  BY <1>5 DEF PublishRefused, At, Goto, Quiet
<1>6. CASE GuardReads
  BY <1>6 DEF GuardReads, At, Goto, Quiet
<1>7. CASE publish_failed
  BY <1>7 DEF publish_failed, At, Goto, Quiet
<1>8. CASE run_control_loop
  BY <1>8 DEF run_control_loop, At, Goto, Quiet
<1>9. CASE apply_control_action
  <2>1. PICK o \in Origins : Begin("control", o)
    BY <1>9, Zenon DEF apply_control_action
  <2>2. QED
    BY <1>9, <2>1 DEF apply_control_action, At, Goto, Begin
<1>10. CASE progress_control_output
  <2>1. PICK o \in Origins : Begin("control", o)
    BY <1>10, Zenon DEF progress_control_output
  <2>2. QED
    BY <1>10, <2>1 DEF progress_control_output, At, Goto, Begin
<1>11. CASE LeaveLoop
  BY <1>11 DEF LeaveLoop, At, Goto, Begin
<1>12. CASE ReturnFromLoop
  BY <1>12 DEF ReturnFromLoop, At, Goto, Quiet, shutdown_return_code
<1>13. CASE EnterWorker
  BY <1>13 DEF EnterWorker, Quiet, AtWorker, WorkerGoto
<1>14. CASE WorkerNotEntered
  BY <1>14 DEF WorkerNotEntered, Quiet, AtWorker, WorkerGoto
<1>15. CASE StartWork
  BY <1>15 DEF StartWork, Quiet, AtWorker, WorkerGoto
<1>16. CASE SeesFailed
  BY <1>16 DEF SeesFailed, Quiet, AtWorker, WorkerGoto, WorkerReturns
<1>17. CASE SeesShuttingDown
  BY <1>17 DEF SeesShuttingDown, Quiet, WorkerGoto
<1>18. CASE HookSignals
  BY <1>18 DEF HookSignals, Begin, AtWorker, WorkerGoto
<1>19. CASE HookReturns
  BY <1>19 DEF HookReturns, Quiet, AtWorker, WorkerGoto
<1>20. CASE UnexpectedReturn
  BY <1>20 DEF UnexpectedReturn, Begin, AtWorker, WorkerGoto
<1>21. CASE ExpectedReturn
  BY <1>21 DEF ExpectedReturn, Quiet, AtWorker, WorkerGoto
<1>22. CASE AfterReport
  BY <1>22 DEF AfterReport, Quiet, AtWorker, WorkerGoto
<1>23. CASE publish_stopped
  BY <1>23 DEF publish_stopped, Quiet, AtWorker, WorkerGoto
<1>24. CASE JoinControl
  BY <1>24 DEF JoinControl, Quiet, Join
<1>25. CASE JoinExecution
  BY <1>25 DEF JoinExecution, Quiet, Join
<1>26. CASE ecall_shutdown
  BY <1>26 DEF ecall_shutdown, Begin, Signalling
<1>27. ASSUME NEW c \in Callers, record_shutdown_origin(c) PROVE IndInv'
  BY <1>27 DEF record_shutdown_origin, Signalling, Then
<1>28. ASSUME NEW c \in Callers, StoreShutdown(c) PROVE IndInv'
  BY <1>28 DEF StoreShutdown, Signalling, Then
<1>29. ASSUME NEW c \in Callers, request_shutdown(c) PROVE IndInv'
  BY <1>29 DEF request_shutdown, Signalling, Then
<1>30. CASE UNCHANGED vars
  BY <1>30 DEF vars
<1> QED
  BY <1>1, <1>2, <1>3, <1>4, <1>5, <1>6, <1>7, <1>8, <1>9, <1>10, <1>11,
     <1>12, <1>13, <1>14, <1>15, <1>16, <1>17, <1>18, <1>19, <1>20,
     <1>21, <1>22, <1>23, <1>24, <1>25, <1>26, <1>27, <1>28, <1>29,
     <1>30
     DEF Next, ControlStep, WorkerStep, MainStep, Signal

(* However the two ECALLs and the callers of shutdown interleave: types    *)
(* hold, whoever sees the enclave stop finds out why, work is done only in *)
(* a running core, neither ECALL leaves the other behind in its loop, and  *)
(* the host reports success only for a graceful origin.                    *)
THEOREM LifecycleSafe ==
  Spec => [](/\ TypeOK /\ ClassifiedFirst /\ WorkOnlyWhileRunning
             /\ NoneLeftBehind /\ SuccessIsGraceful)
<1>1. Init => IndInv
  BY OriginFacts
     DEF Init, IndInv, TypeOK, ClassifiedFirst, SignalsInOrder, ControlKnows,
         WorkerKnows, ReturnKnows, Callers
<1>2. IndInv => /\ TypeOK /\ ClassifiedFirst /\ WorkOnlyWhileRunning
                /\ NoneLeftBehind /\ SuccessIsGraceful
  BY DEF IndInv, TypeOK, WorkOnlyWhileRunning, NoneLeftBehind,
         SuccessIsGraceful, ControlKnows, WorkerKnows, ReturnKnows
<1>3. QED
  BY <1>1, <1>2, IndInvKept, PTL DEF Spec

(* No caller of shutdown, however late, replaces the first origin. *)
THEOREM FirstOriginWins == Spec => OriginKept
<1>1. [Next]_vars => [origin # 0 => origin' = origin]_vars
  <2> SUFFICES ASSUME [Next]_vars, origin # 0 PROVE origin' = origin
    OBVIOUS
  <2>1. CASE ControlStep
    BY <2>1 DEF ControlStep, EnterControl, ControlNotEntered, InitialisationFails,
         publish_running, PublishRefused, GuardReads, publish_failed,
         run_control_loop, apply_control_action, progress_control_output,
         LeaveLoop, ReturnFromLoop, shared
  <2>2. CASE WorkerStep
    BY <2>2 DEF WorkerStep, EnterWorker, WorkerNotEntered, StartWork, SeesFailed,
         SeesShuttingDown, HookSignals, HookReturns, UnexpectedReturn,
         ExpectedReturn, AfterReport, publish_stopped, shared
  <2>3. CASE MainStep \/ ecall_shutdown
    BY <2>3 DEF MainStep, JoinControl, JoinExecution, Join, ecall_shutdown,
         shared
  <2>4. ASSUME NEW c \in Callers, Signal(c) PROVE origin' = origin
    BY <2>4 DEF Signal, record_shutdown_origin, StoreShutdown, request_shutdown
  <2>5. CASE UNCHANGED vars
    BY <2>5 DEF vars
  <2> QED
    BY <2>1, <2>2, <2>3, <2>4, <2>5 DEF Next
<1>2. QED
  BY <1>1, PTL DEF Spec, OriginKept

(* A core that failed or stopped stays so, one that is stopping never runs *)
(* again, and a running one can only be stopped.                           *)
THEOREM PhaseOnlyAdvances == Spec => PhaseAdvances
<1> DEFINE Advances ==
      /\ phase \in {"Failed", "Stopped"} => phase' = phase
      /\ phase = "ShuttingDown" => phase' \in {"ShuttingDown", "Stopped"}
      /\ phase = "Running" => phase' \in {"Running", "ShuttingDown"}
<1>1. [Next]_vars => [Advances]_vars
  <2> SUFFICES ASSUME [Next]_vars PROVE Advances
    OBVIOUS
  <2>1. CASE ControlStep
    BY <2>1 DEF ControlStep, EnterControl, ControlNotEntered, InitialisationFails,
         publish_running, PublishRefused, GuardReads, publish_failed,
         run_control_loop, apply_control_action, progress_control_output,
         LeaveLoop, ReturnFromLoop, shared
  <2>2. CASE WorkerStep
    BY <2>2 DEF WorkerStep, EnterWorker, WorkerNotEntered, StartWork, SeesFailed,
         SeesShuttingDown, HookSignals, HookReturns, UnexpectedReturn,
         ExpectedReturn, AfterReport, publish_stopped, shared
  <2>3. CASE MainStep \/ ecall_shutdown
    BY <2>3 DEF MainStep, JoinControl, JoinExecution, Join, ecall_shutdown,
         shared
  <2>4. ASSUME NEW c \in Callers, Signal(c) PROVE Advances
    BY <2>4 DEF Signal, record_shutdown_origin, StoreShutdown, request_shutdown
  <2>5. CASE UNCHANGED vars
    BY <2>5 DEF vars
  <2> QED
    BY <2>1, <2>2, <2>3, <2>4, <2>5 DEF Next
<1>2. QED
  BY <1>1, PTL DEF Spec, PhaseAdvances
===============================================================================
