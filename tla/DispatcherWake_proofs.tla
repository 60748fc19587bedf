------------------------ MODULE DispatcherWake_proofs ------------------------
(***************************************************************************)
(* No notification is lost: the invariant IndInv of DispatcherWake is      *)
(* inductive, for rings of any size.                                       *)
(***************************************************************************)
EXTENDS DispatcherWake, TLAPS

(* The state main leaves behind before any thread runs satisfies IndInv. *)
LEMMA IndInvInit == ASSUME Init PROVE IndInv
<1> USE DEF Init, Roles, Actors
<1>1. TypeOK
  <2>1. requests \in [Roles -> Seq({"work", "stop"})]
    OBVIOUS
  <2>2. responses \in [Roles -> 0..ResponseSlots]
    BY SlotsAssumption
  <2>3. pending \in [Roles -> BOOLEAN] /\ hint \in [Roles -> BOOLEAN]
    OBVIOUS
  <2>4. cancelled \in BOOLEAN /\ shutdown \in BOOLEAN
    OBVIOUS
  <2> QED BY <2>1, <2>2, <2>3, <2>4 DEF TypeOK
<1>2. RequestRetained /\ SleepsUnnotified /\ ShutdownInHandler /\ NoLostShutdown
  BY DEF RequestRetained, SleepsUnnotified, ShutdownInHandler, NoLostShutdown
<1>3. ResponseRetained /\ ParksUnhinted /\ CancelReleases
  BY DEF ResponseRetained, ParksUnhinted, CancelReleases
<1> QED BY <1>1, <1>2, <1>3 DEF IndInv

(* Every step of a thread keeps the types and the ring bounds. *)
LEMMA TypeNext == ASSUME TypeOK, [Next]_vars PROVE TypeOK'
<1> USE SlotsAssumption DEF Roles, Actors
<1>1. ASSUME NEW r \in Roles, CheckShutdown(r) PROVE TypeOK'
  BY <1>1 DEF TypeOK, CheckShutdown, notify, WakeDispatchers
<1>2. ASSUME NEW r \in Roles, ReceiveEmpty(r) PROVE TypeOK'
  BY <1>2 DEF TypeOK, ReceiveEmpty, notify, WakeDispatchers
<1>3. ASSUME NEW r \in Roles, dispatch(r) PROVE TypeOK'
  BY <1>3 DEF TypeOK, dispatch, notify, WakeDispatchers
<1>4. ASSUME NEW r \in Roles, wait(r) PROVE TypeOK'
  <2>1. pending' \in [Roles -> BOOLEAN]
    <3>1. CASE pending[r] \/ shutdown
      <4>1. pending' = [pending EXCEPT ![r] = FALSE]
        BY <1>4, <3>1 DEF wait
      <4> QED BY <4>1 DEF TypeOK
    <3>2. CASE ~(pending[r] \/ shutdown)
      BY <1>4, <3>2 DEF TypeOK, wait
    <3> QED BY <3>1, <3>2
  <2>2. dispatcher' \in [Roles -> {"check", "receive", "wait", "asleep",
                                  "publish", "hint", "stopping", "stopped"}]
    <3>1. CASE pending[r] \/ shutdown
      BY <1>4, <3>1 DEF TypeOK, wait
    <3>2. CASE ~(pending[r] \/ shutdown)
      BY <1>4, <3>2 DEF TypeOK, wait
    <3> QED BY <3>1, <3>2
  <2> QED BY <1>4, <2>1, <2>2 DEF TypeOK, wait
<1>5. ASSUME NEW r \in Roles, SpuriousWake(r) PROVE TypeOK'
  BY <1>5 DEF TypeOK, SpuriousWake, notify, WakeDispatchers
<1>6. ASSUME NEW r \in Roles, notify_host(r) PROVE TypeOK'
  BY <1>6 DEF TypeOK, notify_host, notify, WakeDispatchers
<1>7. ASSUME NEW r \in Roles, EcallReturns(r) PROVE TypeOK'
  BY <1>7 DEF TypeOK, EcallReturns, notify, WakeDispatchers
<1>8. ASSUME NEW a \in Actors, ShutdownCancel(a) PROVE TypeOK'
  BY <1>8 DEF TypeOK, ShutdownCancel, Unpark
<1>9. ASSUME NEW a \in Actors, ShutdownHint(a) PROVE TypeOK'
  BY <1>9 DEF TypeOK, ShutdownHint, notify_execution_cancel, Unpark
<1>10. ASSUME NEW a \in Actors, ShutdownStore(a) PROVE TypeOK'
  BY <1>10 DEF TypeOK, ShutdownStore, Unpark
<1>11. ASSUME NEW a \in Actors, ShutdownNotify(a) PROVE TypeOK'
  BY <1>11 DEF TypeOK, ShutdownNotify, Unpark
<1>12. CASE DispatchShutdown
  BY <1>12 DEF TypeOK, DispatchShutdown, Unpark, notify, WakeDispatchers
<1>13. CASE PublishLegacy
  BY <1>13 DEF TypeOK, PublishLegacy, Unpark, notify, WakeDispatchers
<1>14. CASE publish
  BY <1>14 DEF TypeOK, publish, Unpark, notify, WakeDispatchers
<1>15. CASE notify_response
  BY <1>15 DEF TypeOK, notify_response, Unpark, notify, WakeDispatchers
<1>16. CASE MainShutdown
  BY <1>16 DEF TypeOK, MainShutdown, Unpark, notify, WakeDispatchers
<1>17. CASE ProxyFails
  BY <1>17 DEF TypeOK, ProxyFails, Unpark, notify, WakeDispatchers
<1>18. CASE ProxyNotifies
  BY <1>18 DEF TypeOK, ProxyNotifies, Unpark, notify, WakeDispatchers
<1>19. CASE CallReceives
  BY <1>19 DEF TypeOK, CallReceives, Unpark, notify, WakeDispatchers
<1>20. CASE poll_execution_rpc
  BY <1>20 DEF TypeOK, poll_execution_rpc, Unpark, notify, WakeDispatchers
<1>21. CASE abandon_execution_rpc
  BY <1>21 DEF TypeOK, abandon_execution_rpc, Unpark, notify, WakeDispatchers
<1>22. CASE wait_response
  BY <1>22 DEF TypeOK, wait_response, Unpark, notify, WakeDispatchers
<1>23. CASE WaitTimeout
  BY <1>23 DEF TypeOK, WaitTimeout, Unpark, notify, WakeDispatchers
<1>24. ASSUME NEW r \in Roles, NEW k \in Kinds(r), Submit(r, k) PROVE TypeOK'
  BY <1>24 DEF TypeOK, Submit, Kinds
<1>25. CASE UNCHANGED vars
  BY <1>25 DEF TypeOK, vars
<1>26. CASE ocall_notify_execution_waiter
  BY <1>26 DEF TypeOK, ocall_notify_execution_waiter, notify_execution_cancel, Unpark, notify, WakeDispatchers
<1> QED BY <1>1, <1>2, <1>3, <1>4, <1>5, <1>6, <1>7, <1>8, <1>9, <1>10, <1>11, <1>12, <1>13, <1>14, <1>15, <1>16, <1>17, <1>18, <1>19, <1>20, <1>21, <1>22, <1>23, <1>24, <1>25, <1>26 DEF Next, DispatcherStep, ShutdownStep

(* A submitted request keeps a retained signal, or its notification is     *)
(* still to come.                                                          *)
LEMMA RequestRetainedNext ==
  ASSUME TypeOK, RequestRetained, [Next]_vars PROVE RequestRetained'
<1> USE SlotsAssumption DEF Roles, Actors, TypeOK, RequestRetained
<1>1. ASSUME NEW r \in Roles, CheckShutdown(r) PROVE (RequestRetained')
  BY <1>1 DEF CheckShutdown, Unpark, notify, WakeDispatchers, Kinds
<1>2. ASSUME NEW r \in Roles, ReceiveEmpty(r) PROVE (RequestRetained')
  BY <1>2 DEF ReceiveEmpty, Unpark, notify, WakeDispatchers, Kinds
<1>3. ASSUME NEW r \in Roles, dispatch(r) PROVE (RequestRetained')
  BY <1>3 DEF dispatch, Unpark, notify, WakeDispatchers, Kinds
<1>4. ASSUME NEW r \in Roles, wait(r) PROVE (RequestRetained')
  BY <1>4 DEF wait, Unpark, notify, WakeDispatchers, Kinds
<1>5. ASSUME NEW r \in Roles, SpuriousWake(r) PROVE (RequestRetained')
  BY <1>5 DEF SpuriousWake, Unpark, notify, WakeDispatchers, Kinds
<1>6. ASSUME NEW r \in Roles, notify_host(r) PROVE (RequestRetained')
  BY <1>6 DEF notify_host, Unpark, notify, WakeDispatchers, Kinds
<1>7. ASSUME NEW r \in Roles, EcallReturns(r) PROVE (RequestRetained')
  BY <1>7 DEF EcallReturns, Unpark, notify, WakeDispatchers, Kinds
<1>8. ASSUME NEW a \in Actors, ShutdownCancel(a) PROVE (RequestRetained')
  BY <1>8 DEF ShutdownCancel, Unpark, notify, WakeDispatchers, Kinds
<1>9. ASSUME NEW a \in Actors, ShutdownHint(a) PROVE (RequestRetained')
  BY <1>9 DEF ShutdownHint, notify_execution_cancel, Unpark, notify, WakeDispatchers, Kinds
<1>10. ASSUME NEW a \in Actors, ShutdownStore(a) PROVE (RequestRetained')
  BY <1>10 DEF ShutdownStore, Unpark, notify, WakeDispatchers, Kinds
<1>11. ASSUME NEW a \in Actors, ShutdownNotify(a) PROVE (RequestRetained')
  BY <1>11 DEF ShutdownNotify, Unpark, notify, WakeDispatchers, Kinds
<1>12. CASE DispatchShutdown
  BY <1>12 DEF DispatchShutdown, Unpark, notify, WakeDispatchers, Kinds
<1>13. CASE PublishLegacy
  BY <1>13 DEF PublishLegacy, Unpark, notify, WakeDispatchers, Kinds
<1>14. CASE publish
  BY <1>14 DEF publish, Unpark, notify, WakeDispatchers, Kinds
<1>15. CASE notify_response
  BY <1>15 DEF notify_response, Unpark, notify, WakeDispatchers, Kinds
<1>16. CASE MainShutdown
  BY <1>16 DEF MainShutdown, Unpark, notify, WakeDispatchers, Kinds
<1>17. CASE ProxyFails
  BY <1>17 DEF ProxyFails, Unpark, notify, WakeDispatchers, Kinds
<1>18. CASE ProxyNotifies
  BY <1>18 DEF ProxyNotifies, Unpark, notify, WakeDispatchers, Kinds
<1>19. CASE CallReceives
  BY <1>19 DEF CallReceives, Unpark, notify, WakeDispatchers, Kinds
<1>20. CASE poll_execution_rpc
  BY <1>20 DEF poll_execution_rpc, Unpark, notify, WakeDispatchers, Kinds
<1>21. CASE abandon_execution_rpc
  BY <1>21 DEF abandon_execution_rpc, Unpark, notify, WakeDispatchers, Kinds
<1>22. CASE wait_response
  BY <1>22 DEF wait_response, Unpark, notify, WakeDispatchers, Kinds
<1>23. CASE WaitTimeout
  BY <1>23 DEF WaitTimeout, Unpark, notify, WakeDispatchers, Kinds
<1>24. ASSUME NEW r \in Roles, NEW k \in Kinds(r), Submit(r, k) PROVE (RequestRetained')
  BY <1>24 DEF Submit, Unpark, notify, WakeDispatchers, Kinds
<1>25. CASE UNCHANGED vars
  BY <1>25 DEF vars
<1>26. CASE ocall_notify_execution_waiter
  BY <1>26 DEF ocall_notify_execution_waiter, notify_execution_cancel, Unpark, notify, WakeDispatchers, Kinds
<1> QED
  BY <1>1, <1>2, <1>3, <1>4, <1>5, <1>6, <1>7, <1>8, <1>9, <1>10, <1>11, <1>12, <1>13, <1>14, <1>15, <1>16, <1>17, <1>18, <1>19, <1>20, <1>21, <1>22, <1>23, <1>24, <1>25, <1>26
  DEF Next, DispatcherStep, ShutdownStep

(* A dispatcher sleeps only with its signal clear. *)
LEMMA SleepsUnnotifiedNext ==
  ASSUME TypeOK, SleepsUnnotified, [Next]_vars PROVE SleepsUnnotified'
<1> USE SlotsAssumption DEF Roles, Actors, TypeOK, SleepsUnnotified
<1>1. ASSUME NEW r \in Roles, CheckShutdown(r) PROVE (SleepsUnnotified')
  BY <1>1 DEF CheckShutdown, Unpark, notify, WakeDispatchers, Kinds
<1>2. ASSUME NEW r \in Roles, ReceiveEmpty(r) PROVE (SleepsUnnotified')
  BY <1>2 DEF ReceiveEmpty, Unpark, notify, WakeDispatchers, Kinds
<1>3. ASSUME NEW r \in Roles, dispatch(r) PROVE (SleepsUnnotified')
  BY <1>3 DEF dispatch, Unpark, notify, WakeDispatchers, Kinds
<1>4. ASSUME NEW r \in Roles, wait(r) PROVE (SleepsUnnotified')
  BY <1>4 DEF wait, Unpark, notify, WakeDispatchers, Kinds
<1>5. ASSUME NEW r \in Roles, SpuriousWake(r) PROVE (SleepsUnnotified')
  BY <1>5 DEF SpuriousWake, Unpark, notify, WakeDispatchers, Kinds
<1>6. ASSUME NEW r \in Roles, notify_host(r) PROVE (SleepsUnnotified')
  BY <1>6 DEF notify_host, Unpark, notify, WakeDispatchers, Kinds
<1>7. ASSUME NEW r \in Roles, EcallReturns(r) PROVE (SleepsUnnotified')
  BY <1>7 DEF EcallReturns, Unpark, notify, WakeDispatchers, Kinds
<1>8. ASSUME NEW a \in Actors, ShutdownCancel(a) PROVE (SleepsUnnotified')
  BY <1>8 DEF ShutdownCancel, Unpark, notify, WakeDispatchers, Kinds
<1>9. ASSUME NEW a \in Actors, ShutdownHint(a) PROVE (SleepsUnnotified')
  BY <1>9 DEF ShutdownHint, notify_execution_cancel, Unpark, notify, WakeDispatchers, Kinds
<1>10. ASSUME NEW a \in Actors, ShutdownStore(a) PROVE (SleepsUnnotified')
  BY <1>10 DEF ShutdownStore, Unpark, notify, WakeDispatchers, Kinds
<1>11. ASSUME NEW a \in Actors, ShutdownNotify(a) PROVE (SleepsUnnotified')
  BY <1>11 DEF ShutdownNotify, Unpark, notify, WakeDispatchers, Kinds
<1>12. CASE DispatchShutdown
  BY <1>12 DEF DispatchShutdown, Unpark, notify, WakeDispatchers, Kinds
<1>13. CASE PublishLegacy
  BY <1>13 DEF PublishLegacy, Unpark, notify, WakeDispatchers, Kinds
<1>14. CASE publish
  BY <1>14 DEF publish, Unpark, notify, WakeDispatchers, Kinds
<1>15. CASE notify_response
  BY <1>15 DEF notify_response, Unpark, notify, WakeDispatchers, Kinds
<1>16. CASE MainShutdown
  BY <1>16 DEF MainShutdown, Unpark, notify, WakeDispatchers, Kinds
<1>17. CASE ProxyFails
  BY <1>17 DEF ProxyFails, Unpark, notify, WakeDispatchers, Kinds
<1>18. CASE ProxyNotifies
  BY <1>18 DEF ProxyNotifies, Unpark, notify, WakeDispatchers, Kinds
<1>19. CASE CallReceives
  BY <1>19 DEF CallReceives, Unpark, notify, WakeDispatchers, Kinds
<1>20. CASE poll_execution_rpc
  BY <1>20 DEF poll_execution_rpc, Unpark, notify, WakeDispatchers, Kinds
<1>21. CASE abandon_execution_rpc
  BY <1>21 DEF abandon_execution_rpc, Unpark, notify, WakeDispatchers, Kinds
<1>22. CASE wait_response
  BY <1>22 DEF wait_response, Unpark, notify, WakeDispatchers, Kinds
<1>23. CASE WaitTimeout
  BY <1>23 DEF WaitTimeout, Unpark, notify, WakeDispatchers, Kinds
<1>24. ASSUME NEW r \in Roles, NEW k \in Kinds(r), Submit(r, k) PROVE (SleepsUnnotified')
  BY <1>24 DEF Submit, Unpark, notify, WakeDispatchers, Kinds
<1>25. CASE UNCHANGED vars
  BY <1>25 DEF vars
<1>26. CASE ocall_notify_execution_waiter
  BY <1>26 DEF ocall_notify_execution_waiter, notify_execution_cancel, Unpark, notify, WakeDispatchers, Kinds
<1> QED
  BY <1>1, <1>2, <1>3, <1>4, <1>5, <1>6, <1>7, <1>8, <1>9, <1>10, <1>11, <1>12, <1>13, <1>14, <1>15, <1>16, <1>17, <1>18, <1>19, <1>20, <1>21, <1>22, <1>23, <1>24, <1>25, <1>26
  DEF Next, DispatcherStep, ShutdownStep

(* shutdown() inside the Shutdown method holds its dispatcher. *)
LEMMA ShutdownInHandlerNext ==
  ASSUME TypeOK, ShutdownInHandler, [Next]_vars PROVE ShutdownInHandler'
<1> USE SlotsAssumption DEF Roles, Actors, TypeOK, ShutdownInHandler
<1>1. ASSUME NEW r \in Roles, CheckShutdown(r) PROVE (ShutdownInHandler')
  BY <1>1 DEF CheckShutdown, Unpark, notify, WakeDispatchers, Kinds
<1>2. ASSUME NEW r \in Roles, ReceiveEmpty(r) PROVE (ShutdownInHandler')
  BY <1>2 DEF ReceiveEmpty, Unpark, notify, WakeDispatchers, Kinds
<1>3. ASSUME NEW r \in Roles, dispatch(r) PROVE (ShutdownInHandler')
  BY <1>3 DEF dispatch, Unpark, notify, WakeDispatchers, Kinds
<1>4. ASSUME NEW r \in Roles, wait(r) PROVE (ShutdownInHandler')
  BY <1>4 DEF wait, Unpark, notify, WakeDispatchers, Kinds
<1>5. ASSUME NEW r \in Roles, SpuriousWake(r) PROVE (ShutdownInHandler')
  BY <1>5 DEF SpuriousWake, Unpark, notify, WakeDispatchers, Kinds
<1>6. ASSUME NEW r \in Roles, notify_host(r) PROVE (ShutdownInHandler')
  BY <1>6 DEF notify_host, Unpark, notify, WakeDispatchers, Kinds
<1>7. ASSUME NEW r \in Roles, EcallReturns(r) PROVE (ShutdownInHandler')
  BY <1>7 DEF EcallReturns, Unpark, notify, WakeDispatchers, Kinds
<1>8. ASSUME NEW a \in Actors, ShutdownCancel(a) PROVE (ShutdownInHandler')
  BY <1>8 DEF ShutdownCancel, Unpark, notify, WakeDispatchers, Kinds
<1>9. ASSUME NEW a \in Actors, ShutdownHint(a) PROVE (ShutdownInHandler')
  BY <1>9 DEF ShutdownHint, notify_execution_cancel, Unpark, notify, WakeDispatchers, Kinds
<1>10. ASSUME NEW a \in Actors, ShutdownStore(a) PROVE (ShutdownInHandler')
  BY <1>10 DEF ShutdownStore, Unpark, notify, WakeDispatchers, Kinds
<1>11. ASSUME NEW a \in Actors, ShutdownNotify(a) PROVE (ShutdownInHandler')
  BY <1>11 DEF ShutdownNotify, Unpark, notify, WakeDispatchers, Kinds
<1>12. CASE DispatchShutdown
  BY <1>12 DEF DispatchShutdown, Unpark, notify, WakeDispatchers, Kinds
<1>13. CASE PublishLegacy
  BY <1>13 DEF PublishLegacy, Unpark, notify, WakeDispatchers, Kinds
<1>14. CASE publish
  BY <1>14 DEF publish, Unpark, notify, WakeDispatchers, Kinds
<1>15. CASE notify_response
  BY <1>15 DEF notify_response, Unpark, notify, WakeDispatchers, Kinds
<1>16. CASE MainShutdown
  BY <1>16 DEF MainShutdown, Unpark, notify, WakeDispatchers, Kinds
<1>17. CASE ProxyFails
  BY <1>17 DEF ProxyFails, Unpark, notify, WakeDispatchers, Kinds
<1>18. CASE ProxyNotifies
  BY <1>18 DEF ProxyNotifies, Unpark, notify, WakeDispatchers, Kinds
<1>19. CASE CallReceives
  BY <1>19 DEF CallReceives, Unpark, notify, WakeDispatchers, Kinds
<1>20. CASE poll_execution_rpc
  BY <1>20 DEF poll_execution_rpc, Unpark, notify, WakeDispatchers, Kinds
<1>21. CASE abandon_execution_rpc
  BY <1>21 DEF abandon_execution_rpc, Unpark, notify, WakeDispatchers, Kinds
<1>22. CASE wait_response
  BY <1>22 DEF wait_response, Unpark, notify, WakeDispatchers, Kinds
<1>23. CASE WaitTimeout
  BY <1>23 DEF WaitTimeout, Unpark, notify, WakeDispatchers, Kinds
<1>24. ASSUME NEW r \in Roles, NEW k \in Kinds(r), Submit(r, k) PROVE (ShutdownInHandler')
  BY <1>24 DEF Submit, Unpark, notify, WakeDispatchers, Kinds
<1>25. CASE UNCHANGED vars
  BY <1>25 DEF vars
<1>26. CASE ocall_notify_execution_waiter
  BY <1>26 DEF ocall_notify_execution_waiter, notify_execution_cancel, Unpark, notify, WakeDispatchers, Kinds
<1> QED
  BY <1>1, <1>2, <1>3, <1>4, <1>5, <1>6, <1>7, <1>8, <1>9, <1>10, <1>11, <1>12, <1>13, <1>14, <1>15, <1>16, <1>17, <1>18, <1>19, <1>20, <1>21, <1>22, <1>23, <1>24, <1>25, <1>26
  DEF Next, DispatcherStep, ShutdownStep

(* Whoever stores the shutdown flag still owes the notification while a    *)
(* dispatcher sleeps.                                                      *)
LEMMA NoLostShutdownNext ==
  ASSUME TypeOK, ShutdownInHandler, NoLostShutdown, [Next]_vars PROVE NoLostShutdown'
<1> USE SlotsAssumption DEF Roles, Actors, TypeOK, ShutdownInHandler, NoLostShutdown
<1>1. ASSUME NEW r \in Roles, CheckShutdown(r) PROVE (NoLostShutdown')
  BY <1>1 DEF CheckShutdown, Unpark, notify, WakeDispatchers, Kinds
<1>2. ASSUME NEW r \in Roles, ReceiveEmpty(r) PROVE (NoLostShutdown')
  BY <1>2 DEF ReceiveEmpty, Unpark, notify, WakeDispatchers, Kinds
<1>3. ASSUME NEW r \in Roles, dispatch(r) PROVE (NoLostShutdown')
  BY <1>3 DEF dispatch, Unpark, notify, WakeDispatchers, Kinds
<1>4. ASSUME NEW r \in Roles, wait(r) PROVE (NoLostShutdown')
  BY <1>4 DEF wait, Unpark, notify, WakeDispatchers, Kinds
<1>5. ASSUME NEW r \in Roles, SpuriousWake(r) PROVE (NoLostShutdown')
  BY <1>5 DEF SpuriousWake, Unpark, notify, WakeDispatchers, Kinds
<1>6. ASSUME NEW r \in Roles, notify_host(r) PROVE (NoLostShutdown')
  BY <1>6 DEF notify_host, Unpark, notify, WakeDispatchers, Kinds
<1>7. ASSUME NEW r \in Roles, EcallReturns(r) PROVE (NoLostShutdown')
  BY <1>7 DEF EcallReturns, Unpark, notify, WakeDispatchers, Kinds
<1>8. ASSUME NEW a \in Actors, ShutdownCancel(a) PROVE (NoLostShutdown')
  BY <1>8 DEF ShutdownCancel, Unpark, notify, WakeDispatchers, Kinds
<1>9. ASSUME NEW a \in Actors, ShutdownHint(a) PROVE (NoLostShutdown')
  BY <1>9 DEF ShutdownHint, notify_execution_cancel, Unpark, notify, WakeDispatchers, Kinds
<1>10. ASSUME NEW a \in Actors, ShutdownStore(a) PROVE (NoLostShutdown')
  BY <1>10 DEF ShutdownStore, Unpark, notify, WakeDispatchers, Kinds
<1>11. ASSUME NEW a \in Actors, ShutdownNotify(a) PROVE (NoLostShutdown')
  BY <1>11 DEF ShutdownNotify, Unpark, notify, WakeDispatchers, Kinds
<1>12. CASE DispatchShutdown
  BY <1>12 DEF DispatchShutdown, Unpark, notify, WakeDispatchers, Kinds
<1>13. CASE PublishLegacy
  BY <1>13 DEF PublishLegacy, Unpark, notify, WakeDispatchers, Kinds
<1>14. CASE publish
  BY <1>14 DEF publish, Unpark, notify, WakeDispatchers, Kinds
<1>15. CASE notify_response
  BY <1>15 DEF notify_response, Unpark, notify, WakeDispatchers, Kinds
<1>16. CASE MainShutdown
  BY <1>16 DEF MainShutdown, Unpark, notify, WakeDispatchers, Kinds
<1>17. CASE ProxyFails
  BY <1>17 DEF ProxyFails, Unpark, notify, WakeDispatchers, Kinds
<1>18. CASE ProxyNotifies
  BY <1>18 DEF ProxyNotifies, Unpark, notify, WakeDispatchers, Kinds
<1>19. CASE CallReceives
  BY <1>19 DEF CallReceives, Unpark, notify, WakeDispatchers, Kinds
<1>20. CASE poll_execution_rpc
  BY <1>20 DEF poll_execution_rpc, Unpark, notify, WakeDispatchers, Kinds
<1>21. CASE abandon_execution_rpc
  BY <1>21 DEF abandon_execution_rpc, Unpark, notify, WakeDispatchers, Kinds
<1>22. CASE wait_response
  BY <1>22 DEF wait_response, Unpark, notify, WakeDispatchers, Kinds
<1>23. CASE WaitTimeout
  BY <1>23 DEF WaitTimeout, Unpark, notify, WakeDispatchers, Kinds
<1>24. ASSUME NEW r \in Roles, NEW k \in Kinds(r), Submit(r, k) PROVE (NoLostShutdown')
  BY <1>24 DEF Submit, Unpark, notify, WakeDispatchers, Kinds
<1>25. CASE UNCHANGED vars
  BY <1>25 DEF vars
<1>26. CASE ocall_notify_execution_waiter
  BY <1>26 DEF ocall_notify_execution_waiter, notify_execution_cancel, Unpark, notify, WakeDispatchers, Kinds
<1> QED
  BY <1>1, <1>2, <1>3, <1>4, <1>5, <1>6, <1>7, <1>8, <1>9, <1>10, <1>11, <1>12, <1>13, <1>14, <1>15, <1>16, <1>17, <1>18, <1>19, <1>20, <1>21, <1>22, <1>23, <1>24, <1>25, <1>26
  DEF Next, DispatcherStep, ShutdownStep

(* A published response keeps the worker's hint, or it is still to come. *)
LEMMA ResponseRetainedNext ==
  ASSUME TypeOK, ResponseRetained, [Next]_vars PROVE ResponseRetained'
<1> USE SlotsAssumption DEF Roles, Actors, TypeOK, ResponseRetained
<1>1. ASSUME NEW r \in Roles, CheckShutdown(r) PROVE (ResponseRetained')
  BY <1>1 DEF CheckShutdown, Unpark, notify, WakeDispatchers, Kinds
<1>2. ASSUME NEW r \in Roles, ReceiveEmpty(r) PROVE (ResponseRetained')
  BY <1>2 DEF ReceiveEmpty, Unpark, notify, WakeDispatchers, Kinds
<1>3. ASSUME NEW r \in Roles, dispatch(r) PROVE (ResponseRetained')
  BY <1>3 DEF dispatch, Unpark, notify, WakeDispatchers, Kinds
<1>4. ASSUME NEW r \in Roles, wait(r) PROVE (ResponseRetained')
  BY <1>4 DEF wait, Unpark, notify, WakeDispatchers, Kinds
<1>5. ASSUME NEW r \in Roles, SpuriousWake(r) PROVE (ResponseRetained')
  BY <1>5 DEF SpuriousWake, Unpark, notify, WakeDispatchers, Kinds
<1>6. ASSUME NEW r \in Roles, notify_host(r) PROVE (ResponseRetained')
  BY <1>6 DEF notify_host, Unpark, notify, WakeDispatchers, Kinds
<1>7. ASSUME NEW r \in Roles, EcallReturns(r) PROVE (ResponseRetained')
  BY <1>7 DEF EcallReturns, Unpark, notify, WakeDispatchers, Kinds
<1>8. ASSUME NEW a \in Actors, ShutdownCancel(a) PROVE (ResponseRetained')
  BY <1>8 DEF ShutdownCancel, Unpark, notify, WakeDispatchers, Kinds
<1>9. ASSUME NEW a \in Actors, ShutdownHint(a) PROVE (ResponseRetained')
  BY <1>9 DEF ShutdownHint, notify_execution_cancel, Unpark, notify, WakeDispatchers, Kinds
<1>10. ASSUME NEW a \in Actors, ShutdownStore(a) PROVE (ResponseRetained')
  BY <1>10 DEF ShutdownStore, Unpark, notify, WakeDispatchers, Kinds
<1>11. ASSUME NEW a \in Actors, ShutdownNotify(a) PROVE (ResponseRetained')
  BY <1>11 DEF ShutdownNotify, Unpark, notify, WakeDispatchers, Kinds
<1>12. CASE DispatchShutdown
  BY <1>12 DEF DispatchShutdown, Unpark, notify, WakeDispatchers, Kinds
<1>13. CASE PublishLegacy
  BY <1>13 DEF PublishLegacy, Unpark, notify, WakeDispatchers, Kinds
<1>14. CASE publish
  BY <1>14 DEF publish, Unpark, notify, WakeDispatchers, Kinds
<1>15. CASE notify_response
  BY <1>15 DEF notify_response, Unpark, notify, WakeDispatchers, Kinds
<1>16. CASE MainShutdown
  BY <1>16 DEF MainShutdown, Unpark, notify, WakeDispatchers, Kinds
<1>17. CASE ProxyFails
  BY <1>17 DEF ProxyFails, Unpark, notify, WakeDispatchers, Kinds
<1>18. CASE ProxyNotifies
  BY <1>18 DEF ProxyNotifies, Unpark, notify, WakeDispatchers, Kinds
<1>19. CASE CallReceives
  BY <1>19 DEF CallReceives, Unpark, notify, WakeDispatchers, Kinds
<1>20. CASE poll_execution_rpc
  BY <1>20 DEF poll_execution_rpc, Unpark, notify, WakeDispatchers, Kinds
<1>21. CASE abandon_execution_rpc
  BY <1>21 DEF abandon_execution_rpc, Unpark, notify, WakeDispatchers, Kinds
<1>22. CASE wait_response
  BY <1>22 DEF wait_response, Unpark, notify, WakeDispatchers, Kinds
<1>23. CASE WaitTimeout
  BY <1>23 DEF WaitTimeout, Unpark, notify, WakeDispatchers, Kinds
<1>24. ASSUME NEW r \in Roles, NEW k \in Kinds(r), Submit(r, k) PROVE (ResponseRetained')
  BY <1>24 DEF Submit, Unpark, notify, WakeDispatchers, Kinds
<1>25. CASE UNCHANGED vars
  BY <1>25 DEF vars
<1>26. CASE ocall_notify_execution_waiter
  BY <1>26 DEF ocall_notify_execution_waiter, notify_execution_cancel, Unpark, notify, WakeDispatchers, Kinds
<1> QED
  BY <1>1, <1>2, <1>3, <1>4, <1>5, <1>6, <1>7, <1>8, <1>9, <1>10, <1>11, <1>12, <1>13, <1>14, <1>15, <1>16, <1>17, <1>18, <1>19, <1>20, <1>21, <1>22, <1>23, <1>24, <1>25, <1>26
  DEF Next, DispatcherStep, ShutdownStep

(* The worker parks only with its hint clear and before cancellation. *)
LEMMA ParksNext ==
  ASSUME TypeOK, ParksUnhinted, CancelReleases, [Next]_vars PROVE ParksUnhinted' /\ CancelReleases'
<1> USE SlotsAssumption DEF Roles, Actors, TypeOK, ParksUnhinted, CancelReleases
<1>1. ASSUME NEW r \in Roles, CheckShutdown(r) PROVE (ParksUnhinted' /\ CancelReleases')
  BY <1>1 DEF CheckShutdown, Unpark, notify, WakeDispatchers, Kinds
<1>2. ASSUME NEW r \in Roles, ReceiveEmpty(r) PROVE (ParksUnhinted' /\ CancelReleases')
  BY <1>2 DEF ReceiveEmpty, Unpark, notify, WakeDispatchers, Kinds
<1>3. ASSUME NEW r \in Roles, dispatch(r) PROVE (ParksUnhinted' /\ CancelReleases')
  BY <1>3 DEF dispatch, Unpark, notify, WakeDispatchers, Kinds
<1>4. ASSUME NEW r \in Roles, wait(r) PROVE (ParksUnhinted' /\ CancelReleases')
  BY <1>4 DEF wait, Unpark, notify, WakeDispatchers, Kinds
<1>5. ASSUME NEW r \in Roles, SpuriousWake(r) PROVE (ParksUnhinted' /\ CancelReleases')
  BY <1>5 DEF SpuriousWake, Unpark, notify, WakeDispatchers, Kinds
<1>6. ASSUME NEW r \in Roles, notify_host(r) PROVE (ParksUnhinted' /\ CancelReleases')
  BY <1>6 DEF notify_host, Unpark, notify, WakeDispatchers, Kinds
<1>7. ASSUME NEW r \in Roles, EcallReturns(r) PROVE (ParksUnhinted' /\ CancelReleases')
  BY <1>7 DEF EcallReturns, Unpark, notify, WakeDispatchers, Kinds
<1>8. ASSUME NEW a \in Actors, ShutdownCancel(a) PROVE (ParksUnhinted' /\ CancelReleases')
  BY <1>8 DEF ShutdownCancel, Unpark, notify, WakeDispatchers, Kinds
<1>9. ASSUME NEW a \in Actors, ShutdownHint(a) PROVE (ParksUnhinted' /\ CancelReleases')
  BY <1>9 DEF ShutdownHint, notify_execution_cancel, Unpark, notify, WakeDispatchers, Kinds
<1>10. ASSUME NEW a \in Actors, ShutdownStore(a) PROVE (ParksUnhinted' /\ CancelReleases')
  BY <1>10 DEF ShutdownStore, Unpark, notify, WakeDispatchers, Kinds
<1>11. ASSUME NEW a \in Actors, ShutdownNotify(a) PROVE (ParksUnhinted' /\ CancelReleases')
  BY <1>11 DEF ShutdownNotify, Unpark, notify, WakeDispatchers, Kinds
<1>12. CASE DispatchShutdown
  BY <1>12 DEF DispatchShutdown, Unpark, notify, WakeDispatchers, Kinds
<1>13. CASE PublishLegacy
  BY <1>13 DEF PublishLegacy, Unpark, notify, WakeDispatchers, Kinds
<1>14. CASE publish
  BY <1>14 DEF publish, Unpark, notify, WakeDispatchers, Kinds
<1>15. CASE notify_response
  BY <1>15 DEF notify_response, Unpark, notify, WakeDispatchers, Kinds
<1>16. CASE MainShutdown
  BY <1>16 DEF MainShutdown, Unpark, notify, WakeDispatchers, Kinds
<1>17. CASE ProxyFails
  BY <1>17 DEF ProxyFails, Unpark, notify, WakeDispatchers, Kinds
<1>18. CASE ProxyNotifies
  BY <1>18 DEF ProxyNotifies, Unpark, notify, WakeDispatchers, Kinds
<1>19. CASE CallReceives
  BY <1>19 DEF CallReceives, Unpark, notify, WakeDispatchers, Kinds
<1>20. CASE poll_execution_rpc
  BY <1>20 DEF poll_execution_rpc, Unpark, notify, WakeDispatchers, Kinds
<1>21. CASE abandon_execution_rpc
  BY <1>21 DEF abandon_execution_rpc, Unpark, notify, WakeDispatchers, Kinds
<1>22. CASE wait_response
  BY <1>22 DEF wait_response, Unpark, notify, WakeDispatchers, Kinds
<1>23. CASE WaitTimeout
  BY <1>23 DEF WaitTimeout, Unpark, notify, WakeDispatchers, Kinds
<1>24. ASSUME NEW r \in Roles, NEW k \in Kinds(r), Submit(r, k) PROVE (ParksUnhinted' /\ CancelReleases')
  BY <1>24 DEF Submit, Unpark, notify, WakeDispatchers, Kinds
<1>25. CASE UNCHANGED vars
  BY <1>25 DEF vars
<1>26. CASE ocall_notify_execution_waiter
  BY <1>26 DEF ocall_notify_execution_waiter, notify_execution_cancel, Unpark, notify, WakeDispatchers, Kinds
<1> QED
  BY <1>1, <1>2, <1>3, <1>4, <1>5, <1>6, <1>7, <1>8, <1>9, <1>10, <1>11, <1>12, <1>13, <1>14, <1>15, <1>16, <1>17, <1>18, <1>19, <1>20, <1>21, <1>22, <1>23, <1>24, <1>25, <1>26
  DEF Next, DispatcherStep, ShutdownStep

(* IndInv is inductive and gives the four invariants. *)
LEMMA IndInvNext == ASSUME IndInv, [Next]_vars PROVE IndInv'
BY TypeNext, RequestRetainedNext, SleepsUnnotifiedNext, ShutdownInHandlerNext,
   NoLostShutdownNext, ResponseRetainedNext, ParksNext
DEF IndInv

(* Whatever the sizes of the rings: no dispatcher sleeps on a request whose *)
(* caller has notified, or on a shutdown whose notification is done, and    *)
(* the worker never parks on a published and announced response or after    *)
(* the cancellation (DispatcherWake::wait, wait_response and shutdown).     *)
THEOREM NoLostWake == Spec => [](TypeOK /\ NothingSleptThrough)
<1>1. Init => IndInv
  BY IndInvInit
<1>2. IndInv /\ [Next]_vars => IndInv'
  BY IndInvNext
<1>3. IndInv => TypeOK /\ NoLostRequest /\ NoLostShutdown /\ NoLostResponse
                       /\ CancelReleases
  BY DEF IndInv, TypeOK, RequestRetained, SleepsUnnotified, ResponseRetained,
         ParksUnhinted, NoLostRequest, NoLostResponse, Roles
<1>4. IndInv => TypeOK /\ NothingSleptThrough
  BY <1>3 DEF NothingSleptThrough
<1> QED BY <1>1, <1>2, <1>4, PTL DEF Spec

==============================================================================
