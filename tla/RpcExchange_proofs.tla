------------------------- MODULE RpcExchange_proofs -------------------------
(***************************************************************************)
(* The endpoints of an RpcClient have one owner, whatever the threads, the *)
(* rings' sizes and the operations.                                        *)
(***************************************************************************)
EXTENDS RpcExchange, TLAPS

USE IdAssumption DEF Kinds

(* Taking the oldest message of a ring. *)
LEMMA HeadTail ==
  ASSUME NEW S, NEW q \in Seq(S), q # <<>>
  PROVE  Head(q) \in S /\ Tail(q) \in Seq(S) /\ Len(Tail(q)) = Len(q) - 1
OBVIOUS

(* Adding a message to a ring. *)
LEMMA AppendType ==
  ASSUME NEW S, NEW q \in Seq(S), NEW e \in S
  PROVE  Append(q, e) \in Seq(S) /\ Len(Append(q, e)) = Len(q) + 1
OBVIOUS

(* A client that was never used satisfies IndInv. *)
LEMMA IndInvInit == ASSUME Init PROVE IndInv
<1>1. RingTypeOK
  BY SlotsAssumption DEF Init, RingTypeOK
<1>2. ClientTypeOK
  BY DEF Init, ClientTypeOK
<1>3. IdsDistinct /\ TokenStaysPending
  BY DEF Init, IdsDistinct, TokenStaysPending, Identified, Owns
<1> QED BY <1>1, <1>2, <1>3 DEF IndInv, TypeOK

(* Every step keeps the types of the client and of its threads. *)
LEMMA ClientTypeNext ==
  ASSUME ClientTypeOK, [Next]_vars PROVE ClientTypeOK'
<1> USE DEF ClientTypeOK
<1>1. ASSUME NEW t \in Threads, NEW k \in KindsOf[t], Begin(t, k)
      PROVE  ClientTypeOK'
  BY <1>1, KindsAssumption DEF Begin
<1>2. ASSUME NEW t \in Threads, Lock(t) PROVE ClientTypeOK'
  BY <1>2 DEF Lock
<1>3. ASSUME NEW t \in Threads, Unlock(t) PROVE ClientTypeOK'
  BY <1>3 DEF Unlock
<1>4. ASSUME NEW t \in Threads, next_req_id(t) PROVE ClientTypeOK'
  BY <1>4 DEF next_req_id
<1>5. ASSUME NEW t \in Threads, OperationIdExhausted(t) PROVE ClientTypeOK'
  BY <1>5 DEF OperationIdExhausted, Ended
<1>6. ASSUME NEW t \in Threads, try_reserve_request(t) PROVE ClientTypeOK'
  BY <1>6 DEF try_reserve_request
<1>7. ASSUME NEW t \in Threads, Busy(t) PROVE ClientTypeOK'
  BY <1>7 DEF Busy, Ended
<1>8. ASSUME NEW t \in Threads, RequestFails(t) PROVE ClientTypeOK'
  BY <1>8 DEF RequestFails
<1>9. ASSUME NEW t \in Threads, Send(t) PROVE ClientTypeOK'
  BY <1>9 DEF Send
<1>10. ASSUME NEW t \in Threads, QueueFull(t) PROVE ClientTypeOK'
  BY <1>10 DEF QueueFull
<1>11. ASSUME NEW t \in Threads, Receive(t) PROVE ClientTypeOK'
  BY <1>11 DEF Receive
<1>12. ASSUME NEW t \in Threads, CallDiscards(t) PROVE ClientTypeOK'
  BY <1>12 DEF CallDiscards
<1>13. ASSUME NEW t \in Threads, UnexpectedResponse(t) PROVE ClientTypeOK'
  BY <1>13 DEF UnexpectedResponse
<1>14. ASSUME NEW t \in Threads, release_request(t) PROVE ClientTypeOK'
  BY <1>14 DEF release_request, Ended
<1>15. ASSUME NEW t \in Threads, abandon_execution_rpc(t) PROVE ClientTypeOK'
  BY <1>15 DEF abandon_execution_rpc
<1>16. CASE dispatch
  BY <1>16 DEF dispatch, thread
<1>17. CASE Respond
  BY <1>17 DEF Respond, thread
<1>18. CASE ResponseDropped
  BY <1>18 DEF ResponseDropped, thread
<1>19. CASE UNCHANGED vars
  BY <1>19 DEF vars, thread
<1> QED
  BY <1>1, <1>2, <1>3, <1>4, <1>5, <1>6, <1>7, <1>8, <1>9, <1>10, <1>11, <1>12, <1>13, <1>14, <1>15, <1>16, <1>17, <1>18, <1>19
  DEF Next, Step, HostStep

(* Every step keeps the bounds of the rings. *)
LEMMA RingTypeNext ==
  ASSUME ClientTypeOK, RingTypeOK, [Next]_vars PROVE RingTypeOK'
<1> USE SlotsAssumption DEF ClientTypeOK, RingTypeOK, Frame
<1>1. ASSUME NEW t \in Threads, NEW k \in KindsOf[t], Begin(t, k)
      PROVE  RingTypeOK'
  BY <1>1, KindsAssumption DEF Begin
<1>2. ASSUME NEW t \in Threads, Lock(t) PROVE RingTypeOK'
  BY <1>2 DEF Lock
<1>3. ASSUME NEW t \in Threads, Unlock(t) PROVE RingTypeOK'
  BY <1>3 DEF Unlock
<1>4. ASSUME NEW t \in Threads, next_req_id(t) PROVE RingTypeOK'
  BY <1>4 DEF next_req_id
<1>5. ASSUME NEW t \in Threads, OperationIdExhausted(t) PROVE RingTypeOK'
  BY <1>5 DEF OperationIdExhausted, Ended
<1>6. ASSUME NEW t \in Threads, try_reserve_request(t) PROVE RingTypeOK'
  BY <1>6 DEF try_reserve_request
<1>7. ASSUME NEW t \in Threads, Busy(t) PROVE RingTypeOK'
  BY <1>7 DEF Busy, Ended
<1>8. ASSUME NEW t \in Threads, RequestFails(t) PROVE RingTypeOK'
  BY <1>8 DEF RequestFails
<1>9. ASSUME NEW t \in Threads, Send(t) PROVE RingTypeOK'
  BY <1>9 DEF Send
<1>10. ASSUME NEW t \in Threads, QueueFull(t) PROVE RingTypeOK'
  BY <1>10 DEF QueueFull
<1>11. ASSUME NEW t \in Threads, Receive(t) PROVE RingTypeOK'
  BY <1>11 DEF Receive, ConsumeResponse
<1>12. ASSUME NEW t \in Threads, CallDiscards(t) PROVE RingTypeOK'
  BY <1>12 DEF CallDiscards, ConsumeResponse
<1>13. ASSUME NEW t \in Threads, UnexpectedResponse(t) PROVE RingTypeOK'
  BY <1>13 DEF UnexpectedResponse, ConsumeResponse
<1>14. ASSUME NEW t \in Threads, release_request(t) PROVE RingTypeOK'
  BY <1>14 DEF release_request, Ended
<1>15. ASSUME NEW t \in Threads, abandon_execution_rpc(t) PROVE RingTypeOK'
  BY <1>15 DEF abandon_execution_rpc
<1>16. CASE dispatch
  <2> HIDE DEF Frame
  <2>0. requests \in Seq(Frame) /\ requests # <<>>
    BY <1>16 DEF dispatch
  <2>1. /\ Head(requests) \in Frame /\ Tail(requests) \in Seq(Frame)
        /\ Len(Tail(requests)) = Len(requests) - 1
    BY ONLY <2>0, HeadTail
  <2>2. Len(Tail(requests)) <= RequestSlots
    BY <2>0, <2>1
  <2>3. <<Head(requests)>> \in Seq(Frame) /\ Len(<<Head(requests)>>) <= 1
    BY ONLY <2>1
  <2> QED BY <1>16, <2>1, <2>2, <2>3 DEF dispatch
<1>17. CASE Respond
  <2> HIDE DEF Frame
  <2>0. handling \in Seq(Frame) /\ handling # <<>> /\ responses \in Seq(Frame)
    BY <1>17 DEF Respond
  <2>1. Head(handling) \in Frame
    BY ONLY <2>0, HeadTail
  <2> DEFINE answer == Append(responses, Head(handling))
  <2>2. answer \in Seq(Frame) /\ Len(answer) = Len(responses) + 1
    BY <2>0, <2>1, AppendType
  <2>3. Len(answer) <= ResponseSlots
    BY <1>17, <2>0, <2>2 DEF Respond
  <2>4. responses' = answer /\ handling' = <<>> /\ requests' = requests
    BY <1>17 DEF Respond
  <2> HIDE DEF answer
  <2> QED BY <2>2, <2>3, <2>4
<1>18. CASE ResponseDropped
  BY <1>18 DEF ResponseDropped, thread
<1>19. CASE UNCHANGED vars
  BY <1>19 DEF vars, thread
<1> QED
  BY <1>1, <1>2, <1>3, <1>4, <1>5, <1>6, <1>7, <1>8, <1>9, <1>10, <1>11, <1>12, <1>13, <1>14, <1>15, <1>16, <1>17, <1>18, <1>19
  DEF Next, Step, HostStep

(* The counter hands out every id once. *)
LEMMA IdsDistinctNext ==
  ASSUME ClientTypeOK, IdsDistinct, [Next]_vars PROVE IdsDistinct'
<1> USE DEF ClientTypeOK, IdsDistinct, Identified, Owns
<1>1. ASSUME NEW t \in Threads, NEW k \in KindsOf[t], Begin(t, k)
      PROVE  IdsDistinct'
  BY <1>1, KindsAssumption DEF Begin
<1>2. ASSUME NEW t \in Threads, Lock(t) PROVE IdsDistinct'
  BY <1>2 DEF Lock
<1>3. ASSUME NEW t \in Threads, Unlock(t) PROVE IdsDistinct'
  BY <1>3 DEF Unlock
<1>4. ASSUME NEW t \in Threads, next_req_id(t) PROVE IdsDistinct'
  BY <1>4 DEF next_req_id
<1>5. ASSUME NEW t \in Threads, OperationIdExhausted(t) PROVE IdsDistinct'
  BY <1>5 DEF OperationIdExhausted, Ended
<1>6. ASSUME NEW t \in Threads, try_reserve_request(t) PROVE IdsDistinct'
  BY <1>6 DEF try_reserve_request
<1>7. ASSUME NEW t \in Threads, Busy(t) PROVE IdsDistinct'
  BY <1>7 DEF Busy, Ended
<1>8. ASSUME NEW t \in Threads, RequestFails(t) PROVE IdsDistinct'
  BY <1>8 DEF RequestFails
<1>9. ASSUME NEW t \in Threads, Send(t) PROVE IdsDistinct'
  BY <1>9 DEF Send
<1>10. ASSUME NEW t \in Threads, QueueFull(t) PROVE IdsDistinct'
  BY <1>10 DEF QueueFull
<1>11. ASSUME NEW t \in Threads, Receive(t) PROVE IdsDistinct'
  BY <1>11 DEF Receive
<1>12. ASSUME NEW t \in Threads, CallDiscards(t) PROVE IdsDistinct'
  BY <1>12 DEF CallDiscards
<1>13. ASSUME NEW t \in Threads, UnexpectedResponse(t) PROVE IdsDistinct'
  BY <1>13 DEF UnexpectedResponse
<1>14. ASSUME NEW t \in Threads, release_request(t) PROVE IdsDistinct'
  BY <1>14 DEF release_request, Ended
<1>15. ASSUME NEW t \in Threads, abandon_execution_rpc(t) PROVE IdsDistinct'
  BY <1>15 DEF abandon_execution_rpc
<1>16. CASE dispatch
  BY <1>16 DEF dispatch, thread
<1>17. CASE Respond
  BY <1>17 DEF Respond, thread
<1>18. CASE ResponseDropped
  BY <1>18 DEF ResponseDropped, thread
<1>19. CASE UNCHANGED vars
  BY <1>19 DEF vars, thread
<1> QED
  BY <1>1, <1>2, <1>3, <1>4, <1>5, <1>6, <1>7, <1>8, <1>9, <1>10, <1>11, <1>12, <1>13, <1>14, <1>15, <1>16, <1>17, <1>18, <1>19
  DEF Next, Step, HostStep

(* Only its owner clears a reservation. *)
LEMMA TokenNext ==
  ASSUME ClientTypeOK, IdsDistinct, TokenStaysPending, [Next]_vars PROVE TokenStaysPending'
<1> USE DEF ClientTypeOK, IdsDistinct, TokenStaysPending, Identified, Owns
<1>1. ASSUME NEW t \in Threads, NEW k \in KindsOf[t], Begin(t, k)
      PROVE  TokenStaysPending'
  BY <1>1, KindsAssumption DEF Begin
<1>2. ASSUME NEW t \in Threads, Lock(t) PROVE TokenStaysPending'
  BY <1>2 DEF Lock
<1>3. ASSUME NEW t \in Threads, Unlock(t) PROVE TokenStaysPending'
  BY <1>3 DEF Unlock
<1>4. ASSUME NEW t \in Threads, next_req_id(t) PROVE TokenStaysPending'
  BY <1>4 DEF next_req_id
<1>5. ASSUME NEW t \in Threads, OperationIdExhausted(t) PROVE TokenStaysPending'
  BY <1>5 DEF OperationIdExhausted, Ended
<1>6. ASSUME NEW t \in Threads, try_reserve_request(t) PROVE TokenStaysPending'
  BY <1>6 DEF try_reserve_request
<1>7. ASSUME NEW t \in Threads, Busy(t) PROVE TokenStaysPending'
  BY <1>7 DEF Busy, Ended
<1>8. ASSUME NEW t \in Threads, RequestFails(t) PROVE TokenStaysPending'
  BY <1>8 DEF RequestFails
<1>9. ASSUME NEW t \in Threads, Send(t) PROVE TokenStaysPending'
  BY <1>9 DEF Send
<1>10. ASSUME NEW t \in Threads, QueueFull(t) PROVE TokenStaysPending'
  BY <1>10 DEF QueueFull
<1>11. ASSUME NEW t \in Threads, Receive(t) PROVE TokenStaysPending'
  BY <1>11 DEF Receive
<1>12. ASSUME NEW t \in Threads, CallDiscards(t) PROVE TokenStaysPending'
  BY <1>12 DEF CallDiscards
<1>13. ASSUME NEW t \in Threads, UnexpectedResponse(t) PROVE TokenStaysPending'
  BY <1>13 DEF UnexpectedResponse
<1>14. ASSUME NEW t \in Threads, release_request(t) PROVE TokenStaysPending'
  BY <1>14 DEF release_request, Ended
<1>15. ASSUME NEW t \in Threads, abandon_execution_rpc(t) PROVE TokenStaysPending'
  BY <1>15 DEF abandon_execution_rpc
<1>16. CASE dispatch
  BY <1>16 DEF dispatch, thread
<1>17. CASE Respond
  BY <1>17 DEF Respond, thread
<1>18. CASE ResponseDropped
  BY <1>18 DEF ResponseDropped, thread
<1>19. CASE UNCHANGED vars
  BY <1>19 DEF vars, thread
<1> QED
  BY <1>1, <1>2, <1>3, <1>4, <1>5, <1>6, <1>7, <1>8, <1>9, <1>10, <1>11, <1>12, <1>13, <1>14, <1>15, <1>16, <1>17, <1>18, <1>19
  DEF Next, Step, HostStep

(* IndInv is inductive. *)
LEMMA IndInvNext == ASSUME IndInv, [Next]_vars PROVE IndInv'
BY ClientTypeNext, RingTypeNext, IdsDistinctNext, TokenNext DEF IndInv, TypeOK

(* For any number of threads and any mixture of synchronous and polled      *)
(* operations, at most one thread uses the single-producer and              *)
(* single-consumer endpoints (the unsafe Sync of RpcClient), and a pending  *)
(* operation keeps its reservation until its owner ends it.                 *)
THEOREM EndpointsOwned ==
  Spec => [](TypeOK /\ ExclusiveEndpoints /\ TokenStaysPending)
<1>1. Init => IndInv
  BY IndInvInit
<1>2. IndInv /\ [Next]_vars => IndInv'
  BY IndInvNext
<1>3. IndInv => TypeOK /\ ExclusiveEndpoints /\ TokenStaysPending
  BY DEF IndInv, IdsDistinct, TokenStaysPending, ExclusiveEndpoints, Identified
<1> QED BY <1>1, <1>2, <1>3, PTL DEF Spec

==============================================================================
