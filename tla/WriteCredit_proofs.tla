-------------------------- MODULE WriteCredit_proofs --------------------------
(***************************************************************************)
(* The write window of a connection, for every window, quantum and step.   *)
(* The lemmas on queues say what taking or adding a message does to        *)
(* Ordered, Reaches and Contains; with them the proof that IndInv is       *)
(* inductive has one lemma per step that moves bytes or credits and one    *)
(* for all the steps that move none.                                       *)
(***************************************************************************)
EXTENDS WriteCredit, TLAPS

(* The messages of a queue after one is appended. *)
LEMMA AppendElements ==
  ASSUME NEW S, NEW q \in Seq(S), NEW e \in S
  PROVE  /\ Append(q, e) \in Seq(S)
         /\ Len(Append(q, e)) = Len(q) + 1 /\ Len(q) \in Nat
         /\ \A i \in 1..Len(q) : Append(q, e)[i] = q[i]
         /\ Append(q, e)[Len(q) + 1] = e
OBVIOUS

(* The messages of a queue after the oldest is taken. *)
LEMMA TailElements ==
  ASSUME NEW S, NEW q \in Seq(S), q # <<>>
  PROVE  /\ Tail(q) \in Seq(S) /\ Head(q) \in S /\ Head(q) = q[1]
         /\ Len(Tail(q)) = Len(q) - 1 /\ Len(q) \in Nat /\ 1 <= Len(q)
         /\ \A i \in 1..Len(Tail(q)) : Tail(q)[i] = q[i + 1]
OBVIOUS

(* A message is a record of its kind and number. *)
LEMMA MessageType ==
  ASSUME NEW K, NEW k \in K, NEW n \in Nat
  PROVE  /\ Message(k, n) \in Messages(K)
         /\ Message(k, n).kind = k /\ Message(k, n).n = n
BY DEF Message, Messages

(* A message of another kind leaves the order and the last one as it was. *)
LEMMA AppendOther ==
  ASSUME NEW K, NEW q \in Seq(Messages(K)), NEW j \in K, NEW n \in Nat,
         NEW k, j # k, NEW lo \in Nat, NEW hi \in Nat
  PROVE  /\ Ordered(q, k, lo, hi) => Ordered(Append(q, Message(j, n)), k, lo, hi)
         /\ Reaches(q, k, lo, hi) => Reaches(Append(q, Message(j, n)), k, lo, hi)
<1> DEFINE p == Append(q, Message(j, n))
<1>1. /\ Len(p) = Len(q) + 1 /\ Len(q) \in Nat
      /\ \A i \in 1..Len(q) : p[i] = q[i]
      /\ p[Len(q) + 1].kind = j
  BY SMTT(30), AppendElements, MessageType
<1> HIDE DEF p
<1>2. Ordered(q, k, lo, hi) => Ordered(p, k, lo, hi)
  BY <1>1 DEF Ordered
<1>3. Reaches(q, k, lo, hi) => Reaches(p, k, lo, hi)
  BY <1>1 DEF Reaches
<1> QED BY <1>2, <1>3 DEF p

(* A message of the kind that raises hi becomes the last one. *)
LEMMA AppendSame ==
  ASSUME NEW K, NEW q \in Seq(Messages(K)), NEW k \in K,
         NEW lo \in Nat, NEW hi \in Nat, NEW n \in Nat, hi <= n, lo <= n,
         Ordered(q, k, lo, hi)
  PROVE  /\ Ordered(Append(q, Message(k, n)), k, lo, n)
         /\ Reaches(Append(q, Message(k, n)), k, lo, n)
<1> DEFINE p == Append(q, Message(k, n))
<1>1. /\ Len(p) = Len(q) + 1 /\ Len(q) \in Nat
      /\ \A i \in 1..Len(q) : p[i] = q[i]
      /\ p[Len(q) + 1].kind = k /\ p[Len(q) + 1].n = n
  <2>1. /\ Message(k, n) \in Messages(K)
        /\ Message(k, n).kind = k /\ Message(k, n).n = n
    BY MessageType
  <2> QED BY <2>1, AppendElements
<1>2. \A i \in 1..Len(q) : q[i].n \in Nat
  <2>1. \A m \in Messages(K) : m.n \in Nat
    BY DEF Messages
  <2>2. \A i \in 1..Len(q) : q[i] \in Messages(K)
    OBVIOUS
  <2> QED BY <2>1, <2>2
<1> HIDE DEF p
<1>3. Ordered(p, k, lo, n)
  <2> SUFFICES ASSUME NEW i \in 1..Len(p), p[i].kind = k
               PROVE  /\ lo <= p[i].n /\ p[i].n <= n
                      /\ \A j \in 1..i : p[j].kind = k => p[j].n <= p[i].n
    BY DEF Ordered
  <2>1. CASE i \in 1..Len(q)
    BY <1>1, <1>2, <2>1 DEF Ordered
  <2>2. CASE i = Len(q) + 1
    BY <1>1, <1>2, <2>2 DEF Ordered
  <2> QED BY <1>1, <2>1, <2>2
<1>4. Reaches(p, k, lo, n)
  BY <1>1 DEF Reaches
<1> QED BY <1>3, <1>4 DEF p

(* Taking a message of another kind. *)
LEMMA TailOther ==
  ASSUME NEW K, NEW q \in Seq(Messages(K)), q # <<>>,
         NEW k, NEW lo \in Nat, NEW hi \in Nat
  PROVE  /\ Ordered(q, k, lo, hi) => Ordered(Tail(q), k, lo, hi)
         /\ Head(q).kind # k /\ Reaches(q, k, lo, hi)
              => Reaches(Tail(q), k, lo, hi)
<1> DEFINE p == Tail(q)
<1>1. /\ Len(p) = Len(q) - 1 /\ Len(q) \in Nat /\ 1 <= Len(q)
      /\ \A i \in 1..Len(p) : p[i] = q[i + 1]
      /\ Head(q) = q[1]
  BY TailElements
<1> HIDE DEF p
<1>2. Ordered(q, k, lo, hi) => Ordered(p, k, lo, hi)
  <2> SUFFICES ASSUME Ordered(q, k, lo, hi), NEW i \in 1..Len(p), p[i].kind = k
               PROVE  /\ lo <= p[i].n /\ p[i].n <= hi
                      /\ \A j \in 1..i : p[j].kind = k => p[j].n <= p[i].n
    BY DEF Ordered
  <2>1. i + 1 \in 1..Len(q) /\ p[i] = q[i + 1]
    BY <1>1
  <2>2. \A j \in 1..i : j + 1 \in 1..(i + 1) /\ p[j] = q[j + 1]
    BY SMTT(30), <1>1
  <2> QED BY <2>1, <2>2 DEF Ordered
<1>3. ASSUME Head(q).kind # k, Reaches(q, k, lo, hi)
      PROVE  Reaches(p, k, lo, hi)
  <2>1. CASE lo = hi
    BY <2>1 DEF Reaches
  <2>2. CASE \E i \in 1..Len(q) : q[i].kind = k /\ q[i].n = hi
    <3>1. PICK i \in 1..Len(q) : q[i].kind = k /\ q[i].n = hi
      BY <2>2
    <3>2. i - 1 \in 1..Len(p) /\ p[i - 1] = q[i]
      BY <1>1, <1>3, <3>1
    <3> QED BY <3>1, <3>2 DEF Reaches
  <2> QED BY <1>3, <2>1, <2>2 DEF Reaches
<1> QED BY <1>2, <1>3 DEF p

(* Taking a message of the kind raises lo to it. *)
LEMMA TailSame ==
  ASSUME NEW K, NEW q \in Seq(Messages(K)), q # <<>>,
         NEW lo \in Nat, NEW hi \in Nat,
         Ordered(q, Head(q).kind, lo, hi)
  PROVE  /\ Head(q).n \in Nat /\ lo <= Head(q).n /\ Head(q).n <= hi
         /\ Ordered(Tail(q), Head(q).kind, Head(q).n, hi)
         /\ Reaches(q, Head(q).kind, lo, hi) /\ lo # hi
              => Reaches(Tail(q), Head(q).kind, Head(q).n, hi)
<1> DEFINE p == Tail(q)
           k == Head(q).kind
           m == Head(q).n
<1>1. /\ Len(p) = Len(q) - 1 /\ Len(q) \in Nat /\ 1 <= Len(q)
      /\ \A i \in 1..Len(p) : p[i] = q[i + 1]
      /\ q[1].kind = k /\ q[1].n = m
  BY TailElements
<1>2. m \in Nat
  <2>1. \A x \in Messages(K) : x.n \in Nat
    BY DEF Messages
  <2> QED BY <2>1, TailElements
<1>3. Ordered(q, k, lo, hi)
  OBVIOUS
<1> HIDE DEF p, k, m
<1>4. lo <= m /\ m <= hi
  BY <1>1, <1>3 DEF Ordered
<1>5. Ordered(p, k, m, hi)
  <2> SUFFICES ASSUME NEW i \in 1..Len(p), p[i].kind = k
               PROVE  /\ m <= p[i].n /\ p[i].n <= hi
                      /\ \A j \in 1..i : p[j].kind = k => p[j].n <= p[i].n
    BY DEF Ordered
  <2>1. i + 1 \in 1..Len(q) /\ p[i] = q[i + 1] /\ 1 \in 1..(i + 1)
    BY <1>1
  <2>2. \A j \in 1..i : j + 1 \in 1..(i + 1) /\ p[j] = q[j + 1]
    BY SMTT(30), <1>1
  <2> QED BY <1>1, <1>3, <2>1, <2>2 DEF Ordered
<1>6. ASSUME Reaches(q, k, lo, hi), lo # hi
      PROVE  Reaches(p, k, m, hi)
  <2>1. PICK i \in 1..Len(q) : q[i].kind = k /\ q[i].n = hi
    BY <1>6 DEF Reaches
  <2>2. CASE i = 1
    BY <1>1, <2>1, <2>2 DEF Reaches
  <2>3. CASE i # 1
    <3>1. i - 1 \in 1..Len(p) /\ p[i - 1] = q[i]
      BY <1>1, <2>3
    <3> QED BY <2>1, <3>1 DEF Reaches
  <2> QED BY <2>2, <2>3
<1> QED BY <1>2, <1>4, <1>5, <1>6 DEF p, k, m

(* Which kinds a queue holds. *)
LEMMA AppendContains ==
  ASSUME NEW K, NEW q \in Seq(Messages(K)), NEW j \in K, NEW n \in Nat, NEW k
  PROVE  Contains(Append(q, Message(j, n)), k) => Contains(q, k) \/ j = k
<1> DEFINE p == Append(q, Message(j, n))
<1>1. /\ Len(p) = Len(q) + 1 /\ Len(q) \in Nat
      /\ \A i \in 1..Len(q) : p[i] = q[i]
      /\ p[Len(q) + 1].kind = j
  BY SMTT(30), AppendElements, MessageType
<1> HIDE DEF p
<1>2. Contains(p, k) => Contains(q, k) \/ j = k
  BY <1>1 DEF Contains
<1> QED BY <1>2 DEF p

LEMMA TailContains ==
  ASSUME NEW K, NEW q \in Seq(Messages(K)), q # <<>>, NEW k
  PROVE  /\ Contains(Tail(q), k) => Contains(q, k)
         /\ Contains(q, Head(q).kind)
<1> DEFINE p == Tail(q)
<1>1. /\ Len(p) = Len(q) - 1 /\ Len(q) \in Nat /\ 1 <= Len(q)
      /\ \A i \in 1..Len(p) : p[i] = q[i + 1]
      /\ Head(q) = q[1]
  BY TailElements
<1> HIDE DEF p
<1>2. Contains(p, k) => Contains(q, k)
  BY <1>1 DEF Contains
<1>3. Contains(q, Head(q).kind)
  BY <1>1 DEF Contains
<1> QED BY <1>2, <1>3 DEF p
(* What a queue is after a step that adds a message which is not of the    *)
(* kind the invariant counts, or takes one.                                *)
LEMMA HostQueueAppend ==
  ASSUME IndInv, NEW k \in ToHost, k # "data", NEW n \in Nat,
         to_host' = Append(to_host, Message(k, n))
  PROVE  /\ to_host' \in Seq(Messages(ToHost))
         /\ Ordered(to_host', "data", received, sent)
         /\ Reaches(to_host, "data", received, sent)
              => Reaches(to_host', "data", received, sent)
         /\ Contains(to_host', "notify")
              => Contains(to_host, "notify") \/ k = "notify"
<1>1. to_host \in Seq(Messages(ToHost)) /\ received \in Nat /\ sent \in Nat
  BY BoundAssumption DEF IndInv, TypeOK
<1>2. Ordered(to_host, "data", received, sent)
  BY DEF IndInv, DataOrdered
<1>3. to_host' \in Seq(Messages(ToHost))
  BY <1>1, MessageType, AppendElements
<1> QED BY <1>1, <1>2, <1>3, AppendOther, AppendContains

LEMMA HostQueueTail ==
  ASSUME IndInv, to_host # <<>>, to_host' = Tail(to_host)
  PROVE  /\ to_host' \in Seq(Messages(ToHost))
         /\ Ordered(to_host', "data", received, sent)
         /\ Head(to_host).kind # "data" /\ Reaches(to_host, "data", received, sent)
              => Reaches(to_host', "data", received, sent)
         /\ Contains(to_host', "notify") => Contains(to_host, "notify")
<1>1. to_host \in Seq(Messages(ToHost)) /\ received \in Nat /\ sent \in Nat
  BY BoundAssumption DEF IndInv, TypeOK
<1>2. Ordered(to_host, "data", received, sent)
  BY DEF IndInv, DataOrdered
<1>3. to_host' \in Seq(Messages(ToHost))
  BY <1>1, TailElements
<1> QED BY <1>1, <1>2, <1>3, TailOther, TailContains

LEMMA EnclaveQueueAppend ==
  ASSUME IndInv, NEW k \in ToEnclave, k # "credit", NEW n \in Nat,
         to_enclave' = Append(to_enclave, Message(k, n))
  PROVE  /\ to_enclave' \in Seq(Messages(ToEnclave))
         /\ Ordered(to_enclave', "credit", written, reported)
         /\ Reaches(to_enclave, "credit", written, reported)
              => Reaches(to_enclave', "credit", written, reported)
         /\ Contains(to_enclave', "close")
              => Contains(to_enclave, "close") \/ k = "close"
<1>1. to_enclave \in Seq(Messages(ToEnclave)) /\ written \in Nat /\ reported \in Nat
  BY BoundAssumption DEF IndInv, TypeOK
<1>2. Ordered(to_enclave, "credit", written, reported)
  BY DEF IndInv, CreditsOrdered
<1>3. to_enclave' \in Seq(Messages(ToEnclave))
  BY <1>1, MessageType, AppendElements
<1> QED BY <1>1, <1>2, <1>3, AppendOther, AppendContains

LEMMA EnclaveQueueTail ==
  ASSUME IndInv, to_enclave # <<>>, to_enclave' = Tail(to_enclave)
  PROVE  /\ to_enclave' \in Seq(Messages(ToEnclave))
         /\ Ordered(to_enclave', "credit", written, reported)
         /\ Head(to_enclave).kind # "credit"
              /\ Reaches(to_enclave, "credit", written, reported)
              => Reaches(to_enclave', "credit", written, reported)
         /\ Contains(to_enclave', "close") => Contains(to_enclave, "close")
         /\ Head(to_enclave).kind = "close" => Contains(to_enclave, "close")
<1>1. to_enclave \in Seq(Messages(ToEnclave)) /\ written \in Nat /\ reported \in Nat
  BY BoundAssumption DEF IndInv, TypeOK
<1>2. Ordered(to_enclave, "credit", written, reported)
  BY DEF IndInv, CreditsOrdered
<1>3. to_enclave' \in Seq(Messages(ToEnclave))
  BY <1>1, TailElements
<1> QED BY <1>1, <1>2, <1>3, TailOther, TailContains

(* A report of total, the next credit. *)
LEMMA EnclaveQueueCredit ==
  ASSUME IndInv, NEW n \in Nat, reported <= n
  PROVE  /\ Append(to_enclave, Credit(n)) \in Seq(Messages(ToEnclave))
         /\ Ordered(Append(to_enclave, Credit(n)), "credit", written, n)
         /\ Reaches(Append(to_enclave, Credit(n)), "credit", written, n)
         /\ Contains(Append(to_enclave, Credit(n)), "close")
              => Contains(to_enclave, "close")
<1>1. to_enclave \in Seq(Messages(ToEnclave)) /\ written \in Nat /\ reported \in Nat
  BY BoundAssumption DEF IndInv, TypeOK
<1>2. Ordered(to_enclave, "credit", written, reported) /\ written <= n
  BY <1>1 DEF IndInv, CreditsOrdered, CountersOrdered
<1>3. "credit" \in ToEnclave
  BY DEF ToEnclave
<1>4. Message("credit", n) \in Messages(ToEnclave)
  BY <1>3, MessageType
<1>5. Append(to_enclave, Message("credit", n)) \in Seq(Messages(ToEnclave))
  BY <1>1, <1>4, AppendElements
<1> QED BY <1>1, <1>2, <1>3, <1>5, AppendSame, AppendContains DEF Credit

(* A connection that was just accepted satisfies IndInv. *)
LEMMA IndInvInit == ASSUME Init PROVE IndInv
<1>1. Message("new", 0) \in Messages(ToEnclave) /\ Message("new", 0).kind = "new"
  BY MessageType DEF ToEnclave
<1>2. TypeOK
  BY <1>1, BoundAssumption DEF Init, TypeOK
<1>3. CountersOrdered /\ UnreportedBounded
  BY WindowAssumption DEF Init, CountersOrdered, UnreportedBounded
<1>4. DataOrdered /\ DataArrives /\ UncountedIgnored
  BY DEF Init, DataOrdered, Ordered, DataArrives, Reaches, UncountedIgnored, Contains
<1>5. CreditsOrdered /\ CreditsArrive /\ CloseIsLast
  BY <1>1 DEF Init, CreditsOrdered, Ordered, CreditsArrive, Reaches, CloseIsLast, Contains
<1> QED BY <1>2, <1>3, <1>4, <1>5 DEF IndInv

(* Steps that move no byte and no credit. *)
LEMMA QuietNext ==
  ASSUME IndInv,
         \/ TcpNew \/ TcpNewRefused \/ SendRefused \/ DataUnanswered
         \/ RejectCredit \/ close_deferred_transport \/ ClosePlain
         \/ CloseAfterWrite \/ Ignored \/ ReadSocket \/ HostCloses
         \/ OutputRefused \/ DispatchTurn
  PROVE  IndInv'
<1> DEFINE HostKeeps ==
       /\ to_host' \in Seq(Messages(ToHost))
       /\ Ordered(to_host', "data", received, sent)
       /\ (Reaches(to_host, "data", received, sent)
             => Reaches(to_host', "data", received, sent))
           EnclaveKeeps ==
       /\ to_enclave' \in Seq(Messages(ToEnclave))
       /\ Ordered(to_enclave', "credit", written, reported)
       /\ (Reaches(to_enclave, "credit", written, reported)
             => Reaches(to_enclave', "credit", written, reported))
<1>0. /\ TypeOK /\ CountersOrdered /\ DataOrdered /\ CreditsOrdered
      /\ DataArrives /\ CreditsArrive /\ UnreportedBounded
      /\ CloseIsLast /\ UncountedIgnored
  BY DEF IndInv
<1>1. CASE TcpNew
  <2>1. HostKeeps /\ (Contains(to_host', "notify") => Contains(to_host, "notify"))
    <3>1. to_host' = Append(to_host, Message("credit", 0))
      BY <1>1 DEF TcpNew, Consume, Send, Receive, Tell, Close, counters
    <3>2. "credit" \in ToHost
      BY DEF ToHost
    <3> QED BY <3>1, <3>2, HostQueueAppend
  <2>2. EnclaveKeeps /\ (Contains(to_enclave', "close") => Contains(to_enclave, "close"))
    <3>1. to_enclave # <<>> /\ to_enclave' = Tail(to_enclave)
      BY <1>1 DEF TcpNew, Consume, Send, Receive, Tell, Close, counters
    <3>2. Head(to_enclave).kind = "new"
      BY <1>1 DEF TcpNew, Consume, Send, Receive, Tell, Close, counters
    <3> QED BY <3>1, <3>2, EnclaveQueueTail
  <2>3. /\ host' = host
        /\ enclave = "new" /\ enclave' = "live"
        /\ sent' = sent /\ written' = written /\ received' = received
        /\ total' = total /\ reported' = reported
    BY <1>1 DEF TcpNew, Consume, Send, Receive, Tell, Close, counters
  <2> HIDE DEF HostKeeps, EnclaveKeeps
  <2>4. TypeOK'
    BY <1>0, <2>1, <2>2, <2>3 DEF TypeOK, HostKeeps, EnclaveKeeps
  <2>5. CountersOrdered' /\ UnreportedBounded'
    BY <1>0, <2>3 DEF CountersOrdered, UnreportedBounded, Open
  <2>6. DataOrdered' /\ DataArrives' /\ UncountedIgnored'
    BY <1>0, <2>1, <2>3 DEF HostKeeps, DataOrdered, DataArrives, UncountedIgnored, Open
  <2>7. CreditsOrdered' /\ CreditsArrive' /\ CloseIsLast'
    BY <1>0, <2>2, <2>3 DEF EnclaveKeeps, CreditsOrdered, CreditsArrive, CloseIsLast
  <2> QED BY <2>4, <2>5, <2>6, <2>7 DEF IndInv
<1>2. CASE TcpNewRefused
  <2>1. HostKeeps /\ (Contains(to_host', "notify") => Contains(to_host, "notify"))
    <3>1. to_host' = Append(to_host, Message("close", 0))
      BY <1>2 DEF TcpNewRefused, Consume, Send, Receive, Tell, Close, counters
    <3>2. "close" \in ToHost
      BY DEF ToHost
    <3> QED BY <3>1, <3>2, HostQueueAppend
  <2>2. EnclaveKeeps /\ (Contains(to_enclave', "close") => Contains(to_enclave, "close"))
    <3>1. to_enclave # <<>> /\ to_enclave' = Tail(to_enclave)
      BY <1>2 DEF TcpNewRefused, Consume, Send, Receive, Tell, Close, counters
    <3>2. Head(to_enclave).kind = "new"
      BY <1>2 DEF TcpNewRefused, Consume, Send, Receive, Tell, Close, counters
    <3> QED BY <3>1, <3>2, EnclaveQueueTail
  <2>3. /\ host' = host
        /\ enclave' = "gone"
        /\ sent' = sent /\ written' = written /\ received' = received
        /\ total' = total /\ reported' = reported
    BY <1>2 DEF TcpNewRefused, Consume, Send, Receive, Tell, Close, counters
  <2> HIDE DEF HostKeeps, EnclaveKeeps
  <2>4. TypeOK'
    BY <1>0, <2>1, <2>2, <2>3 DEF TypeOK, HostKeeps, EnclaveKeeps
  <2>5. CountersOrdered' /\ UnreportedBounded'
    BY <1>0, <2>3 DEF CountersOrdered, UnreportedBounded, Open
  <2>6. DataOrdered' /\ DataArrives' /\ UncountedIgnored'
    BY <1>0, <2>1, <2>3 DEF HostKeeps, DataOrdered, DataArrives, UncountedIgnored, Open
  <2>7. CreditsOrdered' /\ CreditsArrive' /\ CloseIsLast'
    BY <1>0, <2>2, <2>3 DEF EnclaveKeeps, CreditsOrdered, CreditsArrive, CloseIsLast
  <2> QED BY <2>4, <2>5, <2>6, <2>7 DEF IndInv
<1>3. CASE SendRefused
  <2>1. HostKeeps /\ (Contains(to_host', "notify") => Contains(to_host, "notify"))
    <3>1. to_host' = Append(to_host, Message("close", 0))
      BY <1>3 DEF SendRefused, Consume, Send, Receive, Tell, Close, counters
    <3>2. "close" \in ToHost
      BY DEF ToHost
    <3> QED BY <3>1, <3>2, HostQueueAppend
  <2>2. EnclaveKeeps /\ (Contains(to_enclave', "close") => Contains(to_enclave, "close"))
    <3>1. to_enclave # <<>> /\ to_enclave' = Tail(to_enclave)
      BY <1>3 DEF SendRefused, Consume, Send, Receive, Tell, Close, counters
    <3>2. Head(to_enclave).kind = "data"
      BY <1>3 DEF SendRefused, Consume, Send, Receive, Tell, Close, counters
    <3> QED BY <3>1, <3>2, EnclaveQueueTail
  <2>3. /\ host' = host
        /\ enclave' \in {"new", "live", "dropped", "gone"}
        /\ enclave = "gone" => enclave' = "gone"
        /\ sent' = sent /\ written' = written /\ received' = received
        /\ total' = total /\ reported' = reported
    BY <1>0, <1>3 DEF SendRefused, Consume, Send, Receive, Tell, Close, counters,
         dispatch_requests, TypeOK
  <2> HIDE DEF HostKeeps, EnclaveKeeps
  <2>4. TypeOK'
    BY <1>0, <2>1, <2>2, <2>3 DEF TypeOK, HostKeeps, EnclaveKeeps
  <2>5. CountersOrdered' /\ UnreportedBounded'
    BY <1>0, <2>3 DEF CountersOrdered, UnreportedBounded, Open
  <2>6. DataOrdered' /\ DataArrives' /\ UncountedIgnored'
    BY <1>0, <2>1, <2>3 DEF HostKeeps, DataOrdered, DataArrives, UncountedIgnored, Open
  <2>7. CreditsOrdered' /\ CreditsArrive' /\ CloseIsLast'
    BY <1>0, <2>2, <2>3 DEF EnclaveKeeps, CreditsOrdered, CreditsArrive, CloseIsLast
  <2> QED BY <2>4, <2>5, <2>6, <2>7 DEF IndInv
<1>4. CASE DataUnanswered
  <2>1. HostKeeps /\ (Contains(to_host', "notify") => Contains(to_host, "notify"))
    <3>1. to_host' = to_host
      BY <1>4 DEF DataUnanswered, Consume, Send, Receive, Tell, Close, counters
    <3> QED BY <1>0, <3>1 DEF TypeOK, DataOrdered
  <2>2. EnclaveKeeps /\ (Contains(to_enclave', "close") => Contains(to_enclave, "close"))
    <3>1. to_enclave # <<>> /\ to_enclave' = Tail(to_enclave)
      BY <1>4 DEF DataUnanswered, Consume, Send, Receive, Tell, Close, counters
    <3>2. Head(to_enclave).kind = "data"
      BY <1>4 DEF DataUnanswered, Consume, Send, Receive, Tell, Close, counters
    <3> QED BY <3>1, <3>2, EnclaveQueueTail
  <2>3. /\ host' = host
        /\ enclave' \in {"new", "live", "dropped", "gone"}
        /\ enclave = "gone" => enclave' = "gone"
        /\ sent' = sent /\ written' = written /\ received' = received
        /\ total' = total /\ reported' = reported
    BY <1>0, <1>4 DEF DataUnanswered, Consume, Send, Receive, Tell, Close, counters,
         dispatch_requests, TypeOK
  <2> HIDE DEF HostKeeps, EnclaveKeeps
  <2>4. TypeOK'
    BY <1>0, <2>1, <2>2, <2>3 DEF TypeOK, HostKeeps, EnclaveKeeps
  <2>5. CountersOrdered' /\ UnreportedBounded'
    BY <1>0, <2>3 DEF CountersOrdered, UnreportedBounded, Open
  <2>6. DataOrdered' /\ DataArrives' /\ UncountedIgnored'
    BY <1>0, <2>1, <2>3 DEF HostKeeps, DataOrdered, DataArrives, UncountedIgnored, Open
  <2>7. CreditsOrdered' /\ CreditsArrive' /\ CloseIsLast'
    BY <1>0, <2>2, <2>3 DEF EnclaveKeeps, CreditsOrdered, CreditsArrive, CloseIsLast
  <2> QED BY <2>4, <2>5, <2>6, <2>7 DEF IndInv
<1>5. CASE RejectCredit
  <2>1. HostKeeps /\ (Contains(to_host', "notify") => Contains(to_host, "notify"))
    <3>1. to_host' = Append(to_host, Message("close", 0))
      BY <1>5 DEF RejectCredit, Consume, Send, Receive, Tell, Close, counters
    <3>2. "close" \in ToHost
      BY DEF ToHost
    <3> QED BY <3>1, <3>2, HostQueueAppend
  <2>2. /\ to_enclave' \in Seq(Messages(ToEnclave))
        /\ Ordered(to_enclave', "credit", written, reported)
        /\ (Contains(to_enclave', "close") => Contains(to_enclave, "close"))
    <3>1. to_enclave # <<>> /\ to_enclave' = Tail(to_enclave)
      BY <1>5 DEF RejectCredit, Consume, Send, Receive, Tell, Close, counters
    <3> QED BY <3>1, EnclaveQueueTail
  <2>3. /\ host' = host
        /\ enclave' = "gone"
        /\ sent' = sent /\ written' = written /\ received' = received
        /\ total' = total /\ reported' = reported
    BY <1>5 DEF RejectCredit, Consume, Send, Receive, Tell, Close, counters
  <2> HIDE DEF HostKeeps, EnclaveKeeps
  <2>4. TypeOK'
    BY <1>0, <2>1, <2>2, <2>3 DEF TypeOK, HostKeeps, EnclaveKeeps
  <2>5. CountersOrdered' /\ UnreportedBounded'
    BY <1>0, <2>3 DEF CountersOrdered, UnreportedBounded, Open
  <2>6. DataOrdered' /\ DataArrives' /\ UncountedIgnored'
    BY <1>0, <2>1, <2>3 DEF HostKeeps, DataOrdered, DataArrives, UncountedIgnored, Open
  <2>7. CreditsOrdered' /\ CreditsArrive' /\ CloseIsLast'
    BY <1>0, <2>2, <2>3 DEF EnclaveKeeps, CreditsOrdered, CreditsArrive, CloseIsLast
  <2> QED BY <2>4, <2>5, <2>6, <2>7 DEF IndInv
<1>6. CASE close_deferred_transport
  <2>1. HostKeeps /\ (Contains(to_host', "notify") => Contains(to_host, "notify"))
    <3>1. to_host' = Append(to_host, Message("close", 0))
      BY <1>6 DEF close_deferred_transport, Consume, Send, Receive, Tell, Close, counters
    <3>2. "close" \in ToHost
      BY DEF ToHost
    <3> QED BY <3>1, <3>2, HostQueueAppend
  <2>2. EnclaveKeeps /\ (Contains(to_enclave', "close") => Contains(to_enclave, "close"))
    <3>1. to_enclave' = to_enclave
      BY <1>6 DEF close_deferred_transport, Consume, Send, Receive, Tell, Close, counters
    <3> QED BY <1>0, <3>1 DEF TypeOK, CreditsOrdered
  <2>3. /\ host' = host
        /\ enclave' = "gone"
        /\ sent' = sent /\ written' = written /\ received' = received
        /\ total' = total /\ reported' = reported
    BY <1>6 DEF close_deferred_transport, Consume, Send, Receive, Tell, Close, counters
  <2> HIDE DEF HostKeeps, EnclaveKeeps
  <2>4. TypeOK'
    BY <1>0, <2>1, <2>2, <2>3 DEF TypeOK, HostKeeps, EnclaveKeeps
  <2>5. CountersOrdered' /\ UnreportedBounded'
    BY <1>0, <2>3 DEF CountersOrdered, UnreportedBounded, Open
  <2>6. DataOrdered' /\ DataArrives' /\ UncountedIgnored'
    BY <1>0, <2>1, <2>3 DEF HostKeeps, DataOrdered, DataArrives, UncountedIgnored, Open
  <2>7. CreditsOrdered' /\ CreditsArrive' /\ CloseIsLast'
    BY <1>0, <2>2, <2>3 DEF EnclaveKeeps, CreditsOrdered, CreditsArrive, CloseIsLast
  <2> QED BY <2>4, <2>5, <2>6, <2>7 DEF IndInv
<1>7. CASE ClosePlain
  <2>1. HostKeeps /\ (Contains(to_host', "notify") => Contains(to_host, "notify"))
    <3>1. to_host # <<>> /\ to_host' = Tail(to_host)
      BY <1>7 DEF ClosePlain, Consume, Send, Receive, Tell, Close, counters
    <3>2. Head(to_host).kind = "close"
      BY <1>7 DEF ClosePlain, Consume, Send, Receive, Tell, Close, counters
    <3> QED BY <3>1, <3>2, HostQueueTail
  <2>2. EnclaveKeeps /\ (Contains(to_enclave', "close") => Contains(to_enclave, "close"))
    <3>1. to_enclave' = to_enclave
      BY <1>7 DEF ClosePlain, Consume, Send, Receive, Tell, Close, counters
    <3> QED BY <1>0, <3>1 DEF TypeOK, CreditsOrdered
  <2>3. /\ host' = "gone"
        /\ enclave' = enclave
        /\ sent' = sent /\ written' = written /\ received' = received
        /\ total' = total /\ reported' = reported
    BY <1>7 DEF ClosePlain, Consume, Send, Receive, Tell, Close, counters
  <2> HIDE DEF HostKeeps, EnclaveKeeps
  <2>4. TypeOK'
    BY <1>0, <2>1, <2>2, <2>3 DEF TypeOK, HostKeeps, EnclaveKeeps
  <2>5. CountersOrdered' /\ UnreportedBounded'
    BY <1>0, <2>3 DEF CountersOrdered, UnreportedBounded, Open
  <2>6. DataOrdered' /\ DataArrives' /\ UncountedIgnored'
    BY <1>0, <2>1, <2>3 DEF HostKeeps, DataOrdered, DataArrives, UncountedIgnored, Open
  <2>7. CreditsOrdered' /\ CreditsArrive' /\ CloseIsLast'
    BY <1>0, <2>2, <2>3 DEF EnclaveKeeps, CreditsOrdered, CreditsArrive, CloseIsLast
  <2> QED BY <2>4, <2>5, <2>6, <2>7 DEF IndInv
<1>8. CASE CloseAfterWrite
  <2>1. HostKeeps /\ (Contains(to_host', "notify") => Contains(to_host, "notify"))
    <3>1. to_host # <<>> /\ to_host' = Tail(to_host)
      BY <1>8 DEF CloseAfterWrite, Consume, Send, Receive, Tell, Close, counters
    <3>2. Head(to_host).kind = "close"
      BY <1>8 DEF CloseAfterWrite, Consume, Send, Receive, Tell, Close, counters
    <3> QED BY <3>1, <3>2, HostQueueTail
  <2>2. EnclaveKeeps /\ (Contains(to_enclave', "close") => Contains(to_enclave, "close"))
    <3>1. to_enclave' = to_enclave
      BY <1>8 DEF CloseAfterWrite, Consume, Send, Receive, Tell, Close, counters
    <3> QED BY <1>0, <3>1 DEF TypeOK, CreditsOrdered
  <2>3. /\ host \in {"credited", "closing"} /\ host' = "closing"
        /\ enclave' = enclave
        /\ sent' = sent /\ written' = written /\ received' = received
        /\ total' = total /\ reported' = reported
    BY <1>8 DEF CloseAfterWrite, Consume, Send, Receive, Tell, Close, counters
  <2> HIDE DEF HostKeeps, EnclaveKeeps
  <2>4. TypeOK'
    BY <1>0, <2>1, <2>2, <2>3 DEF TypeOK, HostKeeps, EnclaveKeeps
  <2>5. CountersOrdered' /\ UnreportedBounded'
    BY <1>0, <2>3 DEF CountersOrdered, UnreportedBounded, Open
  <2>6. DataOrdered' /\ DataArrives' /\ UncountedIgnored'
    BY <1>0, <2>1, <2>3 DEF HostKeeps, DataOrdered, DataArrives, UncountedIgnored, Open
  <2>7. CreditsOrdered' /\ CreditsArrive' /\ CloseIsLast'
    BY <1>0, <2>2, <2>3 DEF EnclaveKeeps, CreditsOrdered, CreditsArrive, CloseIsLast
  <2> QED BY <2>4, <2>5, <2>6, <2>7 DEF IndInv
<1>9. CASE Ignored
  <2>1. /\ to_host' \in Seq(Messages(ToHost))
        /\ Ordered(to_host', "data", received, sent)
    <3>1. to_host # <<>> /\ to_host' = Tail(to_host)
      BY <1>9 DEF Ignored, Consume, Send, Receive, Tell, Close, counters
    <3> QED BY <3>1, HostQueueTail
  <2>2. EnclaveKeeps /\ (Contains(to_enclave', "close") => Contains(to_enclave, "close"))
    <3>1. to_enclave' = to_enclave
      BY <1>9 DEF Ignored, Consume, Send, Receive, Tell, Close, counters
    <3> QED BY <1>0, <3>1 DEF TypeOK, CreditsOrdered
  <2>3. /\ host = "gone" /\ host' = "gone"
        /\ enclave' = enclave
        /\ sent' = sent /\ written' = written /\ received' = received
        /\ total' = total /\ reported' = reported
    BY <1>9 DEF Ignored, Consume, Send, Receive, Tell, Close, counters
  <2> HIDE DEF HostKeeps, EnclaveKeeps
  <2>4. TypeOK'
    BY <1>0, <2>1, <2>2, <2>3 DEF TypeOK, HostKeeps, EnclaveKeeps
  <2>5. CountersOrdered' /\ UnreportedBounded'
    BY <1>0, <2>3 DEF CountersOrdered, UnreportedBounded, Open
  <2>6. DataOrdered' /\ DataArrives' /\ UncountedIgnored'
    BY <1>0, <2>1, <2>3 DEF HostKeeps, DataOrdered, DataArrives, UncountedIgnored, Open
  <2>7. CreditsOrdered' /\ CreditsArrive' /\ CloseIsLast'
    BY <1>0, <2>2, <2>3 DEF EnclaveKeeps, CreditsOrdered, CreditsArrive, CloseIsLast
  <2> QED BY <2>4, <2>5, <2>6, <2>7 DEF IndInv
<1>10. CASE ReadSocket
  <2>1. HostKeeps /\ (Contains(to_host', "notify") => Contains(to_host, "notify"))
    <3>1. to_host' = to_host
      BY <1>10 DEF ReadSocket, Consume, Send, Receive, Tell, Close, counters
    <3> QED BY <1>0, <3>1 DEF TypeOK, DataOrdered
  <2>2. EnclaveKeeps /\ (Contains(to_enclave', "close") => Contains(to_enclave, "close"))
    <3>1. to_enclave' = Append(to_enclave, Message("data", 0))
      BY <1>10 DEF ReadSocket, Consume, Send, Receive, Tell, Close, counters
    <3>2. "data" \in ToEnclave
      BY DEF ToEnclave
    <3> QED BY <3>1, <3>2, EnclaveQueueAppend
  <2>3. /\ host' = host
        /\ enclave' = enclave
        /\ sent' = sent /\ written' = written /\ received' = received
        /\ total' = total /\ reported' = reported
    BY <1>10 DEF ReadSocket, Consume, Send, Receive, Tell, Close, counters
  <2> HIDE DEF HostKeeps, EnclaveKeeps
  <2>4. TypeOK'
    BY <1>0, <2>1, <2>2, <2>3 DEF TypeOK, HostKeeps, EnclaveKeeps
  <2>5. CountersOrdered' /\ UnreportedBounded'
    BY <1>0, <2>3 DEF CountersOrdered, UnreportedBounded, Open
  <2>6. DataOrdered' /\ DataArrives' /\ UncountedIgnored'
    BY <1>0, <2>1, <2>3 DEF HostKeeps, DataOrdered, DataArrives, UncountedIgnored, Open
  <2>7. CreditsOrdered' /\ CreditsArrive' /\ CloseIsLast'
    BY <1>0, <2>2, <2>3 DEF EnclaveKeeps, CreditsOrdered, CreditsArrive, CloseIsLast
  <2> QED BY <2>4, <2>5, <2>6, <2>7 DEF IndInv
<1>11. CASE HostCloses
  <2>1. HostKeeps /\ (Contains(to_host', "notify") => Contains(to_host, "notify"))
    <3>1. to_host' = to_host
      BY <1>11 DEF HostCloses, Consume, Send, Receive, Tell, Close, counters
    <3> QED BY <1>0, <3>1 DEF TypeOK, DataOrdered
  <2>2. EnclaveKeeps
    <3>1. to_enclave' = Append(to_enclave, Message("close", 0))
      BY <1>11 DEF HostCloses, Consume, Send, Receive, Tell, Close, counters
    <3>2. "close" \in ToEnclave
      BY DEF ToEnclave
    <3> QED BY <3>1, <3>2, EnclaveQueueAppend
  <2>3. /\ host' = "gone"
        /\ enclave' = enclave
        /\ sent' = sent /\ written' = written /\ received' = received
        /\ total' = total /\ reported' = reported
    BY <1>11 DEF HostCloses, Consume, Send, Receive, Tell, Close, counters
  <2> HIDE DEF HostKeeps, EnclaveKeeps
  <2>4. TypeOK'
    BY <1>0, <2>1, <2>2, <2>3 DEF TypeOK, HostKeeps, EnclaveKeeps
  <2>5. CountersOrdered' /\ UnreportedBounded'
    BY <1>0, <2>3 DEF CountersOrdered, UnreportedBounded, Open
  <2>6. DataOrdered' /\ DataArrives' /\ UncountedIgnored'
    BY <1>0, <2>1, <2>3 DEF HostKeeps, DataOrdered, DataArrives, UncountedIgnored, Open
  <2>7. CreditsOrdered' /\ CreditsArrive' /\ CloseIsLast'
    BY <1>0, <2>2, <2>3 DEF EnclaveKeeps, CreditsOrdered, CreditsArrive, CloseIsLast
  <2> QED BY <2>4, <2>5, <2>6, <2>7 DEF IndInv
<1>12. CASE OutputRefused
  <2>1. HostKeeps /\ (Contains(to_host', "notify") => Contains(to_host, "notify"))
    <3>1. to_host' = Append(to_host, Message("close", 0))
      BY <1>12 DEF OutputRefused, Consume, Send, Receive, Tell, Close, counters
    <3>2. "close" \in ToHost
      BY DEF ToHost
    <3> QED BY <3>1, <3>2, HostQueueAppend
  <2>2. EnclaveKeeps /\ (Contains(to_enclave', "close") => Contains(to_enclave, "close"))
    <3>1. to_enclave' = to_enclave
      BY <1>12 DEF OutputRefused, Consume, Send, Receive, Tell, Close, counters
    <3> QED BY <1>0, <3>1 DEF TypeOK, CreditsOrdered
  <2>3. /\ host' = host
        /\ enclave' = enclave
        /\ sent' = sent /\ written' = written /\ received' = received
        /\ total' = total /\ reported' = reported
    BY <1>12 DEF OutputRefused, Consume, Send, Receive, Tell, Close, counters
  <2> HIDE DEF HostKeeps, EnclaveKeeps
  <2>4. TypeOK'
    BY <1>0, <2>1, <2>2, <2>3 DEF TypeOK, HostKeeps, EnclaveKeeps
  <2>5. CountersOrdered' /\ UnreportedBounded'
    BY <1>0, <2>3 DEF CountersOrdered, UnreportedBounded, Open
  <2>6. DataOrdered' /\ DataArrives' /\ UncountedIgnored'
    BY <1>0, <2>1, <2>3 DEF HostKeeps, DataOrdered, DataArrives, UncountedIgnored, Open
  <2>7. CreditsOrdered' /\ CreditsArrive' /\ CloseIsLast'
    BY <1>0, <2>2, <2>3 DEF EnclaveKeeps, CreditsOrdered, CreditsArrive, CloseIsLast
  <2> QED BY <2>4, <2>5, <2>6, <2>7 DEF IndInv
<1>13. CASE DispatchTurn
  <2>1. HostKeeps /\ (Contains(to_host', "notify") => Contains(to_host, "notify"))
    <3>1. to_host' = to_host
      BY <1>13 DEF DispatchTurn, Consume, Send, Receive, Tell, Close, counters
    <3> QED BY <1>0, <3>1 DEF TypeOK, DataOrdered
  <2>2. EnclaveKeeps /\ (Contains(to_enclave', "close") => Contains(to_enclave, "close"))
    <3>1. to_enclave' = to_enclave
      BY <1>13 DEF DispatchTurn, Consume, Send, Receive, Tell, Close, counters
    <3> QED BY <1>0, <3>1 DEF TypeOK, CreditsOrdered
  <2>3. /\ host' = host
        /\ enclave' \in {"new", "live", "dropped", "gone"}
        /\ enclave = "gone" => enclave' = "gone"
        /\ sent' = sent /\ written' = written /\ received' = received
        /\ total' = total /\ reported' = reported
    BY <1>0, <1>13 DEF DispatchTurn, Consume, Send, Receive, Tell, Close, counters,
         dispatch_requests, TypeOK
  <2> HIDE DEF HostKeeps, EnclaveKeeps
  <2>4. TypeOK'
    BY <1>0, <2>1, <2>2, <2>3 DEF TypeOK, HostKeeps, EnclaveKeeps
  <2>5. CountersOrdered' /\ UnreportedBounded'
    BY <1>0, <2>3 DEF CountersOrdered, UnreportedBounded, Open
  <2>6. DataOrdered' /\ DataArrives' /\ UncountedIgnored'
    BY <1>0, <2>1, <2>3 DEF HostKeeps, DataOrdered, DataArrives, UncountedIgnored, Open
  <2>7. CreditsOrdered' /\ CreditsArrive' /\ CloseIsLast'
    BY <1>0, <2>2, <2>3 DEF EnclaveKeeps, CreditsOrdered, CreditsArrive, CloseIsLast
  <2> QED BY <2>4, <2>5, <2>6, <2>7 DEF IndInv
<1> QED
  BY <1>1, <1>2, <1>3, <1>4, <1>5, <1>6, <1>7, <1>8, <1>9, <1>10, <1>11, <1>12, <1>13

(* Output within the window. *)
LEMMA ProgressNext ==
  ASSUME IndInv, NEW n \in 1..Step, progress_output(n) PROVE IndInv'
<1>0. /\ TypeOK /\ CountersOrdered /\ DataOrdered /\ CreditsOrdered
      /\ DataArrives /\ CreditsArrive /\ UnreportedBounded
      /\ CloseIsLast /\ UncountedIgnored
  BY DEF IndInv
<1>t. /\ sent \in Nat /\ written \in Nat /\ received \in Nat
      /\ total \in Nat /\ reported \in Nat
      /\ to_host \in Seq(Messages(ToHost))
      /\ to_enclave \in Seq(Messages(ToEnclave))
  BY <1>0, BoundAssumption DEF TypeOK
<1> n \in Nat
  BY WindowAssumption
<1>1. /\ host' = host /\ enclave' = enclave
      /\ sent' = sent + n /\ written' = written /\ received' = received
      /\ total' = total /\ reported' = reported
      /\ to_host' = Append(to_host, Message("data", sent + n))
      /\ to_enclave' = to_enclave
  BY DEF progress_output, Send
<1>2. /\ to_host' \in Seq(Messages(ToHost))
      /\ Ordered(to_host', "data", received', sent')
      /\ Reaches(to_host', "data", received', sent')
      /\ Contains(to_host', "notify") => Contains(to_host, "notify")
  <2>1. "data" \in ToHost /\ sent + n \in Nat
    BY <1>t DEF ToHost
  <2>2. Message("data", sent + n) \in Messages(ToHost)
    BY <2>1, MessageType
  <2>3. to_host' \in Seq(Messages(ToHost))
    BY <1>t, <1>1, <2>2, AppendElements
  <2>4. Ordered(to_host, "data", received, sent)
    BY <1>0 DEF DataOrdered
  <2>5. sent <= sent + n /\ received <= sent + n
    BY <1>0, <1>t DEF CountersOrdered
  <2>6. /\ Ordered(Append(to_host, Message("data", sent + n)), "data", received, sent + n)
        /\ Reaches(Append(to_host, Message("data", sent + n)), "data", received, sent + n)
    BY <1>t, <2>1, <2>4, <2>5, AppendSame
  <2>7. Contains(Append(to_host, Message("data", sent + n)), "notify")
          => Contains(to_host, "notify")
    BY <1>t, <2>1, AppendContains
  <2> QED BY <1>1, <2>3, <2>6, <2>7
<1>3. /\ to_enclave' \in Seq(Messages(ToEnclave))
      /\ Ordered(to_enclave', "credit", written', reported')
      /\ Reaches(to_enclave, "credit", written, reported)
           => Reaches(to_enclave', "credit", written', reported')
      /\ Contains(to_enclave', "close") => Contains(to_enclave, "close")
  BY <1>0, <1>1 DEF TypeOK, CreditsOrdered
<1>4. sent + n \in 0..MaxSent /\ sent + n <= written + Window
  BY <1>0, <1>t, WindowAssumption, BoundAssumption
  DEF progress_output, available, CountersOrdered
<1>5. TypeOK'
  BY <1>0, <1>1, <1>2, <1>3, <1>4 DEF TypeOK
<1>6. CountersOrdered' /\ UnreportedBounded'
  BY <1>0, <1>t, <1>1, <1>4, WindowAssumption DEF CountersOrdered, UnreportedBounded, Open
<1>7. DataOrdered' /\ DataArrives' /\ UncountedIgnored'
  BY <1>0, <1>1, <1>2 DEF DataOrdered, DataArrives, UncountedIgnored, Open
<1>8. CreditsOrdered' /\ CreditsArrive' /\ CloseIsLast'
  BY <1>0, <1>1, <1>3 DEF CreditsOrdered, CreditsArrive, CloseIsLast
<1> QED BY <1>5, <1>6, <1>7, <1>8 DEF IndInv

LEMMA DataNext ==
  ASSUME IndInv, handle_tcp_data PROVE IndInv'
<1>0. /\ TypeOK /\ CountersOrdered /\ DataOrdered /\ CreditsOrdered
      /\ DataArrives /\ CreditsArrive /\ UnreportedBounded
      /\ CloseIsLast /\ UncountedIgnored
  BY DEF IndInv
<1>t. /\ sent \in Nat /\ written \in Nat /\ received \in Nat
      /\ total \in Nat /\ reported \in Nat
      /\ to_host \in Seq(Messages(ToHost))
      /\ to_enclave \in Seq(Messages(ToEnclave))
  BY <1>0, BoundAssumption DEF TypeOK
<1>p. PICK n \in Flights : /\ n <= available /\ sent + n <= MaxSent
                             /\ Send("data", sent + n) /\ sent' = sent + n
  BY DEF handle_tcp_data
<1> n \in Nat
  BY BoundAssumption
<1>1. /\ host' = host /\ enclave = "live" /\ enclave' \in {"live", "dropped"}
      /\ sent' = sent + n /\ written' = written /\ received' = received
      /\ total' = total /\ reported' = reported
      /\ to_host' = Append(to_host, Message("data", sent + n))
      /\ to_enclave # <<>> /\ to_enclave' = Tail(to_enclave)
      /\ Head(to_enclave).kind = "data"
  BY <1>p DEF handle_tcp_data, dispatch_requests, Send, Consume
<1>2. /\ to_host' \in Seq(Messages(ToHost))
      /\ Ordered(to_host', "data", received', sent')
      /\ Reaches(to_host', "data", received', sent')
      /\ Contains(to_host', "notify") => Contains(to_host, "notify")
  <2>1. "data" \in ToHost /\ sent + n \in Nat
    BY <1>t DEF ToHost
  <2>2. Message("data", sent + n) \in Messages(ToHost)
    BY <2>1, MessageType
  <2>3. to_host' \in Seq(Messages(ToHost))
    BY <1>t, <1>1, <2>2, AppendElements
  <2>4. Ordered(to_host, "data", received, sent)
    BY <1>0 DEF DataOrdered
  <2>5. sent <= sent + n /\ received <= sent + n
    BY <1>0, <1>t DEF CountersOrdered
  <2>6. /\ Ordered(Append(to_host, Message("data", sent + n)), "data", received, sent + n)
        /\ Reaches(Append(to_host, Message("data", sent + n)), "data", received, sent + n)
    BY <1>t, <2>1, <2>4, <2>5, AppendSame
  <2>7. Contains(Append(to_host, Message("data", sent + n)), "notify")
          => Contains(to_host, "notify")
    BY <1>t, <2>1, AppendContains
  <2> QED BY <1>1, <2>3, <2>6, <2>7
<1>3. /\ to_enclave' \in Seq(Messages(ToEnclave))
      /\ Ordered(to_enclave', "credit", written', reported')
      /\ Reaches(to_enclave, "credit", written, reported)
           => Reaches(to_enclave', "credit", written', reported')
      /\ Contains(to_enclave', "close") => Contains(to_enclave, "close")
  BY <1>1, EnclaveQueueTail
<1>4. sent + n \in 0..MaxSent /\ sent + n <= written + Window
  BY <1>0, <1>t, <1>p, WindowAssumption, BoundAssumption
  DEF available, CountersOrdered
<1>5. TypeOK'
  BY <1>0, <1>1, <1>2, <1>3, <1>4 DEF TypeOK
<1>6. CountersOrdered' /\ UnreportedBounded'
  BY <1>0, <1>t, <1>1, <1>4, WindowAssumption DEF CountersOrdered, UnreportedBounded, Open
<1>7. DataOrdered' /\ DataArrives' /\ UncountedIgnored'
  BY <1>0, <1>1, <1>2 DEF DataOrdered, DataArrives, UncountedIgnored, Open
<1>8. CreditsOrdered' /\ CreditsArrive' /\ CloseIsLast'
  BY <1>0, <1>1, <1>3 DEF CreditsOrdered, CreditsArrive, CloseIsLast
<1> QED BY <1>5, <1>6, <1>7, <1>8 DEF IndInv

(* A credit within the counters is the new value of written. *)
LEMMA CreditNext ==
  ASSUME IndInv, AcceptCredit PROVE IndInv'
<1>0. /\ TypeOK /\ CountersOrdered /\ DataOrdered /\ CreditsOrdered
      /\ DataArrives /\ CreditsArrive /\ UnreportedBounded
      /\ CloseIsLast /\ UncountedIgnored
  BY DEF IndInv
<1>t. /\ sent \in Nat /\ written \in Nat /\ received \in Nat
      /\ total \in Nat /\ reported \in Nat
      /\ to_host \in Seq(Messages(ToHost))
      /\ to_enclave \in Seq(Messages(ToEnclave))
  BY <1>0, BoundAssumption DEF TypeOK
<1> DEFINE n == Head(to_enclave).n
<1>1. /\ host' = host /\ enclave' = enclave
      /\ sent' = sent /\ written' = n /\ received' = received
      /\ total' = total /\ reported' = reported
      /\ to_host' = to_host
      /\ to_enclave # <<>> /\ to_enclave' = Tail(to_enclave)
      /\ Head(to_enclave).kind = "credit"
  BY DEF AcceptCredit, acknowledge, Consume
<1>o. Ordered(to_enclave, Head(to_enclave).kind, written, reported)
  BY <1>0, <1>1 DEF CreditsOrdered
<1>q. /\ n \in Nat /\ written <= n /\ n <= reported
      /\ Ordered(Tail(to_enclave), "credit", n, reported)
      /\ Reaches(to_enclave, "credit", written, reported) /\ written # reported
           => Reaches(Tail(to_enclave), "credit", n, reported)
  BY <1>t, <1>1, <1>o, TailSame
<1>r. written = reported => n = reported
  BY <1>t, <1>q
<1> HIDE DEF n
<1>s. Reaches(to_enclave, "credit", written, reported)
        => Reaches(Tail(to_enclave), "credit", n, reported)
  BY <1>q, <1>r DEF Reaches
<1>2. /\ to_host' \in Seq(Messages(ToHost))
      /\ Ordered(to_host', "data", received', sent')
      /\ Reaches(to_host, "data", received, sent)
           => Reaches(to_host', "data", received', sent')
      /\ Contains(to_host', "notify") => Contains(to_host, "notify")
  BY <1>0, <1>1 DEF TypeOK, DataOrdered
<1>3. /\ to_enclave' \in Seq(Messages(ToEnclave))
      /\ Ordered(to_enclave', "credit", written', reported')
      /\ Reaches(to_enclave, "credit", written, reported)
           => Reaches(to_enclave', "credit", written', reported')
      /\ Contains(to_enclave', "close") => Contains(to_enclave, "close")
  BY <1>1, <1>q, <1>s, EnclaveQueueTail
<1>4. n \in 0..MaxSent /\ written <= n /\ n <= reported
  BY <1>0, <1>t, <1>q, BoundAssumption DEF CountersOrdered, TypeOK
<1>5. TypeOK'
  BY <1>0, <1>1, <1>2, <1>3, <1>4 DEF TypeOK
<1>6. CountersOrdered' /\ UnreportedBounded'
  BY <1>0, <1>t, <1>1, <1>4, WindowAssumption DEF CountersOrdered, UnreportedBounded, Open
<1>7. DataOrdered' /\ DataArrives' /\ UncountedIgnored'
  BY <1>0, <1>1, <1>2 DEF DataOrdered, DataArrives, UncountedIgnored, Open
<1>8. CreditsOrdered' /\ CreditsArrive' /\ CloseIsLast'
  BY <1>0, <1>1, <1>3 DEF CreditsOrdered, CreditsArrive, CloseIsLast
<1> QED BY <1>5, <1>6, <1>7, <1>8 DEF IndInv

(* The host's close has removed its connection before the notify. *)
LEMMA CloseNext ==
  ASSUME IndInv, TcpClose PROVE IndInv'
<1>0. /\ TypeOK /\ CountersOrdered /\ DataOrdered /\ CreditsOrdered
      /\ DataArrives /\ CreditsArrive /\ UnreportedBounded
      /\ CloseIsLast /\ UncountedIgnored
  BY DEF IndInv
<1>t. /\ sent \in Nat /\ written \in Nat /\ received \in Nat
      /\ total \in Nat /\ reported \in Nat
      /\ to_host \in Seq(Messages(ToHost))
      /\ to_enclave \in Seq(Messages(ToEnclave))
  BY <1>0, BoundAssumption DEF TypeOK
<1>1. /\ host' = host /\ enclave' = "gone"
      /\ sent' = sent /\ written' = written /\ received' = received
      /\ total' = total /\ reported' = reported
      /\ to_enclave # <<>> /\ to_enclave' = Tail(to_enclave)
      /\ Head(to_enclave).kind = "close"
  BY DEF TcpClose, counters, Consume
<1>g. host = "gone"
  BY <1>0, <1>1, EnclaveQueueTail DEF CloseIsLast
<1>2. /\ to_host' \in Seq(Messages(ToHost))
      /\ Ordered(to_host', "data", received', sent')
  <2>1. CASE to_host' = to_host
    BY <1>0, <1>1, <2>1 DEF TypeOK, DataOrdered
  <2>2. CASE Send("notify", 0)
    <3>1. "notify" \in ToHost /\ to_host' = Append(to_host, Message("notify", 0))
      BY <2>2 DEF ToHost, Send
    <3> QED BY <1>1, <3>1, HostQueueAppend
  <2> QED BY <2>1, <2>2 DEF TcpClose
<1>3. /\ to_enclave' \in Seq(Messages(ToEnclave))
      /\ Ordered(to_enclave', "credit", written', reported')
  BY <1>1, EnclaveQueueTail
<1>5. TypeOK'
  BY <1>0, <1>1, <1>2, <1>3 DEF TypeOK
<1>6. CountersOrdered' /\ UnreportedBounded'
  BY <1>0, <1>1 DEF CountersOrdered, UnreportedBounded, Open
<1>7. DataOrdered' /\ DataArrives' /\ UncountedIgnored'
  BY <1>1, <1>2, <1>g DEF DataOrdered, DataArrives, UncountedIgnored, Open
<1>8. CreditsOrdered' /\ CreditsArrive' /\ CloseIsLast'
  BY <1>1, <1>3, <1>g DEF CreditsOrdered, CreditsArrive, CloseIsLast
<1> QED BY <1>5, <1>6, <1>7, <1>8 DEF IndInv

(* The request for credits at the host. *)
LEMMA HostCreditNext ==
  ASSUME IndInv, HostCredit PROVE IndInv'
<1>0. /\ TypeOK /\ CountersOrdered /\ DataOrdered /\ CreditsOrdered
      /\ DataArrives /\ CreditsArrive /\ UnreportedBounded
      /\ CloseIsLast /\ UncountedIgnored
  BY DEF IndInv
<1>t. /\ sent \in Nat /\ written \in Nat /\ received \in Nat
      /\ total \in Nat /\ reported \in Nat
      /\ to_host \in Seq(Messages(ToHost))
      /\ to_enclave \in Seq(Messages(ToEnclave))
  BY <1>0, BoundAssumption DEF TypeOK
<1>1. CASE ~(host = "plain" /\ received = 0)
  <2>1. /\ host' = "gone" /\ enclave' = enclave
        /\ sent' = sent /\ written' = written /\ received' = received
        /\ total' = total /\ reported' = reported
        /\ to_host # <<>> /\ to_host' = Tail(to_host)
        /\ to_enclave' = Append(to_enclave, Message("close", 0))
    BY <1>1 DEF HostCredit, Receive, counters, Tell, Close
  <2>2. "close" \in ToEnclave
    BY DEF ToEnclave
  <2>3. TypeOK'
    BY <1>0, <2>1, <2>2, HostQueueTail, EnclaveQueueAppend DEF TypeOK
  <2>4. CountersOrdered' /\ UnreportedBounded'
    BY <1>0, <2>1 DEF CountersOrdered, UnreportedBounded, Open
  <2>5. DataOrdered' /\ DataArrives' /\ UncountedIgnored'
    BY <2>1, HostQueueTail DEF DataOrdered, DataArrives, UncountedIgnored, Open
  <2>6. CreditsOrdered' /\ CreditsArrive' /\ CloseIsLast'
    BY <1>0, <2>1, <2>2, EnclaveQueueAppend DEF CreditsOrdered, CreditsArrive, CloseIsLast
  <2> QED BY <2>3, <2>4, <2>5, <2>6 DEF IndInv
<1>2. CASE host = "plain" /\ received = 0
  <2>1. /\ host' = "credited" /\ enclave' = enclave
        /\ sent' = sent /\ written' = written /\ received' = received
        /\ total' = total /\ reported' = reported
        /\ to_host # <<>> /\ to_host' = Tail(to_host)
        /\ Head(to_host).kind = "credit"
        /\ to_enclave' = to_enclave
    BY <1>2 DEF HostCredit, Receive, counters
  <2>3. TypeOK'
    BY <1>0, <2>1, HostQueueTail DEF TypeOK
  <2>4. CountersOrdered' /\ UnreportedBounded'
    BY <1>0, <1>2, <2>1 DEF CountersOrdered, UnreportedBounded, Open
  <2>5. DataOrdered' /\ DataArrives' /\ UncountedIgnored'
    BY <1>0, <1>2, <2>1, HostQueueTail DEF DataOrdered, DataArrives, UncountedIgnored, Open
  <2>6. CreditsOrdered' /\ CreditsArrive' /\ CloseIsLast'
    BY <1>0, <1>2, <2>1 DEF CreditsOrdered, CreditsArrive, CloseIsLast
  <2> QED BY <2>3, <2>4, <2>5, <2>6 DEF IndInv
<1> QED BY <1>1, <1>2

(* Output that enters the host's buffer. *)
LEMMA WriteNext ==
  ASSUME IndInv, write_to_socket PROVE IndInv'
<1>0. /\ TypeOK /\ CountersOrdered /\ DataOrdered /\ CreditsOrdered
      /\ DataArrives /\ CreditsArrive /\ UnreportedBounded
      /\ CloseIsLast /\ UncountedIgnored
  BY DEF IndInv
<1>t. /\ sent \in Nat /\ written \in Nat /\ received \in Nat
      /\ total \in Nat /\ reported \in Nat
      /\ to_host \in Seq(Messages(ToHost))
      /\ to_enclave \in Seq(Messages(ToEnclave))
  BY <1>0, BoundAssumption DEF TypeOK
<1>1. CASE ~(Head(to_host).n - total <= MaxPending)
  <2>1. /\ host' = "gone" /\ enclave' = enclave
        /\ sent' = sent /\ written' = written /\ received' = received
        /\ total' = total /\ reported' = reported
        /\ to_host # <<>> /\ to_host' = Tail(to_host)
        /\ to_enclave' = Append(to_enclave, Message("close", 0))
    BY <1>1 DEF write_to_socket, Receive, counters, Tell, Close
  <2>2. "close" \in ToEnclave
    BY DEF ToEnclave
  <2>3. TypeOK'
    BY <1>0, <2>1, <2>2, HostQueueTail, EnclaveQueueAppend DEF TypeOK
  <2>4. CountersOrdered' /\ UnreportedBounded'
    BY <1>0, <2>1 DEF CountersOrdered, UnreportedBounded, Open
  <2>5. DataOrdered' /\ DataArrives' /\ UncountedIgnored'
    BY <2>1, HostQueueTail DEF DataOrdered, DataArrives, UncountedIgnored, Open
  <2>6. CreditsOrdered' /\ CreditsArrive' /\ CloseIsLast'
    BY <1>0, <2>1, <2>2, EnclaveQueueAppend DEF CreditsOrdered, CreditsArrive, CloseIsLast
  <2> QED BY <2>3, <2>4, <2>5, <2>6 DEF IndInv
<1>2. CASE Head(to_host).n - total <= MaxPending
  <2> DEFINE n == Head(to_host).n
  <2>1. /\ host' = host /\ Open /\ enclave' = enclave
        /\ sent' = sent /\ written' = written /\ received' = n
        /\ total' = total /\ reported' = reported
        /\ to_host # <<>> /\ to_host' = Tail(to_host)
        /\ Head(to_host).kind = "data"
        /\ to_enclave' = to_enclave
    BY <1>2 DEF write_to_socket, Receive
  <2>2. Ordered(to_host, Head(to_host).kind, received, sent)
    BY <1>0, <2>1 DEF DataOrdered
  <2>3. /\ n \in Nat /\ received <= n /\ n <= sent
        /\ Ordered(Tail(to_host), "data", n, sent)
        /\ Reaches(to_host, "data", received, sent) /\ received # sent
             => Reaches(Tail(to_host), "data", n, sent)
    BY <1>t, <2>1, <2>2, TailSame
  <2>4. received = sent => n = sent
    BY <1>t, <2>3
  <2> HIDE DEF n
  <2>5. Reaches(Tail(to_host), "data", n, sent)
    BY <1>0, <2>1, <2>3, <2>4 DEF Reaches, DataArrives
  <2>6. TypeOK'
    BY <1>0, <2>1, <2>3, HostQueueTail DEF TypeOK
  <2>7. CountersOrdered' /\ UnreportedBounded'
    BY <1>0, <1>t, <2>1, <2>3 DEF CountersOrdered, UnreportedBounded, Open
  <2>8. DataOrdered' /\ DataArrives' /\ UncountedIgnored'
    BY <1>0, <2>1, <2>3, <2>5, HostQueueTail DEF DataOrdered, DataArrives, UncountedIgnored, Open
  <2>9. CreditsOrdered' /\ CreditsArrive' /\ CloseIsLast'
    BY <1>0, <2>1 DEF CreditsOrdered, CreditsArrive, CloseIsLast
  <2> QED BY <2>6, <2>7, <2>8, <2>9 DEF IndInv
<1> QED BY <1>1, <1>2

(* Output that leaves it, reported or not. *)
LEMMA SocketWriteNext ==
  ASSUME IndInv, NEW n \in 1..MaxPending,
         SocketWrite(n) \/ ReportWrite(n)
  PROVE  IndInv'
<1>0. /\ TypeOK /\ CountersOrdered /\ DataOrdered /\ CreditsOrdered
      /\ DataArrives /\ CreditsArrive /\ UnreportedBounded
      /\ CloseIsLast /\ UncountedIgnored
  BY DEF IndInv
<1>t. /\ sent \in Nat /\ written \in Nat /\ received \in Nat
      /\ total \in Nat /\ reported \in Nat
      /\ to_host \in Seq(Messages(ToHost))
      /\ to_enclave \in Seq(Messages(ToEnclave))
  BY <1>0, BoundAssumption DEF TypeOK
<1> n \in Nat
  BY WindowAssumption
<1> DEFINE m == total + n
<1>m. m \in Nat /\ total <= m /\ reported <= m /\ m <= received
  BY <1>0, <1>t DEF SocketWrite, ReportWrite, SocketTakes, CountersOrdered
<1>h. /\ host' = host /\ enclave' = enclave
      /\ sent' = sent /\ written' = written /\ received' = received
      /\ total' = m /\ to_host' = to_host
  BY DEF SocketWrite, ReportWrite, SocketTakes
<1>2. /\ to_host' \in Seq(Messages(ToHost))
      /\ DataOrdered' /\ DataArrives' /\ UncountedIgnored'
  BY <1>0, <1>h DEF TypeOK, DataOrdered, DataArrives, UncountedIgnored, Open
<1>3. CASE ReportWrite(n)
  <2>1. reported' = m /\ to_enclave' = Append(to_enclave, Credit(m))
    BY <1>3 DEF ReportWrite, Tell
  <2> HIDE DEF m
  <2>3. TypeOK'
    BY <1>0, <1>h, <1>m, <1>2, <2>1, EnclaveQueueCredit DEF TypeOK
  <2>4. CountersOrdered' /\ UnreportedBounded'
    BY <1>0, <1>t, <1>h, <1>m, <2>1, WindowAssumption DEF CountersOrdered, UnreportedBounded
  <2>6. CreditsOrdered' /\ CreditsArrive' /\ CloseIsLast'
    BY <1>0, <1>h, <1>m, <2>1, EnclaveQueueCredit DEF CreditsOrdered, CreditsArrive, CloseIsLast
  <2> QED BY <1>2, <2>3, <2>4, <2>6 DEF IndInv
<1>4. CASE SocketWrite(n)
  <2>1. reported' = reported /\ to_enclave' = to_enclave
    BY <1>4 DEF SocketWrite
  <2>2. ~Due(n)
    BY <1>4 DEF SocketWrite
  <2>5. m < reported + Quantum
    BY <1>t, <2>2, WindowAssumption DEF Due
  <2> HIDE DEF m
  <2>3. TypeOK'
    BY <1>0, <1>h, <1>m, <1>2, <2>1 DEF TypeOK
  <2>4. CountersOrdered' /\ UnreportedBounded'
    BY <1>0, <1>t, <1>h, <1>m, <2>1, <2>5 DEF CountersOrdered, UnreportedBounded
  <2>6. CreditsOrdered' /\ CreditsArrive' /\ CloseIsLast'
    BY <1>0, <1>h, <2>1 DEF CreditsOrdered, CreditsArrive, CloseIsLast
  <2> QED BY <1>2, <2>3, <2>4, <2>6 DEF IndInv
<1> QED BY <1>3, <1>4

(* The final report and the close behind it. *)
LEMMA FinalReport ==
  ASSUME IndInv, NEW n \in Nat, reported <= n
  PROVE  /\ Append(Append(to_enclave, Credit(n)), Close) \in Seq(Messages(ToEnclave))
         /\ Ordered(Append(Append(to_enclave, Credit(n)), Close), "credit", written, n)
         /\ Reaches(Append(Append(to_enclave, Credit(n)), Close), "credit", written, n)
<1>0. /\ TypeOK /\ CountersOrdered /\ DataOrdered /\ CreditsOrdered
      /\ DataArrives /\ CreditsArrive /\ UnreportedBounded
      /\ CloseIsLast /\ UncountedIgnored
  BY DEF IndInv
<1>t. /\ sent \in Nat /\ written \in Nat /\ received \in Nat
      /\ total \in Nat /\ reported \in Nat
      /\ to_host \in Seq(Messages(ToHost))
      /\ to_enclave \in Seq(Messages(ToEnclave))
  BY <1>0, BoundAssumption DEF TypeOK
<1>1. "close" \in ToEnclave
  BY DEF ToEnclave
<1>2. Message("close", 0) \in Messages(ToEnclave)
  BY <1>1, MessageType
<1> DEFINE q == Append(to_enclave, Credit(n))
<1>3. /\ q \in Seq(Messages(ToEnclave))
      /\ Ordered(q, "credit", written, n) /\ Reaches(q, "credit", written, n)
  BY EnclaveQueueCredit
<1> HIDE DEF q
<1>4. Append(q, Message("close", 0)) \in Seq(Messages(ToEnclave))
  BY <1>2, <1>3, AppendElements
<1>5. /\ Ordered(Append(q, Message("close", 0)), "credit", written, n)
      /\ Reaches(Append(q, Message("close", 0)), "credit", written, n)
  BY <1>t, <1>1, <1>3, AppendOther
<1> QED BY <1>4, <1>5 DEF q, Close

LEMMA LastWriteNext ==
  ASSUME IndInv, LastWrite PROVE IndInv'
<1>0. /\ TypeOK /\ CountersOrdered /\ DataOrdered /\ CreditsOrdered
      /\ DataArrives /\ CreditsArrive /\ UnreportedBounded
      /\ CloseIsLast /\ UncountedIgnored
  BY DEF IndInv
<1>t. /\ sent \in Nat /\ written \in Nat /\ received \in Nat
      /\ total \in Nat /\ reported \in Nat
      /\ to_host \in Seq(Messages(ToHost))
      /\ to_enclave \in Seq(Messages(ToEnclave))
  BY <1>0, BoundAssumption DEF TypeOK
<1>1. /\ host' = "gone" /\ enclave' = enclave
      /\ sent' = sent /\ written' = written /\ received' = received
      /\ total' = received /\ reported' = received
  BY DEF LastWrite
<1>4. reported <= received /\ received <= received
  BY <1>0, <1>t DEF CountersOrdered
<1>2. to_host' \in Seq(Messages(ToHost)) /\ Ordered(to_host', "data", received, sent)
  BY <1>0 DEF LastWrite, TypeOK, DataOrdered
<1>3. /\ to_enclave' \in Seq(Messages(ToEnclave))
      /\ Ordered(to_enclave', "credit", written, received)
      /\ Reaches(to_enclave', "credit", written, received)
  BY <1>t, <1>4, FinalReport DEF LastWrite
<1>5. TypeOK'
  BY <1>0, <1>t, <1>1, <1>2, <1>3 DEF TypeOK
<1>6. CountersOrdered' /\ UnreportedBounded'
  BY <1>0, <1>t, <1>1, <1>4 DEF CountersOrdered, UnreportedBounded, Open
<1>7. DataOrdered' /\ DataArrives' /\ UncountedIgnored'
  BY <1>1, <1>2 DEF DataOrdered, DataArrives, UncountedIgnored, Open
<1>8. CreditsOrdered' /\ CreditsArrive' /\ CloseIsLast'
  BY <1>0, <1>1, <1>3 DEF CreditsOrdered, CreditsArrive, CloseIsLast
<1> QED BY <1>5, <1>6, <1>7, <1>8 DEF IndInv

LEMMA CloseNowNext ==
  ASSUME IndInv, CloseNow PROVE IndInv'
<1>0. /\ TypeOK /\ CountersOrdered /\ DataOrdered /\ CreditsOrdered
      /\ DataArrives /\ CreditsArrive /\ UnreportedBounded
      /\ CloseIsLast /\ UncountedIgnored
  BY DEF IndInv
<1>t. /\ sent \in Nat /\ written \in Nat /\ received \in Nat
      /\ total \in Nat /\ reported \in Nat
      /\ to_host \in Seq(Messages(ToHost))
      /\ to_enclave \in Seq(Messages(ToEnclave))
  BY <1>0, BoundAssumption DEF TypeOK
<1>1. /\ host' = "gone" /\ enclave' = enclave
      /\ sent' = sent /\ written' = written /\ received' = received
      /\ total' = total /\ reported' = total
  BY DEF CloseNow
<1>4. reported <= total /\ total <= received
  BY <1>0, <1>t DEF CountersOrdered
<1>2. to_host' \in Seq(Messages(ToHost)) /\ Ordered(to_host', "data", received, sent)
  BY HostQueueTail DEF CloseNow, Receive
<1>3. /\ to_enclave' \in Seq(Messages(ToEnclave))
      /\ Ordered(to_enclave', "credit", written, total)
      /\ CreditsArrive /\ enclave # "gone" => Reaches(to_enclave', "credit", written, total)
  <2>1. CASE total # reported
    <3>1. to_enclave' = Append(Append(to_enclave, Credit(total)), Close)
      BY <2>1 DEF CloseNow, Reporting
    <3> QED BY <1>t, <1>4, <3>1, FinalReport
  <2>2. CASE total = reported
    <3>1. to_enclave' = Append(to_enclave, Message("close", 0))
      BY <2>2 DEF CloseNow, Reporting, Close
    <3>2. "close" \in ToEnclave
      BY DEF ToEnclave
    <3> QED BY <2>2, <3>1, <3>2, EnclaveQueueAppend DEF CreditsArrive
  <2> QED BY <2>1, <2>2
<1>5. TypeOK'
  BY <1>0, <1>t, <1>1, <1>2, <1>3 DEF TypeOK
<1>6. CountersOrdered' /\ UnreportedBounded'
  BY <1>0, <1>t, <1>1, <1>4 DEF CountersOrdered, UnreportedBounded, Open
<1>7. DataOrdered' /\ DataArrives' /\ UncountedIgnored'
  BY <1>1, <1>2 DEF DataOrdered, DataArrives, UncountedIgnored, Open
<1>8. CreditsOrdered' /\ CreditsArrive' /\ CloseIsLast'
  BY <1>0, <1>1, <1>3 DEF CreditsOrdered, CreditsArrive, CloseIsLast
<1> QED BY <1>5, <1>6, <1>7, <1>8 DEF IndInv

(* IndInv is inductive. *)
LEMMA IndInvNext == ASSUME IndInv, [Next]_vars PROVE IndInv'
<1>1. CASE UNCHANGED vars
  BY <1>1
  DEF vars, IndInv, TypeOK, CountersOrdered, DataOrdered, CreditsOrdered,
      DataArrives, CreditsArrive, UnreportedBounded, CloseIsLast,
      UncountedIgnored, Open
<1>2. CASE EnclaveReceives
  BY <1>2, QuietNext, DataNext, CreditNext, CloseNext DEF EnclaveReceives
<1>3. CASE HostReceives
  BY <1>3, QuietNext, HostCreditNext, WriteNext, CloseNowNext DEF HostReceives
<1>4. CASE flush_socket_writes
  BY <1>4, LastWriteNext, SocketWriteNext DEF flush_socket_writes
<1>5. CASE \E n \in 1..Step : progress_output(n)
  BY <1>5, ProgressNext
<1>6. CASE \/ HostCloses \/ ReadSocket \/ close_deferred_transport
           \/ OutputRefused \/ DispatchTurn
  BY <1>6, QuietNext
<1> QED BY <1>1, <1>2, <1>3, <1>4, <1>5, <1>6 DEF Next

(* What the window's arithmetic promises, from IndInv. *)
LEMMA WindowSuffices ==
  ASSUME IndInv
  PROVE  NeverOverflows /\ CreditsAccepted /\ NoCreditDeadlock
<1>0. /\ TypeOK /\ CountersOrdered /\ DataOrdered /\ CreditsOrdered
      /\ DataArrives /\ CreditsArrive /\ UnreportedBounded
      /\ CloseIsLast /\ UncountedIgnored
  BY DEF IndInv
<1>t. /\ sent \in Nat /\ written \in Nat /\ received \in Nat
      /\ total \in Nat /\ reported \in Nat
      /\ to_host \in Seq(Messages(ToHost))
      /\ to_enclave \in Seq(Messages(ToEnclave))
  BY <1>0, BoundAssumption DEF TypeOK
<1>1. sent <= total + MaxPending
  BY <1>0, <1>t, WindowAssumption DEF CountersOrdered
<1>2. NeverOverflows
  <2> SUFFICES ASSUME NEW i \in 1..Len(to_host), to_host[i].kind = "data"
               PROVE  to_host[i].n - total <= MaxPending
    BY DEF NeverOverflows
  <2>1. to_host[i].n <= sent
    BY <1>0 DEF DataOrdered, Ordered
  <2>2. to_host[i].n \in Nat
    <3>1. \A x \in Messages(ToHost) : x.n \in Nat
      BY DEF Messages
    <3> QED BY <1>t, <3>1
  <2> HIDE <1>t
  <2> QED BY <1>1, <1>t, <2>1, <2>2, WindowAssumption
<1>3. CreditsAccepted
  <2>1. reported <= sent
    BY <1>0, <1>t DEF CountersOrdered
  <2>2. \A i \in 1..Len(to_enclave) : to_enclave[i].n \in Nat
    <3>1. \A x \in Messages(ToEnclave) : x.n \in Nat
      BY DEF Messages
    <3>2. \A i \in 1..Len(to_enclave) : to_enclave[i] \in Messages(ToEnclave)
      BY <1>t
    <3> QED BY <3>1, <3>2
  <2> QED BY <1>0, <1>t, <2>1, <2>2 DEF CreditsAccepted, CreditsOrdered, Ordered
<1>4. NoCreditDeadlock
  <2> SUFFICES ASSUME enclave = "live", host = "credited",
                      to_host = <<>>, to_enclave = <<>>, received = total
               PROVE  available >= Step
    BY DEF NoCreditDeadlock
  <2>1. received = sent
    BY <1>0 DEF DataArrives, Reaches, Open
  <2>2. written = reported
    BY <1>0 DEF CreditsArrive, Reaches
  <2>3. total < reported + Quantum
    BY <1>0 DEF UnreportedBounded, Open
  <2> QED BY <1>t, <2>1, <2>2, <2>3, WindowAssumption DEF available
<1> QED BY <1>2, <1>3, <1>4

(* For every window, quantum and step that satisfy the arithmetic of the   *)
(* constants, whatever the sockets take and in whatever order the two      *)
(* loops run: a credited connection is never closed for a full buffer, no  *)
(* credit is refused, an uncounted close_notify reaches no buffer, and a   *)
(* quiet connection has credit for a response step although the host       *)
(* reports its writes late.                                                *)
THEOREM CreditSound ==
  Spec => [](/\ TypeOK /\ NeverOverflows /\ CreditsAccepted
             /\ UncountedIgnored /\ NoCreditDeadlock)
<1>1. Init => IndInv
  BY IndInvInit
<1>2. IndInv /\ [Next]_vars => IndInv'
  BY IndInvNext
<1>3. IndInv => /\ TypeOK /\ NeverOverflows /\ CreditsAccepted
                /\ UncountedIgnored /\ NoCreditDeadlock
  BY WindowSuffices DEF IndInv
<1> QED BY <1>1, <1>2, <1>3, PTL DEF Spec
=============================================================================
