-------------------------- MODULE SpscQueue_proofs --------------------------
(***************************************************************************)
(* Proofs about SpscQueue for every capacity, position width and set of    *)
(* payloads.                                                               *)
(***************************************************************************)
EXTENDS SpscQueue, SequenceTheorems, TLAPS

-----------------------------------------------------------------------------
(* Remainders. *)

(* A remainder is determined by any decomposition with a small rest. *)
LEMMA ModUnique ==
  ASSUME NEW M \in Nat, M > 0, NEW a \in Int, NEW q \in Int, NEW r \in 0..(M - 1),
         a = M * q + r
  PROVE  a % M = r
<1> DEFINE d == a \div M
           s == a % M
<1>1. d \in Int /\ s \in 0..(M - 1) /\ a = M * d + s
  OBVIOUS
<1> HIDE DEF d, s
<1>2. M * (q - d) = s - r
  BY <1>1
<1>3. CASE q - d >= 1
  <2>1. M * (q - d) >= M
    BY <1>1, <1>3
  <2> QED BY <1>1, <1>2, <2>1
<1>4. CASE q - d <= -1
  <2>1. M * (d - q) >= M
    BY <1>1, <1>4
  <2>2. M * (d - q) = r - s
    BY <1>1
  <2> QED BY <1>1, <2>1, <2>2
<1>5. CASE q = d
  BY <1>1, <1>5 DEF s
<1> QED BY <1>1, <1>3, <1>4, <1>5

(* Adding a multiple of the modulus changes nothing. *)
LEMMA ModShift ==
  ASSUME NEW M \in Nat, M > 0, NEW a \in Int, NEW k \in Int
  PROVE  (a + M * k) % M = a % M
<1> DEFINE d == a \div M
           s == a % M
<1>1. d \in Int /\ s \in 0..(M - 1) /\ a = M * d + s
  OBVIOUS
<1> HIDE DEF d, s
<1>2. a + M * k = M * (d + k) + s
  BY <1>1
<1>3. (a + M * k) % M = s
  BY <1>1, <1>2, ModUnique
<1> QED BY <1>3 DEF s

(* Two numbers less than the modulus apart have different remainders. *)
LEMMA ModDistinct ==
  ASSUME NEW M \in Nat, M > 0, NEW a \in Int, NEW b \in Int, a < b, b < a + M
  PROVE  a % M # b % M
<1> DEFINE d == a \div M
           e == b \div M
           s == a % M
<1> SUFFICES ASSUME a % M = b % M PROVE FALSE
  OBVIOUS
<1>1. d \in Int /\ e \in Int /\ s \in 0..(M - 1) /\ a = M * d + s /\ b = M * e + s
  OBVIOUS
<1> HIDE DEF d, e, s
<1>2. M * (e - d) = b - a
  BY <1>1
<1>3. CASE e - d >= 1
  <2>1. M * (e - d) >= M
    BY <1>1, <1>3
  <2> QED BY <1>2, <2>1
<1>4. CASE e - d <= 0
  <2>1. M * (e - d) <= 0
    BY <1>1, <1>4
  <2> QED BY <1>2, <2>1
<1> QED BY <1>1, <1>3, <1>4
-----------------------------------------------------------------------------
(* Positions. *)

(* Moving the first of two positions forward moves their distance. *)
LEMMA DistanceGrows ==
  ASSUME NEW P \in Nat, P > 0, NEW h \in Int, NEW t \in Int, NEW n \in Nat,
         ((h - t) % P) + n < P
  PROVE  (((h + n) % P) - t) % P = ((h - t) % P) + n
<1> DEFINE d == (h - t) \div P
           u == (h - t) % P
           e == (h + n) \div P
           g == (h + n) % P
<1>1. d \in Int /\ u \in 0..(P - 1) /\ h - t = P * d + u
  OBVIOUS
<1>2. e \in Int /\ g \in 0..(P - 1) /\ h + n = P * e + g
  OBVIOUS
<1>3. u + n \in 0..(P - 1)
  BY <1>1
<1> HIDE DEF d, u, e, g
<1>4. g - t = P * (d - e) + (u + n)
  BY <1>1, <1>2
<1>5. (g - t) % P = u + n
  BY <1>1, <1>2, <1>3, <1>4, ModUnique
<1> QED BY <1>5 DEF g, u

(* A position and its remainder modulo PosMod name the same ring byte. *)
LEMMA CellOfWrapped ==
  ASSUME NEW a \in Int, NEW j \in Int
  PROVE  Cell(a % PosMod, j) = Cell(a, j)
<1> DEFINE k == PosMod \div Capacity
           e == a \div PosMod
           g == a % PosMod
<1>1. k \in Int /\ PosMod = Capacity * k
  BY GeometryAssumption DEF MSG_HEADER_SIZE
<1>2. e \in Int /\ g \in Int /\ a = PosMod * e + g
  BY GeometryAssumption DEF MSG_HEADER_SIZE
<1> HIDE DEF k, e, g
<1>3. k * e \in Int /\ PosMod * e = Capacity * (k * e)
  BY <1>1, <1>2, GeometryAssumption
<1>4. Capacity \in Nat /\ Capacity > 0 /\ PosMod * e \in Int
  BY <1>2, GeometryAssumption DEF MSG_HEADER_SIZE
<1> DEFINE x == g + j
           m == k * e
<1>5. x \in Int /\ m \in Int /\ a + j = x + Capacity * m
  BY <1>2, <1>3, <1>4
<1>6. (a + j) % Capacity = x % Capacity
  <2> HIDE DEF x, m
  <2>1. (x + Capacity * m) % Capacity = x % Capacity
    BY <1>4, <1>5, ModShift
  <2> QED BY <1>5, <2>1
<1> QED BY <1>6 DEF Cell, g

(* Position h is Distance bytes after position t. *)
LEMMA CellFromTail ==
  ASSUME NEW h \in Int, NEW t \in Int, NEW j \in Int
  PROVE  Cell(h, j) = Cell(t, ((h - t) % PosMod) + j)
<1> DEFINE k == PosMod \div Capacity
           d == (h - t) \div PosMod
           u == (h - t) % PosMod
<1>1. k \in Int /\ PosMod = Capacity * k
  BY GeometryAssumption DEF MSG_HEADER_SIZE
<1>2. d \in Int /\ u \in Int /\ h - t = PosMod * d + u
  BY GeometryAssumption DEF MSG_HEADER_SIZE
<1> HIDE DEF k, d, u
<1>3. k * d \in Int /\ PosMod * d = Capacity * (k * d)
  BY <1>1, <1>2, GeometryAssumption
<1>4. Capacity \in Nat /\ Capacity > 0 /\ PosMod * d \in Int
  BY <1>2, GeometryAssumption DEF MSG_HEADER_SIZE
<1> DEFINE x == t + (u + j)
           m == k * d
<1>5. x \in Int /\ m \in Int /\ h + j = x + Capacity * m
  BY <1>2, <1>3, <1>4
<1>6. (h + j) % Capacity = x % Capacity
  <2> HIDE DEF x, m
  <2>1. (x + Capacity * m) % Capacity = x % Capacity
    BY <1>4, <1>5, ModShift
  <2> QED BY <1>5, <2>1
<1> QED BY <1>6 DEF Cell, u

(* Bytes of one lap are different bytes of the ring. *)
LEMMA CellsDistinct ==
  ASSUME NEW t \in Int, NEW i \in Nat, NEW j \in Nat,
         i < Capacity, j < Capacity, i # j
  PROVE  Cell(t, i) # Cell(t, j)
<1>1. CASE i < j
  <2>1. t + i < t + j /\ t + j < t + i + Capacity
    BY <1>1, GeometryAssumption
  <2> QED BY <2>1, ModDistinct, GeometryAssumption DEF Cell, MSG_HEADER_SIZE
<1>2. CASE j < i
  <2>1. t + j < t + i /\ t + i < t + j + Capacity
    BY <1>2, GeometryAssumption
  <2> QED BY <2>1, ModDistinct, GeometryAssumption DEF Cell, MSG_HEADER_SIZE
<1> QED BY <1>1, <1>2
-----------------------------------------------------------------------------
(* The helpers of the model. *)

LEMMA SizeFacts ==
  /\ Capacity \in Nat /\ Capacity >= 4 /\ PosMod \in Nat /\ PosMod > Capacity
  /\ max_message_bytes \in Nat
  /\ max_message_bytes + 4 <= Capacity
  /\ max_message_bytes + 4 <= 256 * 256 * 256
BY GeometryAssumption, FrameAssumption
   DEF max_message_bytes, MSG_HEADER_SIZE, MAX_SHARED_QUEUE_CAPACITY

(* How the two-part copies compute the ring byte of an offset. *)
LEMMA CellSplit ==
  ASSUME NEW p \in Int, NEW j \in Nat, j < Capacity
  PROVE  /\ Cell(p, j) \in 0..(Capacity - 1)
         /\ p % Capacity \in 0..(Capacity - 1)
         /\ Cell(p, j) = IF (p % Capacity) + j < Capacity
                         THEN (p % Capacity) + j
                         ELSE (p % Capacity) + j - Capacity
<1> DEFINE d == p \div Capacity
           s == p % Capacity
<1>1. Capacity \in Nat /\ Capacity > 0
  BY SizeFacts
<1>2. d \in Int /\ s \in 0..(Capacity - 1) /\ p = Capacity * d + s
  BY <1>1
<1> HIDE DEF d, s
<1>3. CASE s + j < Capacity
  <2>1. s + j \in 0..(Capacity - 1) /\ p + j = Capacity * d + (s + j)
    BY <1>1, <1>2, <1>3
  <2>2. (p + j) % Capacity = s + j
    BY <1>1, <1>2, <2>1, ModUnique
  <2> QED BY <1>2, <1>3, <2>1, <2>2 DEF Cell, s
<1>4. CASE s + j >= Capacity
  <2> DEFINE r == s + j - Capacity
             q == d + 1
  <2>1. r \in 0..(Capacity - 1) /\ q \in Int /\ p + j = Capacity * q + r
    BY <1>1, <1>2, <1>4
  <2> HIDE DEF r, q
  <2>2. (p + j) % Capacity = r
    BY <1>1, <1>2, <2>1, ModUnique
  <2> QED BY <1>1, <1>2, <1>4, <2>1, <2>2 DEF Cell, s, r
<1> QED BY <1>1, <1>2, <1>3, <1>4

(* write_bytes puts data at offset and changes no other byte. *)
LEMMA WriteBytes ==
  ASSUME NEW ring \in [0..(Capacity - 1) -> Byte], NEW p \in Int,
         NEW data \in Seq(Byte), Len(data) <= Capacity
  PROVE  /\ write_bytes(ring, p, data) \in [0..(Capacity - 1) -> Byte]
         /\ \A j \in 1..Len(data) :
              write_bytes(ring, p, data)[Cell(p, j - 1)] = data[j]
         /\ \A i \in 0..(Capacity - 1) :
              (\A j \in 1..Len(data) : Cell(p, j - 1) # i)
                => write_bytes(ring, p, data)[i] = ring[i]
<1> DEFINE start == p % Capacity
           first == IF Len(data) <= Capacity - start THEN Len(data)
                                                     ELSE Capacity - start
           w == write_bytes(ring, p, data)
<1>1. Capacity \in Nat /\ Capacity > 0 /\ Len(data) \in Nat
  BY SizeFacts
<1>2. start \in 0..(Capacity - 1)
  BY <1>1
<1>3. first \in 0..Len(data)
  BY <1>1, <1>2
<1>4. \A i \in 1..Len(data) : data[i] \in Byte
  OBVIOUS
<1>5. w = [i \in 0..(Capacity - 1) |->
             IF start <= i /\ i < start + first THEN data[i - start + 1]
             ELSE IF i < Len(data) - first THEN data[first + i + 1]
             ELSE ring[i]]
  BY DEF write_bytes
<1>6. ASSUME NEW j \in 1..Len(data)
      PROVE  /\ Cell(p, j - 1) \in 0..(Capacity - 1)
             /\ Cell(p, j - 1) = IF start + j - 1 < Capacity
                                 THEN start + j - 1
                                 ELSE start + j - 1 - Capacity
  <2>1. j - 1 \in Nat /\ j - 1 < Capacity
    BY <1>1
  <2>2. /\ Cell(p, j - 1) \in 0..(Capacity - 1)
        /\ Cell(p, j - 1) = IF start + (j - 1) < Capacity
                            THEN start + (j - 1)
                            ELSE start + (j - 1) - Capacity
    BY <2>1, CellSplit
  <2> QED BY <1>1, <1>2, <2>1, <2>2
<1>7. first = IF Len(data) <= Capacity - start THEN Len(data)
                                               ELSE Capacity - start
  OBVIOUS
<1> HIDE DEF w, start, first
<1>8. w \in [0..(Capacity - 1) -> Byte]
  <2> SUFFICES ASSUME NEW i \in 0..(Capacity - 1)
               PROVE  (IF start <= i /\ i < start + first THEN data[i - start + 1]
                       ELSE IF i < Len(data) - first THEN data[first + i + 1]
                       ELSE ring[i]) \in Byte
    BY <1>5
  <2>1. CASE start <= i /\ i < start + first
    BY <1>1, <1>2, <1>3, <1>4, <2>1
  <2>2. CASE ~(start <= i /\ i < start + first) /\ i < Len(data) - first
    BY <1>1, <1>2, <1>3, <1>4, <2>2
  <2> QED BY <2>1, <2>2
<1>9. ASSUME NEW j \in 1..Len(data) PROVE w[Cell(p, j - 1)] = data[j]
  <2> DEFINE i == Cell(p, j - 1)
  <2>1. i \in 0..(Capacity - 1) /\ i = IF start + j - 1 < Capacity
                                 THEN start + j - 1
                                 ELSE start + j - 1 - Capacity
    BY <1>6
  <2> HIDE DEF i
  <2>2. CASE start + j - 1 < Capacity
    <3>1. i = start + j - 1 /\ start <= i /\ i < start + first /\ i - start + 1 = j
      BY <1>1, <1>2, <1>7, <2>1, <2>2
    <3> QED BY <1>5, <2>1, <3>1 DEF i
  <2>3. CASE start + j - 1 >= Capacity
    <3>1. /\ first = Capacity - start /\ i = start + j - 1 - Capacity
          /\ i < start /\ i < Len(data) - first /\ first + i + 1 = j
      <4>1. i = start + j - 1 - Capacity /\ j <= Len(data) /\ j \in Nat
        BY <1>1, <1>2, <2>1, <2>3
      <4>2. first = Capacity - start
        BY <1>1, <1>2, <1>7, <2>3, <4>1
      <4> QED BY <1>1, <1>2, <4>1, <4>2
    <3>2. ~(start <= i)
      BY <1>2, <2>1, <3>1
    <3> QED BY <1>5, <2>1, <3>1, <3>2 DEF i
  <2> QED BY <1>1, <1>2, <2>2, <2>3
<1>10. ASSUME NEW i \in 0..(Capacity - 1),
              \A j \in 1..Len(data) : Cell(p, j - 1) # i
       PROVE  w[i] = ring[i]
  <2>1. ~(start <= i /\ i < start + first)
    <3> SUFFICES ASSUME start <= i, i < start + first PROVE FALSE
      OBVIOUS
    <3> DEFINE j == i - start + 1
    <3>1. j \in 1..Len(data) /\ j - 1 = (i - start + 1) - 1
      BY <1>1, <1>2, <1>3
    <3> HIDE DEF j
    <3>2. Cell(p, j - 1) = i
      BY <1>1, <1>2, <1>6, <3>1
    <3> QED BY <1>10, <3>1, <3>2
  <2>2. ~(i < Len(data) - first)
    <3> SUFFICES ASSUME i < Len(data) - first PROVE FALSE
      OBVIOUS
    <3> DEFINE j == first + i + 1
    <3>1. j \in 1..Len(data) /\ j - 1 = (first + i + 1) - 1 /\ first = Capacity - start
      BY <1>1, <1>2, <1>3, <1>7
    <3> HIDE DEF j
    <3>2. Cell(p, j - 1) = i
      BY <1>1, <1>2, <1>6, <3>1
    <3> QED BY <1>10, <3>1, <3>2
  <2> QED BY <1>5, <2>1, <2>2
<1> QED BY <1>8, <1>9, <1>10 DEF w

(* read_bytes returns the n bytes from offset on. *)
LEMMA ReadBytes ==
  ASSUME NEW ring \in [0..(Capacity - 1) -> Byte], NEW p \in Int,
         NEW n \in Nat, n <= Capacity
  PROVE  /\ read_bytes(ring, p, n) \in Seq(Byte)
         /\ Len(read_bytes(ring, p, n)) = n
         /\ \A k \in 1..n : read_bytes(ring, p, n)[k] = ring[Cell(p, k - 1)]
<1> DEFINE start == p % Capacity
           r == read_bytes(ring, p, n)
<1>1. Capacity \in Nat /\ Capacity > 0
  BY SizeFacts
<1>2. start \in 0..(Capacity - 1)
  BY <1>1
<1>3. r = [k \in 1..n |-> IF start + k - 1 < Capacity
                          THEN ring[start + k - 1]
                          ELSE ring[start + k - 1 - Capacity]]
  BY DEF read_bytes
<1>4. ASSUME NEW k \in 1..n
      PROVE  /\ Cell(p, k - 1) \in 0..(Capacity - 1)
             /\ Cell(p, k - 1) = IF start + (k - 1) < Capacity
                                 THEN start + (k - 1)
                                 ELSE start + (k - 1) - Capacity
  <2>1. k - 1 \in Nat /\ k - 1 < Capacity
    BY <1>1
  <2> QED BY <2>1, CellSplit
<1> HIDE DEF r, start
<1>5. ASSUME NEW k \in 1..n PROVE r[k] = ring[Cell(p, k - 1)]
  BY <1>1, <1>2, <1>3, <1>4
<1>6. r \in [1..n -> Byte]
  <2>1. \A k \in 1..n : r[k] \in Byte
    BY <1>4, <1>5
  <2> QED BY <1>3, <2>1
<1>7. r \in Seq(Byte) /\ Len(r) = n
  BY <1>6
<1> QED BY <1>5, <1>7 DEF r
(* A length survives its encoding. *)
LEMMA LengthRoundTrip ==
  ASSUME NEW n \in Nat, n < 256 * 256 * 256
  PROVE  /\ to_le_bytes(n) \in Seq(Byte)
         /\ Len(to_le_bytes(n)) = 4
         /\ from_le_bytes(to_le_bytes(n)) = n
<1>1. /\ n % 256 \in Byte
      /\ (n \div 256) % 256 \in Byte
      /\ (n \div (256 * 256)) % 256 \in Byte
      /\ (n \div (256 * 256 * 256)) % 256 \in Byte
  BY DEF Byte
<1>2. (n % 256) + 256 * (((n \div 256) % 256) + 256 *
         (((n \div (256 * 256)) % 256) + 256 * ((n \div (256 * 256 * 256)) % 256)))
        = n
  OBVIOUS
<1> QED BY <1>1, <1>2 DEF to_le_bytes, from_le_bytes

LEMMA ElementType ==
  ASSUME NEW b \in Seq(Byte) PROVE \A i \in 1..Len(b) : b[i] \in Byte
OBVIOUS

(* Four bytes make a number. *)
LEMMA LengthIsNat ==
  ASSUME NEW b \in Seq(Byte), Len(b) = 4
  PROVE  from_le_bytes(b) \in Nat
<1>1. \A i \in 1..Len(b) : b[i] \in Byte
  BY ElementType
<1>2. \A v, w, x, y \in Nat : v + 256 * (w + 256 * (x + 256 * y)) \in Nat
  OBVIOUS
<1>3. \A x \in Byte : x \in Nat
  BY DEF Byte
<1>4. b[1] \in Nat /\ b[2] \in Nat /\ b[3] \in Nat /\ b[4] \in Nat
  BY <1>1, <1>3
<1> QED BY SMTT(60), <1>2, <1>4 DEF from_le_bytes
-----------------------------------------------------------------------------
(* Type correctness and the reservations. *)

LEMMA UsedType == ASSUME TypeOK PROVE Used \in 0..(PosMod - 1)
BY SizeFacts DEF TypeOK, Used

LEMMA PublishUsed ==
  ASSUME TypeOK, Reservation, Publish
  PROVE  Used' = Used + FrameSize(Len(msg))
<1>1. head \in Int /\ tail \in Int /\ Len(msg) \in Nat
  BY DEF TypeOK
<1> DEFINE n == FrameSize(Len(msg))
<1>2. n \in Nat
  BY <1>1 DEF FrameSize, MSG_HEADER_SIZE
<1>3. Used + n <= Capacity
  BY DEF Publish, Reservation, Sending
<1>4. PosMod \in Nat /\ PosMod > 0
  BY SizeFacts
<1>5. head' = (head + n) % PosMod /\ tail' = tail
  BY DEF Publish
<1> HIDE DEF n
<1>6. ((head - tail) % PosMod) + n < PosMod
  BY <1>2, <1>3, SizeFacts, UsedType DEF Used
<1>7. (((head + n) % PosMod) - tail) % PosMod = ((head - tail) % PosMod) + n
  BY ZenonT(60), <1>1, <1>2, <1>4, <1>6, DistanceGrows
<1> QED BY <1>5, <1>7 DEF Used, n

LEMMA ConsumeUsed ==
  ASSUME TypeOK, NEW n \in Nat, n <= Used, head' = head,
         tail' = (tail + n) % PosMod
  PROVE  Used' = Used - n
<1>1. head \in Int /\ tail \in Int /\ PosMod \in Nat /\ PosMod > 0
  BY SizeFacts DEF TypeOK
<1> DEFINE d == (head - tail) \div PosMod
           e == (tail + n) \div PosMod
<1>2. d \in Int /\ Used \in 0..(PosMod - 1) /\ head - tail = PosMod * d + Used
  BY <1>1 DEF Used
<1>3. e \in Int /\ tail' \in Int /\ tail + n = PosMod * e + tail'
  BY <1>1
<1> HIDE DEF d, e
<1>4. head - tail' = PosMod * (d + e) + (Used - n)
  BY <1>1, <1>2, <1>3
<1>5. head - tail' \in Int /\ d + e \in Int /\ Used - n \in 0..(PosMod - 1)
  BY <1>1, <1>2, <1>3
<1>6. (head - tail') % PosMod = Used - n
  BY <1>1, <1>4, <1>5, ModUnique
<1> QED BY <1>6 DEF Used
LEMMA SpaceInit == ASSUME Init PROVE TypeOK /\ Reservation
<1>1. /\ 0 \in 0..(PosMod - 1)
      /\ [i \in 0..(Capacity - 1) |-> 0] \in [0..(Capacity - 1) -> Byte]
      /\ <<>> \in Seq(Byte) /\ Len(<<>>) = 0
      /\ <<>> \in Seq(Seq(Byte)) /\ <<>> \in Seq(Frame)
  BY SizeFacts DEF Byte
<1>2. TypeOK
  BY <1>1, SizeFacts DEF Init, TypeOK
<1>3. Used = 0
  BY SizeFacts DEF Init, Used
<1> QED BY <1>2, <1>3, SizeFacts
        DEF Init, Reservation, UsedWithinCapacity, Sending, Receiving

LEMMA SpaceNext ==
  ASSUME TypeOK, Reservation, [Next]_vars
  PROVE  TypeOK' /\ Reservation'
<1> USE SizeFacts, UsedType
<1>0. /\ FrameSize(Len(msg)) = 4 + Len(msg) /\ Len(msg) \in Nat
      /\ FrameSize(length) = 4 + length /\ length \in Nat
  BY DEF TypeOK, FrameSize, MSG_HEADER_SIZE
<1>1. ASSUME NEW m \in Payloads, NEW b \in BOOLEAN, Call(m, b)
      PROVE  TypeOK' /\ Reservation'
  <2>1. m \in Seq(Byte) /\ Len(m) <= max_message_bytes
    BY <1>1, PayloadAssumption DEF Call, message_len_valid
  <2>2. TypeOK'
    BY <1>1, <2>1 DEF Call, TypeOK, consVars
  <2> QED BY <1>1, <2>2
          DEF Call, consVars, Reservation, UsedWithinCapacity, Used, Sending, Receiving
<1>2. CASE CheckSpace
  <2>1. TypeOK'
    BY <1>2 DEF CheckSpace, TypeOK, consVars
  <2> QED BY <1>0, <1>2, <2>1
      DEF CheckSpace, consVars, Reservation, UsedWithinCapacity, Used, Sending, Receiving
<1>3. CASE WriteHeader
  <2>1. /\ to_le_bytes(Len(msg)) \in Seq(Byte)
        /\ Len(to_le_bytes(Len(msg))) = 4
    <3>1. Len(msg) < 256 * 256 * 256
      BY <1>0 DEF TypeOK
    <3> QED BY <1>0, <3>1, LengthRoundTrip
  <2>2. head \in Int /\ buf \in [0..(Capacity - 1) -> Byte]
    BY DEF TypeOK
  <2>3. buf' \in [0..(Capacity - 1) -> Byte]
    BY <1>3, <2>1, <2>2, WriteBytes DEF WriteHeader
  <2>4. TypeOK'
    BY <1>3, <2>3 DEF WriteHeader, TypeOK, consVars
  <2> QED BY <1>3, <2>4
      DEF WriteHeader, consVars, Reservation, UsedWithinCapacity, Used, Sending, Receiving
<1>4. CASE WritePayload
  <2>1. msg \in Seq(Byte) /\ Len(msg) <= Capacity
    BY <1>0 DEF TypeOK
  <2>2. head + MSG_HEADER_SIZE \in Int /\ buf \in [0..(Capacity - 1) -> Byte]
    BY DEF TypeOK, MSG_HEADER_SIZE
  <2>3. buf' \in [0..(Capacity - 1) -> Byte]
    BY <1>4, <2>1, <2>2, WriteBytes DEF WritePayload
  <2>4. TypeOK'
    BY <1>4, <2>3 DEF WritePayload, TypeOK, consVars
  <2> QED BY <1>4, <2>4
      DEF WritePayload, consVars, Reservation, UsedWithinCapacity, Used, Sending, Receiving
<1>5. CASE Publish
  <2>1. Used' = Used + FrameSize(Len(msg))
    BY <1>5, PublishUsed
  <2>2. Used \in Int /\ [off |-> Used, msg |-> msg] \in Frame
    BY DEF Frame, TypeOK
  <2>3. head' \in 0..(PosMod - 1) /\ frames' \in Seq(Frame)
    BY <1>0, <1>5, <2>2 DEF Publish, TypeOK
  <2>4. TypeOK'
    BY <1>5, <2>3 DEF Publish, TypeOK, consVars
  <2>5. Used' \in Nat /\ Used <= Used' /\ Used' <= Capacity
    BY <1>0, <1>5, <2>1 DEF Publish, Reservation, Sending
  <2>6. cpc' = cpc /\ avail' = avail /\ length' = length /\ ppc' = "idle"
    BY <1>5 DEF Publish, consVars
  <2>7. cpc = "length" => avail <= Used'
    BY <2>5 DEF Reservation, TypeOK
  <2>8. Receiving => FrameSize(length) <= Used'
    BY <1>0, <2>5 DEF Reservation
  <2> QED BY <2>4, <2>5, <2>6, <2>7, <2>8
          DEF Reservation, UsedWithinCapacity, Sending, Receiving
<1>6. CASE LoadHead
  <2>1. TypeOK'
    BY <1>6 DEF LoadHead, TypeOK, prodVars
  <2> QED BY <1>6, <2>1
      DEF LoadHead, prodVars, Reservation, UsedWithinCapacity, Used, Sending, Receiving
<1>7. CASE ReadLength
  <2> DEFINE n == from_le_bytes(read_bytes(buf, tail, MSG_HEADER_SIZE))
             corrupt == n > max_message_bytes
             partial == FrameSize(n) > Capacity \/ avail < FrameSize(n)
  <2>1. n \in Nat
    <3>1. buf \in [0..(Capacity - 1) -> Byte] /\ tail \in Int
      BY DEF TypeOK
    <3>2. MSG_HEADER_SIZE \in Nat /\ MSG_HEADER_SIZE = 4 /\ MSG_HEADER_SIZE <= Capacity
      BY DEF MSG_HEADER_SIZE
    <3> QED BY SMTT(60), <3>1, <3>2, ReadBytes, LengthIsNat
  <2>2. /\ cpc = "length"
        /\ tail' = IF corrupt THEN (tail + MSG_HEADER_SIZE) % PosMod ELSE tail
        /\ cpc' = IF corrupt \/ partial THEN "idle" ELSE "frame"
        /\ length' = IF corrupt \/ partial THEN length ELSE n
        /\ UNCHANGED <<head, buf, frames, avail, out, received>>
        /\ UNCHANGED prodVars
    BY <1>7 DEF ReadLength
  <2>3. FrameSize(n) = 4 + n
    BY DEF FrameSize, MSG_HEADER_SIZE
  <2> HIDE DEF n
  <2>4. TypeOK'
    BY <2>1, <2>2 DEF TypeOK, prodVars, MSG_HEADER_SIZE
  <2>5. Used' \in Int /\ Used' <= Used /\ (~corrupt => Used' = Used)
    <3>1. CASE corrupt
      <4>1. MSG_HEADER_SIZE \in Nat /\ MSG_HEADER_SIZE <= Used
        BY <2>2 DEF Reservation, MSG_HEADER_SIZE, TypeOK
      <4>2. Used' = Used - MSG_HEADER_SIZE
        BY <2>2, <3>1, <4>1, ConsumeUsed
      <4> QED BY <3>1, <4>1, <4>2
    <3>2. CASE ~corrupt
      BY <2>2, <3>2 DEF Used, TypeOK
    <3> QED BY <3>1, <3>2
  <2>6. UsedWithinCapacity'
    BY <2>5 DEF Reservation, UsedWithinCapacity
  <2>7. Sending' => Used' + FrameSize(Len(msg')) <= Capacity
    BY <1>0, <2>2, <2>5 DEF Reservation, Sending, prodVars
  <2>8. Receiving' => FrameSize(length') <= Used'
    BY <2>1, <2>2, <2>3, <2>5 DEF Reservation, Receiving, TypeOK
  <2>9. cpc' # "length"
    BY <2>2
  <2> QED BY <2>4, <2>6, <2>7, <2>8, <2>9 DEF Reservation
<1>8. ASSUME cpc = "frame", cpc' \in {"idle", "consume"},
             \/ out' = <<>>
             \/ out' = <<read_bytes(buf, tail + MSG_HEADER_SIZE, length)>>,
             UNCHANGED <<head, tail, buf, frames, avail, length, received>>,
             UNCHANGED prodVars
      PROVE  TypeOK' /\ Reservation'
  <2>1. length <= Capacity
    BY <1>0, <1>8 DEF Reservation, UsedWithinCapacity, Receiving
  <2>2. tail + MSG_HEADER_SIZE \in Int /\ buf \in [0..(Capacity - 1) -> Byte]
    BY DEF TypeOK, MSG_HEADER_SIZE
  <2>3. read_bytes(buf, tail + MSG_HEADER_SIZE, length) \in Seq(Byte)
    BY <1>0, <2>1, <2>2, ReadBytes
  <2>4. out' \in Seq(Seq(Byte))
    <3>1. \A x \in Seq(Byte) : <<x>> \in Seq(Seq(Byte))
      OBVIOUS
    <3>2. <<>> \in Seq(Seq(Byte))
      OBVIOUS
    <3> QED BY <1>8, <2>3, <3>1, <3>2
  <2>5. TypeOK'
    BY <1>8, <2>4 DEF TypeOK, prodVars
  <2> QED BY <1>8, <2>5
          DEF prodVars, Reservation, UsedWithinCapacity, Used, Sending, Receiving
<1>9. ASSUME NEW n \in Nat, TryRecvInto(n) PROVE TypeOK' /\ Reservation'
  BY <1>8, <1>9 DEF TryRecvInto, CopyOut
<1>10. ASSUME NEW n \in Nat, TryRecvWith(n) PROVE TypeOK' /\ Reservation'
  BY <1>8, <1>10 DEF TryRecvWith, CopyOut
<1>11. CASE TryRecvRefused
  BY <1>8, <1>11 DEF TryRecvRefused
<1>12. CASE TryRecv
  BY <1>8, <1>12 DEF TryRecv, CopyOut
<1>13. CASE consume_frame
  <2>1. FrameSize(length) \in Nat /\ FrameSize(length) <= Used
    BY <1>0, <1>13 DEF consume_frame, Reservation, Receiving
  <2>2. Used' = Used - FrameSize(length)
    BY <1>13, <2>1, ConsumeUsed DEF consume_frame
  <2>3. tail' \in 0..(PosMod - 1)
    BY <1>0, <1>13 DEF consume_frame, TypeOK
  <2>4. frames' \in Seq(Frame)
    <3> DEFINE k == Len(frames) - 1
    <3>1. Len(frames) \in Nat /\ \A i \in 1..Len(frames) : frames[i] \in Frame
      BY DEF TypeOK
    <3>2. \A i \in 1..k : [off |-> frames[i + 1].off - FrameSize(length),
                           msg |-> frames[i + 1].msg] \in Frame
      BY <3>1, <2>1 DEF Frame
    <3>3. frames' = [i \in 1..k |-> [off |-> frames[i + 1].off - FrameSize(length),
                                     msg |-> frames[i + 1].msg]]
      BY <1>13 DEF consume_frame, Shift
    <3>4. CASE k \in Nat
      BY <3>2, <3>3, <3>4
    <3>5. CASE k = -1
      <4>1. 1..k = 1..0
        BY <3>5
      <4> QED BY <3>2, <3>3, <4>1
    <3> QED BY <3>1, <3>4, <3>5
  <2>5. TypeOK'
    BY <1>13, <2>3, <2>4 DEF consume_frame, TypeOK, prodVars
  <2> QED BY <1>0, <1>13, <2>1, <2>2, <2>5
          DEF consume_frame, prodVars, Reservation, UsedWithinCapacity, Sending, Receiving
<1>14. CASE UNCHANGED vars
  <2>1. TypeOK'
    BY <1>14 DEF vars, TypeOK
  <2> QED BY <1>14, <2>1
          DEF vars, Reservation, UsedWithinCapacity, Used, Sending, Receiving
<1> QED BY <1>1, <1>2, <1>3, <1>4, <1>5, <1>6, <1>7, <1>9, <1>10, <1>11,
           <1>12, <1>13, <1>14, PayloadAssumption DEF Next, Producer, Consumer
(* The reservations keep the two sides apart. *)
LEMMA SpaceNoSharedByte ==
  ASSUME TypeOK, Reservation PROVE NoSharedByte
<1> USE SizeFacts, UsedType
<1>1. head \in Int /\ tail \in Int /\ Len(msg) \in Nat /\ length \in Nat
  BY DEF TypeOK
<1> SUFFICES ASSUME NEW c \in WriteSet, c \in ReadSet PROVE FALSE
  BY DEF NoSharedByte
<1>2. Sending
  BY DEF WriteSet, Sending
<1>3. PICK i \in 0..(FrameSize(Len(msg)) - 1) : c = Cell(head, i)
  BY <1>2 DEF WriteSet, Sending
<1>4. PICK j \in Nat : j < Used /\ c = Cell(tail, j)
  <2>1. CASE cpc = "length"
    <3>1. PICK j \in 0..(MSG_HEADER_SIZE - 1) : c = Cell(tail, j)
      BY <2>1 DEF ReadSet
    <3> QED BY SMTT(60), <2>1, <3>1 DEF Reservation, MSG_HEADER_SIZE, TypeOK
  <2>2. CASE Receiving
    <3>1. PICK j \in 0..(FrameSize(length) - 1) : c = Cell(tail, j)
      BY <2>2 DEF ReadSet, Receiving
    <3> QED BY <1>1, <2>2, <3>1 DEF Reservation, FrameSize, MSG_HEADER_SIZE
  <2> QED BY <2>1, <2>2 DEF ReadSet, Receiving
<1>5. Used + i \in Nat /\ Used + i < Capacity
  BY <1>1, <1>2, <1>3 DEF Reservation, FrameSize, MSG_HEADER_SIZE
<1>6. Cell(head, i) = Cell(tail, Used + i)
  BY <1>1, <1>3, CellFromTail DEF Used
<1>7. Cell(tail, Used + i) # Cell(tail, j)
  <2>1. j < Capacity /\ Used + i # j
    BY <1>3, <1>4, <1>5
  <2> QED BY <1>1, <1>4, <1>5, <2>1, CellsDistinct
<1> QED BY <1>3, <1>4, <1>6, <1>7

(* Every state is well typed, whatever the capacity and the payloads, the  *)
(* ring never holds more than its capacity across the wrap of the          *)
(* positions, and try_send never writes a byte a receive operation reads.  *)
THEOREM SpaceCorrect == Spec => [](TypeOK /\ UsedWithinCapacity /\ NoSharedByte)
<1>1. Init => TypeOK /\ Reservation
  BY SpaceInit
<1>2. (TypeOK /\ Reservation) /\ [Next]_vars => (TypeOK /\ Reservation)'
  BY SpaceNext
<1>3. TypeOK /\ Reservation => TypeOK /\ UsedWithinCapacity /\ NoSharedByte
  BY SpaceNoSharedByte DEF Reservation
<1> QED BY <1>1, <1>2, <1>3, PTL DEF Spec
-----------------------------------------------------------------------------
(* Contents. *)

(* The bytes of a frame: four of length, then the payload. *)
LEMMA FrameBytesAt ==
  ASSUME NEW m \in Seq(Byte), Len(m) <= max_message_bytes
  PROVE  /\ FrameSize(Len(m)) = 4 + Len(m) /\ Len(m) \in Nat
         /\ \A j \in 1..4 : FrameBytes(m)[j] = to_le_bytes(Len(m))[j]
         /\ \A j \in 1..Len(m) : FrameBytes(m)[4 + j] = m[j]
<1>1. Len(m) \in Nat /\ FrameSize(Len(m)) = 4 + Len(m)
  BY DEF FrameSize, MSG_HEADER_SIZE
<1>2. Len(m) < 256 * 256 * 256
  BY <1>1, SizeFacts
<1> DEFINE h == to_le_bytes(Len(m))
<1>3. h \in Seq(Byte)
  BY <1>1, <1>2, LengthRoundTrip
<1>4. Len(h) = 4
  BY <1>1, <1>2, LengthRoundTrip
<1> HIDE DEF h
<1>5. \A j \in 1..(Len(h) + Len(m)) :
        (h \o m)[j] = IF j <= Len(h) THEN h[j] ELSE m[j - Len(h)]
  BY <1>3, ConcatProperties
<1>6. ASSUME NEW j \in 1..4 PROVE (h \o m)[j] = h[j]
  <2>1. j \in 1..(4 + Len(m)) /\ j <= 4
    BY <1>1
  <2> QED BY <1>4, <1>5, <2>1
<1>7. ASSUME NEW j \in 1..Len(m) PROVE (h \o m)[4 + j] = m[j]
  <2>1. 4 + j \in 1..(4 + Len(m)) /\ ~(4 + j <= 4) /\ (4 + j) - 4 = j
    BY <1>1
  <2> QED BY <1>4, <1>5, <2>1
<1> QED BY <1>1, <1>6, <1>7 DEF FrameBytes, h

(* What the consumer reads at tail when a frame is there. *)
LEMMA OldestFrame ==
  ASSUME TypeOK, FramesTile, FramesIntact, frames # <<>>
  PROVE  /\ frames[1] \in Frame
         /\ from_le_bytes(read_bytes(buf, tail, MSG_HEADER_SIZE))
              = Len(frames[1].msg)
         /\ read_bytes(buf, tail + MSG_HEADER_SIZE, Len(frames[1].msg))
              = frames[1].msg
<1> USE SizeFacts
<1> DEFINE m == frames[1].msg
           n == Len(m)
<1>1. /\ 1 \in 1..Len(frames) /\ frames[1] \in Frame
      /\ tail \in Int /\ buf \in [0..(Capacity - 1) -> Byte]
  BY DEF TypeOK
<1>2. m \in Seq(Byte) /\ n \in Nat /\ n <= max_message_bytes /\ frames[1].off = 0
  BY <1>1 DEF FramesTile, Frame
<1>3. /\ FrameSize(n) = 4 + n
      /\ \A j \in 1..4 : FrameBytes(m)[j] = to_le_bytes(n)[j]
      /\ \A j \in 1..n : FrameBytes(m)[4 + j] = m[j]
  BY <1>2, FrameBytesAt
<1>4. \A j \in 1..FrameSize(n) : buf[Cell(tail, frames[1].off + j - 1)] = FrameBytes(m)[j]
  BY <1>1 DEF FramesIntact
<1>5. \A j \in 1..(4 + n) : buf[Cell(tail, j - 1)] = FrameBytes(m)[j]
  BY <1>2, <1>3, <1>4
<1> HIDE DEF m, n
<1>6. from_le_bytes(read_bytes(buf, tail, MSG_HEADER_SIZE)) = n
  <2> DEFINE r == read_bytes(buf, tail, MSG_HEADER_SIZE)
             h == to_le_bytes(n)
  <2>1. \A k \in 1..4 : r[k] = buf[Cell(tail, k - 1)]
    BY <1>1, ReadBytes DEF MSG_HEADER_SIZE
  <2>2. \A k \in 1..4 : buf[Cell(tail, k - 1)] = h[k]
    BY <1>2, <1>3, <1>5
  <2>3. from_le_bytes(h) = n
    BY <1>2, LengthRoundTrip
  <2>4. r[1] = h[1] /\ r[2] = h[2] /\ r[3] = h[3] /\ r[4] = h[4]
    BY <2>1, <2>2
  <2> HIDE DEF r, h
  <2>5. from_le_bytes(r) = from_le_bytes(h)
    BY <2>4 DEF from_le_bytes
  <2> QED BY <2>3, <2>5 DEF r
<1>7. read_bytes(buf, tail + MSG_HEADER_SIZE, n) = m
  <2> DEFINE r == read_bytes(buf, tail + MSG_HEADER_SIZE, n)
  <2>1. tail + MSG_HEADER_SIZE \in Int /\ n <= Capacity
    BY <1>1, <1>2 DEF MSG_HEADER_SIZE
  <2>2. /\ r \in Seq(Byte) /\ Len(r) = n
        /\ \A k \in 1..n : r[k] = buf[Cell(tail + MSG_HEADER_SIZE, k - 1)]
    BY <1>1, <1>2, <2>1, ReadBytes
  <2>3. ASSUME NEW k \in 1..n PROVE r[k] = m[k]
    <3>1. Cell(tail + MSG_HEADER_SIZE, k - 1) = Cell(tail, (4 + k) - 1)
      BY <1>1, <1>2 DEF Cell, MSG_HEADER_SIZE
    <3>2. buf[Cell(tail, (4 + k) - 1)] = FrameBytes(m)[4 + k]
      BY <1>2, <1>5
    <3> QED BY <1>3, <2>2, <3>1, <3>2
  <2>4. Len(m) = n
    BY DEF n
  <2> HIDE DEF r
  <2>5. Len(r) = Len(m) /\ \A i \in 1..Len(r) : r[i] = m[i]
    BY <2>2, <2>3, <2>4
  <2>6. r \in Seq(Byte) /\ m \in Seq(Byte)
    BY <1>2, <2>2
  <2>7. r = m
    BY <2>5, <2>6, SeqEqual
  <2> QED BY <2>7 DEF r
<1> QED BY <1>1, <1>6, <1>7 DEF m, n

(* A write of the producer leaves the published frames alone. *)
LEMMA WritePreservesFrames ==
  ASSUME TypeOK, Reservation, FramesTile, FramesIntact, Sending,
         NEW k \in Nat, NEW data \in Seq(Byte),
         k + Len(data) <= FrameSize(Len(msg)),
         buf' = write_bytes(buf, head + k, data),
         UNCHANGED <<head, tail, frames>>
  PROVE  /\ FramesIntact'
         /\ \A j \in 1..Len(data) : buf'[Cell(head, k + j - 1)] = data[j]
         /\ \A j \in 0..(k - 1) : buf'[Cell(head, j)] = buf[Cell(head, j)]
<1> USE SizeFacts, UsedType
<1>1. /\ head \in Int /\ tail \in Int /\ buf \in [0..(Capacity - 1) -> Byte]
      /\ Len(msg) \in Nat /\ FrameSize(Len(msg)) = 4 + Len(msg) /\ Len(data) \in Nat
  BY DEF TypeOK, FrameSize, MSG_HEADER_SIZE
<1>2. Used + k + Len(data) <= Capacity
  BY <1>1 DEF Reservation
<1>3. /\ \A j \in 1..Len(data) : buf'[Cell(head + k, j - 1)] = data[j]
      /\ \A i \in 0..(Capacity - 1) :
           (\A j \in 1..Len(data) : Cell(head + k, j - 1) # i) => buf'[i] = buf[i]
  <2>1. head + k \in Int /\ Len(data) <= Capacity
    BY <1>1, <1>2
  <2> QED BY <1>1, <2>1, WriteBytes
<1>4. \A j \in Int : Cell(head + k, j - 1) = Cell(head, k + j - 1)
  BY <1>1 DEF Cell
<1>5. ASSUME NEW x \in Nat, x < Used + k
      PROVE  buf'[Cell(tail, x)] = buf[Cell(tail, x)]
  <2>0. x < Capacity
    BY <1>1, <1>2, <1>5
  <2>1. Cell(tail, x) \in 0..(Capacity - 1)
    BY <1>1, <2>0, CellSplit
  <2>2. ASSUME NEW j \in 1..Len(data) PROVE Cell(head + k, j - 1) # Cell(tail, x)
    <3> DEFINE y == Used + k + j - 1
    <3>1. /\ y \in Nat /\ y < Capacity /\ x # y
          /\ k + j - 1 \in Int /\ y = Used + (k + j - 1)
      <4>1. Used \in Nat /\ Capacity \in Nat /\ Len(data) \in Nat
        BY <1>1
      <4>2. j \in Nat /\ j >= 1 /\ j <= Len(data)
        BY <4>1
      <4>3. k + j - 1 \in Int /\ y = Used + (k + j - 1)
        BY ONLY <4>1, <4>2, k \in Nat
      <4>4. y \in Nat /\ y < Capacity
        BY ONLY <1>2, <4>1, <4>2, k \in Nat
      <4>5. x # y
        BY ONLY <1>5, <4>1, <4>2, k \in Nat
      <4> QED BY ONLY <4>3, <4>4, <4>5
    <3>2. Cell(head, k + j - 1) = Cell(tail, y)
      BY <1>1, <3>1, CellFromTail DEF Used
    <3> HIDE DEF y
    <3>3. Cell(tail, y) # Cell(tail, x)
      BY <1>1, <2>0, <3>1, CellsDistinct
    <3> QED BY <1>4, <3>2, <3>3
  <2> QED BY <1>3, <2>1, <2>2
<1>6. FramesIntact'
  <2> SUFFICES ASSUME NEW i \in 1..Len(frames),
                      NEW j \in 1..FrameSize(Len(frames[i].msg))
               PROVE  buf'[Cell(tail, frames[i].off + j - 1)]
                        = FrameBytes(frames[i].msg)[j]
    BY DEF FramesIntact
  <2>1. frames[i] \in Frame
    BY ElementOfSeq DEF TypeOK
  <2>2. /\ frames[i].off \in Int /\ frames[i].off >= 0
        /\ frames[i].off + FrameSize(Len(frames[i].msg)) <= Used
    BY <2>1 DEF Frame, FramesTile
  <2>3. FrameSize(Len(frames[i].msg)) \in Nat
    BY <2>1 DEF Frame, FrameSize, MSG_HEADER_SIZE
  <2> DEFINE x == frames[i].off + j - 1
  <2>4. x \in Nat /\ x < Used + k
    <3> DEFINE z == FrameSize(Len(frames[i].msg))
               y == frames[i].off
    <3>1. z \in Nat /\ y \in Int /\ y >= 0 /\ y + z <= Used /\ j \in 1..z
      BY <2>2, <2>3
    <3>2. Used \in Int
      OBVIOUS
    <3> HIDE DEF z, y
    <3>3. y + j - 1 \in Nat /\ y + j - 1 < Used + k
      BY <3>1, <3>2
    <3> QED BY <3>3 DEF y
  <2>5. buf[Cell(tail, x)] = FrameBytes(frames[i].msg)[j]
    BY DEF FramesIntact
  <2> HIDE DEF x
  <2>6. buf'[Cell(tail, x)] = buf[Cell(tail, x)]
    BY <1>5, <2>4
  <2> QED BY <2>5, <2>6 DEF x
<1>7. ASSUME NEW j \in 0..(k - 1) PROVE buf'[Cell(head, j)] = buf[Cell(head, j)]
  <2>1. Cell(head, j) = Cell(tail, Used + j)
    BY <1>1, CellFromTail DEF Used
  <2>2. Used + j \in Nat /\ Used + j < Used + k
    BY <1>1
  <2> QED BY <1>5, <2>1, <2>2
<1> QED BY <1>3, <1>4, <1>6, <1>7
LEMMA ContentInit == ASSUME Init PROVE IndInv
<1>1. Used = 0
  BY SizeFacts DEF Init, Used
<1>2. frames = <<>> /\ Len(frames) = 0 /\ ppc = "idle" /\ cpc = "idle"
  BY DEF Init
<1> QED BY <1>1, <1>2, SpaceInit
        DEF IndInv, FramesTile, FramesIntact, Copied, OldestInHand, Receiving

(* A sequence after an element is appended. *)
LEMMA AppendElements ==
  ASSUME NEW S, NEW q \in Seq(S), NEW e \in S
  PROVE  /\ Len(Append(q, e)) = Len(q) + 1
         /\ \A i \in 1..Len(q) : Append(q, e)[i] = q[i]
         /\ Append(q, e)[Len(q) + 1] = e
OBVIOUS

(* The producer's actions up to the publication. *)
LEMMA ContentProducer ==
  ASSUME IndInv, TypeOK', Reservation',
         \/ \E m \in Payloads, b \in BOOLEAN : Call(m, b)
         \/ CheckSpace \/ WriteHeader \/ WritePayload
  PROVE  IndInv'
<1> USE SizeFacts, UsedType DEF IndInv
<1>1. UNCHANGED <<head, tail, frames>> /\ UNCHANGED consVars
  BY DEF Call, CheckSpace, WriteHeader, WritePayload
<1>2. FramesTile'
  <2>1. Used' = Used
    BY <1>1 DEF Used
  <2> QED BY <1>1, <2>1 DEF FramesTile
<1>3. OldestInHand'
  BY <1>1 DEF OldestInHand, Receiving, consVars
<1>4. ASSUME NEW m \in Payloads, NEW b \in BOOLEAN, Call(m, b)
      PROVE  FramesIntact' /\ Copied'
  BY SMTT(60), <1>1, <1>4 DEF Call, FramesIntact, Copied
<1>5. CASE CheckSpace
  BY SMTT(60), <1>1, <1>2, <1>3, <1>5 DEF CheckSpace, FramesIntact, Copied
<1>6. CASE WriteHeader
  <2> DEFINE data == to_le_bytes(Len(msg))
  <2>1. Len(msg) \in Nat /\ Len(msg) < 256 * 256 * 256
    <3>1. msg \in Seq(Byte) /\ Len(msg) <= max_message_bytes
      BY DEF TypeOK
    <3> QED BY <3>1
  <2>2. data \in Seq(Byte)
    BY <2>1, LengthRoundTrip
  <2>3. Len(data) = 4
    BY <2>1, LengthRoundTrip
  <2>4. /\ Sending /\ buf' = write_bytes(buf, head, data) /\ head = head + 0
        /\ ppc' = "payload" /\ msg' = msg
    BY <1>6 DEF WriteHeader, Sending, TypeOK
  <2>5. 0 + Len(data) <= FrameSize(Len(msg))
    BY <2>1, <2>3 DEF FrameSize, MSG_HEADER_SIZE
  <2> HIDE DEF data
  <2>6. /\ FramesIntact'
        /\ \A j \in 1..Len(data) : buf'[Cell(head, 0 + j - 1)] = data[j]
    BY <1>1, <2>2, <2>4, <2>5, WritePreservesFrames
  <2>7. \A j \in 1..4 : buf'[Cell(head, j - 1)] = data[j]
    BY <2>3, <2>6
  <2>8. Copied'
    BY <1>1, <1>6, <2>4, <2>7
       DEF Copied, MSG_HEADER_SIZE, data, WriteHeader
  <2> QED BY <1>2, <1>3, <2>6, <2>8
<1>7. CASE WritePayload
  <2>1. msg \in Seq(Byte) /\ Len(msg) \in Nat
    BY DEF TypeOK
  <2>2. /\ Sending /\ buf' = write_bytes(buf, head + 4, msg)
        /\ ppc = "payload" /\ ppc' = "publish" /\ msg' = msg
    BY <1>7 DEF WritePayload, Sending, MSG_HEADER_SIZE
  <2>3. 4 + Len(msg) <= FrameSize(Len(msg))
    BY <2>1 DEF FrameSize, MSG_HEADER_SIZE
  <2>4. /\ FramesIntact'
        /\ \A j \in 1..Len(msg) : buf'[Cell(head, 4 + j - 1)] = msg[j]
        /\ \A j \in 0..(4 - 1) : buf'[Cell(head, j)] = buf[Cell(head, j)]
    BY <1>1, <2>1, <2>2, <2>3, WritePreservesFrames
  <2>5. \A j \in 1..4 : buf'[Cell(head, j - 1)] = to_le_bytes(Len(msg))[j]
    <3> SUFFICES ASSUME NEW j \in 1..4
                 PROVE  buf'[Cell(head, j - 1)] = to_le_bytes(Len(msg))[j]
      OBVIOUS
    <3>1. j - 1 \in 0..(4 - 1)
      OBVIOUS
    <3>2. buf[Cell(head, j - 1)] = to_le_bytes(Len(msg))[j]
      BY <2>2 DEF Copied, MSG_HEADER_SIZE
    <3> QED BY <2>4, <3>1, <3>2
  <2>6. Copied'
    BY <1>1, <2>2, <2>4, <2>5 DEF Copied, MSG_HEADER_SIZE
  <2> QED BY <1>2, <1>3, <2>4, <2>6
<1> QED BY <1>2, <1>3, <1>4, <1>5, <1>6, <1>7
LEMMA FrameFacts ==
  ASSUME TypeOK, FramesTile, NEW i \in 1..Len(frames)
  PROVE  /\ frames[i] \in Frame
         /\ frames[i].msg \in Seq(Byte) /\ Len(frames[i].msg) \in Nat
         /\ FrameSize(Len(frames[i].msg)) = 4 + Len(frames[i].msg)
         /\ frames[i].off \in Nat
         /\ frames[i].off + FrameSize(Len(frames[i].msg)) <= Used
         /\ Len(frames[i].msg) <= max_message_bytes
<1>1. frames[i] \in Frame
  BY ElementOfSeq DEF TypeOK
<1>2. frames[i].msg \in Seq(Byte) /\ frames[i].off \in Int
  BY <1>1 DEF Frame
<1>3. Len(frames[i].msg) \in Nat
  BY <1>2
<1> QED BY <1>1, <1>2, <1>3 DEF FramesTile, FrameSize, MSG_HEADER_SIZE

LEMMA ContentPublish ==
  ASSUME IndInv, TypeOK', Reservation', Publish
  PROVE  IndInv'
<1> USE SizeFacts, UsedType DEF IndInv
<1> DEFINE n == Len(frames)
           f == [off |-> Used, msg |-> msg]
<1>1. /\ n \in Nat /\ f \in Frame /\ frames \in Seq(Frame)
      /\ msg \in Seq(Byte) /\ Len(msg) \in Nat /\ Len(msg) <= max_message_bytes
      /\ FrameSize(Len(msg)) = 4 + Len(msg) /\ head \in Int /\ tail \in Int
  <2>1. /\ frames \in Seq(Frame) /\ msg \in Seq(Byte) /\ head \in Int /\ tail \in Int
        /\ Len(msg) <= max_message_bytes
    BY DEF TypeOK
  <2>2. f \in Frame
    BY <2>1 DEF Frame
  <2>3. n \in Nat /\ Len(msg) \in Nat
    BY <2>1
  <2> QED BY <2>1, <2>2, <2>3 DEF FrameSize, MSG_HEADER_SIZE
<1>2. Used' = Used + FrameSize(Len(msg))
  BY PublishUsed
<1>3. /\ frames' = Append(frames, f) /\ tail' = tail /\ buf' = buf /\ msg' = msg
      /\ ppc = "publish" /\ ppc' = "idle" /\ UNCHANGED consVars
  BY DEF Publish
<1>4. f.off = Used /\ f.msg = msg
  OBVIOUS
<1> HIDE DEF f
<1>5. /\ Len(frames') = n + 1 /\ frames' # <<>>
      /\ \A i \in 1..n : frames'[i] = frames[i]
      /\ frames'[n + 1] = f
  <2>1. /\ Len(Append(frames, f)) = n + 1
        /\ \A i \in 1..n : Append(frames, f)[i] = frames[i]
        /\ Append(frames, f)[n + 1] = f
    BY <1>1, AppendElements
  <2>2. n + 1 # 0 /\ Len(<<>>) = 0
    BY <1>1
  <2> QED BY ONLY <1>3, <2>1, <2>2
<1>6. \A i \in 1..n : /\ frames[i].off \in Nat /\ Len(frames[i].msg) \in Nat
                      /\ FrameSize(Len(frames[i].msg)) = 4 + Len(frames[i].msg)
                      /\ frames[i].off + FrameSize(Len(frames[i].msg)) <= Used
                      /\ Len(frames[i].msg) <= max_message_bytes
  BY FrameFacts
<1> HIDE DEF n
<1>7. FramesTile'
  <2>1. frames'[1].off = 0
    <3>1. CASE n = 0
      BY <1>1, <1>4, <1>5, <3>1 DEF FramesTile, n
    <3>2. CASE n > 0
      <4>1. frames # <<>> /\ 1 \in 1..n
        BY <1>1, <3>2 DEF n
      <4> QED BY <1>5, <4>1 DEF FramesTile
    <3> QED BY <1>1, <3>1, <3>2
  <2>2. frames'[n + 1].off + FrameSize(Len(frames'[n + 1].msg)) = Used'
    BY <1>2, <1>4, <1>5
  <2>3. ASSUME NEW i \in 1..(n + 1)
        PROVE  /\ frames'[i].off >= 0
               /\ Len(frames'[i].msg) <= max_message_bytes
               /\ frames'[i].off + FrameSize(Len(frames'[i].msg)) <= Used'
    <3>1. CASE i = n + 1
      BY <1>1, <1>2, <1>4, <1>5, <3>1
    <3>2. CASE i \in 1..n
      <4>1. Used \in Nat /\ Used <= Used'
        BY <1>1, <1>2
      <4> DEFINE x == frames[i].off
                 y == FrameSize(Len(frames[i].msg))
      <4>2. x \in Nat /\ y \in Nat /\ x + y <= Used
        BY <1>6, <3>2
      <4> HIDE DEF x, y
      <4>3. Used' \in Nat
        BY <1>1, <1>2
      <4>4. x + y <= Used' /\ x >= 0
        BY <4>1, <4>2, <4>3
      <4> QED BY <1>5, <1>6, <3>2, <4>4 DEF x, y
    <3> QED BY <1>1, <3>1, <3>2
  <2>4. ASSUME NEW i \in 1..n
        PROVE  frames'[i + 1].off = frames'[i].off + FrameSize(Len(frames'[i].msg))
    <3>1. CASE i = n
      <4>1. frames # <<>> /\ n \in 1..n
        BY <1>1, <3>1 DEF n
      <4>2. frames[n].off + FrameSize(Len(frames[n].msg)) = Used
        BY <4>1 DEF FramesTile, n
      <4> QED BY <1>4, <1>5, <3>1, <4>1, <4>2
    <3>2. CASE i \in 1..(n - 1)
      <4>1. i + 1 \in 1..n
        BY <1>1, <3>2
      <4> QED BY <1>5, <3>2, <4>1 DEF FramesTile, n
    <3> QED BY <1>1, <3>1, <3>2
  <2>5. ASSUME NEW i \in 1..(n + 1), NEW j \in 1..(n + 1), i < j
        PROVE  frames'[i].off + FrameSize(Len(frames'[i].msg)) <= frames'[j].off
    <3>1. i \in 1..n
      BY <1>1, <2>5
    <3>2. CASE j = n + 1
      BY <1>4, <1>5, <1>6, <3>1, <3>2
    <3>3. CASE j \in 1..n
      BY <1>5, <2>5, <3>1, <3>3 DEF FramesTile, n
    <3> QED BY <1>1, <3>2, <3>3
  <2>6. (n + 1) - 1 = n
    BY ONLY <1>1
  <2> QED BY ONLY <1>5, <2>1, <2>2, <2>3, <2>4, <2>5, <2>6 DEF FramesTile
<1>8. FramesIntact'
  <2> SUFFICES ASSUME NEW i \in 1..(n + 1),
                      NEW j \in 1..FrameSize(Len(frames'[i].msg))
               PROVE  buf[Cell(tail, frames'[i].off + j - 1)]
                        = FrameBytes(frames'[i].msg)[j]
    BY SMTT(60), <1>3, <1>5 DEF FramesIntact
  <2>1. CASE i \in 1..n
    BY <1>5, <2>1 DEF FramesIntact, n
  <2>2. CASE i = n + 1
    <3>1. frames'[i] = f /\ j \in 1..(4 + Len(msg))
      BY <1>1, <1>4, <1>5, <2>2
    <3>2. Cell(tail, Used + j - 1) = Cell(head, j - 1)
      <4>1. j - 1 \in Int /\ Used + j - 1 = Used + (j - 1)
        BY <1>1, <3>1
      <4>2. Cell(head, j - 1) = Cell(tail, Used + (j - 1))
        BY <1>1, <4>1, CellFromTail DEF Used
      <4> QED BY <4>1, <4>2
    <3>3. buf[Cell(head, j - 1)] = FrameBytes(msg)[j]
      <4>1. CASE j \in 1..4
        BY <1>1, <1>3, <4>1, FrameBytesAt DEF Copied, MSG_HEADER_SIZE
      <4>2. CASE j > 4
        <5> DEFINE k == j - 4
        <5>1. k \in 1..Len(msg) /\ j = 4 + k
          BY <1>1, <3>1, <4>2
        <5> HIDE DEF k
        <5>2. buf[Cell(head, 4 + k - 1)] = msg[k]
          BY <1>3, <5>1 DEF Copied, MSG_HEADER_SIZE
        <5>3. FrameBytes(msg)[4 + k] = msg[k]
          BY <1>1, <5>1, FrameBytesAt
        <5> QED BY ONLY <5>1, <5>2, <5>3
      <4> QED BY <1>1, <3>1, <4>1, <4>2
    <3> QED BY <1>4, <3>1, <3>2, <3>3
  <2> QED BY <1>1, <2>1, <2>2
<1>9. Copied'
  BY <1>3 DEF Copied
<1>10. OldestInHand'
  <2>1. frames # <<>> => frames'[1] = frames[1]
    BY <1>1, <1>5 DEF n
  <2> QED BY <1>3, <1>5, <2>1 DEF OldestInHand, Receiving, consVars
<1> QED BY <1>7, <1>8, <1>9, <1>10
(* Nothing the contents depend on changes. *)
LEMMA ContentKept ==
  ASSUME IndInv, UNCHANGED <<head, tail, buf, frames>>, UNCHANGED prodVars
  PROVE  FramesTile' /\ FramesIntact' /\ Copied'
<1>1. Used' = Used
  BY DEF Used
<1> QED BY <1>1 DEF IndInv, FramesTile, FramesIntact, Copied, prodVars

(* The consumer's actions up to the one that moves tail. *)
LEMMA ContentReceive ==
  ASSUME IndInv, TypeOK', Reservation',
         \/ LoadHead \/ ReadLength
         \/ \E n \in OutputLens : TryRecvInto(n)
         \/ \E n \in OwnerLens : TryRecvWith(n)
         \/ TryRecvRefused \/ TryRecv
  PROVE  IndInv'
<1> USE SizeFacts, UsedType DEF IndInv
<1>1. CASE LoadHead
  <2>1. frames # <<>>
    BY SMTT(60), <1>1 DEF LoadHead, FramesTile, MSG_HEADER_SIZE
  <2>2. 1 \in 1..Len(frames)
    BY <2>1 DEF TypeOK
  <2>3. FrameSize(Len(frames[1].msg)) <= Used
    <3> DEFINE x == FrameSize(Len(frames[1].msg))
    <3>1. frames[1].off = 0
      BY ONLY <2>1, FramesTile DEF FramesTile
    <3>2. frames[1].off + x <= Used /\ x = 4 + Len(frames[1].msg) /\ Len(frames[1].msg) \in Nat
      BY <2>2, FrameFacts
    <3>3. x \in Nat
      BY ONLY <3>2
    <3> HIDE DEF x
    <3> QED BY ONLY <3>1, <3>2, <3>3 DEF x
  <2>4. OldestInHand'
    BY <1>1, <2>1, <2>3 DEF LoadHead, OldestInHand, Receiving
  <2> QED BY <1>1, <2>4, ContentKept DEF LoadHead
<1>2. CASE ReadLength
  <2> DEFINE n == from_le_bytes(read_bytes(buf, tail, MSG_HEADER_SIZE))
             corrupt == n > max_message_bytes
             partial == FrameSize(n) > Capacity \/ avail < FrameSize(n)
  <2>1. cpc = "length" /\ frames # <<>> /\ FrameSize(Len(frames[1].msg)) <= avail
    BY <1>2 DEF ReadLength, OldestInHand
  <2>2. n = Len(frames[1].msg)
    BY <2>1, OldestFrame
  <2>3. 1 \in 1..Len(frames)
    BY <2>1 DEF TypeOK
  <2>4. n \in Nat /\ n <= max_message_bytes /\ FrameSize(n) = 4 + n
    BY <2>2, <2>3, FrameFacts
  <2>5. /\ tail' = IF corrupt THEN (tail + MSG_HEADER_SIZE) % PosMod ELSE tail
        /\ cpc' = IF corrupt \/ partial THEN "idle" ELSE "frame"
        /\ length' = IF corrupt \/ partial THEN length ELSE n
        /\ UNCHANGED <<head, buf, frames, avail, out, received>>
        /\ UNCHANGED prodVars
    BY <1>2 DEF ReadLength
  <2> HIDE DEF n
  <2>6. ~corrupt /\ ~partial
    <3>1. avail \in Nat /\ FrameSize(n) <= avail
      BY <2>1, <2>2 DEF TypeOK
    <3> QED BY <2>4, <3>1
  <2>7. tail' = tail /\ cpc' = "frame" /\ length' = n
    BY <2>5, <2>6
  <2>8. OldestInHand'
    BY <2>1, <2>2, <2>5, <2>7 DEF OldestInHand, Receiving
  <2> QED BY <2>5, <2>7, <2>8, ContentKept
<1>3. ASSUME cpc = "frame", cpc' \in {"idle", "consume"},
             \/ out' = <<>>
             \/ out' = <<read_bytes(buf, tail + MSG_HEADER_SIZE, length)>>,
             UNCHANGED <<head, tail, buf, frames, avail, length, received>>,
             UNCHANGED prodVars
      PROVE  IndInv'
  <2>1. frames # <<>> /\ length = Len(frames[1].msg)
    BY <1>3 DEF OldestInHand, Receiving
  <2>2. read_bytes(buf, tail + MSG_HEADER_SIZE, length) = frames[1].msg
    BY <2>1, OldestFrame
  <2>3. OldestInHand'
    BY <1>3, <2>1, <2>2 DEF OldestInHand, Receiving
  <2> QED BY <1>3, <2>3, ContentKept
<1>4. ASSUME NEW n \in OutputLens, TryRecvInto(n) PROVE IndInv'
  BY <1>3, <1>4 DEF TryRecvInto, CopyOut
<1>5. ASSUME NEW n \in OwnerLens, TryRecvWith(n) PROVE IndInv'
  BY <1>3, <1>5 DEF TryRecvWith, CopyOut
<1>6. CASE TryRecvRefused
  BY <1>3, <1>6 DEF TryRecvRefused
<1>7. CASE TryRecv
  BY <1>3, <1>7 DEF TryRecv, CopyOut
<1> QED BY <1>1, <1>2, <1>4, <1>5, <1>6, <1>7

LEMMA ContentConsume ==
  ASSUME IndInv, TypeOK', Reservation', consume_frame
  PROVE  IndInv'
<1> USE SizeFacts, UsedType DEF IndInv
<1> DEFINE n == Len(frames)
           z == FrameSize(length)
<1>1. /\ cpc = "consume" /\ tail' = (tail + z) % PosMod /\ cpc' = "idle"
      /\ frames' = Shift(frames, z) /\ head' = head /\ buf' = buf
      /\ UNCHANGED prodVars
  BY DEF consume_frame
<1>2. frames # <<>> /\ length = Len(frames[1].msg)
  BY <1>1 DEF OldestInHand, Receiving
<1>3. n \in Nat /\ n >= 1 /\ frames \in Seq(Frame) /\ 1 \in 1..n /\ tail \in Int
  <2>1. frames \in Seq(Frame) /\ tail \in Int
    BY DEF TypeOK
  <2>2. n \in Nat /\ n # 0
    BY <1>2, <2>1, EmptySeq
  <2> QED BY <2>1, <2>2
<1>4. /\ \A i \in 1..n : /\ frames[i] \in Frame
                         /\ frames[i].off \in Nat /\ Len(frames[i].msg) \in Nat
                         /\ FrameSize(Len(frames[i].msg)) = 4 + Len(frames[i].msg)
                         /\ frames[i].off + FrameSize(Len(frames[i].msg)) <= Used
                         /\ Len(frames[i].msg) <= max_message_bytes
  BY FrameFacts
<1>5. z = FrameSize(Len(frames[1].msg)) /\ z \in Nat /\ z <= Used /\ frames[1].off = 0
  BY <1>2, <1>3, <1>4 DEF FramesTile
<1>6. Used' = Used - z
  BY <1>1, <1>5, ConsumeUsed
<1>7. \A i \in 2..n : frames[i].off >= z
  <2> SUFFICES ASSUME NEW i \in 2..n PROVE frames[i].off >= z
    OBVIOUS
  <2>1. i \in 1..n /\ 1 < i
    BY <1>3
  <2>2. frames[1].off + FrameSize(Len(frames[1].msg)) <= frames[i].off
    BY <1>3, <2>1 DEF FramesTile
  <2> QED BY <1>4, <1>5, <2>1, <2>2
<1>8. frames' = [i \in 1..(n - 1) |-> [off |-> frames[i + 1].off - z,
                                       msg |-> frames[i + 1].msg]]
  BY <1>1 DEF Shift
<1> HIDE DEF n, z
<1>9. n - 1 \in Nat /\ Len(frames') = n - 1
  BY SMTT(60), <1>3, <1>8
<1>10. \A i \in 1..(n - 1) : /\ i + 1 \in 1..n /\ i + 1 \in 2..n
                             /\ frames'[i].off = frames[i + 1].off - z
                             /\ frames'[i].msg = frames[i + 1].msg
  BY <1>3, <1>8
<1>11. FramesTile'
  <2>1. frames' = <<>> => Used' = 0
    <3> SUFFICES ASSUME frames' = <<>> PROVE Used' = 0
      OBVIOUS
    <3>1. n = 1
      BY <1>9, <1>3
    <3>2. frames[1].off + FrameSize(Len(frames[1].msg)) = Used
      BY <1>2, <3>1 DEF FramesTile, n
    <3> QED BY <1>4, <1>5, <1>6, <3>2
  <2>2. ASSUME frames' # <<>>
        PROVE  /\ frames'[1].off = 0
               /\ frames'[n - 1].off + FrameSize(Len(frames'[n - 1].msg)) = Used'
    <3>1. n >= 2 /\ 1 \in 1..(n - 1) /\ n - 1 \in 1..(n - 1)
      <4>1. frames' \in Seq(Frame)
        BY DEF TypeOK
      <4>2. Len(frames') # 0
        BY <2>2, <4>1, EmptySeq
      <4> QED BY <1>3, <1>9, <4>2
    <3>2. frames[1 + 1].off = frames[1].off + FrameSize(Len(frames[1].msg))
      BY <3>1 DEF FramesTile, n
    <3>3. frames[n].off + FrameSize(Len(frames[n].msg)) = Used
      BY <1>2 DEF FramesTile, n
    <3>4. frames'[1].off = 0
      <4>1. frames'[1].off = frames[1 + 1].off - z
        BY <1>10, <3>1
      <4>2. frames[1 + 1].off = z
        BY <1>5, <3>2
      <4> QED BY <1>5, <4>1, <4>2
    <3>5. /\ frames'[n - 1].off = frames[(n - 1) + 1].off - z
          /\ frames'[n - 1].msg = frames[(n - 1) + 1].msg
      BY <1>10, <3>1
    <3>6. (n - 1) + 1 = n /\ n \in 1..n
      BY <1>3
    <3>7. frames[n].off \in Nat /\ FrameSize(Len(frames[n].msg)) \in Nat
      BY <1>4, <3>6
    <3> QED BY <1>5, <1>6, <3>3, <3>4, <3>5, <3>6, <3>7
  <2>3. ASSUME NEW i \in 1..(n - 1)
        PROVE  /\ frames'[i].off >= 0
               /\ Len(frames'[i].msg) <= max_message_bytes
               /\ frames'[i].off + FrameSize(Len(frames'[i].msg)) <= Used'
    <3> DEFINE x == frames[i + 1].off
               y == FrameSize(Len(frames[i + 1].msg))
    <3>1. x \in Nat /\ y \in Nat /\ x + y <= Used /\ x >= z
      BY SMTT(60), <1>4, <1>7, <1>10
    <3>2. frames'[i].off = x - z /\ FrameSize(Len(frames'[i].msg)) = y
      BY <1>10
    <3> HIDE DEF x, y
    <3>3. frames'[i].off >= 0 /\ frames'[i].off + y <= Used'
      BY SMTT(60), <1>5, <1>6, <3>1, <3>2
    <3> QED BY <1>4, <1>10, <3>2, <3>3
  <2>4. ASSUME NEW i \in 1..((n - 1) - 1)
        PROVE  frames'[i + 1].off = frames'[i].off + FrameSize(Len(frames'[i].msg))
    <3>1. i \in 1..(n - 1) /\ i + 1 \in 1..(n - 1)
      BY <1>3
    <3>2. frames[(i + 1) + 1].off
            = frames[i + 1].off + FrameSize(Len(frames[i + 1].msg))
      BY <3>1 DEF FramesTile, n
    <3>3. frames[i + 1].off \in Nat /\ FrameSize(Len(frames[i + 1].msg)) \in Nat
      BY SMTT(60), <1>4, <1>10, <3>1
    <3> DEFINE x == frames[i + 1].off
               y == FrameSize(Len(frames[i + 1].msg))
    <3>4. /\ frames'[i + 1].off = frames[(i + 1) + 1].off - z
          /\ frames'[i].off = x - z /\ FrameSize(Len(frames'[i].msg)) = y
      BY <1>10, <3>1
    <3>5. frames'[i + 1].off = (x + y) - z
      BY <3>2, <3>4
    <3>6. x \in Nat /\ y \in Nat
      BY <3>3
    <3> HIDE DEF x, y
    <3>7. (x + y) - z = (x - z) + y
      BY <1>5, <3>6
    <3> QED BY <3>4, <3>5, <3>7
  <2>5. ASSUME NEW i \in 1..(n - 1), NEW j \in 1..(n - 1), i < j
        PROVE  frames'[i].off + FrameSize(Len(frames'[i].msg)) <= frames'[j].off
    <3>1. i + 1 \in 1..n /\ j + 1 \in 1..n /\ i + 1 < j + 1
      BY <1>3, <2>5
    <3>2. frames[i + 1].off + FrameSize(Len(frames[i + 1].msg)) <= frames[j + 1].off
      BY <3>1 DEF FramesTile, n
    <3>3. /\ frames[i + 1].off \in Nat /\ FrameSize(Len(frames[i + 1].msg)) \in Nat
          /\ frames[j + 1].off \in Nat
      BY SMTT(60), <1>4, <3>1
    <3> DEFINE x == frames[i + 1].off
               y == FrameSize(Len(frames[i + 1].msg))
               w == frames[j + 1].off
    <3>4. x \in Nat /\ y \in Nat /\ w \in Nat /\ x + y <= w
      BY <3>2, <3>3
    <3>5. /\ frames'[i].off = x - z /\ FrameSize(Len(frames'[i].msg)) = y
          /\ frames'[j].off = w - z
      BY <1>10
    <3> HIDE DEF x, y, w
    <3>6. (x - z) + y <= w - z
      BY <1>5, <3>4
    <3> QED BY <3>5, <3>6
  <2> QED BY <1>9, <2>1, <2>2, <2>3, <2>4, <2>5 DEF FramesTile
<1>12. FramesIntact'
  <2> SUFFICES ASSUME NEW i \in 1..(n - 1),
                      NEW j \in 1..FrameSize(Len(frames'[i].msg))
               PROVE  buf[Cell(tail', frames'[i].off + j - 1)]
                        = FrameBytes(frames'[i].msg)[j]
    BY ZenonT(60), <1>1, <1>9 DEF FramesIntact
  <2> DEFINE x == frames[i + 1].off
  <2>1. /\ i + 1 \in 1..n /\ x \in Nat /\ frames'[i].off = x - z
        /\ frames'[i].msg = frames[i + 1].msg
        /\ FrameSize(Len(frames[i + 1].msg)) \in Nat
    <3>1. i + 1 \in 1..n
      BY <1>3
    <3>2. x \in Nat /\ FrameSize(Len(frames[i + 1].msg)) \in Nat
      <4> DEFINE m == Len(frames[i + 1].msg)
      <4>1. x \in Nat /\ m \in Nat /\ FrameSize(m) = 4 + m
        BY ONLY <1>4, <3>1
      <4> HIDE DEF m
      <4>2. FrameSize(m) \in Nat
        BY ONLY <4>1
      <4> QED BY ONLY <4>1, <4>2 DEF m
    <3>3. frames'[i].off = x - z /\ frames'[i].msg = frames[i + 1].msg
      BY <1>10
    <3> QED BY <3>1, <3>2, <3>3
  <2>2. j \in 1..FrameSize(Len(frames[i + 1].msg)) /\ j \in Int
    BY SMTT(60), <2>1
  <2>3. buf[Cell(tail, x + j - 1)] = FrameBytes(frames[i + 1].msg)[j]
    BY <2>1, <2>2 DEF FramesIntact, n
  <2> HIDE DEF x
  <2> DEFINE w == (x - z) + j - 1
             t == tail + z
  <2>4. w \in Int /\ t \in Int /\ t + w = tail + (x + j - 1)
    <3>1. x \in Int /\ z \in Int /\ j \in Int /\ tail \in Int
      BY SMTT(60), <1>3, <1>5, <2>1, <2>2
    <3> QED BY ONLY <3>1
  <2>5. tail' = t % PosMod
    BY <1>1
  <2>6. frames'[i].off + j - 1 = w
    BY <2>1
  <2> HIDE DEF w, t
  <2>7. Cell(tail', w) = Cell(t, w)
    BY <2>4, <2>5, CellOfWrapped
  <2>8. Cell(t, w) = Cell(tail, x + j - 1)
    BY <2>4 DEF Cell
  <2> QED BY <2>1, <2>3, <2>6, <2>7, <2>8
<1>13. Copied'
  BY <1>1 DEF Copied, prodVars
<1>14. OldestInHand'
  BY <1>1 DEF OldestInHand, Receiving
<1> QED BY <1>11, <1>12, <1>13, <1>14

LEMMA IndInvNext == ASSUME IndInv, [Next]_vars PROVE IndInv'
<1>1. TypeOK' /\ Reservation'
  BY SpaceNext DEF IndInv
<1>2. CASE UNCHANGED vars
  <2>1. FramesTile' /\ FramesIntact' /\ Copied'
    BY <1>2, ContentKept DEF vars, prodVars
  <2>2. OldestInHand'
    BY <1>2 DEF vars, IndInv, OldestInHand, Receiving
  <2> QED BY <1>1, <2>1, <2>2 DEF IndInv
<1> QED BY <1>1, <1>2, ContentProducer, ContentPublish, ContentReceive,
           ContentConsume DEF Next, Producer, Consumer
-----------------------------------------------------------------------------
(* The results. *)

LEMMA IndInvGivesLength == ASSUME IndInv PROVE LengthIsRight
<1>1. frames # <<>> => from_le_bytes(read_bytes(buf, tail, MSG_HEADER_SIZE))
                         = Len(frames[1].msg)
  BY OldestFrame DEF IndInv
<1> QED BY <1>1 DEF IndInv, OldestInHand, LengthIsRight, Receiving

(* Published frames stay intact until they are consumed, and readable_frame *)
(* always finds the length of the oldest one: its "corrupted" and           *)
(* "incomplete" branches are dead between conforming endpoints.             *)
THEOREM ContentCorrect == Spec => [](FramesIntact /\ LengthIsRight)
<1>1. Init => IndInv
  BY ContentInit
<1>2. IndInv /\ [Next]_vars => IndInv'
  BY IndInvNext
<1>3. IndInv => FramesIntact /\ LengthIsRight
  BY IndInvGivesLength DEF IndInv
<1> QED BY <1>1, <1>2, <1>3, PTL DEF Spec

(* The queue of message bodies behind a sequence of frames. *)
LEMMA Bodies ==
  ASSUME NEW s \in Seq(Frame), NEW n, n = Len(s)
  PROVE  LET q == [i \in 1..Len(s) |-> s[i].msg] IN
         /\ q \in Seq(Seq(Byte))
         /\ Len(q) = n
         /\ \A i \in 1..n : q[i] = s[i].msg
<1> DEFINE q == [i \in 1..n |-> s[i].msg]
<1>1. n \in Nat
  OBVIOUS
<1>2. ASSUME NEW i \in 1..n PROVE s[i].msg \in Seq(Byte)
  <2>1. s[i] \in Frame
    BY ElementOfSeq
  <2> QED BY <2>1 DEF Frame
<1>3. q \in [1..n -> Seq(Byte)]
  BY <1>2
<1>4. q \in Seq(Seq(Byte))
  BY <1>1, <1>3
<1>5. Len(q) = n
  BY <1>1
<1> QED BY <1>4, <1>5

LEMMA RefinementInit == ASSUME Init PROVE Abstract!Init
<1>1. Len(frames) = 0
  BY DEF Init
<1>2. [i \in 1..Len(frames) |-> frames[i].msg] = <<>>
  BY <1>1
<1> QED BY <1>2 DEF Init, Abstract!Init

LEMMA RefinementNext ==
  ASSUME IndInv, IndInv', [Next]_vars
  PROVE  [Abstract!Next]_(Abstract!vars)
<1> DEFINE q == [i \in 1..Len(frames) |-> frames[i].msg]
<1>1. frames \in Seq(Frame) /\ Len(frames) \in Nat /\ msg \in Seq(Byte)
  BY DEF IndInv, TypeOK
<1>5. frames' \in Seq(Frame)
  BY DEF IndInv, TypeOK
<1>2. CASE UNCHANGED <<frames, received>>
  BY <1>2 DEF Abstract!vars
<1>3. CASE Publish
  <2> DEFINE f == [off |-> Used, msg |-> msg]
             n == Len(frames)
  <2>1. f \in Frame /\ f.msg = msg
    BY <1>1, UsedType DEF IndInv, Frame
  <2>2. frames' = Append(frames, f) /\ received' = received
    BY <1>3 DEF Publish, consVars
  <2> HIDE DEF f
  <2>3. /\ Len(frames') = n + 1
        /\ \A i \in 1..n : frames'[i] = frames[i]
        /\ frames'[n + 1] = f
    BY <1>1, <2>1, <2>2, AppendProperties
  <2>4. q \in Seq(Seq(Byte)) /\ Len(q) = n
    BY <1>1, Bodies
  <2>5. q' = Append(q, msg)
    <3> DEFINE a == Append(q, msg)
    <3>1. /\ a \in Seq(Seq(Byte)) /\ Len(a) = n + 1
          /\ \A i \in 1..n : a[i] = q[i]
          /\ a[n + 1] = msg
      BY <1>1, <2>4, AppendProperties
    <3>2. \A i \in 1..(n + 1) : q'[i] = a[i]
      BY <1>1, <2>1, <2>3, <3>1
    <3>3. q' \in Seq(Seq(Byte)) /\ Len(q') = n + 1
      BY <1>5, <2>3, Bodies
    <3> HIDE DEF q, a
    <3> QED BY <3>1, <3>2, <3>3, SeqEqual DEF a
  <2>6. msg \in Payloads
    BY <1>3 DEF Publish, IndInv, Copied
  <2> QED BY <2>2, <2>5, <2>6 DEF Abstract!Next, Abstract!Send
<1>4. CASE consume_frame
  <2> DEFINE n == Len(frames)
             z == FrameSize(length)
  <2>1. /\ frames # <<>> /\ received' = out /\ frames' = Shift(frames, z)
        /\ out = <<>> \/ out = <<frames[1].msg>>
    BY <1>4 DEF consume_frame, IndInv, OldestInHand, Receiving
  <2>2. n \in Nat /\ n >= 1
    BY <1>1, <2>1, EmptySeq
  <2>3. q \in Seq(Seq(Byte)) /\ Len(q) = n /\ \A i \in 1..n : q[i] = frames[i].msg
    BY <1>1, Bodies
  <2>4. /\ n - 1 \in Nat
        /\ frames' = [i \in 1..(n - 1) |-> [off |-> frames[i + 1].off - z,
                                            msg |-> frames[i + 1].msg]]
    <3>1. n - 1 \in Nat
      BY ONLY <2>2
    <3>2. Shift(frames, z) = [i \in 1..(n - 1) |-> [off |-> frames[i + 1].off - z,
                                                     msg |-> frames[i + 1].msg]]
      BY ONLY DEF Shift, n
    <3> QED BY ONLY <2>1, <3>1, <3>2
  <2>5. /\ Len(frames') = n - 1
        /\ \A i \in 1..(n - 1) : frames'[i].msg = frames[i + 1].msg
    <3>1. Len(frames') = n - 1
      <4> HIDE DEF n, z
      <4> QED BY ONLY <2>4
    <3>2. ASSUME NEW i \in 1..(n - 1) PROVE frames'[i].msg = frames[i + 1].msg
      <4> HIDE DEF n, z
      <4> QED BY ONLY <2>4
    <3> QED BY <3>1, <3>2
  <2>6. /\ q' \in Seq(Seq(Byte)) /\ Len(q') = n - 1
        /\ \A i \in 1..(n - 1) : q'[i] = frames[i + 1].msg
    <3>1. /\ q' \in Seq(Seq(Byte)) /\ Len(q') = Len(frames')
          /\ \A i \in 1..Len(frames') : q'[i] = frames'[i].msg
      BY <1>5, Bodies
    <3> QED BY <2>5, <3>1
  <2> HIDE DEF q
  <2>7. q # <<>> /\ Head(q) = frames[1].msg
    BY <2>2, <2>3
  <2>8. Tail(q) \in Seq(Seq(Byte)) /\ Len(Tail(q)) = n - 1
        /\ \A i \in 1..(n - 1) : Tail(q)[i] = q[i + 1]
    BY <2>3, <2>7, HeadTailProperties
  <2>9. \A i \in 1..(n - 1) : q'[i] = Tail(q)[i]
    BY <2>2, <2>3, <2>6, <2>8
  <2>10. q' = Tail(q)
    BY <2>6, <2>8, <2>9, SeqEqual
  <2> QED BY <2>1, <2>7, <2>10 DEF Abstract!Next, Abstract!Receive, Abstract!Discard, q
<1> QED
  BY <1>2, <1>3, <1>4
  DEF Next, Producer, Consumer, vars, Call, CheckSpace, WriteHeader, WritePayload,
      LoadHead, ReadLength, TryRecvInto, TryRecvWith, TryRecvRefused, TryRecv,
      consVars

(* The byte ring with its wrapping positions implements a first-in first-out *)
(* queue of whole messages: what receive operations hand over is what        *)
(* try_send and send_bounded were given, once, in order and unchanged.       *)
THEOREM RingImplementsQueue == Spec => ImplementsMessageQueue
<1>1. Init => IndInv
  BY ContentInit
<1>2. IndInv /\ [Next]_vars => IndInv'
  BY IndInvNext
<1>3. Init => Abstract!Init
  BY RefinementInit
<1>4. IndInv /\ IndInv' /\ [Next]_vars => [Abstract!Next]_(Abstract!vars)
  BY RefinementNext
<1> QED BY <1>1, <1>2, <1>3, <1>4, PTL DEF Spec, ImplementsMessageQueue, Abstract!Spec
=============================================================================
