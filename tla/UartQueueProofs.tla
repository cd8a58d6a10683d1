--------------------------- MODULE UartQueueProofs ---------------------------
(* What UartQueue guarantees for every ring size and any number of bytes,   *)
(* errors and refusals: bytes are read in order, and a receiver that went   *)
(* deaf is remembered in all cases but one, wherever interrupts fall; bytes *)
(* are sent in order and none is forgotten where TxWindow is closed.        *)
EXTENDS UartQueue, Integers, SequenceTheorems, TLAPS

-----------------------------------------------------------------------------
(* Ring arithmetic. *)

LEMMA SizeType == Size \in Int /\ Size >= 2
BY UartAssumption

LEMMA SlotType == ASSUME NEW i PROVE i \in Slots <=> i \in Int /\ 0 <= i /\ i < Size
BY SizeType DEF Slots

LEMMA ModStep ==
    ASSUME NEW x \in Nat, x < 2 * Size
    PROVE  x % Size = IF x < Size THEN x ELSE x - Size
BY UartAssumption

LEMMA SuccStep ==
    ASSUME NEW i \in Slots
    PROVE  /\ Succ(i) \in Slots
           /\ i = Size - 1 => Succ(i) = 0
           /\ i < Size - 1 => Succ(i) = i + 1
<1>0. i \in Int /\ 0 <= i /\ i < Size
  BY SlotType
<1>1. i + 1 \in Nat /\ i + 1 < 2 * Size
  BY <1>0, SizeType
<1> DEFINE m == (i + 1) % Size
<1>2. i + 1 < Size => m = i + 1
  BY <1>0, <1>1, ModStep
<1>5. i + 1 >= Size => m = i + 1 - Size
  BY <1>0, <1>1, SizeType, ModStep
<1> HIDE DEF m
<1>3. /\ i = Size - 1 => m = 0
      /\ i < Size - 1 => m = i + 1
  BY <1>0, <1>2, <1>5, SizeType
<1>4. m \in Slots
  BY <1>0, <1>3, SizeType DEF Slots
<1> QED
  BY <1>3, <1>4 DEF Succ, m

LEMMA SuccInjective ==
    ASSUME NEW i \in Slots, NEW j \in Slots, i # j
    PROVE  Succ(i) # Succ(j)
<1> DEFINE a == Succ(i)
           b == Succ(j)
<1>1. i \in Int /\ 0 <= i /\ i < Size /\ j \in Int /\ 0 <= j /\ j < Size
  BY SlotType
<1>2. (i = Size - 1 => a = 0) /\ (i < Size - 1 => a = i + 1)
  BY SuccStep
<1>3. (j = Size - 1 => b = 0) /\ (j < Size - 1 => b = j + 1)
  BY SuccStep
<1> HIDE DEF a, b
<1>4. a # b
  BY <1>1, <1>2, <1>3, SizeType
<1> QED
  BY <1>4 DEF a, b

\* The number of bytes a ring holds.
Count(head, tail) == (head + Size - tail) % Size

LEMMA CountStep ==
    ASSUME NEW head \in Slots, NEW tail \in Slots
    PROVE  /\ Count(head, tail) \in 0..(Size - 1)
           /\ head >= tail => Count(head, tail) = head - tail
           /\ head < tail => Count(head, tail) = head + Size - tail
<1>0. /\ head \in Int /\ 0 <= head /\ head < Size
      /\ tail \in Int /\ 0 <= tail /\ tail < Size
  BY SlotType
<1>1. head + Size - tail \in Nat /\ head + Size - tail < 2 * Size
  BY <1>0, SizeType
<1> DEFINE m == (head + Size - tail) % Size
<1>2. head + Size - tail < Size => m = head + Size - tail
  BY <1>0, <1>1, ModStep
<1>5. head + Size - tail >= Size => m = head + Size - tail - Size
  BY <1>0, <1>1, SizeType, ModStep
<1> HIDE DEF m
<1>3. /\ head >= tail => m = head - tail
      /\ head < tail => m = head + Size - tail
  BY <1>0, <1>2, <1>5, SizeType
<1>4. m \in 0..(Size - 1)
  BY <1>0, <1>3, SizeType
<1> QED
  BY <1>3, <1>4 DEF Count, m

\* The slot of the k-th byte of a ring.
Index(tail, k) == (tail + k - 1) % Size

LEMMA IndexStep ==
    ASSUME NEW tail \in Slots, NEW k \in 1..(Size - 1)
    PROVE  /\ Index(tail, k) \in Slots
           /\ tail + k <= Size => Index(tail, k) = tail + k - 1
           /\ tail + k > Size => Index(tail, k) = tail + k - 1 - Size
<1>0. tail \in Int /\ 0 <= tail /\ tail < Size /\ k \in Int /\ 1 <= k /\ k < Size
  BY SlotType, SizeType
<1>1. tail + k - 1 \in Nat /\ tail + k - 1 < 2 * Size
  BY <1>0, SizeType
<1> DEFINE m == (tail + k - 1) % Size
<1>2. tail + k - 1 < Size => m = tail + k - 1
  BY <1>0, <1>1, ModStep
<1>5. tail + k - 1 >= Size => m = tail + k - 1 - Size
  BY <1>0, <1>1, SizeType, ModStep
<1> HIDE DEF m
<1>3. /\ tail + k <= Size => m = tail + k - 1
      /\ tail + k > Size => m = tail + k - 1 - Size
  BY <1>0, <1>2, <1>5, SizeType
<1>4. m \in Slots
  BY <1>0, <1>3, SizeType DEF Slots
<1> QED
  BY <1>3, <1>4 DEF Index, m

\* The rings of elements of S.
Rings(S) == [Slots -> S]

LEMMA ContentsType ==
    ASSUME NEW S, NEW ring \in Rings(S), NEW head \in Slots, NEW tail \in Slots
    PROVE  /\ Contents(ring, head, tail) \in Seq(S)
           /\ Len(Contents(ring, head, tail)) = Count(head, tail)
           /\ \A k \in 1..Count(head, tail) :
                 Contents(ring, head, tail)[k] = ring[Index(tail, k)]
<1> DEFINE n == Count(head, tail)
           c == [k \in 1..n |-> ring[Index(tail, k)]]
<1>1. n \in Nat /\ n <= Size - 1
  BY CountStep, SizeType
<1>2. Contents(ring, head, tail) = c
  BY DEF Contents, Count, Index
<1> HIDE DEF n
<1>3. \A k \in 1..n : ring[Index(tail, k)] \in S
  <2> SUFFICES ASSUME NEW k \in 1..n
               PROVE  ring[Index(tail, k)] \in S
    OBVIOUS
  <2>1. k \in 1..(Size - 1)
    BY <1>1, SizeType
  <2> QED
    BY <2>1, IndexStep DEF Rings
<1>4. c \in Seq(S) /\ Len(c) = n /\ \A k \in 1..n : c[k] = ring[Index(tail, k)]
  BY <1>1, <1>3
<1> QED
  BY <1>2, <1>4 DEF n

\* The ring with b at slot i.
Put(ring, i, b) == [ring EXCEPT ![i] = b]

\* A byte put at the head of a ring that is not full comes last.
LEMMA Push ==
    ASSUME NEW head \in Slots, NEW tail \in Slots, NEW S, NEW ring \in Rings(S),
           NEW b \in S, Succ(head) # tail
    PROVE  Contents(Put(ring, head, b), Succ(head), tail)
              = Append(Contents(ring, head, tail), b)
<1> DEFINE after == Put(ring, head, b)
           n == Count(head, tail)
           old == Contents(ring, head, tail)
           new == Contents(after, Succ(head), tail)
<1>0. /\ head \in Int /\ 0 <= head /\ head < Size
      /\ tail \in Int /\ 0 <= tail /\ tail < Size
  BY SlotType
<1>1. Succ(head) \in Slots /\ Count(Succ(head), tail) = n + 1 /\ n \in Nat /\ n < Size - 1
  <2> DEFINE h == Succ(head)
             m == Count(h, tail)
  <2>1. /\ h \in Slots /\ h # tail
        /\ head = Size - 1 => h = 0
        /\ head < Size - 1 => h = head + 1
    BY SuccStep
  <2>2. /\ n \in 0..(Size - 1)
        /\ head >= tail => n = head - tail
        /\ head < tail => n = head + Size - tail
    BY CountStep
  <2>3. /\ m \in 0..(Size - 1)
        /\ h >= tail => m = h - tail
        /\ h < tail => m = h + Size - tail
    BY <2>1, CountStep
  <2> HIDE DEF h, m, n
  <2>4. m = n + 1 /\ n \in Nat /\ n < Size - 1
    BY <1>0, <2>1, <2>2, <2>3, SizeType
  <2> QED
    BY <2>1, <2>4 DEF h, m
<1>2. old \in Seq(S) /\ Len(old) = n /\ \A k \in 1..n : old[k] = ring[Index(tail, k)]
  BY ContentsType
<1>3. /\ after \in Rings(S) /\ after[head] = b
      /\ \A i \in Slots \ {head} : after[i] = ring[i]
  BY DEF Rings, Put
<1>4. /\ new \in Seq(S) /\ Len(new) = n + 1
      /\ \A k \in 1..(n + 1) : new[k] = after[Index(tail, k)]
  <2> DEFINE h == Succ(head)
  <2>1. h \in Slots /\ after \in Rings(S) /\ Count(h, tail) = n + 1
    BY <1>1, <1>3
  <2> HIDE DEF after, n, h
  <2>2. /\ Contents(after, h, tail) \in Seq(S)
        /\ Len(Contents(after, h, tail)) = Count(h, tail)
        /\ \A k \in 1..Count(h, tail) :
              Contents(after, h, tail)[k] = after[Index(tail, k)]
    BY <2>1, ContentsType
  <2> QED
    BY <2>1, <2>2 DEF h
<1>9. /\ head >= tail => n = head - tail
      /\ head < tail => n = head + Size - tail
  BY CountStep
<1>5. ASSUME NEW k \in 1..n
      PROVE  Index(tail, k) \in Slots \ {head}
  <2> DEFINE i == Index(tail, k)
  <2>1. k \in 1..(Size - 1)
    BY <1>1, SizeType
  <2>2. /\ i \in Slots
        /\ tail + k <= Size => i = tail + k - 1
        /\ tail + k > Size => i = tail + k - 1 - Size
    BY <2>1, IndexStep
  <2> HIDE DEF i, n
  <2>3. i # head
    BY <1>0, <1>1, <1>9, <2>1, <2>2, SizeType
  <2> QED
    BY <2>2, <2>3 DEF i
<1>6. Index(tail, n + 1) = head
  <2> DEFINE i == Index(tail, n + 1)
  <2>1. n + 1 \in 1..(Size - 1)
    BY <1>1, SizeType
  <2>2. /\ tail + (n + 1) <= Size => i = tail + (n + 1) - 1
        /\ tail + (n + 1) > Size => i = tail + (n + 1) - 1 - Size
    BY <2>1, IndexStep
  <2> HIDE DEF i, n
  <2>3. i = head
    BY <1>0, <1>1, <1>9, <2>1, <2>2, SizeType
  <2> QED
    BY <2>3 DEF i
<1> HIDE DEF after, n, old, new
<1>7. \A k \in 1..(n + 1) : new[k] = Append(old, b)[k]
  <2> SUFFICES ASSUME NEW k \in 1..(n + 1)
               PROVE  new[k] = Append(old, b)[k]
    OBVIOUS
  <2>1. CASE k = n + 1
    BY <1>1, <1>2, <1>3, <1>4, <1>6, <2>1
  <2>2. CASE k # n + 1
    <3>1. k \in 1..n
      BY <1>1, <2>2
    <3>2. new[k] = old[k]
      BY <1>2, <1>3, <1>4, <1>5, <3>1
    <3> QED
      BY <1>1, <1>2, <3>1, <3>2
  <2> QED
    BY <2>1, <2>2
<1>8. Append(old, b) \in Seq(S) /\ Len(Append(old, b)) = n + 1
  BY <1>2
<1> QED
  <2> DEFINE q == Append(old, b)
  <2> HIDE DEF q
  <2>1. new = q
    BY <1>1, <1>4, <1>7, <1>8 DEF q
  <2> QED
    BY <2>1 DEF after, old, new, q

\* A byte taken at the tail of a ring that is not empty was the first.
LEMMA Pop ==
    ASSUME NEW head \in Slots, NEW tail \in Slots, NEW S, NEW ring \in Rings(S),
           head # tail
    PROVE  Contents(ring, head, tail)
              = <<ring[tail]>> \o Contents(ring, head, Succ(tail))
<1> DEFINE n == Count(head, tail)
           whole == Contents(ring, head, tail)
           rest == Contents(ring, head, Succ(tail))
<1>0. /\ head \in Int /\ 0 <= head /\ head < Size
      /\ tail \in Int /\ 0 <= tail /\ tail < Size
  BY SlotType
<1>9. /\ Succ(tail) \in Slots
      /\ tail = Size - 1 => Succ(tail) = 0
      /\ tail < Size - 1 => Succ(tail) = tail + 1
  BY SuccStep
<1>1. n \in Nat \ {0} /\ n <= Size - 1 /\ Succ(tail) \in Slots
      /\ Count(head, Succ(tail)) = n - 1
  <2> DEFINE t == Succ(tail)
             m == Count(head, t)
  <2>2. /\ n \in 0..(Size - 1)
        /\ head >= tail => n = head - tail
        /\ head < tail => n = head + Size - tail
    BY CountStep
  <2>3. /\ m \in 0..(Size - 1)
        /\ head >= t => m = head - t
        /\ head < t => m = head + Size - t
    BY <1>9, CountStep
  <2> HIDE DEF t, m, n
  <2>4. n \in Nat \ {0} /\ n <= Size - 1 /\ m = n - 1
    BY <1>0, <1>9, <2>2, <2>3, SizeType DEF t
  <2> QED
    BY <1>9, <2>4 DEF t, m
<1>2. /\ whole \in Seq(S) /\ Len(whole) = n
      /\ \A k \in 1..n : whole[k] = ring[Index(tail, k)]
  BY ContentsType
<1>3. /\ rest \in Seq(S) /\ Len(rest) = n - 1
      /\ \A k \in 1..(n - 1) : rest[k] = ring[Index(Succ(tail), k)]
  BY <1>1, ContentsType
<1>4. Index(tail, 1) = tail
  <2>1. 1 \in 1..(Size - 1)
    BY SizeType
  <2> QED
    BY <1>0, <2>1, IndexStep, SizeType
<1>5. ASSUME NEW k \in 1..(n - 1)
      PROVE  Index(tail, k + 1) = Index(Succ(tail), k)
  <2> DEFINE t == Succ(tail)
             i == Index(tail, k + 1)
             j == Index(t, k)
  <2>1. k \in 1..(Size - 1) /\ k + 1 \in 1..(Size - 1)
    BY <1>1, SizeType
  <2>2. /\ tail + (k + 1) <= Size => i = tail + (k + 1) - 1
        /\ tail + (k + 1) > Size => i = tail + (k + 1) - 1 - Size
    BY <2>1, IndexStep
  <2>3. /\ t + k <= Size => j = t + k - 1
        /\ t + k > Size => j = t + k - 1 - Size
    BY <1>9, <2>1, IndexStep
  <2> HIDE DEF t, i, j, n
  <2>4. i = j
    BY <1>0, <1>9, <2>1, <2>2, <2>3, SizeType DEF t
  <2> QED
    BY <2>4 DEF i, j, t
<1>6. ring[tail] \in S
  BY DEF Rings
<1> HIDE DEF n, whole, rest
<1>7. \A k \in 1..n : whole[k] = (<<ring[tail]>> \o rest)[k]
  <2> SUFFICES ASSUME NEW k \in 1..n
               PROVE  whole[k] = (<<ring[tail]>> \o rest)[k]
    OBVIOUS
  <2>1. CASE k = 1
    BY <1>1, <1>2, <1>3, <1>4, <1>6, <2>1
  <2>2. CASE k # 1
    <3>1. k - 1 \in 1..(n - 1) /\ (k - 1) + 1 = k
      BY <1>1, <2>2
    <3>2. whole[k] = rest[k - 1]
      BY <1>2, <1>3, <1>5, <3>1
    <3> QED
      BY <1>1, <1>3, <1>6, <2>2, <3>1, <3>2
  <2> QED
    BY <2>1, <2>2
<1> QED
  BY <1>1, <1>2, <1>3, <1>6, <1>7 DEF whole, rest

-----------------------------------------------------------------------------
(* Types. *)

LEMMA InitType == Init => TypeOK
<1> SUFFICES ASSUME Init PROVE TypeOK
  OBVIOUS
<1>1. 0 \in Slots
  BY SizeType DEF Slots
<1>2. /\ receiving \in BOOLEAN /\ refusals \in Nat
      /\ rx_restart_pending \in BOOLEAN /\ main \in {"idle", "rx_started"}
  <2>1. CASE receiving = TRUE /\ refusals = 0
    BY <2>1 DEF Init
  <2>2. CASE receiving = FALSE /\ refusals = 1
    BY <2>2 DEF Init
  <2> QED
    BY <2>1, <2>2 DEF Init
<1> QED
  BY <1>1, <1>2 DEF Init, TypeOK, Places

LEMMA StepType == TypeOK /\ [Next]_vars => TypeOK'
<1> SUFFICES ASSUME TypeOK, [Next]_vars
             PROVE  TypeOK'
  OBVIOUS
<1> USE UartAssumption, SuccStep DEF TypeOK, Places, Goto, txRing, rxRing
<1>0. Accepted \/ Refused => refusals' \in Nat
  BY DEF Accepted, Refused
<1>1. CASE CallSend \/ CallProcess \/ CallRead
  BY <1>1 DEF CallSend, CallProcess, CallRead
<1>2. CASE SendCheck \/ TestBusy
  BY <1>2 DEF SendCheck, TestBusy
<1>12. CASE RxTest \/ TxTest
  BY <1>12 DEF RxTest, TxTest
<1>3. CASE Publish
  BY <1>3 DEF Publish
<1>4. CASE MarkBusy \/ TxStarted \/ RxStarted
  BY <1>4 DEF MarkBusy, TxStarted, RxStarted
<1>5. CASE StartTx
  <2>1. in_flight' \in BOOLEAN
    BY <1>5 DEF StartTx
  <2>3. Accepted \/ Refused
    BY <1>5 DEF StartTx
  <2>2. tx_busy' \in BOOLEAN /\ tx_restart_pending' \in BOOLEAN /\ main' \in Places
    BY <1>5 DEF StartTx
  <2> QED
    BY <1>5, <2>1, <2>2, <2>3, <1>0 DEF StartTx
<1>6. CASE StartRx
  <2>1. receiving' \in BOOLEAN
    BY <1>6 DEF StartRx
  <2>3. Accepted \/ Refused
    BY <1>6 DEF StartRx
  <2>2. rx_armed' \in BOOLEAN /\ rx_restart_pending' \in BOOLEAN /\ main' \in Places
    BY <1>6 DEF StartRx
  <2> QED
    BY <1>6, <2>1, <2>2, <2>3, <1>0 DEF StartRx
<1>7. CASE Read
  BY <1>7 DEF Read
<1>8. CASE TxCplt
  <2>1. wire' \in Seq(Nat) /\ tx_tail' \in Slots
    BY <1>8 DEF TxCplt
  <2>2. /\ in_flight' \in BOOLEAN /\ tx_busy' \in BOOLEAN
        /\ tx_restart_pending' \in BOOLEAN
    BY <1>8 DEF TxCplt, StartNextTx
  <2>3. Accepted \/ Refused
    BY <1>8 DEF TxCplt, StartNextTx
  <2> QED
    BY <1>8, <2>1, <2>2, <2>3, <1>0 DEF TxCplt
<1>9. CASE RxCplt
  <2>4. arrivals' \in Nat /\ arrivals + 1 \in Nat
    BY <1>9 DEF RxCplt
  <2>1. rx_ring' \in [Slots -> Nat] /\ rx_head' \in Slots /\ stored' \in Seq(Nat)
    <3>1. CASE RxFull
      BY <1>9, <3>1 DEF RxCplt
    <3>2. CASE ~RxFull
      <4>1. /\ rx_ring' = [rx_ring EXCEPT ![rx_head] = arrivals + 1]
            /\ rx_head' = Succ(rx_head) /\ stored' = Append(stored, arrivals + 1)
        BY <1>9, <3>2 DEF RxCplt
      <4> QED
        BY <2>4, <4>1
    <3> QED
      BY <3>1, <3>2
  <2>2. /\ receiving' \in BOOLEAN /\ rx_armed' \in BOOLEAN
        /\ rx_restart_pending' \in BOOLEAN
    BY <1>9 DEF RxCplt, StartReceive
  <2>3. Accepted \/ Refused
    BY <1>9 DEF RxCplt, StartReceive
  <2> QED
    BY <1>9, <2>1, <2>2, <2>3, <2>4, <1>0 DEF RxCplt
<1>10. CASE Overrun \/ LineError
  <2>1. /\ receiving' \in BOOLEAN /\ rx_armed' \in BOOLEAN
        /\ rx_restart_pending' \in BOOLEAN
    BY <1>10 DEF Overrun, LineError, StartReceive
  <2>2. errors' \in Nat /\ (Accepted \/ Refused)
    BY <1>10 DEF Overrun, LineError, StartReceive, Accepted
  <2> QED
    BY <1>0, <1>10, <2>1, <2>2 DEF Overrun, LineError
<1>11. CASE UNCHANGED vars
  BY <1>11 DEF vars
<1> QED
  BY <1>1, <1>2, <1>3, <1>4, <1>5, <1>6, <1>7, <1>8, <1>9, <1>10, <1>11,
     <1>12 DEF Next, MainStep, Interrupt

\* Every state of the queue is well typed.
THEOREM TypeCorrect == Spec => []TypeOK
<1>1. Init => TypeOK
  BY InitType
<1>2. TypeOK /\ [Next]_vars => TypeOK'
  BY StepType
<1> QED
  BY <1>1, <1>2, PTL DEF Spec

-----------------------------------------------------------------------------
(* Transmission, where no interrupt falls into TxWindow. *)

\* The main thread is past the place where it put a byte in the ring, or past
\* the test that there is one.
Starting == {"test_busy", "mark_busy", "start_tx", "tx_started"}

\* The inductive invariant of the flags: tx_busy is set only while a byte is
\* in flight or about to be, and the main thread starts only what waits.
TxSound ==
    /\ main \in Starting => tx_tail # tx_head
    /\ main = "publish" => ~TxFull
    /\ main = "tx_started" => in_flight
    /\ tx_busy => in_flight \/ main = "start_tx"
    /\ BusyWhileInFlight
    /\ TxNotForgotten

LEMMA TxSoundInit == Init => TxSound
BY DEF Init, TxSound, Starting, BusyWhileInFlight, TxNotForgotten

LEMMA TxSoundStep == ~Preemptible /\ TypeOK /\ TxSound /\ [Next]_vars => TxSound'
<1> SUFFICES ASSUME ~Preemptible, TypeOK, TxSound, [Next]_vars
             PROVE  TxSound'
  OBVIOUS
<1> USE DEF TxSound, Starting, BusyWhileInFlight, TxNotForgotten, TxFull, Goto, txRing
<1>1. CASE CallSend \/ CallProcess \/ CallRead
  BY <1>1 DEF CallSend, CallProcess, CallRead
<1>2. CASE SendCheck \/ TestBusy
  BY <1>2 DEF SendCheck, TestBusy
<1>3. CASE RxTest \/ TxTest
  BY <1>3 DEF RxTest, TxTest
<1>4. CASE StartRx \/ RxStarted \/ Read
  BY <1>4 DEF StartRx, RxStarted, Read
<1>5. CASE RxCplt \/ Overrun \/ LineError
  BY <1>5 DEF RxCplt, Overrun, LineError
<1>6. CASE Publish
  BY <1>6 DEF Publish
<1>7. CASE MarkBusy
  BY <1>7 DEF MarkBusy
<1>8. CASE StartTx
  BY <1>8 DEF StartTx
<1>9. CASE TxStarted
  BY <1>9 DEF TxStarted
<1>10. CASE TxCplt
  <2>1. in_flight /\ tx_tail # tx_head /\ main \notin {"mark_busy", "start_tx", "tx_started"}
    BY <1>10 DEF TxCplt, TxWindow
  <2>2. main' = main /\ tx_head' = tx_head /\ tx_tail' = Succ(tx_tail)
    BY <1>10 DEF TxCplt
  <2>3. main = "test_busy" => tx_tail' # tx_head'
    BY <1>10, <2>2 DEF TxCplt, TxWindow
  <2>4. Succ(tx_head) # Succ(tx_tail)
    BY <2>1, SuccInjective DEF TypeOK
  <2>5. CASE tx_tail' = tx_head
    <3>1. ~in_flight' /\ ~tx_busy'
      BY <1>10, <2>5 DEF TxCplt, StartNextTx
    <3> QED
      BY <2>1, <2>2, <2>3, <2>4, <2>5, <3>1
  <2>6. CASE tx_tail' # tx_head
    <3>1. \/ in_flight' /\ tx_busy'
          \/ ~in_flight' /\ ~tx_busy' /\ tx_restart_pending'
      BY <1>10, <2>6 DEF TxCplt, StartNextTx
    <3> QED
      BY <2>1, <2>2, <2>3, <2>4, <2>6, <3>1
  <2> QED
    BY <2>5, <2>6
<1>11. CASE UNCHANGED vars
  BY <1>11 DEF vars
<1> QED
  BY <1>1, <1>2, <1>3, <1>4, <1>5, <1>6, <1>7, <1>8, <1>9, <1>10, <1>11
     DEF Next, MainStep, Interrupt

LEMMA TxInvariance == ~Preemptible => (Spec => [](TypeOK /\ TxSound))
<1> SUFFICES ASSUME ~Preemptible PROVE Spec => [](TypeOK /\ TxSound)
  OBVIOUS
<1>1. Init => TypeOK /\ TxSound
  BY InitType, TxSoundInit
<1>2. TypeOK /\ TxSound /\ [Next]_vars => (TypeOK /\ TxSound)'
  BY StepType, TxSoundStep
<1> QED
  BY <1>1, <1>2, PTL DEF Spec

\* For any ring size, and with any errors and refusals: no one starts the
\* transmitter while a byte of the ring is being transmitted, provided that
\* byte does not end within TxWindow.
THEOREM NoSecondStart == ~Preemptible => (Spec => []BusyWhileInFlight)
<1> SUFFICES ASSUME ~Preemptible PROVE Spec => []BusyWhileInFlight
  OBVIOUS
<1>1. TypeOK /\ TxSound => BusyWhileInFlight
  BY DEF TxSound
<1> QED
  BY <1>1, TxInvariance, PTL

\* A byte in the ring is being transmitted, or a restart is due, or the main
\* thread is about to start it, under the same proviso.
THEOREM NothingForgotten == ~Preemptible => (Spec => []TxNotForgotten)
<1> SUFFICES ASSUME ~Preemptible PROVE Spec => []TxNotForgotten
  OBVIOUS
<1>1. TypeOK /\ TxSound => TxNotForgotten
  BY DEF TxSound
<1> QED
  BY <1>1, TxInvariance, PTL

-----------------------------------------------------------------------------
(* Order. *)

\* What is added at the head of a ring is added at the end of the whole.
LEMMA PushWhole ==
    ASSUME NEW head \in Slots, NEW tail \in Slots, NEW ring \in Rings(Nat),
           NEW b \in Nat, Succ(head) # tail, NEW out \in Seq(Nat)
    PROVE  out \o Contents(Put(ring, head, b), Succ(head), tail)
              = Append(out \o Contents(ring, head, tail), b)
<1> DEFINE c == Contents(ring, head, tail)
<1>1. Contents(Put(ring, head, b), Succ(head), tail) = Append(c, b)
  BY Push
<1>2. c \in Seq(Nat)
  BY ContentsType
<1> HIDE DEF c
<1>3. /\ Append(c, b) = c \o <<b>> /\ <<b>> \in Seq(Nat)
      /\ out \o c \in Seq(Nat) /\ Append(out \o c, b) = (out \o c) \o <<b>>
  BY <1>2, AppendIsConcat, ConcatProperties
<1>4. out \o (c \o <<b>>) = (out \o c) \o <<b>>
  BY <1>2, <1>3, ConcatAssociative
<1> QED
  BY <1>1, <1>3, <1>4 DEF c

\* What is taken at the tail of a ring goes to the end of what came out.
LEMMA PopWhole ==
    ASSUME NEW head \in Slots, NEW tail \in Slots, NEW ring \in Rings(Nat),
           head # tail, NEW out \in Seq(Nat)
    PROVE  Append(out, ring[tail]) \o Contents(ring, head, Succ(tail))
              = out \o Contents(ring, head, tail)
<1> DEFINE rest == Contents(ring, head, Succ(tail))
           b == ring[tail]
<1>1. Contents(ring, head, tail) = <<b>> \o rest
  BY Pop
<1>2. rest \in Seq(Nat) /\ b \in Nat
  BY SuccStep, ContentsType DEF Rings
<1> HIDE DEF rest, b
<1>3. Append(out, b) = out \o <<b>> /\ <<b>> \in Seq(Nat)
  BY <1>2, AppendIsConcat
<1>4. (out \o <<b>>) \o rest = out \o (<<b>> \o rest)
  BY <1>2, <1>3, ConcatAssociative
<1> QED
  BY <1>1, <1>3, <1>4 DEF rest, b

LEMMA UpToStep == ASSUME NEW n \in Nat PROVE UpTo(n + 1) = Append(UpTo(n), n + 1)
BY DEF UpTo

LEMMA EmptyContents ==
    ASSUME NEW ring, NEW i \in Slots
    PROVE  Contents(ring, i, i) = << >>
<1> DEFINE n == Count(i, i)
<1>1. n = 0
  BY SlotType, CountStep
<1>2. Contents(ring, i, i) = [k \in 1..n |-> ring[(i + k - 1) % Size]]
  BY DEF Contents, Count
<1> HIDE DEF n
<1> QED
  BY <1>1, <1>2

LEMMA InitInOrder == Init => WireInOrder /\ ReadsInOrder
<1> SUFFICES ASSUME Init PROVE WireInOrder /\ ReadsInOrder
  OBVIOUS
<1>1. 0 \in Slots
  BY SlotType, SizeType
<1>2. Contents(tx_ring, 0, 0) = << >> /\ Contents(rx_ring, 0, 0) = << >>
  BY <1>1, EmptyContents
<1>3. UpTo(0) = << >>
  BY DEF UpTo
<1>4. << >> \o << >> = << >>
  BY ConcatEmptySeq
<1> QED
  BY <1>2, <1>3, <1>4 DEF Init, WireInOrder, ReadsInOrder

LEMMA WireStep ==
    TypeOK /\ TxSound /\ WireInOrder /\ [Next]_vars => WireInOrder'
<1> SUFFICES ASSUME TypeOK, TxSound, WireInOrder, [Next]_vars
             PROVE  WireInOrder'
  OBVIOUS
<1>1. ASSUME UNCHANGED <<tx_ring, tx_head, tx_tail, sends, wire>>
      PROVE  WireInOrder'
  BY <1>1 DEF WireInOrder, Contents, UpTo
<1>2. tx_ring \in Rings(Nat) /\ tx_head \in Slots /\ tx_tail \in Slots
      /\ wire \in Seq(Nat) /\ sends \in Nat
  BY DEF TypeOK, Rings
<1>3. CASE Publish
  <2>1. Succ(tx_head) # tx_tail
    BY <1>3 DEF Publish, TxSound, TxFull
  <2>2. wire \o Contents(Put(tx_ring, tx_head, sends + 1), Succ(tx_head), tx_tail)
          = Append(wire \o Contents(tx_ring, tx_head, tx_tail), sends + 1)
    <3> DEFINE b == sends + 1
    <3>1. b \in Nat
      BY <1>2
    <3> HIDE DEF b
    <3>2. wire \o Contents(Put(tx_ring, tx_head, b), Succ(tx_head), tx_tail)
            = Append(wire \o Contents(tx_ring, tx_head, tx_tail), b)
      BY <1>2, <2>1, <3>1, PushWhole
    <3> QED
      BY <3>2 DEF b
  <2>3. UpTo(sends + 1) = Append(UpTo(sends), sends + 1)
    BY <1>2, UpToStep
  <2>4. /\ tx_ring' = Put(tx_ring, tx_head, sends + 1) /\ sends' = sends + 1
        /\ tx_head' = Succ(tx_head) /\ tx_tail' = tx_tail /\ wire' = wire
    BY <1>3 DEF Publish, Put
  <2> QED
    BY <2>2, <2>3, <2>4 DEF WireInOrder
<1>4. CASE TxCplt
  <2>1. tx_tail # tx_head
    BY <1>4 DEF TxCplt, TxSound, BusyWhileInFlight
  <2>2. Append(wire, tx_ring[tx_tail]) \o Contents(tx_ring, tx_head, Succ(tx_tail))
          = wire \o Contents(tx_ring, tx_head, tx_tail)
    BY <1>2, <2>1, PopWhole
  <2>3. /\ wire' = Append(wire, tx_ring[tx_tail]) /\ tx_tail' = Succ(tx_tail)
        /\ tx_ring' = tx_ring /\ tx_head' = tx_head /\ sends' = sends
    BY <1>4 DEF TxCplt
  <2> QED
    BY <2>2, <2>3 DEF WireInOrder
<1>5. CASE CallSend \/ CallProcess \/ CallRead \/ SendCheck \/ TestBusy \/ RxTest \/ TxTest
  BY <1>1, <1>5 DEF CallSend, CallProcess, CallRead, SendCheck, TestBusy, RxTest,
     TxTest, txRing
<1>6. CASE MarkBusy \/ StartTx \/ TxStarted
  BY <1>1, <1>6 DEF MarkBusy, StartTx, TxStarted
<1>7. CASE StartRx \/ RxStarted \/ Read \/ RxCplt \/ Overrun \/ LineError
  BY <1>1, <1>7 DEF StartRx, RxStarted, Read, RxCplt, Overrun, LineError, txRing
<1>8. CASE UNCHANGED vars
  BY <1>1, <1>8 DEF vars, txRing
<1> QED
  BY <1>3, <1>4, <1>5, <1>6, <1>7, <1>8 DEF Next, MainStep, Interrupt

\* For any ring size and any number of bytes: what UART_SendByte queued leaves
\* in that order, each byte once, where no interrupt falls into TxWindow.
THEOREM TransmittedInOrder == ~Preemptible => (Spec => []WireInOrder)
<1> SUFFICES ASSUME ~Preemptible PROVE Spec => []WireInOrder
  OBVIOUS
<1>1. Init => WireInOrder
  BY InitInOrder
<1>2. TypeOK /\ TxSound /\ WireInOrder /\ [Next]_vars => WireInOrder'
  BY WireStep
<1> QED
  BY <1>1, <1>2, TxInvariance, PTL DEF Spec

-----------------------------------------------------------------------------
(* Reception. *)

\* UART_ReadByte takes a byte only from a ring that has one.
RxSound == (main = "read" => rx_head # rx_tail) /\ ReadsInOrder

LEMMA ReadsStep == TypeOK /\ RxSound /\ [Next]_vars => RxSound'
<1> SUFFICES ASSUME TypeOK, RxSound, [Next]_vars
             PROVE  RxSound'
  OBVIOUS
<1>1. ASSUME UNCHANGED <<rx_ring, rx_head, rx_tail, stored, got>>,
             main' = "read" => rx_head # rx_tail
      PROVE  RxSound'
  BY <1>1 DEF RxSound, ReadsInOrder, Contents
<1>2. rx_ring \in Rings(Nat) /\ rx_head \in Slots /\ rx_tail \in Slots
      /\ got \in Seq(Nat) /\ arrivals + 1 \in Nat
  BY DEF TypeOK, Rings
<1>3. CASE RxCplt
  <2>1. main' = main /\ rx_tail' = rx_tail /\ got' = got
    BY <1>3 DEF RxCplt
  <2>2. CASE RxFull
    BY <1>1, <1>3, <2>1, <2>2 DEF RxCplt, RxSound
  <2>3. CASE ~RxFull
    <3>1. Succ(rx_head) # rx_tail
      BY <2>3 DEF RxFull
    <3>2. /\ rx_ring' = Put(rx_ring, rx_head, arrivals + 1)
          /\ rx_head' = Succ(rx_head) /\ stored' = Append(stored, arrivals + 1)
      BY <1>3, <2>3 DEF RxCplt, Put
    <3>3. got \o Contents(Put(rx_ring, rx_head, arrivals + 1), Succ(rx_head), rx_tail)
            = Append(got \o Contents(rx_ring, rx_head, rx_tail), arrivals + 1)
      <4> DEFINE b == arrivals + 1
      <4>1. b \in Nat
        BY <1>2
      <4> HIDE DEF b
      <4>2. got \o Contents(Put(rx_ring, rx_head, b), Succ(rx_head), rx_tail)
              = Append(got \o Contents(rx_ring, rx_head, rx_tail), b)
        BY <1>2, <3>1, <4>1, PushWhole
      <4> QED
        BY <4>2 DEF b
    <3>4. ReadsInOrder'
      BY <2>1, <3>2, <3>3 DEF RxSound, ReadsInOrder
    <3> QED
      BY <2>1, <3>1, <3>2, <3>4 DEF RxSound
  <2> QED
    BY <2>2, <2>3
<1>4. CASE Read
  <2>1. rx_head # rx_tail
    BY <1>4 DEF Read, RxSound
  <2>2. Append(got, rx_ring[rx_tail]) \o Contents(rx_ring, rx_head, Succ(rx_tail))
          = got \o Contents(rx_ring, rx_head, rx_tail)
    BY <1>2, <2>1, PopWhole
  <2>3. /\ got' = Append(got, rx_ring[rx_tail]) /\ rx_tail' = Succ(rx_tail)
        /\ rx_ring' = rx_ring /\ rx_head' = rx_head /\ stored' = stored /\ main' = "idle"
    BY <1>4 DEF Read, Goto
  <2> QED
    BY <2>2, <2>3 DEF RxSound, ReadsInOrder
<1>5. CASE CallSend \/ CallProcess \/ CallRead \/ SendCheck \/ TestBusy \/ RxTest \/ TxTest
  BY <1>1, <1>5 DEF CallSend, CallProcess, CallRead, SendCheck, TestBusy, RxTest,
     TxTest, rxRing, Goto
<1>6. CASE Publish \/ MarkBusy \/ StartTx \/ TxStarted
  BY <1>1, <1>6 DEF Publish, MarkBusy, StartTx, TxStarted, rxRing, Goto
<1>7. CASE StartRx \/ RxStarted
  BY <1>1, <1>7 DEF StartRx, RxStarted, Goto
<1>8. CASE TxCplt \/ Overrun \/ LineError
  BY <1>1, <1>8 DEF TxCplt, Overrun, LineError, rxRing, RxSound
<1>9. CASE UNCHANGED vars
  BY <1>1, <1>9 DEF vars, rxRing, RxSound
<1> QED
  BY <1>3, <1>4, <1>5, <1>6, <1>7, <1>8, <1>9 DEF Next, MainStep, Interrupt

\* For any ring size, and wherever the interrupts fall: UART_ReadByte returns
\* the bytes HAL_UART_RxCpltCallback stored, in that order, each once.
THEOREM ReadInOrder == Spec => []ReadsInOrder
<1>1. Init => RxSound
  BY InitInOrder DEF Init, RxSound
<1>2. TypeOK /\ RxSound /\ [Next]_vars => RxSound'
  BY ReadsStep
<1>3. RxSound => ReadsInOrder
  BY DEF RxSound
<1> QED
  BY <1>1, <1>2, <1>3, TypeCorrect, PTL DEF Spec

LEMMA RxStepRemembers ==
    ASSUME [Next]_vars, receiving \/ rx_restart_pending
    PROVE  \/ receiving' \/ rx_restart_pending'
           \/ main = "rx_started" /\ ~receiving
<1> USE DEF Goto, rxRing
<1>1. CASE CallSend \/ CallProcess \/ CallRead \/ SendCheck \/ TestBusy \/ RxTest \/ TxTest
  BY <1>1 DEF CallSend, CallProcess, CallRead, SendCheck, TestBusy, RxTest, TxTest
<1>2. CASE Publish \/ MarkBusy \/ StartTx \/ TxStarted \/ TxCplt
  BY <1>2 DEF Publish, MarkBusy, StartTx, TxStarted, TxCplt
<1>3. CASE StartRx \/ RxStarted \/ Read
  BY <1>3 DEF StartRx, RxStarted, Read
<1>4. CASE RxCplt \/ Overrun \/ LineError
  BY <1>4 DEF RxCplt, Overrun, LineError, StartReceive
<1>5. CASE UNCHANGED vars
  BY <1>5 DEF vars
<1> QED
  BY <1>1, <1>2, <1>3, <1>4, <1>5 DEF Next, MainStep, Interrupt

\* Wherever interrupts fall, and whatever is refused or goes wrong on the line:
\* the only way to a receiver that is deaf and not due to be started again is
\* line 35 of uart_queue.c, in the main thread, when the reception it has just
\* started is over by then.
THEOREM ReceptionRemembered == Spec => RxForgottenInWindowOnly
<1>1. [Next]_vars =>
         [receiving \/ rx_restart_pending =>
             \/ receiving' \/ rx_restart_pending'
             \/ main = "rx_started" /\ ~receiving]_vars
  BY RxStepRemembers
<1> QED
  BY <1>1, PTL DEF Spec, RxForgottenInWindowOnly
=============================================================================
