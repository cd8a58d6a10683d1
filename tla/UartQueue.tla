----------------------------- MODULE UartQueue -----------------------------
(* Src/uart_queue.c: the two byte rings between the main loop and the UART  *)
(* interrupts.  The main thread moves from one shared access to the next    *)
(* (main, below); the HAL callbacks run to completion between any two of    *)
(* its steps.  The HAL is external: a start is accepted or refused, TxCplt  *)
(* and RxCplt end what a start began, an overrun ends the reception.        *)
(*                                                                          *)
(* Bytes are numbered in the order they are queued for sending, and in the  *)
(* order they arrive.  The LED and the error counters are left out.         *)
(*                                                                          *)
(* Definitions commented as "Variant" are not used: each is the definition  *)
(* that follows it with a bug a property is there to notice.                *)
EXTENDS Naturals, Sequences

CONSTANTS
    Size,               \* UART_BUFFER_SIZE (1024)
    MaxSends,           \* BOUND: bytes the application sends
    MaxArrivals,        \* BOUND: bytes the UART receives
    MaxErrors,          \* BOUND: line errors
    MaxRefusals,        \* BOUND: starts the HAL refuses although it is idle
    Preemptible         \* TRUE: interrupts fall anywhere in the main thread;
                        \* FALSE: TxCplt does not hit TxWindow

ASSUME UartAssumption ==
    /\ Size \in Nat \ {0, 1}
    /\ MaxSends \in Nat /\ MaxArrivals \in Nat
    /\ MaxErrors \in Nat /\ MaxRefusals \in Nat
    /\ Preemptible \in BOOLEAN

VARIABLES
    tx_ring, tx_head, tx_tail,   \* tx_buffer
    rx_ring, rx_head, rx_tail,   \* rx_buffer
    tx_busy, tx_restart_pending,
    rx_armed, rx_restart_pending,
    main,        \* where the main thread is
    blocking,    \* it is in UART_SendStringBlocking
    in_flight,   \* HAL: the byte being transmitted is tx_ring[tx_tail]
    receiving,   \* HAL: a reception is under way
    refusals, errors, sends, arrivals,   \* counters of the bounds
    wire,        \* history: the bytes transmitted
    stored, got  \* history: the bytes put in the RX ring, and read from it

txRing == <<tx_ring, tx_head, tx_tail, tx_busy, tx_restart_pending, in_flight, sends, wire>>
rxRing == <<rx_ring, rx_head, rx_tail, rx_armed, rx_restart_pending, receiving,
            arrivals, errors, stored, got>>
vars == <<txRing, rxRing, main, blocking, refusals>>

Places == {"idle", "check", "publish", "test_busy", "mark_busy", "start_tx",
           "tx_started", "rx_test", "start_rx", "rx_started", "tx_test", "read"}

Slots == 0..(Size - 1)

\* Variant: the wrap is one slot late.
SuccPastEnd(i) == (i + 1) % (Size + 1)

Succ(i) == (i + 1) % Size

TypeOK ==
    /\ tx_ring \in [Slots -> Nat] /\ tx_head \in Slots /\ tx_tail \in Slots
    /\ rx_ring \in [Slots -> Nat] /\ rx_head \in Slots /\ rx_tail \in Slots
    /\ tx_busy \in BOOLEAN /\ tx_restart_pending \in BOOLEAN
    /\ rx_armed \in BOOLEAN /\ rx_restart_pending \in BOOLEAN
    /\ main \in Places
    /\ blocking \in BOOLEAN /\ in_flight \in BOOLEAN /\ receiving \in BOOLEAN
    /\ refusals \in Nat /\ errors \in Nat /\ sends \in Nat /\ arrivals \in Nat
    /\ wire \in Seq(Nat) /\ stored \in Seq(Nat) /\ got \in Seq(Nat)

-----------------------------------------------------------------------------
(* The HAL.  A start is refused while the direction is busy; the HAL is     *)
(* free to refuse others too (a locked handle), MaxRefusals of them.        *)

Accepted == UNCHANGED refusals

Refused == refusals < MaxRefusals /\ refusals' = refusals + 1

\* HAL_UART_GetState is READY when neither direction is under way.
Ready == ~in_flight /\ ~receiving

\* Variant: a refused start is not remembered.
StartNextTxForgets ==
    \/ Accepted /\ in_flight' = TRUE /\ tx_busy' = TRUE /\ tx_restart_pending' = FALSE
    \/ Refused /\ in_flight' = FALSE /\ tx_busy' = FALSE /\ tx_restart_pending' = FALSE

\* UART_StartNextTxIT in an interrupt: no one sees its steps.
StartNextTx ==
    \/ Accepted /\ in_flight' = TRUE /\ tx_busy' = TRUE /\ tx_restart_pending' = FALSE
    \/ Refused /\ in_flight' = FALSE /\ tx_busy' = FALSE /\ tx_restart_pending' = TRUE

\* Variant: a refused start is not remembered.
StartReceiveForgets ==
    \/ Accepted /\ receiving' = TRUE /\ rx_armed' = TRUE /\ rx_restart_pending' = FALSE
    \/ Refused /\ receiving' = FALSE /\ rx_armed' = FALSE /\ rx_restart_pending' = FALSE

\* UART_StartReceiveIT in an interrupt.
StartReceive ==
    \/ Accepted /\ receiving' = TRUE /\ rx_armed' = TRUE /\ rx_restart_pending' = FALSE
    \/ Refused /\ receiving' = FALSE /\ rx_armed' = FALSE /\ rx_restart_pending' = TRUE

\* UART_Queue_Init, up to where HAL_UART_Receive_IT returns to
\* UART_StartReceiveIT.  (RxStarted does the rest; the tx_test after it finds
\* the ring empty.)
Init ==
    /\ tx_ring = [i \in Slots |-> 0] /\ tx_head = 0 /\ tx_tail = 0
    /\ rx_ring = [i \in Slots |-> 0] /\ rx_head = 0 /\ rx_tail = 0
    /\ tx_busy = FALSE /\ tx_restart_pending = FALSE
    /\ rx_armed = FALSE
    /\ \/ /\ refusals = 0 /\ receiving = TRUE
          /\ rx_restart_pending = FALSE /\ main = "rx_started"
       \/ /\ refusals = 1 /\ receiving = FALSE /\ refusals <= MaxRefusals
          /\ rx_restart_pending = TRUE /\ main = "idle"
    /\ blocking = FALSE /\ in_flight = FALSE
    /\ errors = 0 /\ sends = 0 /\ arrivals = 0
    /\ wire = <<>> /\ stored = <<>> /\ got = <<>>

-----------------------------------------------------------------------------
(* UART_SendByte, from UART_SendArray or UART_SendStringBlocking. *)

Goto(place) == main' = place

CallSend ==
    /\ main = "idle" /\ sends < MaxSends
    /\ blocking' \in BOOLEAN
    /\ Goto("check")
    /\ UNCHANGED <<txRing, rxRing, refusals>>

\* Variant: a full ring is not noticed.
TxFullNever == FALSE

\* Variant: no slot is kept free, so that an empty ring looks full.
TxFullWhenEqual == tx_head = tx_tail

TxFull == Succ(tx_head) = tx_tail

\* A full ring makes UART_SendByte return -1: UART_SendArray gives up there,
\* UART_SendStringBlocking calls it again.
SendCheck ==
    /\ main = "check"
    /\ \/ ~TxFull /\ Goto("publish")
       \/ TxFull /\ Goto(IF blocking THEN "check" ELSE "idle")
    /\ UNCHANGED <<txRing, rxRing, blocking, refusals>>

\* The byte, then tx_head: no interrupt looks at a slot before the head has
\* passed it.
Publish ==
    /\ main = "publish"
    /\ sends' = sends + 1
    /\ tx_ring' = [tx_ring EXCEPT ![tx_head] = sends + 1]
    /\ tx_head' = Succ(tx_head)
    /\ Goto("test_busy")
    /\ UNCHANGED <<tx_tail, tx_busy, tx_restart_pending, in_flight, wire,
                   rxRing, blocking, refusals>>

\* Variant: the transmitter is started whether or not it is busy.
TestBusySkipped ==
    /\ main = "test_busy"
    /\ Goto("mark_busy")
    /\ UNCHANGED <<txRing, rxRing, blocking, refusals>>

TestBusy ==
    /\ main = "test_busy"
    /\ Goto(IF tx_busy THEN "idle" ELSE "mark_busy")
    /\ UNCHANGED <<txRing, rxRing, blocking, refusals>>

MarkBusy ==
    /\ main = "mark_busy"
    /\ tx_busy' = TRUE
    /\ Goto("start_tx")
    /\ UNCHANGED <<tx_ring, tx_head, tx_tail, tx_restart_pending, in_flight,
                   sends, wire, rxRing, blocking, refusals>>

\* UART_StartNextTxIT in the main thread: the HAL call...
StartTx ==
    /\ main = "start_tx"
    /\ \/ /\ ~in_flight /\ Accepted
          /\ in_flight' = TRUE
          /\ Goto("tx_started")
          /\ UNCHANGED <<tx_busy, tx_restart_pending>>
       \/ /\ (in_flight /\ Accepted) \/ Refused
          /\ tx_busy' = FALSE /\ tx_restart_pending' = TRUE
          /\ Goto("idle")
          /\ UNCHANGED in_flight
    /\ UNCHANGED <<tx_ring, tx_head, tx_tail, sends, wire, rxRing, blocking>>

\* ... and what it does when the call has returned HAL_OK.
TxStarted ==
    /\ main = "tx_started"
    /\ tx_busy' = TRUE /\ tx_restart_pending' = FALSE
    /\ Goto("idle")
    /\ UNCHANGED <<tx_ring, tx_head, tx_tail, in_flight, sends, wire,
                   rxRing, blocking, refusals>>

-----------------------------------------------------------------------------
(* UART_Queue_Process *)

CallProcess ==
    /\ main = "idle"
    /\ Goto("rx_test")
    /\ UNCHANGED <<txRing, rxRing, blocking, refusals>>

\* Variant: a pending reception is not taken up.
RxTestSkipped ==
    /\ main = "rx_test"
    /\ Goto("tx_test")
    /\ UNCHANGED <<txRing, rxRing, blocking, refusals>>

RxTest ==
    /\ main = "rx_test"
    /\ Goto(IF rx_restart_pending /\ Ready THEN "start_rx" ELSE "tx_test")
    /\ UNCHANGED <<txRing, rxRing, blocking, refusals>>

\* UART_StartReceiveIT in the main thread: the HAL call...
StartRx ==
    /\ main = "start_rx"
    /\ \/ /\ ~receiving /\ Accepted
          /\ receiving' = TRUE
          /\ Goto("rx_started")
          /\ UNCHANGED <<rx_armed, rx_restart_pending>>
       \/ /\ (receiving /\ Accepted) \/ Refused
          /\ rx_armed' = FALSE /\ rx_restart_pending' = TRUE
          /\ Goto("tx_test")
          /\ UNCHANGED receiving
    /\ UNCHANGED <<rx_ring, rx_head, rx_tail, arrivals, errors, stored, got,
                   txRing, blocking>>

\* ... and what it does when the call has returned HAL_OK.
RxStarted ==
    /\ main = "rx_started"
    /\ rx_armed' = TRUE /\ rx_restart_pending' = FALSE
    /\ Goto("tx_test")
    /\ UNCHANGED <<rx_ring, rx_head, rx_tail, receiving, arrivals, errors,
                   stored, got, txRing, blocking, refusals>>

\* Variant: a pending transmission is not taken up.
TxTestSkipped ==
    /\ main = "tx_test"
    /\ Goto("idle")
    /\ UNCHANGED <<txRing, rxRing, blocking, refusals>>

TxTest ==
    /\ main = "tx_test"
    /\ Goto(IF tx_restart_pending /\ ~tx_busy /\ tx_tail # tx_head
            THEN "start_tx" ELSE "idle")
    /\ UNCHANGED <<txRing, rxRing, blocking, refusals>>

-----------------------------------------------------------------------------
(* UART_ReadByte: there is a byte; it is taken, then the tail moves.  Until  *)
(* it has moved RxCplt keeps off the slot, as it does before Read.          *)

CallRead ==
    /\ main = "idle"
    /\ rx_head # rx_tail
    /\ Goto("read")
    /\ UNCHANGED <<txRing, rxRing, blocking, refusals>>

Read ==
    /\ main = "read"
    /\ got' = Append(got, rx_ring[rx_tail])
    /\ rx_tail' = Succ(rx_tail)
    /\ Goto("idle")
    /\ UNCHANGED <<rx_ring, rx_head, rx_armed, rx_restart_pending, receiving,
                   arrivals, errors, stored, txRing, blocking, refusals>>

-----------------------------------------------------------------------------
(* The interrupts.  The receive interrupts fall anywhere.  So does TxCplt    *)
(* where main is Preemptible; elsewhere two windows are closed to it:        *)
(* between the HAL call and the assignment of tx_busy, and between           *)
(* publishing a byte and testing tx_busy, when TxCplt ends that very byte.   *)

TxWindow ==
    \/ main = "tx_started"
    \/ main = "test_busy" /\ Succ(tx_tail) = tx_head

\* HAL_UART_TxCpltCallback
TxCplt ==
    /\ in_flight
    /\ Preemptible \/ ~TxWindow
    /\ wire' = Append(wire, tx_ring[tx_tail])
    /\ tx_tail' = Succ(tx_tail)
    /\ \/ tx_tail' # tx_head /\ StartNextTx
       \/ /\ tx_tail' = tx_head
          /\ in_flight' = FALSE /\ tx_busy' = FALSE /\ tx_restart_pending' = FALSE
          /\ Accepted
    /\ UNCHANGED <<tx_ring, tx_head, sends, rxRing, main, blocking>>

\* Variant: a full ring is not noticed.
RxFullNever == FALSE

RxFull == Succ(rx_head) = rx_tail

\* HAL_UART_RxCpltCallback; a byte that finds the ring full is dropped.
RxCplt ==
    /\ receiving /\ arrivals < MaxArrivals
    /\ arrivals' = arrivals + 1
    /\ \/ /\ ~RxFull
          /\ rx_ring' = [rx_ring EXCEPT ![rx_head] = arrivals + 1]
          /\ rx_head' = Succ(rx_head)
          /\ stored' = Append(stored, arrivals + 1)
       \/ /\ RxFull
          /\ UNCHANGED <<rx_ring, rx_head, stored>>
    /\ StartReceive
    /\ UNCHANGED <<rx_tail, errors, got, txRing, main, blocking>>

\* HAL_UART_ErrorCallback for an overrun: the HAL has ended the reception.
Overrun ==
    /\ receiving /\ errors < MaxErrors
    /\ errors' = errors + 1
    /\ receiving' = FALSE /\ rx_armed' = FALSE /\ rx_restart_pending' = TRUE
    /\ UNCHANGED <<rx_ring, rx_head, rx_tail, arrivals, stored, got, txRing,
                   main, blocking, refusals>>

\* HAL_UART_ErrorCallback for noise, framing or parity: the HAL may have
\* ended the reception or go on with it.
LineError ==
    /\ receiving /\ errors < MaxErrors
    /\ errors' = errors + 1
    /\ \/ ~in_flight /\ StartReceive
       \/ /\ receiving' \in BOOLEAN /\ (in_flight \/ receiving')
          /\ rx_armed' = FALSE /\ rx_restart_pending' = TRUE
          /\ Accepted
    /\ UNCHANGED <<rx_ring, rx_head, rx_tail, arrivals, stored, got, txRing,
                   main, blocking>>

-----------------------------------------------------------------------------
MainStep ==
    \/ SendCheck \/ Publish \/ TestBusy \/ MarkBusy \/ StartTx \/ TxStarted
    \/ RxTest \/ StartRx \/ RxStarted \/ TxTest \/ Read

Interrupt == TxCplt \/ RxCplt \/ Overrun \/ LineError

Next == CallSend \/ CallProcess \/ CallRead \/ MainStep \/ Interrupt

Spec == Init /\ [][Next]_vars

\* The main thread goes on within a call, and a byte being transmitted gets
\* through.  Nothing is assumed of what arrives, or of which functions the
\* application calls.
FairSpec == Spec /\ WF_vars(MainStep) /\ WF_vars(TxCplt)

-----------------------------------------------------------------------------
(* Safety. *)

\* The contents of a ring, oldest first.
Contents(ring, head, tail) ==
    [k \in 1..((head + Size - tail) % Size) |-> ring[(tail + k - 1) % Size]]

UpTo(n) == [k \in 1..n |-> k]

\* Bytes leave in the order they were queued, each once: what is on the wire
\* and what the ring holds are all of them (UART_SendByte against
\* HAL_UART_TxCpltCallback).
WireInOrder == wire \o Contents(tx_ring, tx_head, tx_tail) = UpTo(sends)

\* Bytes are read in the order they were stored, none twice and none
\* overwritten before it is read (HAL_UART_RxCpltCallback against
\* UART_ReadByte).
ReadsInOrder == got \o Contents(rx_ring, rx_head, rx_tail) = stored

\* While a byte is being transmitted the ring holds it, and no one sees the
\* transmitter free and starts it a second time.
BusyWhileInFlight ==
    in_flight =>
        /\ tx_tail # tx_head
        /\ tx_busy \/ main = "tx_started"
        /\ main \notin {"mark_busy", "start_tx"}

-----------------------------------------------------------------------------
(* Nothing is forgotten. *)

\* Bytes wait in the ring only while one is being transmitted, or a restart
\* is due, or the main thread is on its way to start them, where main is not
\* Preemptible.
TxNotForgotten ==
    tx_tail # tx_head =>
        \/ in_flight
        \/ tx_restart_pending
        \/ main \in {"test_busy", "mark_busy", "start_tx"}

\* A receiver that is deaf is due to be started again, whatever was refused or
\* went wrong on the line, but for one case: the reception the main thread has
\* just started ended before it came to rx_restart_pending = 0 (lines 33-35),
\* which then wipes the request.
RxForgottenInWindowOnly ==
    [][receiving \/ rx_restart_pending =>
          \/ receiving' \/ rx_restart_pending'
          \/ main = "rx_started" /\ ~receiving]_vars

-----------------------------------------------------------------------------
(* What the application has to do for it. *)

\* It keeps calling UART_Queue_Process, which nothing in the library does.
ProcessCalled == []<><<CallProcess>>_vars

\* It ceases to send.
SendingStops == <>[][~Publish]_vars

\* Everything queued is transmitted, although the HAL may refuse some starts,
\* if UART_Queue_Process is called again and again.
TxDrains == ProcessCalled => (tx_tail # tx_head ~> tx_tail = tx_head)

\* A restart that is due, and not about to be wiped, is made, if
\* UART_Queue_Process is called again and again and sending pauses (it starts
\* reception only while nothing is being transmitted).
RxRecovers ==
    ProcessCalled /\ SendingStops =>
        (~receiving /\ rx_restart_pending /\ main # "rx_started" ~> receiving)

\* A blocking send ends, or it is refused starts that it waits for: the ring
\* full, nothing in flight, a restart due, and UART_Queue_Process out of reach
\* (UART_SendStringBlocking does not call it).
WaitsOnlyForRefused ==
    main = "check" ~>
        \/ main # "check"
        \/ [](TxFull /\ ~in_flight /\ tx_restart_pending)

\* uart_queue.c:169, UART_SendStringBlocking: "Buffer full: wait until ISR
\* drains some bytes."
WaitEnds == main = "check" ~> main # "check"
=============================================================================
