---------------------------- MODULE FragmentLink ----------------------------
(* Transmitters (FragmentTx) and one receiver (FragmentRx) joined by the    *)
(* radio: the calls BIN_COM_Process, BIN_COM_Tick and OnXBeeFrame           *)
(* (Src/binary_com.c) make to the two halves of the fragment protocol.      *)
(*                                                                          *)
(* The frames of the transmitters meet in one receiver, which is where they *)
(* compete for its session slots.  The payload size stays at its default:   *)
(* nothing in src/ calls frag_tx_set_payload_size.                          *)
EXTENDS FragmentTx, FragmentRx

CONSTANTS
    Lens,    \* the message lengths the application sends
    Lossy    \* TRUE: the radio loses frames and the UART refuses them

ASSUME LinkAssumption == Lens \subseteq Nat /\ Lossy \in BOOLEAN

vars == <<net, tx, next_msg_id, payload_size, accepted, outcome, rx, delivered>>

TypeOK ==
    /\ net \subseteq Frames
    /\ TxTypeOK
    /\ RxTypeOK

Init == net = {} /\ TxInit /\ RxInit

-----------------------------------------------------------------------------
(* BOUND: a transmitter starts at most MaxMsgId - 1 transfers, so that an   *)
(* id names one transfer; FragmentReboot looks at ids that come back.       *)
Send(n) ==
    /\ next_msg_id[n] < MaxMsgId
    /\ \E data \in Data, len \in Lens, dest \in {Receiver, Broadcast} :
          TxSend(n, data, len, dest)
    /\ UNCHANGED rxVars

Cancel(n) ==
    /\ \E msg_id \in 1..MaxMsgId : TxCancel(n, msg_id)
    /\ UNCHANGED rxVars

ClearTx(n) == TxClear(n) /\ UNCHANGED rxVars

ClearRx == RxClear /\ UNCHANGED txVars

\* The members of S the UART ring takes.
Sent(S) == IF Lossy THEN SUBSET S ELSE {S}

TickTx(n) ==
    /\ \E sent \in Sent(TxSlots) : TxTick(n, sent)
    /\ UNCHANGED rxVars

TickRx == RxTick /\ UNCHANGED txVars

\* OnXBeeFrame: NACK and DONE go to the transmitter, DATA to the receiver.
ReceiveData(f) ==
    /\ f.type = "DATA"
    /\ RxData(f)
    /\ UNCHANGED txVars

ReceiveNack(f) ==
    /\ f.type = "NACK"
    /\ \/ TxIgnore(f.dest, f, Receiver)
       \/ TxNackExhausted(f.dest, f, Receiver)
       \/ \E sent \in Sent(f.missing) : TxNack(f.dest, f, Receiver, sent)
    /\ UNCHANGED rxVars

ReceiveDone(f) ==
    /\ f.type = "DONE"
    /\ TxIgnore(f.dest, f, Receiver) \/ TxDone(f.dest, f, Receiver)
    /\ UNCHANGED rxVars

Receive(f) == ReceiveData(f) \/ ReceiveNack(f) \/ ReceiveDone(f)

Lose(f) ==
    /\ Lossy /\ ~Duplicates
    /\ net' = net \ {f}
    /\ UNCHANGED <<txVars, rxVars>>

Clock ==
    /\ TxAge
    /\ RxAge
    /\ UNCHANGED <<net, next_msg_id, payload_size, accepted, outcome, delivered>>

Next ==
    \/ \E n \in Senders : Send(n) \/ Cancel(n) \/ ClearTx(n) \/ TickTx(n)
    \/ ClearRx
    \/ TickRx
    \/ \E f \in net : Receive(f) \/ Lose(f)
    \/ Clock

Spec == Init /\ [][Next]_vars

-----------------------------------------------------------------------------
(* Safety. *)

\* d is message a, every byte of it from the body frag_tx_send was given.
IsCopyOf(d, a) ==
    /\ d.source = a.source
    /\ d.msg_id = a.msg_id
    /\ d.len = a.len
    /\ \A i \in 0..(CeilDiv(a.len, MaxPayload) - 1) :
          d.buffer[i] = Slice(a.data, a.len, MaxPayload, i)

\* Whatever is lost, repeated or reordered, a message handed to on_message
\* (complete_message, fragment_rx.c:171) is whole and is one a transmitter
\* accepted: no fragment of another transfer is ever mixed into it.
Integrity == \A d \in delivered : \E a \in accepted : IsCopyOf(d, a)

\* on_complete with success (frag_tx_handle_done) is only called for a
\* message the receiver passed to its application.
SuccessMeansDelivered ==
    \A o \in outcome : o.success =>
        \E d \in delivered : d.source = o.source /\ d.msg_id = o.msg_id

\* A transfer is reported once: a late NACK or DONE never turns a reported
\* failure into a success, or the reverse.
OneOutcome ==
    \A o1, o2 \in outcome :
        o1.source = o2.source /\ o1.msg_id = o2.msg_id => o1 = o2

\* Session r reassembles message a, and all it holds so far is part of a.
IsPartOf(r, a) ==
    /\ r.source = a.source /\ r.msg_id = a.msg_id
    /\ r.total_len = a.len
    /\ r.frag_cnt = CeilDiv(a.len, MaxPayload)
    /\ \A i \in r.received : r.buffer[i] = Slice(a.data, a.len, MaxPayload, i)

\* A reassembly session always agrees with the transfer it was opened for,
\* so the metadata check of get_or_create_session never refuses a fragment;
\* it holds only fragments of that transfer, and it is short of some.
SessionMatchesTransfer ==
    \A s \in RxActive :
        /\ ~IsComplete(rx[s])
        /\ \E a \in accepted : IsPartOf(rx[s], a)

\* fragment_tx.h:26, FRAG_TX_STATE_WAITING_DONE: "All fragments sent,
\* waiting for DONE".  A NACK that comes while the session is still sending
\* moves it on all the same.
WaitingDoneMeansAllSent ==
    \A n \in Senders : \A s \in TxActive(n) :
        tx[n][s].state = "WAITING_DONE" =>
            tx[n][s].current_frag = tx[n][s].frag_cnt

-----------------------------------------------------------------------------
(* The inductive invariant behind the safety properties. *)

DefaultPayloadSize == payload_size = [n \in Senders |-> MaxPayload]

\* An id names one transfer, and ids not yet given out name none.
IdsUnique ==
    /\ \A a \in accepted :
          a.len \in 1..MaxMessageSize /\ a.msg_id < next_msg_id[a.source]
    /\ \A a, b \in accepted : a.source = b.source /\ a.msg_id = b.msg_id => a = b

\* Session t of transmitter n sends message a.
IsSending(n, t, a) ==
    /\ a.source = n /\ a.msg_id = t.msg_id
    /\ a.data = t.data /\ a.len = t.data_len
    /\ t.frag_cnt = CeilDiv(a.len, MaxPayload)

TxMatchesTransfer ==
    \A n \in Senders : \A s \in TxActive(n) :
        \E a \in accepted : IsSending(n, tx[n][s], a)

TxSlotsDistinct ==
    \A n \in Senders : \A s, t \in TxActive(n) :
        tx[n][s].msg_id = tx[n][t].msg_id => s = t

\* What has been reported is over.
OutcomesFinal ==
    \A o \in outcome :
        /\ o.msg_id < next_msg_id[o.source]
        /\ \A s \in TxActive(o.source) : tx[o.source][s].msg_id # o.msg_id

IsFragmentOf(f, a) ==
    /\ f.source = a.source /\ f.msg_id = a.msg_id
    /\ f.total_len = a.len
    /\ f.frag_cnt = CeilDiv(a.len, MaxPayload)
    /\ f.frag_idx \in 0..(f.frag_cnt - 1)
    /\ f.payload = Slice(a.data, a.len, MaxPayload, f.frag_idx)

\* The frames in the air tell the truth: DATA about an accepted message,
\* DONE about a delivered one.
FramesTruthful ==
    \A f \in net :
        /\ f.type = "DATA" => \E a \in accepted : IsFragmentOf(f, a)
        /\ f.type = "DONE" =>
              \E d \in delivered : d.source = f.dest /\ d.msg_id = f.msg_id

\* What needs no ids to be unique: frames and successes tell the truth.
TruthInv ==
    /\ TypeOK
    /\ DefaultPayloadSize
    /\ TxMatchesTransfer
    /\ FramesTruthful
    /\ SuccessMeansDelivered

IndInv ==
    /\ TruthInv
    /\ IdsUnique
    /\ TxSlotsDistinct
    /\ OutcomesFinal
    /\ OneOutcome
    /\ SessionMatchesTransfer
    /\ Integrity

-----------------------------------------------------------------------------
(* Refinement of FragmentTransfer. *)

\* The body a delivered buffer spells, or none of them.
BodyOf(d) ==
    LET spelled == {b \in Data : \A i \in 0..(CeilDiv(d.len, MaxPayload) - 1) :
                       d.buffer[i] = Slice(b, d.len, MaxPayload, i)}
    IN  IF spelled = {} THEN "garbled" ELSE CHOOSE b \in spelled : TRUE

Transfer == INSTANCE FragmentTransfer WITH
    Destinations <- {Receiver, Broadcast},
    MsgIds <- 1..MaxMsgId,
    Bodies <- Data,
    Lengths <- 1..MaxMessageSize,
    delivered <- {[source |-> d.source, msg_id |-> d.msg_id,
                   data |-> BodyOf(d), len |-> d.len] : d \in delivered}

\* The protocol implements FragmentTransfer: every step of it accepts,
\* delivers or concludes as that specification allows, or changes nothing
\* the applications can see.
TransferSpec == Transfer!Spec
=============================================================================
