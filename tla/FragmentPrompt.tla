--------------------------- MODULE FragmentPrompt ---------------------------
(* FragmentLink in the installation it was tuned for: one transfer at a     *)
(* time, to one device, frames in order and on the air for less than the    *)
(* pacing delay, so that a device acts on a frame before the next tick.     *)
(* The radio may lose a few fragments.  What NACK rounds and timeouts are   *)
(* for is that such a transfer still succeeds.                              *)
EXTENDS FragmentLink

CONSTANT MaxLosses    \* BOUND: fragments the radio loses

\* Every loss may take a NACK round, every round waits for FragTimeout, and a
\* session lives through the sending of its message and all of its rounds
\* (30000 ms for 137 fragments every 30 ms and 10 rounds of 500 ms).
ASSUME PromptAssumption ==
    /\ ~Duplicates /\ ~Lossy
    /\ MaxLosses \in 0..MaxNackRounds
    /\ FragTimeout >= 1
    /\ SessionTimeout >= MaxFragments * SendDelay
                            + (MaxNackRounds + 1) * (FragTimeout + 1)

VARIABLE losses

promptVars == <<vars, losses>>

Idle == net = {} /\ \A n \in Senders : TxActive(n) = {}

PromptSend(n) ==
    /\ Idle
    /\ next_msg_id[n] < MaxMsgId
    /\ \E data \in Data, len \in Lens : TxSend(n, data, len, Receiver)
    /\ UNCHANGED <<rxVars, losses>>

PromptTick ==
    /\ net = {}
    /\ TickRx \/ \E n \in Senders : TickTx(n)
    /\ UNCHANGED losses

\* The fragments of a NACK round arrive in the order they were sent.
Foremost(f) ==
    \A g \in net : f.type = "DATA" /\ g.type = "DATA" => f.frag_idx <= g.frag_idx

PromptReceive ==
    /\ \E f \in net : Foremost(f) /\ Receive(f)
    /\ UNCHANGED losses

\* A fragment, or the retransmission of one, of a message the receiver has
\* begun: when every fragment of a message is lost the receiver cannot know,
\* and the transfer fails.
LoseFragment ==
    /\ losses < MaxLosses
    /\ \E f \in net : /\ f.type = "DATA" /\ FindRx(f) # {}
                      /\ net' = net \ {f}
    /\ losses' = losses + 1
    /\ UNCHANGED <<txVars, rxVars>>

\* No session has anything left to do at this moment.
Settled ==
    /\ net = {}
    /\ \A n \in Senders, s \in TxSlots : Ticked(tx[n][s], TRUE) = tx[n][s]
    /\ \A s \in RxSlots : RxTicked(rx[s]) = rx[s]

PromptClock == Settled /\ Clock /\ UNCHANGED losses

PromptInit == Init /\ losses = 0

PromptNext ==
    \/ \E n \in Senders : PromptSend(n)
    \/ PromptTick
    \/ PromptReceive
    \/ LoseFragment
    \/ PromptClock

PromptSpec ==
    /\ PromptInit /\ [][PromptNext]_promptVars
    /\ WF_promptVars(PromptTick)
    /\ WF_promptVars(PromptReceive)
    /\ WF_promptVars(PromptClock)

-----------------------------------------------------------------------------
\* Recovery: whichever fragments are lost (MaxLosses of them; never a NACK or
\* DONE, which nothing repeats), every accepted message is delivered and its
\* transmitter told so (frag_rx_tick asks again after FragTimeout, frag_tx_tick
\* waits twice as long before it gives up).
EveryTransferSucceeds ==
    \A n \in Senders, id \in 1..MaxMsgId :
        (\E a \in accepted : a.source = n /\ a.msg_id = id)
            ~> [source |-> n, msg_id |-> id, success |-> TRUE] \in outcome

\* The receiver's slot is free again by the time a transfer has succeeded:
\* no leftover session stands in the way of the next transfer.
SlotFreeForNext == Idle => RxActive = {}

-----------------------------------------------------------------------------
(* The inductive invariant behind SlotFreeForNext: the one transfer under   *)
(* way, its clocks, what the receiver has of it and what is in the air.     *)
(* t is the transmitter's session, r the receiver's, which may be free.     *)

\* Nothing has been sent, or the fragments go out every SendDelay.
Sending(t) ==
    /\ t.state = "SENDING"
    /\ t.nack_rounds = 0
    /\ \/ t.current_frag = 0 /\ t.age = 0 /\ t.idle >= SendDelay
       \/ /\ t.current_frag \in 1..t.frag_cnt
          /\ t.idle <= SendDelay
          /\ t.age <= (t.current_frag - 1) * SendDelay + t.idle

\* Each round took no longer than the receiver waits before it asks again.
Waiting(t) ==
    /\ t.state = "WAITING_DONE"
    /\ t.age <= t.frag_cnt * SendDelay + t.nack_rounds * (FragTimeout + 1) + t.idle

\* The receiver's session is of this transfer and no NACK round behind.
InStep(n, t, r) ==
    /\ r.source = n /\ r.msg_id = t.msg_id
    /\ r.idle <= FragTimeout + 1
    /\ t.nack_rounds <= r.nacks_sent
    /\ t.state = "SENDING" => \A i \in r.received : i < t.current_frag

\* The fragments D, and only they, are in the air: those of a NACK round or
\* the one just sent.
FragmentsInAir(n, t, r, air, D) ==
    /\ air = {Fragment(n, t, i) : i \in D}
    /\ t.state = "SENDING" => \A i \in D : i < t.current_frag
    /\ t.state = "WAITING_DONE" /\ D # {} => t.idle = 0
    /\ r.active => /\ D \cap r.received = {}
                   /\ t.state = "WAITING_DONE" => t.idle <= r.idle
    /\ ~r.active /\ D # {} => t.state = "SENDING" /\ \E i \in D : D = {i}

NackInAir(n, t, r, air, missing) ==
    /\ air = {NackFrame(n, t.msg_id, missing)}
    /\ t.nack_rounds < r.nacks_sent
    /\ t.state = "WAITING_DONE" => t.idle <= FragTimeout + 1

\* Session t of transmitter n is under way, r is the receiver's and air the
\* frames sent and not yet received.
InFlight(n, t, r, air) ==
    /\ t.active /\ t.dest = Receiver /\ t.frag_cnt \in 1..MaxFragments
    /\ Sending(t) \/ Waiting(t)
    /\ r.active => InStep(n, t, r)
    /\ \/ \E D \in SUBSET (0..(t.frag_cnt - 1)) : FragmentsInAir(n, t, r, air, D)
       \/ /\ r.active
          /\ \E missing \in SUBSET Missing(r) : NackInAir(n, t, r, air, missing)
       \/ /\ ~r.active
          /\ air = {DoneFrame(n, t.msg_id)}

\* No session but these is in use.
OnlySessions(n, s, q) ==
    /\ \A m \in Senders : \A u \in TxSlots : tx[m][u].active => m = n /\ u = s
    /\ \A p \in RxSlots : rx[p].active => p = q

PromptInv ==
    /\ IndInv
    /\ \/ Idle /\ RxActive = {}
       \/ \E n \in Senders, s \in TxSlots, q \in RxSlots :
             OnlySessions(n, s, q) /\ InFlight(n, tx[n][s], rx[q], net)
=============================================================================
