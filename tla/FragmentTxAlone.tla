--------------------------- MODULE FragmentTxAlone ---------------------------
(* The transmitter by itself, its ids wrapping and its payload size tuned,  *)
(* answered by anyone with anything a NACK or DONE frame can say.           *)
EXTENDS FragmentTx

CONSTANTS
    Lens,    \* lengths the application sends
    Dests,   \* destinations it sends to
    Sizes    \* arguments of frag_tx_set_payload_size

ASSUME TxAloneAssumption ==
    /\ Lens \subseteq Nat /\ Sizes \subseteq Nat
    /\ Dests \subseteq {Receiver, Broadcast}

txAloneVars == <<txVars, net>>

TxAloneInit == net = {} /\ TxInit

ApplicationCall(n) ==
    \/ \E data \in Data, len \in Lens, dest \in Dests :
          TxSend(n, data, len, dest)
    \/ \E size \in Sizes : TxSetPayloadSize(n, size)
    \/ \E msg_id \in 1..MaxMsgId : TxCancel(n, msg_id)
    \/ TxClear(n)

\* BOUND: a NACK reports indices up to one past the largest message's.
Reply(n) ==
    \E msg_id \in 1..MaxMsgId, from \in Senders \cup {Receiver} :
        \/ \E missing \in SUBSET (0..MaxFragments) :
              LET f == NackFrame(n, msg_id, missing) IN
              \/ TxIgnore(n, f, from)
              \/ TxNackExhausted(n, f, from)
              \/ \E sent \in SUBSET missing : TxNack(n, f, from, sent)
        \/ LET f == DoneFrame(n, msg_id) IN
              TxIgnore(n, f, from) \/ TxDone(n, f, from)

SomeTick(n) == \E sent \in SUBSET TxSlots : TxTick(n, sent)

TxClock ==
    TxAge /\ UNCHANGED <<net, next_msg_id, payload_size, accepted, outcome>>

\* The frames in the air reach whoever listens.
TxHeard == net # {} /\ net' = {} /\ UNCHANGED txVars

TxAloneNext ==
    \/ \E n \in Senders :
          InQuiet(ApplicationCall(n)) \/ InQuiet(Reply(n)) \/ InQuiet(SomeTick(n))
    \/ InQuiet(TxClock)
    \/ TxHeard

\* The ticks are called, and the clock advances, for ever.
TxAloneSpec ==
    /\ TxAloneInit /\ [][TxAloneNext]_txAloneVars
    /\ WF_txAloneVars(TxHeard)
    /\ SF_txAloneVars(InQuiet(TxClock))
    /\ \A n \in Senders : SF_txAloneVars(InQuiet(SomeTick(n)))

-----------------------------------------------------------------------------
\* A session waits for DONE only when its last fragment is out or the
\* receiver has asked for fragments in a NACK.
WaitingDoneCause ==
    \A n \in Senders : \A s \in TxActive(n) :
        tx[n][s].state = "WAITING_DONE" =>
            tx[n][s].current_frag = tx[n][s].frag_cnt \/ tx[n][s].nack_rounds > 0

\* Every transfer ends (frag_tx_tick), whatever stream of NACKs keeps
\* resetting its timer and although the UART may never take a frame.
TxSessionEnds == \A n \in Senders, s \in TxSlots :
    tx[n][s].active ~> ~tx[n][s].active
=============================================================================
