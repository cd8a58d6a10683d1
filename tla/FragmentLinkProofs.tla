------------------------- MODULE FragmentLinkProofs -------------------------
(* Theorems about FragmentLink, for any number of transmitters and session  *)
(* slots, any limits and timeouts, and a radio that loses, repeats and      *)
(* reorders frames: types, what every step does to the sessions (they only  *)
(* end, or go on), the truth of the frames, the safety properties, and the  *)
(* refinement of FragmentTransfer.                                          *)
EXTENDS FragmentLink, FragmentHandlerProofs, TLAPS

-----------------------------------------------------------------------------
(* The operators the model is built from. *)

\* A longer message has no fewer fragments.
LEMMA CeilDivMonotone ==
    ASSUME NEW a \in Nat, NEW b \in Nat \ {0}, NEW c \in Nat, a <= c
    PROVE  CeilDiv(a, b) <= CeilDiv(c, b)
BY DEF CeilDiv

-----------------------------------------------------------------------------
(* Type correctness. *)

LEMMA InitType == Init => TypeOK
BY LimitsAssumption, TxAssumption
   DEF Init, TxInit, RxInit, TypeOK, TxTypeOK, RxTypeOK

\* The steps of a transmitter keep its variables and the frames well typed.
LEMMA SendType ==
    ASSUME TypeOK, NEW n \in Senders, Send(n)
    PROVE  TypeOK'
<1>1. TxTypeOK'
  BY TxSendType, LinkAssumption DEF Send, TypeOK
<1> QED
  BY <1>1 DEF Send, TxSend, rxVars, TypeOK, RxTypeOK

LEMMA CancelType ==
    ASSUME TypeOK, NEW n \in Senders, Cancel(n) \/ ClearTx(n)
    PROVE  TypeOK'
<1>1. TxTypeOK'
  BY TxCancelType, TxClearType DEF Cancel, ClearTx, TypeOK
<1> QED
  BY <1>1 DEF Cancel, ClearTx, TxCancel, TxClear, rxVars, TypeOK, RxTypeOK

LEMMA TickTxType ==
    ASSUME TypeOK, NEW n \in Senders, TickTx(n)
    PROVE  TypeOK'
<1>1. PICK sent \in SUBSET TxSlots : TxTick(n, sent)
  BY DEF TickTx, Sent
<1>2. TxTypeOK' /\ net' \subseteq Frames
  BY <1>1, TxTickType DEF TypeOK
<1> QED
  BY <1>2 DEF TickTx, rxVars, TypeOK, RxTypeOK

LEMMA ReceiveNackType ==
    ASSUME TypeOK, NEW f \in net, ReceiveNack(f)
    PROVE  TypeOK'
<1>1. TxTypeOK /\ net \subseteq Frames
  BY DEF TypeOK
<1>2. f.dest \in Senders /\ f.missing \subseteq Nat
  BY <1>1 DEF ReceiveNack, Frames, DataFrames, NackFrames, DoneFrames
<1>3. TxTypeOK' /\ net' \subseteq Frames
  <2>1. CASE TxIgnore(f.dest, f, Receiver)
    BY <1>1, <2>1, TxIgnoreType
  <2>2. CASE TxNackExhausted(f.dest, f, Receiver)
    BY <1>1, <1>2, <2>2, TxNackExhaustedType
  <2>3. ASSUME NEW sent \in Sent(f.missing), TxNack(f.dest, f, Receiver, sent)
        PROVE  TxTypeOK' /\ net' \subseteq Frames
    <3>1. sent \in SUBSET f.missing
      BY DEF Sent
    <3> QED
      BY <1>1, <1>2, <2>3, <3>1, TxNackType
  <2> QED
    BY <2>1, <2>2, <2>3 DEF ReceiveNack
<1> QED
  BY <1>3 DEF ReceiveNack, rxVars, TypeOK, RxTypeOK

LEMMA ReceiveDoneType ==
    ASSUME TypeOK, NEW f \in net, ReceiveDone(f)
    PROVE  TypeOK'
<1>1. TxTypeOK /\ net \subseteq Frames
  BY DEF TypeOK
<1>2. f.dest \in Senders
  BY <1>1 DEF ReceiveDone, Frames, DataFrames, NackFrames, DoneFrames
<1>3. TxTypeOK' /\ net' \subseteq Frames
  BY <1>1, <1>2, TxIgnoreType, TxDoneType DEF ReceiveDone
<1> QED
  BY <1>3 DEF ReceiveDone, rxVars, TypeOK, RxTypeOK

LEMMA ReceiveDataType ==
    ASSUME TypeOK, NEW f \in net, ReceiveData(f)
    PROVE  TypeOK'
<1>1. f \in DataFrames /\ RxTypeOK /\ net \subseteq Frames
  BY DEF ReceiveData, TypeOK, Frames, DataFrames, NackFrames, DoneFrames
<1>2. RxTypeOK' /\ net' \subseteq Frames
  BY <1>1, RxDataType DEF ReceiveData
<1> QED
  BY <1>2 DEF ReceiveData, txVars, TypeOK, TxTypeOK

LEMMA ClockType ==
    ASSUME TypeOK, Clock
    PROVE  TypeOK'
<1> USE DEF TypeOK
<1>1. \A n \in Senders : \A s \in TxSlots :
         TxAged(tx[n][s]) \in TxSession \cup {NoSession}
  BY TxAgedType
<1>2. \A s \in RxSlots : RxAged(rx[s]) \in RxSession \cup {NoSession}
  BY RxAgedType
<1> QED
  BY <1>1, <1>2 DEF Clock, TxAge, RxAge, TxTypeOK, RxTypeOK

LEMMA StepType == TypeOK /\ [Next]_vars => TypeOK'
<1> SUFFICES ASSUME TypeOK, [Next]_vars
             PROVE  TypeOK'
  OBVIOUS
<1>1. ASSUME NEW n \in Senders, Send(n) \/ Cancel(n) \/ ClearTx(n) \/ TickTx(n)
      PROVE  TypeOK'
  BY <1>1, SendType, CancelType, TickTxType
<1>2. CASE ClearRx
  BY <1>2 DEF ClearRx, RxClear, txVars, TypeOK, TxTypeOK, RxTypeOK
<1>3. CASE TickRx
  <2>1. rx' \in [RxSlots -> RxSession \cup {NoSession}]
    BY <1>3, TickRxType DEF TickRx, RxTick, TypeOK
  <2>2. net' \subseteq Frames
    BY <1>3, TickRxType DEF TickRx, RxTick, Transmit, TypeOK
  <2> QED
    BY <1>3, <2>1, <2>2 DEF TickRx, RxTick, txVars, TypeOK, TxTypeOK, RxTypeOK
<1>4. ASSUME NEW f \in net, Receive(f)
      PROVE  TypeOK'
  BY <1>4, ReceiveDataType, ReceiveNackType, ReceiveDoneType DEF Receive
<1>5. ASSUME NEW f \in net, Lose(f)
      PROVE  TypeOK'
  BY <1>5 DEF Lose, txVars, rxVars, TypeOK, TxTypeOK, RxTypeOK
<1>6. CASE Clock
  BY <1>6, ClockType
<1>7. CASE UNCHANGED vars
  BY <1>7 DEF vars, TypeOK, TxTypeOK, RxTypeOK
<1> QED
  BY <1>1, <1>2, <1>3, <1>4, <1>5, <1>6, <1>7 DEF Next

\* Every reachable state is well typed: sessions, frames and the histories
\* hold what fragment_tx.c and fragment_rx.c put there, ids stay within
\* uint16_t and are never 0, and no session outlives its NACK rounds.
THEOREM TypeCorrect == Spec => []TypeOK
<1>1. Init => TypeOK
  BY InitType
<1>2. TypeOK /\ [Next]_vars => TypeOK'
  BY StepType
<1> QED
  BY <1>1, <1>2, PTL DEF Spec

-----------------------------------------------------------------------------
(* Steps of a transmitter other than frag_tx_send only end its sessions.    *)

\* Session u continues session t.
SameTransfer(u, t) ==
    /\ u.msg_id = t.msg_id /\ u.data = t.data
    /\ u.data_len = t.data_len /\ u.frag_cnt = t.frag_cnt

\* Every session in use was in use before, for the same transfer.
SessionsOnlyEnd ==
    \A n \in Senders : \A s \in TxSlots :
        tx'[n][s].active => tx[n][s].active /\ SameTransfer(tx'[n][s], tx[n][s])

LEMMA TxType ==
    ASSUME TypeOK
    PROVE  tx \in [Senders -> [TxSlots -> TxSession \cup {NoSession}]]
BY DEF TypeOK, TxTypeOK

\* The address of a frame a transmitter hears.
LEMMA HeardType ==
    ASSUME TypeOK, NEW f \in net
    PROVE  /\ f.type = "DATA" => f \in DataFrames
           /\ f.type = "NACK" => f \in NackFrames /\ f.dest \in Senders
           /\ f.type = "DONE" => f \in DoneFrames /\ f.dest \in Senders
BY DEF TypeOK, Frames, DataFrames, NackFrames, DoneFrames

LEMMA SlotEnds ==
    ASSUME TypeOK, NEW n \in Senders, NEW id, NEW s \in FindTx(n, id),
           tx' = [tx EXCEPT ![n][s] = NoSession]
    PROVE  /\ s \in TxActive(n) /\ tx[n][s].msg_id = id
           /\ SessionsOnlyEnd /\ ~tx'[n][s].active
<1>1. s \in TxActive(n) /\ tx[n][s].msg_id = id
  BY DEF FindTx, First, TxActive
<1> QED
  BY <1>1, TxType DEF SessionsOnlyEnd, SameTransfer, NoSession, TxActive

LEMMA CancelEnds ==
    ASSUME TypeOK, NEW n \in Senders, Cancel(n) \/ ClearTx(n)
    PROVE  /\ SessionsOnlyEnd
           /\ UNCHANGED <<next_msg_id, payload_size, accepted, outcome, net, rx,
                          delivered>>
<1>1. SessionsOnlyEnd
  <2>1. CASE Cancel(n)
    <3>1. PICK id \in 1..MaxMsgId : TxCancel(n, id)
      BY <2>1 DEF Cancel
    <3> QED
      BY <3>1, SlotEnds DEF TxCancel
  <2>2. CASE ClearTx(n)
    BY <2>2, TxType DEF ClearTx, TxClear, SessionsOnlyEnd, SameTransfer, NoSession
  <2> QED
    BY <2>1, <2>2
<1> QED
  BY <1>1 DEF Cancel, ClearTx, TxCancel, TxClear, rxVars

LEMMA TickedEnds ==
    ASSUME NEW t \in TxSession \cup {NoSession}, NEW sent \in BOOLEAN
    PROVE  /\ Ticked(t, sent).active => t.active /\ SameTransfer(Ticked(t, sent), t)
           /\ Expired(t) => ~Ticked(t, sent).active
<1>1. CASE t \in TxSession
  <2>1. Expired(t) => ~SendDue(t) /\ ~AllSent(t)
    BY <1>1, LimitsAssumption DEF Expired, SendDue, AllSent, MaySend, TxSession
  <2>2. SendDue(t) => ~AllSent(t)
    BY <1>1 DEF SendDue, AllSent, TxSession
  <2>3. /\ Expired(t) => Ticked(t, sent) = NoSession
        /\ SendDue(t) => Ticked(t, sent) = IF sent
              THEN [t EXCEPT !.current_frag = @ + 1, !.idle = 0] ELSE t
        /\ AllSent(t) => Ticked(t, sent) =
              [t EXCEPT !.state = "WAITING_DONE", !.idle = 0]
        /\ ~Expired(t) /\ ~SendDue(t) /\ ~AllSent(t) => Ticked(t, sent) = t
    BY <2>1, <2>2 DEF Ticked
  <2>4. t.active
    BY <1>1 DEF TxSession
  <2>5. /\ SameTransfer([t EXCEPT !.current_frag = @ + 1, !.idle = 0], t)
        /\ SameTransfer([t EXCEPT !.state = "WAITING_DONE", !.idle = 0], t)
        /\ SameTransfer(t, t)
    BY <1>1 DEF SameTransfer, TxSession
  <2> QED
    BY <2>1, <2>2, <2>3, <2>4, <2>5 DEF NoSession
<1>2. CASE t = NoSession
  BY <1>2 DEF Ticked, NoSession, Expired, SendDue, AllSent, MaySend
<1> QED
  BY <1>1, <1>2

LEMMA TickTxEnds ==
    ASSUME TypeOK, NEW n \in Senders, TickTx(n)
    PROVE  /\ SessionsOnlyEnd
           /\ \A s \in TxSlots : Expired(tx[n][s]) => ~tx'[n][s].active
<1>1. PICK sent \in Sent(TxSlots) : TxTick(n, sent)
  BY DEF TickTx
<1>2. ASSUME NEW s \in TxSlots
      PROVE  /\ tx'[n][s].active =>
                    tx[n][s].active /\ SameTransfer(tx'[n][s], tx[n][s])
             /\ Expired(tx[n][s]) => ~tx'[n][s].active
  <2>1. tx'[n][s] = Ticked(tx[n][s], s \in sent)
    BY <1>1, TxType DEF TxTick
  <2>2. tx[n][s] \in TxSession \cup {NoSession} /\ (s \in sent) \in BOOLEAN
    BY TxType
  <2> QED
    BY <2>1, <2>2, TickedEnds
<1>3. \A m \in Senders \ {n} : tx'[m] = tx[m]
  BY <1>1, TxType DEF TxTick
<1> QED
  BY <1>2, <1>3 DEF SessionsOnlyEnd, SameTransfer

LEMMA NackEnds ==
    ASSUME TypeOK, NEW f \in net, NEW sent, f.dest \in Senders,
           TxNack(f.dest, f, Receiver, sent)
    PROVE  SessionsOnlyEnd
<1> DEFINE n == f.dest
<1>1. PICK s \in FindTx(n, f.msg_id) : tx' = [tx EXCEPT ![n][s] = Retried(tx[n][s])]
  BY TxNackUpdates DEF TypeOK
<1>2. s \in TxActive(n) /\ s \in TxSlots /\ tx[n][s] \in TxSession
  BY FindTxSession DEF FindTx, First, TypeOK
<1>3. SameTransfer(Retried(tx[n][s]), tx[n][s])
  BY <1>2 DEF SameTransfer, Retried, TxSession
<1> QED
  BY <1>1, <1>2, <1>3, TxType DEF SessionsOnlyEnd, SameTransfer, TxActive

LEMMA ReceiveNackEnds ==
    ASSUME TypeOK, NEW f \in net, ReceiveNack(f)
    PROVE  SessionsOnlyEnd
<1>1. f.dest \in Senders
  BY HeardType DEF ReceiveNack
<1>2. CASE TxIgnore(f.dest, f, Receiver)
  BY <1>2 DEF TxIgnore, Ignored, txVars, SessionsOnlyEnd, SameTransfer
<1>3. CASE TxNackExhausted(f.dest, f, Receiver)
  BY <1>1, <1>3, SlotEnds DEF TxNackExhausted
<1> QED
  BY <1>1, <1>2, <1>3, NackEnds DEF ReceiveNack

LEMMA ReceiveDoneEnds ==
    ASSUME TypeOK, NEW f \in net, ReceiveDone(f)
    PROVE  SessionsOnlyEnd
<1>1. f.dest \in Senders
  BY HeardType DEF ReceiveDone
<1>2. CASE TxIgnore(f.dest, f, Receiver)
  BY <1>2 DEF TxIgnore, Ignored, txVars, SessionsOnlyEnd, SameTransfer
<1>3. CASE TxDone(f.dest, f, Receiver)
  BY <1>1, <1>3, SlotEnds DEF TxDone
<1> QED
  BY <1>2, <1>3 DEF ReceiveDone

LEMMA ClockEnds ==
    ASSUME TypeOK, Clock
    PROVE  SessionsOnlyEnd
<1> SUFFICES ASSUME NEW n \in Senders, NEW s \in TxSlots, tx'[n][s].active
             PROVE  tx[n][s].active /\ SameTransfer(tx'[n][s], tx[n][s])
  BY DEF SessionsOnlyEnd
<1>1. tx'[n][s] = TxAged(tx[n][s])
  BY DEF Clock, TxAge
<1>2. tx[n][s].active
  BY <1>1 DEF TxAged
<1>3. tx[n][s] \in TxSession
  BY <1>2, TxActiveSession DEF TypeOK
<1> QED
  BY <1>1, <1>2, <1>3 DEF TxAged, SameTransfer, TxSession

\* The session a step of frag_tx_send opens is for the message it accepts.
LEMMA SendOpens ==
    ASSUME TypeOK, DefaultPayloadSize, NEW n \in Senders, NEW data \in Data,
           NEW len \in Lens, NEW dest, TxSend(n, data, len, dest)
    PROVE  LET a == [source |-> n, msg_id |-> next_msg_id[n], dest |-> dest,
                     data |-> data, len |-> len]
               t == NewTxSession(n, data, len, dest)
           IN  /\ accepted' = accepted \cup {a}
               /\ IsSending(n, t, a)
               /\ \E s \in TxSlots \ TxActive(n) :
                     \A m \in Senders : \A u \in TxActive(m)' :
                        \/ m = n /\ u = s /\ tx'[m][u] = t
                        \/ u \in TxActive(m) /\ tx'[m][u] = tx[m][u]
<1> DEFINE a == [source |-> n, msg_id |-> next_msg_id[n], dest |-> dest,
                 data |-> data, len |-> len]
           t == NewTxSession(n, data, len, dest)
<1>1. PICK s \in FreeTx(n) : tx' = [tx EXCEPT ![n][s] = t]
  BY DEF TxSend
<1>2. s \in TxSlots \ TxActive(n)
  BY DEF FreeTx, First
<1>3. IsSending(n, t, a)
  BY DEF IsSending, NewTxSession, DefaultPayloadSize
<1>4. accepted' = accepted \cup {a}
  BY DEF TxSend
<1>5. ASSUME NEW m \in Senders, NEW u \in TxActive(m)'
      PROVE  \/ m = n /\ u = s /\ tx'[m][u] = t
             \/ u \in TxActive(m) /\ tx'[m][u] = tx[m][u]
  <2> HIDE DEF t
  <2> QED
    BY <1>1, <1>2, TxType DEF TxActive
<1> HIDE DEF a, t
<1>6. \E q \in TxSlots \ TxActive(n) :
         \A m \in Senders : \A u \in TxActive(m)' :
            \/ m = n /\ u = q /\ tx'[m][u] = t
            \/ u \in TxActive(m) /\ tx'[m][u] = tx[m][u]
  BY <1>2, <1>5
<1> QED
  BY <1>3, <1>4, <1>6 DEF a, t

-----------------------------------------------------------------------------
(* Frames and successes tell the truth: TruthInv is inductive.  Nothing in  *)
(* this argument needs the ids to be unique.                                *)

\* A fragment of a session is a fragment of the message it sends.
LEMMA FragmentTruthful ==
    ASSUME TruthInv, NEW n \in Senders, NEW s \in TxActive(n),
           NEW i \in Nat, i < tx[n][s].frag_cnt
    PROVE  \E a \in accepted : IsFragmentOf(Fragment(n, tx[n][s], i), a)
<1>1. PICK a \in accepted : IsSending(n, tx[n][s], a)
  BY DEF TruthInv, TxMatchesTransfer
<1>2. payload_size[n] = MaxPayload
  BY DEF TruthInv, DefaultPayloadSize
<1>3. i \in 0..(tx[n][s].frag_cnt - 1)
  <2>1. tx[n][s] \in TxSession
    BY TxActiveSession DEF TruthInv, TypeOK, TxActive
  <2>2. tx[n][s].frag_cnt \in Nat
    BY <2>1 DEF TxSession
  <2> QED
    BY <2>2
<1>4. IsFragmentOf(Fragment(n, tx[n][s], i), a)
  BY <1>1, <1>2, <1>3 DEF IsSending, IsFragmentOf, Fragment, DataFrame
<1> QED
  BY <1>4

\* A frame that tells the truth in the next state.
TruthfulNext(f) ==
    /\ f.type = "DATA" => \E a \in accepted' : IsFragmentOf(f, a)
    /\ f.type = "DONE" =>
          \E d \in delivered' : d.source = f.dest /\ d.msg_id = f.msg_id

\* The frames stay truthful when some leave the air and truthful ones enter.
LEMMA NetTruthful ==
    ASSUME TruthInv, accepted \subseteq accepted', delivered \subseteq delivered',
           NEW ms, net' \subseteq net \cup ms, \A f \in ms : TruthfulNext(f)
    PROVE  FramesTruthful'
BY DEF TruthInv, FramesTruthful, TruthfulNext

LEMMA QuietTruthful ==
    ASSUME TruthInv, accepted \subseteq accepted', delivered \subseteq delivered',
           net' \subseteq net
    PROVE  FramesTruthful'
BY DEF TruthInv, FramesTruthful

LEMMA ConsumedNet ==
    ASSUME NEW f \in net, NEW ms, Consume(f, ms)
    PROVE  /\ net' \subseteq net \cup ms
           /\ ms = {} => net' \subseteq net
BY DEF Consume

LEMMA SendTruth ==
    ASSUME TruthInv, NEW n \in Senders, Send(n)
    PROVE  TruthInv'
<1>1. TypeOK'
  BY SendType DEF TruthInv
<1>2. PICK data \in Data, len \in Lens, dest \in {Receiver, Broadcast} :
        TxSend(n, data, len, dest)
  BY DEF Send
<1>3. UNCHANGED <<payload_size, outcome, net, delivered>>
  BY <1>2 DEF Send, TxSend, rxVars
<1> DEFINE a == [source |-> n, msg_id |-> next_msg_id[n], dest |-> dest,
                 data |-> data, len |-> len]
           t == NewTxSession(n, data, len, dest)
<1>4. /\ accepted' = accepted \cup {a} /\ IsSending(n, t, a)
      /\ \E s \in TxSlots \ TxActive(n) :
            \A m \in Senders : \A u \in TxActive(m)' :
               \/ m = n /\ u = s /\ tx'[m][u] = t
               \/ u \in TxActive(m) /\ tx'[m][u] = tx[m][u]
  BY <1>2, SendOpens DEF TruthInv
<1> HIDE DEF a, t
<1>5. TxMatchesTransfer'
  BY <1>4 DEF TruthInv, TxMatchesTransfer
<1>6. FramesTruthful' /\ DefaultPayloadSize' /\ SuccessMeansDelivered'
  BY <1>3, <1>4 DEF TruthInv, FramesTruthful, DefaultPayloadSize, SuccessMeansDelivered
<1> QED
  BY <1>1, <1>5, <1>6 DEF TruthInv

\* Steps that only end sessions.
LEMMA EndTruth ==
    ASSUME TruthInv, TypeOK', SessionsOnlyEnd, UNCHANGED <<payload_size, accepted>>,
           FramesTruthful', SuccessMeansDelivered'
    PROVE  TruthInv'
<1>1. TxMatchesTransfer'
  <2> SUFFICES ASSUME NEW n \in Senders, NEW s \in TxActive(n)'
               PROVE  \E a \in accepted : IsSending(n, tx'[n][s], a)
    BY DEF TxMatchesTransfer
  <2>1. s \in TxActive(n) /\ SameTransfer(tx'[n][s], tx[n][s])
    BY DEF TxActive, SessionsOnlyEnd
  <2>2. PICK a \in accepted : IsSending(n, tx[n][s], a)
    BY <2>1 DEF TruthInv, TxMatchesTransfer
  <2> QED
    BY <2>1, <2>2 DEF IsSending, SameTransfer
<1> QED
  BY <1>1 DEF TruthInv, DefaultPayloadSize

\* Steps that leave the transmitters alone and put truthful frames on the air.
LEMMA AnswerTruth ==
    ASSUME TruthInv, TypeOK', UNCHANGED txVars, delivered \subseteq delivered',
           NEW ms, net' \subseteq net \cup ms, \A f \in ms : TruthfulNext(f)
    PROVE  TruthInv'
<1>1. FramesTruthful'
  BY NetTruthful DEF txVars
<1> QED
  BY <1>1 DEF txVars, TruthInv, DefaultPayloadSize, TxMatchesTransfer, TxActive,
              SuccessMeansDelivered

LEMMA QuietTruth ==
    ASSUME TruthInv, TypeOK', UNCHANGED txVars, delivered \subseteq delivered',
           net' \subseteq net
    PROVE  TruthInv'
<1>1. FramesTruthful'
  BY QuietTruthful DEF txVars
<1> QED
  BY <1>1 DEF txVars, TruthInv, DefaultPayloadSize, TxMatchesTransfer, TxActive,
              SuccessMeansDelivered

LEMMA CancelTruth ==
    ASSUME TruthInv, NEW n \in Senders, Cancel(n) \/ ClearTx(n)
    PROVE  TruthInv'
<1>1. TypeOK'
  BY CancelType DEF TruthInv
<1>2. /\ SessionsOnlyEnd
      /\ UNCHANGED <<payload_size, accepted, outcome, net, delivered>>
  BY CancelEnds DEF TruthInv
<1> QED
  BY <1>1, <1>2, EndTruth DEF TruthInv, FramesTruthful, SuccessMeansDelivered

LEMMA TickTxTruth ==
    ASSUME TruthInv, NEW n \in Senders, TickTx(n)
    PROVE  TruthInv'
<1>1. TypeOK' /\ SessionsOnlyEnd
  BY TickTxType, TickTxEnds DEF TruthInv
<1>2. PICK sent \in Sent(TxSlots) : TxTick(n, sent)
  BY DEF TickTx
<1>3. UNCHANGED <<payload_size, accepted, delivered>>
  BY <1>2 DEF TickTx, TxTick, rxVars
<1>4. FramesTruthful'
  <2> DEFINE ms == {Fragment(n, tx[n][s], tx[n][s].current_frag) :
                       s \in {s \in sent : SendDue(tx[n][s])}}
  <2>1. ASSUME NEW s \in sent, SendDue(tx[n][s])
        PROVE  \E a \in accepted :
                  IsFragmentOf(Fragment(n, tx[n][s], tx[n][s].current_frag), a)
    <3>1. s \in TxActive(n) /\ tx[n][s].current_frag < tx[n][s].frag_cnt
      BY <2>1 DEF Sent, SendDue, MaySend, TxActive
    <3>2. tx[n][s] \in TxSession
      BY <3>1, TxActiveSession DEF TxActive, TruthInv, TypeOK
    <3>3. tx[n][s].current_frag \in Nat
      BY <3>2 DEF TxSession
    <3> QED
      BY <3>1, <3>3, FragmentTruthful
  <2>2. \A f \in ms : TruthfulNext(f)
    BY <1>3, <2>1 DEF Fragment, DataFrame, TruthfulNext
  <2>3. net' \subseteq net \cup ms
    BY <1>2 DEF TxTick, Transmit
  <2> HIDE DEF ms
  <2> QED
    BY <1>3, <2>2, <2>3, NetTruthful
<1>5. SuccessMeansDelivered'
  BY <1>2, <1>3 DEF TxTick, Result, TruthInv, SuccessMeansDelivered
<1> QED
  BY <1>1, <1>3, <1>4, <1>5, EndTruth

LEMMA ReceiveNackTruth ==
    ASSUME TruthInv, NEW f \in net, ReceiveNack(f)
    PROVE  TruthInv'
<1> DEFINE n == f.dest
<1>1. f \in NackFrames /\ n \in Senders
  BY HeardType DEF ReceiveNack, TruthInv
<1>2. TypeOK' /\ SessionsOnlyEnd
  BY ReceiveNackType, ReceiveNackEnds DEF TruthInv
<1>3. UNCHANGED <<payload_size, accepted, delivered>>
  BY DEF ReceiveNack, TxIgnore, Ignored, txVars, TxNackExhausted, TxNack, rxVars
<1>4. CASE TxIgnore(n, f, Receiver) \/ TxNackExhausted(n, f, Receiver)
  <2>1. Consume(f, {}) /\ \A o \in outcome' : o \in outcome \/ ~o.success
    <3>1. CASE TxIgnore(n, f, Receiver)
      BY <3>1 DEF TxIgnore, Ignored, txVars
    <3>2. CASE TxNackExhausted(n, f, Receiver)
      BY <3>2 DEF TxNackExhausted, Result
    <3> QED
      BY <1>4, <3>1, <3>2
  <2>2. net' \subseteq net
    BY <2>1, ConsumedNet
  <2>3. FramesTruthful' /\ SuccessMeansDelivered'
    BY <1>3, <2>1, <2>2, QuietTruthful DEF TruthInv, SuccessMeansDelivered
  <2> QED
    BY <1>2, <1>3, <2>3, EndTruth
<1>5. ASSUME NEW sent \in Sent(f.missing), TxNack(n, f, Receiver, sent)
      PROVE  TruthInv'
  <2> DEFINE again(s) == {Fragment(n, tx[n][s], i) :
                i \in {i \in f.missing \cap sent : i < tx[n][s].frag_cnt}}
  <2>1. PICK s \in FindTx(n, f.msg_id) : Consume(f, again(s))
    BY <1>5 DEF TxNack
  <2>2. s \in TxActive(n) /\ f.missing \subseteq Nat
    BY <1>1 DEF FindTx, First, NackFrames
  <2>3. \A g \in again(s) : TruthfulNext(g)
    BY <1>1, <1>3, <2>2, FragmentTruthful DEF Fragment, DataFrame, TruthfulNext
  <2>4. net' \subseteq net \cup again(s)
    BY <2>1, ConsumedNet
  <2>5. SuccessMeansDelivered'
    BY <1>3, <1>5 DEF TxNack, TruthInv, SuccessMeansDelivered
  <2> HIDE DEF again
  <2>6. FramesTruthful'
    BY <1>3, <2>3, <2>4, NetTruthful
  <2> QED
    BY <1>2, <1>3, <2>5, <2>6, EndTruth
<1> QED
  BY <1>4, <1>5 DEF ReceiveNack

LEMMA ReceiveDoneTruth ==
    ASSUME TruthInv, NEW f \in net, ReceiveDone(f)
    PROVE  TruthInv'
<1>1. f.dest \in Senders
  BY HeardType DEF ReceiveDone, TruthInv
<1>2. TypeOK' /\ SessionsOnlyEnd
  BY ReceiveDoneType, ReceiveDoneEnds DEF TruthInv
<1>3. /\ UNCHANGED <<payload_size, accepted, delivered>>
      /\ Consume(f, {})
  BY DEF ReceiveDone, TxIgnore, Ignored, txVars, TxDone, rxVars
<1>4. FramesTruthful'
  <2>1. net' \subseteq net
    BY <1>3, ConsumedNet
  <2> QED
    BY <1>3, <2>1, QuietTruthful
<1>5. \A o \in outcome' : \/ o \in outcome
                          \/ o.source = f.dest /\ o.msg_id = f.msg_id
  <2>1. CASE TxIgnore(f.dest, f, Receiver)
    BY <2>1 DEF TxIgnore, Ignored, txVars
  <2>2. CASE TxDone(f.dest, f, Receiver)
    <3>1. PICK s \in FindTx(f.dest, f.msg_id) :
            outcome' = outcome \cup {Result(f.dest, tx[f.dest][s], TRUE)}
      BY <2>2 DEF TxDone
    <3>2. tx[f.dest][s].msg_id = f.msg_id
      BY DEF FindTx, First
    <3> QED
      BY <3>1, <3>2 DEF Result
  <2> QED
    BY <2>1, <2>2 DEF ReceiveDone
<1>6. \E d \in delivered : d.source = f.dest /\ d.msg_id = f.msg_id
  BY DEF ReceiveDone, TruthInv, FramesTruthful
<1>7. SuccessMeansDelivered'
  BY <1>3, <1>5, <1>6 DEF TruthInv, SuccessMeansDelivered
<1> QED
  BY <1>2, <1>3, <1>4, <1>7, EndTruth

\* DONE is sent with the delivery it reports.
LEMMA ReceiveDataTruth ==
    ASSUME TruthInv, NEW f \in net, ReceiveData(f)
    PROVE  TruthInv'
<1>1. TypeOK' /\ UNCHANGED txVars
  BY ReceiveDataType DEF ReceiveData, TruthInv
<1>2. CASE RxIgnore(f) \/ RxStore(f)
  <2>1. UNCHANGED delivered /\ Consume(f, {})
    BY <1>2 DEF RxIgnore, RxStore, rxVars
  <2>2. net' \subseteq net
    BY <2>1, ConsumedNet
  <2> QED
    BY <1>1, <2>1, <2>2, QuietTruth
<1>3. CASE RxLastFragment(f)
  <2>1. PICK p \in PlaceFor(f) : Consume(f, NackFor(Stored(p[2], f)))
    BY <1>3 DEF RxLastFragment
  <2>2. \A g \in NackFor(Stored(p[2], f)) : TruthfulNext(g)
    BY DEF NackFor, NackFrame, TruthfulNext
  <2>3. UNCHANGED delivered
    BY <1>3 DEF RxLastFragment
  <2>4. net' \subseteq net \cup NackFor(Stored(p[2], f))
    BY <2>1, ConsumedNet
  <2> QED
    BY <1>1, <2>2, <2>3, <2>4, AnswerTruth
<1>4. CASE RxComplete(f)
  <2> DEFINE made(r) == [source |-> r.source, msg_id |-> r.msg_id,
                         len |-> r.total_len, buffer |-> r.buffer]
             done(r) == DoneFrame(r.source, r.msg_id)
  <2>1. PICK p \in PlaceFor(f) :
          /\ delivered' = delivered \cup {made(Stored(p[2], f))}
          /\ Consume(f, {done(Stored(p[2], f))})
    BY <1>4 DEF RxComplete
  <2>2. TruthfulNext(done(Stored(p[2], f)))
    <3>1. /\ made(Stored(p[2], f)).source = done(Stored(p[2], f)).dest
          /\ made(Stored(p[2], f)).msg_id = done(Stored(p[2], f)).msg_id
          /\ done(Stored(p[2], f)).type = "DONE"
      BY DEF DoneFrame
    <3> HIDE DEF made, done
    <3> QED
      BY <2>1, <3>1 DEF TruthfulNext
  <2>3. net' \subseteq net \cup {done(Stored(p[2], f))}
    BY <2>1, ConsumedNet
  <2> HIDE DEF made, done
  <2> QED
    BY <1>1, <2>1, <2>2, <2>3, AnswerTruth
<1> QED
  BY <1>2, <1>3, <1>4 DEF ReceiveData, RxData

LEMMA TickRxTruth ==
    ASSUME TruthInv, TypeOK', TickRx
    PROVE  TruthInv'
<1> DEFINE ms == UNION {NackFor(rx[s]) : s \in {s \in RxSlots : NackDue(rx[s])}}
<1>1. UNCHANGED txVars /\ UNCHANGED delivered /\ net' \subseteq net \cup ms
  BY DEF TickRx, RxTick, Transmit
<1>2. \A g \in ms : TruthfulNext(g)
  BY DEF NackFor, NackFrame, TruthfulNext
<1> HIDE DEF ms
<1> QED
  BY <1>1, <1>2, AnswerTruth

LEMMA ClockTruth ==
    ASSUME TruthInv, TypeOK', Clock
    PROVE  TruthInv'
<1>1. SessionsOnlyEnd
  BY ClockEnds DEF TruthInv
<1>2. UNCHANGED <<payload_size, accepted, net, outcome, delivered>>
  BY DEF Clock
<1> QED
  BY <1>1, <1>2, EndTruth DEF TruthInv, FramesTruthful, SuccessMeansDelivered

LEMMA InitTruth == Init => TruthInv
<1> SUFFICES ASSUME Init PROVE TruthInv
  OBVIOUS
<1>1. TypeOK
  BY InitType
<1>2. \A n \in Senders : TxActive(n) = {}
  BY DEF Init, TxInit, TxActive, NoSession
<1> QED
  BY <1>1, <1>2 DEF Init, TxInit, RxInit, TruthInv, DefaultPayloadSize,
     TxMatchesTransfer, FramesTruthful, SuccessMeansDelivered

LEMMA TruthStep == TruthInv /\ [Next]_vars => TruthInv'
<1> SUFFICES ASSUME TruthInv, [Next]_vars
             PROVE  TruthInv'
  OBVIOUS
<1>0. TypeOK'
  BY StepType DEF TruthInv
<1>1. ASSUME NEW n \in Senders, Send(n) \/ Cancel(n) \/ ClearTx(n) \/ TickTx(n)
      PROVE  TruthInv'
  BY <1>1, SendTruth, CancelTruth, TickTxTruth
<1>2. CASE ClearRx
  BY <1>0, <1>2, QuietTruth DEF ClearRx, RxClear
<1>3. CASE TickRx
  BY <1>0, <1>3, TickRxTruth
<1>4. ASSUME NEW f \in net, Receive(f)
      PROVE  TruthInv'
  BY <1>4, ReceiveDataTruth, ReceiveNackTruth, ReceiveDoneTruth DEF Receive
<1>5. ASSUME NEW f \in net, Lose(f)
      PROVE  TruthInv'
  <2>1. UNCHANGED txVars /\ UNCHANGED delivered /\ net' \subseteq net
    BY <1>5 DEF Lose, rxVars
  <2> QED
    BY <1>0, <2>1, QuietTruth
<1>6. CASE Clock
  BY <1>0, <1>6, ClockTruth
<1>7. CASE UNCHANGED vars
  <2>1. UNCHANGED txVars /\ UNCHANGED delivered /\ net' \subseteq net
    BY <1>7 DEF vars, txVars
  <2> QED
    BY <1>0, <2>1, QuietTruth
<1> QED
  BY <1>1, <1>2, <1>3, <1>4, <1>5, <1>6, <1>7 DEF Next

-----------------------------------------------------------------------------
(* Steps of the receiver other than frag_rx_process on a DATA frame only    *)
(* end its sessions, and hand on nothing.                                   *)

\* Every session in use was in use before, with the same parts of the same
\* transfer.
SessionsGoOn ==
    \A s \in RxSlots : rx'[s].active => rx[s].active /\ SameParts(rx'[s], rx[s])

LEMMA RxUnchangedGoesOn ==
    ASSUME UNCHANGED rx
    PROVE  SessionsGoOn
BY DEF SessionsGoOn, SameParts

\* Asking for fragments, and giving up, leave the contents of a session alone.
LEMMA AfterNackParts ==
    ASSUME NEW r \in RxSession
    PROVE  /\ AfterNack(r).active => SameParts(AfterNack(r), r)
           /\ ~GivesUp(r) => SameParts([AfterNack(r) EXCEPT !.idle = 0], r)
<1>1. GivesUp(r) => ~AfterNack(r).active
  BY DEF AfterNack, NoSession
<1> QED
  BY <1>1, AfterNackSame

LEMMA TickRxGoesOn ==
    ASSUME TypeOK, TickRx
    PROVE  SessionsGoOn /\ UNCHANGED delivered
<1>1. ASSUME NEW s \in RxSlots, rx'[s].active
      PROVE  rx[s].active /\ SameParts(rx'[s], rx[s])
  <2>1. rx'[s] = RxTicked(rx[s])
    BY DEF TickRx, RxTick
  <2>2. rx[s].active
    BY <1>1, <2>1 DEF RxTicked, NackDue
  <2>3. rx[s] \in RxSession
    BY <2>2, RxActiveSession DEF TypeOK
  <2>4. \/ rx'[s] = rx[s]
        \/ ~GivesUp(rx[s]) /\ rx'[s] = [AfterNack(rx[s]) EXCEPT !.idle = 0]
    BY <1>1, <2>1 DEF RxTicked, NoSession
  <2>5. SameParts(rx[s], rx[s])
    BY DEF SameParts
  <2> QED
    BY <2>2, <2>3, <2>4, <2>5, AfterNackParts
<1> QED
  BY <1>1 DEF SessionsGoOn, TickRx, RxTick

LEMMA ClockGoesOn ==
    ASSUME TypeOK, Clock
    PROVE  SessionsGoOn /\ UNCHANGED delivered
<1>1. ASSUME NEW s \in RxSlots, rx'[s].active
      PROVE  rx[s].active /\ SameParts(rx'[s], rx[s])
  <2>1. rx'[s] = RxAged(rx[s])
    BY DEF Clock, RxAge
  <2>2. rx[s].active
    BY <1>1, <2>1 DEF RxAged
  <2>3. rx[s] \in RxSession
    BY <2>2, RxActiveSession DEF TypeOK
  <2> QED
    BY <2>1, <2>2, <2>3 DEF RxAged, SameParts, RxSession
<1> QED
  BY <1>1 DEF SessionsGoOn, Clock

LEMMA ClearRxGoesOn ==
    ASSUME ClearRx
    PROVE  SessionsGoOn /\ UNCHANGED delivered
BY DEF ClearRx, RxClear, NoSession, SessionsGoOn

\* What complete_message hands to on_message.
Made(r) == [source |-> r.source, msg_id |-> r.msg_id,
            len |-> r.total_len, buffer |-> r.buffer]

\* A DATA frame is stored in at most one session; the sessions that remain
\* are short of fragments, and the message handed on is not.
LEMMA ReceiveDataStores ==
    ASSUME TypeOK, NEW f \in net, ReceiveData(f)
    PROVE  /\ \A s \in RxSlots : rx'[s].active =>
                 \/ rx[s].active /\ SameParts(rx'[s], rx[s])
                 \/ \E p \in PlaceFor(f) : /\ SameParts(rx'[s], Stored(p[2], f))
                                           /\ ~IsComplete(Stored(p[2], f))
           /\ \/ delivered' = delivered
              \/ \E p \in PlaceFor(f) :
                    /\ IsComplete(Stored(p[2], f))
                    /\ delivered' = delivered \cup {Made(Stored(p[2], f))}
<1>1. f \in DataFrames /\ rx \in [RxSlots -> RxSession \cup {NoSession}]
  BY HeardType DEF ReceiveData, TypeOK, RxTypeOK
<1>2. \A q : SameParts(q, q)
  BY DEF SameParts
<1>3. ASSUME NEW p \in PlaceFor(f)
      PROVE  p[1] \in RxSlots /\ Stored(p[2], f) \in RxSession
  BY <1>1, PlaceType, StoredType DEF TypeOK
<1>4. ASSUME NEW p \in PlaceFor(f), NEW r, rx' = [rx EXCEPT ![p[1]] = r],
             r.active => /\ SameParts(r, Stored(p[2], f))
                         /\ ~IsComplete(Stored(p[2], f))
      PROVE  \A s \in RxSlots : rx'[s].active =>
                 \/ rx[s].active /\ SameParts(rx'[s], rx[s])
                 \/ \E q \in PlaceFor(f) : /\ SameParts(rx'[s], Stored(q[2], f))
                                           /\ ~IsComplete(Stored(q[2], f))
  <2> SUFFICES ASSUME NEW s \in RxSlots, rx'[s].active
               PROVE  \/ rx[s].active /\ SameParts(rx'[s], rx[s])
                      \/ /\ SameParts(rx'[s], Stored(p[2], f))
                         /\ ~IsComplete(Stored(p[2], f))
    OBVIOUS
  <2>1. CASE s = p[1]
    BY <1>1, <1>4, <2>1
  <2>2. CASE s # p[1]
    BY <1>1, <1>2, <1>4, <2>2
  <2> QED
    BY <2>1, <2>2
<1>5. CASE RxIgnore(f)
  BY <1>2, <1>5 DEF RxIgnore, rxVars
<1>6. CASE RxStore(f)
  <2>1. PICK p \in PlaceFor(f) : /\ ~IsComplete(Stored(p[2], f))
                                 /\ rx' = [rx EXCEPT ![p[1]] = Stored(p[2], f)]
    BY <1>6 DEF RxStore
  <2>2. UNCHANGED delivered
    BY <1>6 DEF RxStore
  <2> QED
    BY <1>2, <1>4, <2>1, <2>2
<1>7. CASE RxLastFragment(f)
  <2>1. PICK p \in PlaceFor(f) :
          /\ ~IsComplete(Stored(p[2], f))
          /\ rx' = [rx EXCEPT ![p[1]] = AfterNack(Stored(p[2], f))]
    BY <1>7 DEF RxLastFragment
  <2>2. UNCHANGED delivered
    BY <1>7 DEF RxLastFragment
  <2>3. AfterNack(Stored(p[2], f)).active =>
            SameParts(AfterNack(Stored(p[2], f)), Stored(p[2], f))
    BY <1>3, AfterNackParts
  <2> QED
    BY <1>4, <2>1, <2>2, <2>3
<1>8. CASE RxComplete(f)
  <2>1. PICK p \in PlaceFor(f) :
          /\ IsComplete(Stored(p[2], f))
          /\ rx' = [rx EXCEPT ![p[1]] = NoSession]
          /\ delivered' = delivered \cup {Made(Stored(p[2], f))}
    BY <1>8 DEF RxComplete, Made
  <2>2. ~NoSession.active
    BY DEF NoSession
  <2> QED
    BY <1>4, <2>1, <2>2
<1> QED
  BY <1>5, <1>6, <1>7, <1>8 DEF ReceiveData, RxData

-----------------------------------------------------------------------------
(* The safety properties: IndInv is inductive, and implies Integrity,       *)
(* OneOutcome and SessionMatchesTransfer.                                   *)

LEMMA SlotsStayDistinct ==
    ASSUME TxSlotsDistinct, SessionsOnlyEnd
    PROVE  TxSlotsDistinct'
<1>1. ASSUME NEW n \in Senders, NEW s \in TxActive(n)'
      PROVE  s \in TxActive(n) /\ SameTransfer(tx'[n][s], tx[n][s])
  BY DEF TxActive, SessionsOnlyEnd
<1> QED
  BY <1>1 DEF TxSlotsDistinct, SameTransfer

\* What was reported stays over when sessions only end.
LEMMA OutcomesStayFinal ==
    ASSUME IndInv, SessionsOnlyEnd, UNCHANGED <<next_msg_id, outcome>>
    PROVE  OutcomesFinal'
<1>1. \A o \in outcome : o.source \in Senders
  BY DEF IndInv, TruthInv, TypeOK, TxTypeOK, Outcome
<1> QED
  BY <1>1 DEF IndInv, OutcomesFinal, SessionsOnlyEnd, SameTransfer, TxActive

\* Ending the sessions of some slots and reporting them, once each.
LEMMA Concluding ==
    ASSUME IndInv, SessionsOnlyEnd, UNCHANGED <<accepted, next_msg_id>>,
           NEW n \in Senders, NEW D \in SUBSET TxActive(n), NEW success \in BOOLEAN,
           \A s \in D : ~tx'[n][s].active,
           outcome' = outcome \cup {Result(n, tx[n][s], success) : s \in D}
    PROVE  OutcomesFinal' /\ OneOutcome'
<1>1. ASSUME NEW s \in TxActive(n)
      PROVE  /\ tx[n][s].msg_id < next_msg_id[n]
             /\ \A o \in outcome : o.source = n => o.msg_id # tx[n][s].msg_id
  BY DEF IndInv, TruthInv, TxMatchesTransfer, IsSending, IdsUnique, OutcomesFinal
<1>2. OutcomesFinal'
  <2> SUFFICES ASSUME NEW o \in outcome'
               PROVE  /\ o.msg_id < next_msg_id[o.source]
                      /\ \A t \in TxActive(o.source)' : tx'[o.source][t].msg_id # o.msg_id
    BY DEF OutcomesFinal
  <2>1. CASE o \in outcome
    <3>1. o.source \in Senders
      BY <2>1 DEF IndInv, TruthInv, TypeOK, TxTypeOK, Outcome
    <3> QED
      BY <2>1, <3>1 DEF IndInv, OutcomesFinal, SessionsOnlyEnd, SameTransfer, TxActive
  <2>2. ASSUME NEW s \in D, o = Result(n, tx[n][s], success)
        PROVE  /\ o.msg_id < next_msg_id[o.source]
               /\ \A t \in TxActive(o.source)' : tx'[o.source][t].msg_id # o.msg_id
    <3>1. o.source = n /\ o.msg_id = tx[n][s].msg_id
      BY <2>2 DEF Result
    <3>2. ASSUME NEW t \in TxActive(n)'
          PROVE  tx'[n][t].msg_id # o.msg_id
      <4>1. t \in TxActive(n) /\ tx'[n][t].msg_id = tx[n][t].msg_id /\ t # s
        BY <2>2 DEF TxActive, SessionsOnlyEnd, SameTransfer
      <4> QED
        BY <3>1, <4>1 DEF IndInv, TxSlotsDistinct
    <3> QED
      BY <1>1, <3>1, <3>2
  <2> QED
    BY <2>1, <2>2
<1>3. OneOutcome'
  <2> SUFFICES ASSUME NEW o1 \in outcome', NEW o2 \in outcome',
                      o1.source = o2.source, o1.msg_id = o2.msg_id
               PROVE  o1 = o2
    BY DEF OneOutcome
  <2>1. CASE o1 \in outcome /\ o2 \in outcome
    BY <2>1 DEF IndInv, OneOutcome
  <2>2. ASSUME NEW s \in D, o1 = Result(n, tx[n][s], success)
        PROVE  o1 = o2
    <3>1. o2 \notin outcome
      BY <1>1, <2>2 DEF Result
    <3>2. PICK t \in D : o2 = Result(n, tx[n][t], success)
      BY <3>1
    <3> QED
      BY <2>2, <3>2 DEF Result
  <2>3. ASSUME NEW s \in D, o2 = Result(n, tx[n][s], success)
        PROVE  o1 = o2
    <3>1. o1 \notin outcome
      BY <1>1, <2>3 DEF Result
    <3>2. PICK t \in D : o1 = Result(n, tx[n][t], success)
      BY <3>1
    <3> QED
      BY <2>3, <3>2 DEF Result
  <2> QED
    BY <2>1, <2>2, <2>3
<1> QED
  BY <1>2, <1>3

\* Session r is under way for an accepted message.
UnderWay(r) == ~IsComplete(r) /\ \E a \in accepted : IsPartOf(r, a)

LEMMA SamePartsUnderWay ==
    ASSUME NEW q, NEW r, SameParts(q, r), UnderWay(r)
    PROVE  UnderWay(q)
BY DEF SameParts, UnderWay, IsComplete, Missing, IsPartOf

\* The invariants of the receiver hold on while its sessions go on.
LEMMA GoingOnSafe ==
    ASSUME IndInv, SessionsGoOn, UNCHANGED delivered, accepted \subseteq accepted'
    PROVE  SessionMatchesTransfer' /\ Integrity'
<1>1. ASSUME NEW s \in RxSlots, rx'[s].active
      PROVE  UnderWay(rx'[s])
  <2>1. rx[s].active /\ SameParts(rx'[s], rx[s])
    BY <1>1 DEF SessionsGoOn
  <2>2. UnderWay(rx[s])
    BY <2>1 DEF IndInv, SessionMatchesTransfer, RxActive, UnderWay
  <2> QED
    BY <2>1, <2>2, SamePartsUnderWay
<1>2. SessionMatchesTransfer'
  BY <1>1 DEF SessionMatchesTransfer, RxActive, UnderWay, IsComplete, Missing
<1> QED
  BY <1>2 DEF IndInv, Integrity

LEMMA ReceiverUntouched ==
    ASSUME IndInv, UNCHANGED rxVars, accepted \subseteq accepted'
    PROVE  SessionMatchesTransfer' /\ Integrity'
BY GoingOnSafe, RxUnchangedGoesOn DEF rxVars

\* The invariants of the transmitters do not depend on the receiver.
LEMMA TransmitterUntouched ==
    ASSUME IndInv, UNCHANGED txVars
    PROVE  IdsUnique' /\ TxSlotsDistinct' /\ OutcomesFinal' /\ OneOutcome'
BY DEF IndInv, txVars, IdsUnique, TxSlotsDistinct, OutcomesFinal, OneOutcome, TxActive

-----------------------------------------------------------------------------
(* One lemma per action. *)

LEMMA SendSafe ==
    ASSUME IndInv, TruthInv', NEW n \in Senders, Send(n)
    PROVE  IndInv'
<1>1. PICK data \in Data, len \in Lens, dest \in {Receiver, Broadcast} :
        TxSend(n, data, len, dest)
  BY DEF Send
<1> DEFINE a == [source |-> n, msg_id |-> next_msg_id[n], dest |-> dest,
                 data |-> data, len |-> len]
           t == NewTxSession(n, data, len, dest)
<1>2. t.msg_id = next_msg_id[n]
  BY DEF NewTxSession
<1> HIDE DEF t
<1>3. /\ accepted' = accepted \cup {a} /\ IsSending(n, t, a)
      /\ \E s \in TxSlots \ TxActive(n) :
            \A m \in Senders : \A u \in TxActive(m)' :
               \/ m = n /\ u = s /\ tx'[m][u] = t
               \/ u \in TxActive(m) /\ tx'[m][u] = tx[m][u]
  BY <1>1, SendOpens DEF IndInv, TruthInv, t
<1>4. PICK s \in TxSlots \ TxActive(n) :
        \A m \in Senders : \A u \in TxActive(m)' :
           \/ m = n /\ u = s /\ tx'[m][u] = t
           \/ u \in TxActive(m) /\ tx'[m][u] = tx[m][u]
  BY <1>3
<1>5. UNCHANGED <<outcome, rxVars>> /\ len \in 1..MaxMessageSize
  BY <1>1 DEF Send, TxSend
<1>6. /\ next_msg_id[n] \in 1..MaxMsgId
      /\ next_msg_id' = [next_msg_id EXCEPT ![n] = next_msg_id[n] + 1]
      /\ next_msg_id \in [Senders -> 1..MaxMsgId]
  <2>1. /\ next_msg_id[n] \in 1..MaxMsgId /\ next_msg_id[n] < MaxMsgId
        /\ next_msg_id \in [Senders -> 1..MaxMsgId]
    BY DEF Send, IndInv, TruthInv, TypeOK, TxTypeOK
  <2> QED
    BY <1>1, <2>1, NextMsgIdStep DEF TxSend
<1>7. ASSUME NEW u \in TxActive(n)
      PROVE  tx[n][u].msg_id < next_msg_id[n]
  BY DEF IndInv, TruthInv, IdsUnique, TxMatchesTransfer, IsSending
<1>8. IdsUnique'
  <2>1. \A b \in accepted : /\ b.source = n => b.msg_id < next_msg_id[n]
                            /\ b.msg_id \in Nat /\ b.source \in Senders
                            /\ b.len \in 1..MaxMessageSize
                            /\ b.msg_id < next_msg_id[b.source]
    BY DEF IndInv, TruthInv, IdsUnique, TypeOK, TxTypeOK, Message
  <2> QED
    BY <1>3, <1>5, <1>6, <2>1 DEF IndInv, IdsUnique
<1>9. TxSlotsDistinct'
  <2> SUFFICES ASSUME NEW m \in Senders, NEW u \in TxActive(m)', NEW v \in TxActive(m)',
                      tx'[m][u].msg_id = tx'[m][v].msg_id
               PROVE  u = v
    BY DEF TxSlotsDistinct
  <2>1. \A w \in TxActive(n) : tx[n][w].msg_id # next_msg_id[n]
    BY <1>6, <1>7
  <2> QED
    BY <1>2, <1>4, <2>1 DEF IndInv, TxSlotsDistinct
<1>10. OutcomesFinal'
  <2> SUFFICES ASSUME NEW o \in outcome
               PROVE  /\ o.msg_id < next_msg_id'[o.source]
                      /\ \A u \in TxActive(o.source)' : tx'[o.source][u].msg_id # o.msg_id
    BY <1>5 DEF OutcomesFinal
  <2>1. /\ o.source \in Senders /\ o.msg_id \in Nat
        /\ o.msg_id < next_msg_id[o.source]
    BY DEF IndInv, TruthInv, OutcomesFinal, TypeOK, TxTypeOK, Outcome
  <2> QED
    BY <1>2, <1>4, <1>6, <2>1 DEF IndInv, OutcomesFinal
<1>11. SessionMatchesTransfer' /\ Integrity'
  BY <1>3, <1>5, ReceiverUntouched
<1>12. OneOutcome'
  BY <1>5 DEF IndInv, OneOutcome
<1> QED
  BY <1>8, <1>9, <1>10, <1>11, <1>12 DEF IndInv

\* Steps that end sessions without a report.
LEMMA QuietEndSafe ==
    ASSUME IndInv, TruthInv', SessionsOnlyEnd,
           UNCHANGED <<next_msg_id, accepted, outcome>>,
           SessionMatchesTransfer', Integrity'
    PROVE  IndInv'
<1>1. TxSlotsDistinct' /\ OutcomesFinal'
  BY SlotsStayDistinct, OutcomesStayFinal DEF IndInv
<1> QED
  BY <1>1 DEF IndInv, IdsUnique, OneOutcome

LEMMA CancelSafe ==
    ASSUME IndInv, TruthInv', NEW n \in Senders, Cancel(n) \/ ClearTx(n)
    PROVE  IndInv'
<1>1. /\ SessionsOnlyEnd
      /\ UNCHANGED <<next_msg_id, accepted, outcome, rx, delivered>>
  BY CancelEnds DEF IndInv, TruthInv
<1> QED
  BY <1>1, ReceiverUntouched, QuietEndSafe DEF rxVars

\* Sessions of transmitter n end with a report.
LEMMA ReportSafe ==
    ASSUME IndInv, TruthInv', SessionsOnlyEnd,
           NEW n \in Senders, NEW D \in SUBSET TxActive(n), NEW success \in BOOLEAN,
           \A s \in D : ~tx'[n][s].active,
           outcome' = outcome \cup {Result(n, tx[n][s], success) : s \in D},
           UNCHANGED <<next_msg_id, accepted, rxVars>>
    PROVE  IndInv'
<1>1. TxSlotsDistinct' /\ OutcomesFinal' /\ OneOutcome'
  BY SlotsStayDistinct, Concluding DEF IndInv
<1>2. SessionMatchesTransfer' /\ Integrity'
  BY ReceiverUntouched
<1> QED
  BY <1>1, <1>2 DEF IndInv, IdsUnique

LEMMA TickTxSafe ==
    ASSUME IndInv, TruthInv', NEW n \in Senders, TickTx(n)
    PROVE  IndInv'
<1> DEFINE D == {s \in TxSlots : Expired(tx[n][s])}
<1>1. SessionsOnlyEnd /\ \A s \in D : ~tx'[n][s].active
  BY TickTxEnds DEF IndInv, TruthInv
<1>2. D \in SUBSET TxActive(n)
  BY DEF Expired, TxActive
<1>3. /\ outcome' = outcome \cup {Result(n, tx[n][s], FALSE) : s \in D}
      /\ UNCHANGED <<next_msg_id, accepted, rxVars>>
  BY DEF TickTx, TxTick
<1> HIDE DEF D
<1> QED
  BY <1>1, <1>2, <1>3, ReportSafe

\* The session a frame is for ends with a report.
LEMMA EndSafe ==
    ASSUME IndInv, TruthInv', NEW n \in Senders, NEW id, NEW s \in FindTx(n, id),
           NEW success \in BOOLEAN,
           tx' = [tx EXCEPT ![n][s] = NoSession],
           outcome' = outcome \cup {Result(n, tx[n][s], success)},
           UNCHANGED <<next_msg_id, accepted, rxVars>>
    PROVE  IndInv'
<1> DEFINE D == {s}
<1>1. SessionsOnlyEnd /\ s \in TxActive(n) /\ ~tx'[n][s].active
  <2>1. TypeOK
    BY DEF IndInv, TruthInv
  <2> QED
    BY <2>1, SlotEnds
<1>2. D \in SUBSET TxActive(n) /\ \A u \in D : ~tx'[n][u].active
  BY <1>1
<1>3. outcome' = outcome \cup {Result(n, tx[n][u], success) : u \in D}
  OBVIOUS
<1> HIDE DEF D
<1> QED
  BY <1>1, <1>2, <1>3, ReportSafe

LEMMA ReceiveNackSafe ==
    ASSUME IndInv, TruthInv', NEW f \in net, ReceiveNack(f)
    PROVE  IndInv'
<1> DEFINE n == f.dest
<1>1. n \in Senders
  BY HeardType DEF ReceiveNack, IndInv, TruthInv
<1>2. SessionsOnlyEnd /\ UNCHANGED rxVars
  BY ReceiveNackEnds DEF ReceiveNack, IndInv, TruthInv
<1>3. CASE TxIgnore(n, f, Receiver)
  BY <1>2, <1>3, ReceiverUntouched, QuietEndSafe DEF TxIgnore, Ignored, txVars
<1>4. CASE TxNackExhausted(n, f, Receiver)
  <2>1. PICK s \in FindTx(n, f.msg_id) :
          /\ tx' = [tx EXCEPT ![n][s] = NoSession]
          /\ outcome' = outcome \cup {Result(n, tx[n][s], FALSE)}
    BY <1>4 DEF TxNackExhausted
  <2>2. UNCHANGED <<next_msg_id, accepted, rxVars>>
    BY <1>2, <1>4 DEF TxNackExhausted
  <2> QED
    BY <1>1, <2>1, <2>2, EndSafe
<1>5. ASSUME NEW sent \in Sent(f.missing), TxNack(n, f, Receiver, sent)
      PROVE  IndInv'
  <2>1. UNCHANGED <<next_msg_id, accepted, outcome>>
    BY <1>5 DEF TxNack
  <2> QED
    BY <1>2, <2>1, ReceiverUntouched, QuietEndSafe
<1> QED
  BY <1>3, <1>4, <1>5 DEF ReceiveNack

LEMMA ReceiveDoneSafe ==
    ASSUME IndInv, TruthInv', NEW f \in net, ReceiveDone(f)
    PROVE  IndInv'
<1> DEFINE n == f.dest
<1>1. n \in Senders
  BY HeardType DEF ReceiveDone, IndInv, TruthInv
<1>2. SessionsOnlyEnd /\ UNCHANGED rxVars
  BY ReceiveDoneEnds DEF ReceiveDone, IndInv, TruthInv
<1>3. CASE TxIgnore(n, f, Receiver)
  BY <1>2, <1>3, ReceiverUntouched, QuietEndSafe DEF TxIgnore, Ignored, txVars
<1>4. CASE TxDone(n, f, Receiver)
  <2>1. PICK s \in FindTx(n, f.msg_id) :
          /\ tx' = [tx EXCEPT ![n][s] = NoSession]
          /\ outcome' = outcome \cup {Result(n, tx[n][s], TRUE)}
    BY <1>4 DEF TxDone
  <2>2. UNCHANGED <<next_msg_id, accepted, rxVars>>
    BY <1>2, <1>4 DEF TxDone
  <2> QED
    BY <1>1, <2>1, <2>2, EndSafe
<1> QED
  BY <1>3, <1>4 DEF ReceiveDone

\* A fragment and the session it is stored in belong to one message.
LEMMA PlaceGenuine ==
    ASSUME IndInv, NEW f \in net, f.type = "DATA", NEW p \in PlaceFor(f)
    PROVE  \E a \in accepted : IsFragmentOf(f, a) /\ IsPartOf(p[2], a)
<1>1. PICK a \in accepted : IsFragmentOf(f, a)
  BY DEF IndInv, TruthInv, FramesTruthful
<1>2. p \in SessionFor(f)
  BY DEF PlaceFor
<1>3. CASE FindRx(f) # {}
  <2>1. PICK s \in FindRx(f) : p = <<s, rx[s]>>
    BY <1>2, <1>3 DEF SessionFor
  <2>2. s \in RxActive /\ rx[s].source = f.source /\ rx[s].msg_id = f.msg_id
    BY DEF FindRx, First
  <2>3. PICK b \in accepted : IsPartOf(rx[s], b)
    BY <2>2 DEF IndInv, SessionMatchesTransfer
  <2>4. a = b
    BY <1>1, <2>2, <2>3 DEF IsFragmentOf, IsPartOf, IndInv, IdsUnique
  <2> QED
    BY <1>1, <2>1, <2>3, <2>4
<1>4. CASE FindRx(f) = {}
  <2>1. p[2] = NewRxSession(f)
    BY <1>2, <1>4 DEF SessionFor
  <2> QED
    BY <1>1, <2>1 DEF NewRxSession, IsPartOf, IsFragmentOf
<1> QED
  BY <1>3, <1>4

\* Storing a fragment of a message keeps a session part of that message.
LEMMA StoredGenuine ==
    ASSUME NEW f \in DataFrames, NEW r \in RxSession, f.frag_idx \in Indices,
           NEW a, IsFragmentOf(f, a), IsPartOf(r, a)
    PROVE  IsPartOf(Stored(r, f), a)
<1> DEFINE q == Stored(r, f)
<1>1. /\ q.source = r.source /\ q.msg_id = r.msg_id
      /\ q.total_len = r.total_len /\ q.frag_cnt = r.frag_cnt
      /\ q.received = r.received \cup {f.frag_idx}
      /\ q.buffer = [r.buffer EXCEPT ![f.frag_idx] = f.payload]
  BY StoredType
<1>2. r.buffer \in [Indices -> Payload \cup {Blank}] /\ r.received \subseteq Indices
  BY DEF RxSession, Buffer
<1> HIDE DEF q
<1>3. \A i \in q.received : q.buffer[i] = Slice(a.data, a.len, MaxPayload, i)
  BY <1>1, <1>2 DEF IsFragmentOf, IsPartOf
<1> QED
  BY <1>1, <1>3 DEF IsPartOf, q

LEMMA ReceiveDataSafe ==
    ASSUME IndInv, TruthInv', NEW f \in net, ReceiveData(f)
    PROVE  IndInv'
<1>1. UNCHANGED txVars /\ f.type = "DATA" /\ f \in DataFrames
  BY HeardType DEF ReceiveData, IndInv, TruthInv
<1>2. accepted' = accepted
  BY <1>1 DEF txVars
<1>3. ASSUME NEW p \in PlaceFor(f)
      PROVE  \E a \in accepted : IsPartOf(Stored(p[2], f), a)
  <2>1. p[2] \in RxSession /\ f.frag_idx \in Indices
    BY <1>1, PlaceType DEF IndInv, TruthInv, TypeOK
  <2>2. PICK a \in accepted : IsFragmentOf(f, a) /\ IsPartOf(p[2], a)
    BY <1>1, PlaceGenuine
  <2> QED
    BY <1>1, <2>1, <2>2, StoredGenuine
<1>4. SessionMatchesTransfer'
  <2> SUFFICES ASSUME NEW s \in RxSlots, rx'[s].active
               PROVE  UnderWay(rx'[s])
    BY <1>2 DEF SessionMatchesTransfer, RxActive, UnderWay, IsComplete, Missing
  <2>1. CASE rx[s].active /\ SameParts(rx'[s], rx[s])
    BY <2>1, SamePartsUnderWay DEF IndInv, SessionMatchesTransfer, RxActive, UnderWay
  <2>2. ASSUME NEW p \in PlaceFor(f), SameParts(rx'[s], Stored(p[2], f)),
               ~IsComplete(Stored(p[2], f))
        PROVE  UnderWay(rx'[s])
    BY <1>3, <2>2, SamePartsUnderWay DEF UnderWay
  <2> QED
    BY <2>1, <2>2, ReceiveDataStores DEF IndInv, TruthInv
<1>5. Integrity'
  <2>1. ASSUME NEW p \in PlaceFor(f), IsComplete(Stored(p[2], f)),
               delivered' = delivered \cup {Made(Stored(p[2], f))}
        PROVE  Integrity'
    <3> DEFINE r == Stored(p[2], f)
    <3>1. PICK a \in accepted : IsPartOf(r, a)
      BY <1>3
    <3> HIDE DEF r
    <3>2. IsComplete(r) /\ delivered' = delivered \cup {Made(r)}
      BY <2>1 DEF r
    <3>3. IsCopyOf(Made(r), a)
      BY <3>1, <3>2 DEF Made, IsCopyOf, IsPartOf, IsComplete, Missing
    <3> HIDE DEF Made
    <3> QED
      BY <1>2, <3>2, <3>3 DEF IndInv, Integrity
  <2>2. CASE delivered' = delivered
    BY <1>2, <2>2 DEF IndInv, Integrity
  <2> QED
    BY <2>1, <2>2, ReceiveDataStores DEF IndInv, TruthInv
<1> QED
  BY <1>1, <1>4, <1>5, TransmitterUntouched DEF IndInv

-----------------------------------------------------------------------------
(* IndInv is inductive. *)

LEMMA InitSafe == Init => IndInv
<1> SUFFICES ASSUME Init PROVE IndInv
  OBVIOUS
<1>1. TruthInv
  BY InitTruth
<1>2. RxActive = {} /\ \A n \in Senders : TxActive(n) = {}
  BY DEF Init, TxInit, RxInit, TxActive, RxActive, NoSession
<1> QED
  BY <1>1, <1>2
     DEF Init, TxInit, RxInit, IndInv, IdsUnique, TxSlotsDistinct, OutcomesFinal,
         OneOutcome, SessionMatchesTransfer, Integrity

LEMMA StepSafe == IndInv /\ [Next]_vars => IndInv'
<1> SUFFICES ASSUME IndInv, [Next]_vars
             PROVE  IndInv'
  OBVIOUS
<1>0. TruthInv'
  BY TruthStep DEF IndInv
<1>1. ASSUME NEW n \in Senders, Send(n) \/ Cancel(n) \/ ClearTx(n) \/ TickTx(n)
      PROVE  IndInv'
  BY <1>0, <1>1, SendSafe, CancelSafe, TickTxSafe
<1>2. ASSUME SessionsGoOn, UNCHANGED delivered, UNCHANGED txVars
      PROVE  IndInv'
  <2>1. accepted' = accepted
    BY <1>2 DEF txVars
  <2> QED
    BY <1>0, <1>2, <2>1, GoingOnSafe, TransmitterUntouched DEF IndInv
<1>3. CASE ClearRx
  BY <1>2, <1>3, ClearRxGoesOn DEF ClearRx
<1>4. CASE TickRx
  BY <1>2, <1>4, TickRxGoesOn DEF TickRx, IndInv, TruthInv
<1>5. ASSUME NEW f \in net, Receive(f)
      PROVE  IndInv'
  BY <1>0, <1>5, ReceiveDataSafe, ReceiveNackSafe, ReceiveDoneSafe DEF Receive
<1>6. ASSUME NEW f \in net, Lose(f)
      PROVE  IndInv'
  BY <1>2, <1>6, RxUnchangedGoesOn DEF Lose, rxVars
<1>7. CASE Clock
  <2>1. SessionsOnlyEnd /\ SessionsGoOn
    BY <1>7, ClockEnds, ClockGoesOn DEF IndInv, TruthInv
  <2>2. UNCHANGED <<next_msg_id, accepted, outcome, delivered>>
    BY <1>7 DEF Clock
  <2>3. SessionMatchesTransfer' /\ Integrity'
    BY <2>1, <2>2, GoingOnSafe
  <2> QED
    BY <1>0, <2>1, <2>2, <2>3, QuietEndSafe
<1>8. CASE UNCHANGED vars
  BY <1>2, <1>8, RxUnchangedGoesOn DEF vars, txVars
<1> QED
  BY <1>1, <1>3, <1>4, <1>5, <1>6, <1>7, <1>8 DEF Next

\* Frames tell the truth however late they come, ids name one transfer, and
\* what was reported has no session left (send_fragment, frag_tx_send,
\* complete_session): together with the safety properties this is inductive.
THEOREM Invariance == Spec => []IndInv
<1>1. Init => IndInv
  BY InitSafe
<1>2. IndInv /\ [Next]_vars => IndInv'
  BY StepSafe
<1> QED
  BY <1>1, <1>2, PTL DEF Spec

\* For every number of devices, slots and messages, and whatever the radio
\* loses, repeats or reorders: complete_message hands on only whole messages
\* that frag_tx_send accepted, with no fragment of another one in them.
THEOREM IntegrityHolds == Spec => []Integrity
<1>1. IndInv => Integrity
  BY DEF IndInv, TruthInv
<1> QED
  BY <1>1, Invariance, PTL

\* on_complete reports success only for a message the receiver was given
\* (frag_tx_handle_done).
THEOREM SuccessIsDelivery == Spec => []SuccessMeansDelivered
<1>1. IndInv => SuccessMeansDelivered
  BY DEF IndInv, TruthInv
<1> QED
  BY <1>1, Invariance, PTL

\* No transfer is reported both ways: after complete_session, late and
\* repeated NACK and DONE frames find no session.
THEOREM ReportedOnce == Spec => []OneOutcome
<1>1. IndInv => OneOutcome
  BY DEF IndInv, TruthInv
<1> QED
  BY <1>1, Invariance, PTL

\* A reassembly session agrees with the transfer it was opened for, so the
\* metadata check of get_or_create_session refuses no genuine fragment.
THEOREM SessionsMatch == Spec => []SessionMatchesTransfer
<1>1. IndInv => SessionMatchesTransfer
  BY DEF IndInv, TruthInv
<1> QED
  BY <1>1, Invariance, PTL

-----------------------------------------------------------------------------
(* FragmentLink implements FragmentTransfer: a step of frag_tx_send is an   *)
(* Accept, a message completed by frag_rx_process a Deliver, the end of     *)
(* sessions a Conclude; all other steps are invisible to the applications.  *)

\* What the receiving application sees of a delivery.
Seen(d) == [source |-> d.source, msg_id |-> d.msg_id,
            data |-> BodyOf(d), len |-> d.len]

\* A step that neither application sees.
Invisible == UNCHANGED <<accepted, delivered, outcome>>

\* The body of a genuine delivery can be read off its buffer.
LEMMA BodyOfCopy ==
    ASSUME IndInv, NEW a \in accepted, NEW d, IsCopyOf(d, a)
    PROVE  BodyOf(d) = a.data
<1>1. a.data \in Data /\ a.len \in Nat /\ a.len >= 1
  BY DEF IndInv, TruthInv, TypeOK, TxTypeOK, Message, IdsUnique
<1>2. 0 \in 0..(CeilDiv(a.len, MaxPayload) - 1)
  <2>1. CeilDiv(1, MaxPayload) = 1 /\ CeilDiv(a.len, MaxPayload) \in Nat
    BY <1>1, LimitsAssumption, CeilDivType DEF CeilDiv
  <2>2. CeilDiv(1, MaxPayload) <= CeilDiv(a.len, MaxPayload)
    BY <1>1, LimitsAssumption, CeilDivMonotone
  <2> QED
    BY <2>1, <2>2
<1> DEFINE spelled == {b \in Data : \A i \in 0..(CeilDiv(d.len, MaxPayload) - 1) :
                          d.buffer[i] = Slice(b, d.len, MaxPayload, i)}
<1>3. d.len = a.len
  BY DEF IsCopyOf
<1>4. a.data \in spelled
  BY <1>1, <1>3 DEF IsCopyOf
<1>5. ASSUME NEW b \in spelled
      PROVE  b = a.data
  <2>1. Slice(b, a.len, MaxPayload, 0) = Slice(a.data, a.len, MaxPayload, 0)
    BY <1>2, <1>3, <1>4
  <2> QED
    BY <2>1 DEF Slice
<1>6. spelled = {a.data}
  BY <1>4, <1>5
<1> QED
  BY <1>6 DEF BodyOf

\* Sessions that end and are reported conclude the transfers they were for.
LEMMA EndingConcludes ==
    ASSUME IndInv, NEW n \in Senders, NEW D \in SUBSET TxActive(n),
           NEW success \in BOOLEAN,
           success => \A s \in D : \E d \in delivered :
                          d.source = n /\ d.msg_id = tx[n][s].msg_id,
           outcome' = outcome \cup {Result(n, tx[n][s], success) : s \in D},
           UNCHANGED <<accepted, delivered>>
    PROVE  Transfer!Conclude
<1> DEFINE ended == {p \in accepted \X {success} :
                        \E s \in D : IsSending(n, tx[n][s], p[1])}
           results == {[source |-> p[1].source, msg_id |-> p[1].msg_id,
                        success |-> p[2]] : p \in ended}
           seen == {Seen(d) : d \in delivered}
<1>1. ended \in SUBSET (accepted \X BOOLEAN)
  OBVIOUS
<1>2. results = {Result(n, tx[n][s], success) : s \in D}
  <2>1. ASSUME NEW s \in D
        PROVE  Result(n, tx[n][s], success) \in results
    <3>1. PICK a \in accepted : IsSending(n, tx[n][s], a)
      BY DEF IndInv, TruthInv, TxMatchesTransfer
    <3>2. <<a, success>> \in ended
      BY <3>1
    <3> QED
      BY <3>1, <3>2 DEF Result, IsSending
  <2>2. ASSUME NEW p \in ended
        PROVE  [source |-> p[1].source, msg_id |-> p[1].msg_id, success |-> p[2]]
                  \in {Result(n, tx[n][s], success) : s \in D}
    BY DEF Result, IsSending
  <2> QED
    BY <2>1, <2>2
<1>3. \A r1, r2 \in results : Transfer!Same(r1, r2) => r1 = r2
  BY <1>2 DEF Transfer!Same, Result
<1>4. ASSUME NEW r \in results
      PROVE  /\ \A o \in outcome : ~Transfer!Same(o, r)
             /\ r.success => \E d \in seen : Transfer!Same(d, r)
  <2>1. PICK s \in D : r = Result(n, tx[n][s], success)
    BY <1>2
  <2>2. r.source = n /\ r.msg_id = tx[n][s].msg_id /\ r.success = success
    BY <2>1 DEF Result
  <2>3. \A o \in outcome : ~Transfer!Same(o, r)
    BY <2>2 DEF IndInv, OutcomesFinal, Transfer!Same
  <2>4. ASSUME r.success
        PROVE  \E d \in seen : Transfer!Same(d, r)
    <3>1. PICK d \in delivered : d.source = n /\ d.msg_id = tx[n][s].msg_id
      BY <2>2, <2>4
    <3>2. Seen(d).source = n /\ Seen(d).msg_id = tx[n][s].msg_id
      BY <3>1 DEF Seen
    <3> QED
      BY <2>2, <3>2 DEF Transfer!Same
  <2> QED
    BY <2>3, <2>4
<1>5. outcome' = outcome \cup results
  BY <1>2
<1>6. /\ accepted' = accepted
      /\ {Seen(d) : d \in delivered'} = seen
  OBVIOUS
<1> QED
  BY <1>1, <1>3, <1>4, <1>5, <1>6 DEF Transfer!Conclude, Seen

\* frag_tx_send.
LEMMA SendAccepts ==
    ASSUME IndInv, NEW n \in Senders, Send(n)
    PROVE  Transfer!Accept
<1>1. PICK data \in Data, len \in Lens, dest \in {Receiver, Broadcast} :
        TxSend(n, data, len, dest)
  BY DEF Send
<1> DEFINE a == [source |-> n, msg_id |-> next_msg_id[n], dest |-> dest,
                 data |-> data, len |-> len]
<1>2. next_msg_id[n] \in 1..MaxMsgId /\ len \in 1..MaxMessageSize
  BY <1>1 DEF TxSend, IndInv, TruthInv, TypeOK, TxTypeOK
<1>3. \A b \in accepted : ~Transfer!Same(a, b)
  <2>1. ASSUME NEW b \in accepted
        PROVE  b.source \in Senders /\ b.msg_id \in Nat /\ b.msg_id < next_msg_id[b.source]
    BY DEF IndInv, TruthInv, TypeOK, TxTypeOK, Message, IdsUnique
  <2> QED
    BY <1>2, <2>1 DEF Transfer!Same
<1>4. accepted' = accepted \cup {a} /\ UNCHANGED <<delivered, outcome>>
  BY <1>1 DEF TxSend, Send, rxVars
<1> QED
  BY <1>2, <1>3, <1>4 DEF Transfer!Accept

\* frag_tx_tick.
LEMMA TickConcludes ==
    ASSUME IndInv, NEW n \in Senders, TickTx(n)
    PROVE  Transfer!Conclude
<1> DEFINE D == {s \in TxSlots : Expired(tx[n][s])}
<1>1. D \subseteq TxActive(n)
  BY DEF Expired, TxActive
<1>2. outcome' = outcome \cup {Result(n, tx[n][s], FALSE) : s \in D}
  BY DEF TickTx, TxTick
<1>3. UNCHANGED <<accepted, delivered>>
  BY DEF TickTx, TxTick, rxVars
<1> HIDE DEF D
<1> QED
  BY <1>1, <1>2, <1>3, EndingConcludes

\* frag_tx_handle_nack, which may give up.
LEMMA NackConcludes ==
    ASSUME IndInv, NEW f \in net, ReceiveNack(f)
    PROVE  Transfer!Conclude \/ Invisible
<1>1. f.dest \in Senders
  BY DEF ReceiveNack, IndInv, TruthInv, TypeOK, Frames, DataFrames, NackFrames, DoneFrames
<1>2. UNCHANGED <<accepted, delivered>>
  BY DEF ReceiveNack, TxIgnore, Ignored, txVars, TxNackExhausted, TxNack, rxVars
<1>3. CASE UNCHANGED outcome
  BY <1>2, <1>3 DEF Invisible
<1>4. CASE TxNackExhausted(f.dest, f, Receiver)
  <2>1. PICK s \in FindTx(f.dest, f.msg_id) :
          outcome' = outcome \cup {Result(f.dest, tx[f.dest][s], FALSE)}
    BY <1>4 DEF TxNackExhausted
  <2>2. {s} \in SUBSET TxActive(f.dest)
    BY DEF FindTx, First
  <2>3. outcome' = outcome \cup {Result(f.dest, tx[f.dest][u], FALSE) : u \in {s}}
    BY <2>1
  <2> QED
    BY <1>1, <1>2, <2>2, <2>3, EndingConcludes
<1> QED
  BY <1>3, <1>4 DEF ReceiveNack, TxIgnore, Ignored, txVars, TxNack

\* frag_tx_handle_done: the frame itself shows that the message was delivered.
LEMMA DoneConcludes ==
    ASSUME IndInv, NEW f \in net, ReceiveDone(f)
    PROVE  Transfer!Conclude \/ Invisible
<1>1. f.dest \in Senders
  BY DEF ReceiveDone, IndInv, TruthInv, TypeOK, Frames, DataFrames, NackFrames, DoneFrames
<1>2. UNCHANGED <<accepted, delivered>>
  BY DEF ReceiveDone, TxIgnore, Ignored, txVars, TxDone, rxVars
<1>3. CASE TxIgnore(f.dest, f, Receiver)
  BY <1>2, <1>3 DEF TxIgnore, Ignored, txVars, Invisible
<1>4. CASE TxDone(f.dest, f, Receiver)
  <2>1. PICK s \in FindTx(f.dest, f.msg_id) :
          outcome' = outcome \cup {Result(f.dest, tx[f.dest][s], TRUE)}
    BY <1>4 DEF TxDone
  <2>2. s \in TxActive(f.dest) /\ tx[f.dest][s].msg_id = f.msg_id
    BY DEF FindTx, First
  <2>3. \E d \in delivered : d.source = f.dest /\ d.msg_id = f.msg_id
    BY DEF ReceiveDone, IndInv, TruthInv, FramesTruthful
  <2>4. outcome' = outcome \cup {Result(f.dest, tx[f.dest][u], TRUE) : u \in {s}}
    BY <2>1
  <2>5. {s} \in SUBSET TxActive(f.dest)
    BY <2>2
  <2>6. \A u \in {s} : \E d \in delivered :
            d.source = f.dest /\ d.msg_id = tx[f.dest][u].msg_id
    BY <2>2, <2>3
  <2> QED
    BY <1>1, <1>2, <2>4, <2>5, <2>6, EndingConcludes
<1> QED
  BY <1>3, <1>4 DEF ReceiveDone

\* frag_rx_process: what complete_message hands on is an accepted message.
LEMMA DataDelivers ==
    ASSUME IndInv, IndInv', NEW f \in net, ReceiveData(f)
    PROVE  Transfer!Deliver \/ Invisible
<1>1. UNCHANGED <<accepted, outcome>>
  BY DEF ReceiveData, txVars
<1>2. CASE UNCHANGED delivered
  BY <1>1, <1>2 DEF Invisible
<1>3. CASE RxComplete(f)
  <2>1. PICK d : delivered' = delivered \cup {d}
    BY <1>3 DEF RxComplete
  <2>2. PICK a \in accepted : IsCopyOf(d, a)
    BY <1>1, <2>1 DEF IndInv, Integrity, IsCopyOf
  <2>3. Seen(d) = [source |-> a.source, msg_id |-> a.msg_id,
                   data |-> a.data, len |-> a.len]
    BY <2>2, BodyOfCopy DEF Seen, IsCopyOf
  <2>4. {Seen(e) : e \in delivered'} = {Seen(e) : e \in delivered} \cup {Seen(d)}
    BY <2>1
  <2> QED
    BY <1>1, <2>3, <2>4 DEF Transfer!Deliver, Seen
<1> QED
  BY <1>2, <1>3 DEF ReceiveData, RxData, RxIgnore, RxStore, RxLastFragment, rxVars

LEMMA StepRefines == IndInv /\ [Next]_vars => [Transfer!Next]_(Transfer!vars)
<1> SUFFICES ASSUME IndInv, [Next]_vars
             PROVE  Transfer!Next \/ Invisible
  BY DEF Transfer!vars, Invisible
<1>0. IndInv'
  BY StepSafe
<1>1. ASSUME NEW n \in Senders, Send(n)
      PROVE  Transfer!Next
  BY <1>1, SendAccepts DEF Transfer!Next
<1>2. ASSUME NEW n \in Senders, Cancel(n) \/ ClearTx(n)
      PROVE  Invisible
  BY <1>2 DEF Cancel, TxCancel, ClearTx, TxClear, rxVars, Invisible
<1>3. ASSUME NEW n \in Senders, TickTx(n)
      PROVE  Transfer!Next
  BY <1>3, TickConcludes DEF Transfer!Next
<1>4. CASE ClearRx
  BY <1>4 DEF ClearRx, RxClear, txVars, Invisible
<1>5. CASE TickRx
  BY <1>5 DEF TickRx, RxTick, txVars, Invisible
<1>6. ASSUME NEW f \in net, Receive(f)
      PROVE  Transfer!Next \/ Invisible
  BY <1>0, <1>6, DataDelivers, NackConcludes, DoneConcludes DEF Receive, Transfer!Next
<1>7. ASSUME NEW f \in net, Lose(f)
      PROVE  Invisible
  BY <1>7 DEF Lose, txVars, rxVars, Invisible
<1>8. CASE Clock
  BY <1>8 DEF Clock, Invisible
<1>9. CASE UNCHANGED vars
  BY <1>9 DEF vars, Invisible
<1> QED
  BY <1>1, <1>2, <1>3, <1>4, <1>5, <1>6, <1>7, <1>8, <1>9 DEF Next

LEMMA InitRefines == Init => Transfer!Init
BY DEF Init, TxInit, RxInit, Transfer!Init

\* To the applications the fragment protocol is FragmentTransfer, whatever the
\* radio loses, repeats or reorders: frag_tx_send accepts, complete_message
\* delivers what was accepted, complete_session concludes once, with success
\* only after delivery.
THEOREM Refinement == Spec => TransferSpec
<1>1. Init => Transfer!Init
  BY InitRefines
<1>2. IndInv /\ [Next]_vars => [Transfer!Next]_(Transfer!vars)
  BY StepRefines
<1> QED
  BY <1>1, <1>2, Invariance, PTL DEF Spec, TransferSpec, Transfer!Spec
=============================================================================
