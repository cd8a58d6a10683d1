----------------------- MODULE FragmentHandlerProofs -----------------------
(* What each handler of FragmentTx and FragmentRx does to the types, for    *)
(* use wherever the two are composed with something: each other, or anyone. *)
EXTENDS FragmentTx, FragmentRx, TLAPS

-----------------------------------------------------------------------------
(* The protocol. *)

\* A message of at least one byte has at least one fragment.
LEMMA CeilDivType ==
    ASSUME NEW a \in Nat \ {0}, NEW b \in Nat \ {0}
    PROVE  CeilDiv(a, b) \in Nat \ {0}
BY DEF CeilDiv

LEMMA OlderType ==
    ASSUME NEW age \in Nat, NEW cap \in Nat
    PROVE  Older(age, cap) \in Nat
BY DEF Older

LEMMA ConsumeType ==
    ASSUME net \subseteq Frames, NEW f, NEW ms \in SUBSET Frames, Consume(f, ms)
    PROVE  net' \subseteq Frames
BY DEF Consume

LEMMA TransmitType ==
    ASSUME net \subseteq Frames, NEW ms \in SUBSET Frames, Transmit(ms)
    PROVE  net' \subseteq Frames
BY DEF Transmit

-----------------------------------------------------------------------------
(* The transmitter: operators. *)

\* frag_tx_get_next_msg_id never returns 0.
LEMMA NextMsgIdType ==
    ASSUME NEW id \in 1..MaxMsgId
    PROVE  NextMsgId(id) \in 1..MaxMsgId
BY LimitsAssumption DEF NextMsgId

\* Short of the largest id it counts up.
LEMMA NextMsgIdStep ==
    ASSUME NEW id \in 1..MaxMsgId, id < MaxMsgId
    PROVE  NextMsgId(id) = id + 1
BY LimitsAssumption DEF NextMsgId

LEMMA SliceType ==
    ASSUME NEW data \in Data, NEW len \in Nat, NEW size \in Nat, NEW idx \in Nat
    PROVE  Slice(data, len, size, idx) \in Payload
BY DEF Slice, Payload

\* A frame send_fragment builds is well formed.
LEMMA FragmentType ==
    ASSUME TxTypeOK, NEW n \in Senders, NEW t \in TxSession, NEW i \in Nat
    PROVE  Fragment(n, t, i) \in DataFrames
<1>1. payload_size[n] \in Nat
  BY TxAssumption DEF TxTypeOK
<1>2. Slice(t.data, t.data_len, payload_size[n], i) \in Payload
  BY <1>1, SliceType DEF TxSession
<1> QED
  BY <1>2 DEF Fragment, DataFrame, DataFrames, TxSession

\* A slot in use holds a session.
LEMMA TxActiveSession ==
    ASSUME TxTypeOK, NEW n \in Senders, NEW s \in TxSlots, tx[n][s].active
    PROVE  tx[n][s] \in TxSession
BY DEF TxTypeOK, NoSession

LEMMA FindTxSession ==
    ASSUME TxTypeOK, NEW n \in Senders, NEW id, NEW s \in FindTx(n, id)
    PROVE  /\ s \in TxSlots /\ tx[n][s] \in TxSession
           /\ tx[n][s].msg_id = id
BY TxActiveSession DEF FindTx, First, TxActive

LEMMA ResultType ==
    ASSUME NEW n \in Senders, NEW t \in TxSession, NEW success \in BOOLEAN
    PROVE  Result(n, t, success) \in Outcome
BY DEF Result, Outcome, TxSession

\* A session that has served a NACK is a session.
LEMMA RetriedType ==
    ASSUME NEW t \in TxSession
    PROVE  [t EXCEPT !.nack_rounds = @ + 1, !.state = "WAITING_DONE", !.idle = 0]
             \in TxSession
<1>1. t.nack_rounds + 1 \in Nat
  BY DEF TxSession
<1> QED
  BY <1>1 DEF TxSession

\* One transmitter slot changes to a session or is freed.
LEMMA TxSlotUpdate ==
    ASSUME TxTypeOK, NEW n \in Senders, NEW s \in TxSlots,
           NEW t \in TxSession \cup {NoSession}, tx' = [tx EXCEPT ![n][s] = t]
    PROVE  tx' \in [Senders -> [TxSlots -> TxSession \cup {NoSession}]]
BY DEF TxTypeOK

LEMMA TickedType ==
    ASSUME NEW t \in TxSession \cup {NoSession}, NEW sent \in BOOLEAN
    PROVE  Ticked(t, sent) \in TxSession \cup {NoSession}
<1>1. CASE t \in TxSession
  <2>1. [t EXCEPT !.current_frag = @ + 1, !.idle = 0] \in TxSession
    <3>1. t.current_frag + 1 \in Nat
      BY <1>1 DEF TxSession
    <3> QED
      BY <1>1, <3>1 DEF TxSession
  <2>2. [t EXCEPT !.state = "WAITING_DONE", !.idle = 0] \in TxSession
    BY <1>1 DEF TxSession
  <2> QED
    BY <1>1, <2>1, <2>2 DEF Ticked
<1>2. CASE t = NoSession
  BY <1>2 DEF Ticked, NoSession, Expired, SendDue, AllSent, MaySend
<1> QED
  BY <1>1, <1>2

-----------------------------------------------------------------------------
(* The transmitter: handlers. *)

LEMMA TxSendType ==
    ASSUME TxTypeOK, NEW n \in Senders, NEW data \in Data, NEW len \in Nat,
           NEW dest \in {Receiver, Broadcast}, TxSend(n, data, len, dest)
    PROVE  TxTypeOK'
<1> USE LimitsAssumption, TxAssumption
<1> DEFINE t == NewTxSession(n, data, len, dest)
<1>1. /\ len \in Nat \ {0}
      /\ payload_size[n] \in Nat \ {0}
      /\ next_msg_id[n] \in 1..MaxMsgId
  BY DEF TxSend, TxTypeOK
<1>2. CeilDiv(len, payload_size[n]) \in Nat
  BY <1>1, CeilDivType
<1>3. IdleCap \in Nat
  BY DEF IdleCap
<1>4. t \in TxSession
  BY <1>1, <1>2, <1>3 DEF NewTxSession, TxSession
<1>5. tx' \in [Senders -> [TxSlots -> TxSession \cup {NoSession}]]
  <2>1. PICK s \in FreeTx(n) : tx' = [tx EXCEPT ![n][s] = t]
    BY DEF TxSend
  <2> HIDE DEF t
  <2> QED
    BY <2>1, <1>4 DEF TxTypeOK, FreeTx, First
<1>6. next_msg_id' \in [Senders -> 1..MaxMsgId]
  BY <1>1, NextMsgIdType DEF TxSend, TxTypeOK
<1>7. accepted' \subseteq Message
  BY <1>1 DEF TxSend, TxTypeOK, Message
<1> QED
  BY <1>5, <1>6, <1>7 DEF TxSend, TxTypeOK

LEMMA TxCancelType ==
    ASSUME TxTypeOK, NEW n \in Senders, NEW id, TxCancel(n, id)
    PROVE  TxTypeOK'
<1>1. PICK s \in FindTx(n, id) : tx' = [tx EXCEPT ![n][s] = NoSession]
  BY DEF TxCancel
<1>2. tx' \in [Senders -> [TxSlots -> TxSession \cup {NoSession}]]
  BY <1>1, FindTxSession, TxSlotUpdate
<1> QED
  BY <1>2 DEF TxCancel, TxTypeOK

LEMMA TxClearType ==
    ASSUME TxTypeOK, NEW n \in Senders, TxClear(n)
    PROVE  TxTypeOK'
BY DEF TxClear, TxTypeOK

LEMMA TxTickType ==
    ASSUME TxTypeOK, net \subseteq Frames, NEW n \in Senders,
           NEW sent \in SUBSET TxSlots, TxTick(n, sent)
    PROVE  TxTypeOK' /\ net' \subseteq Frames
<1>1. tx' \in [Senders -> [TxSlots -> TxSession \cup {NoSession}]]
  <2>1. ASSUME NEW s \in TxSlots
        PROVE  Ticked(tx[n][s], s \in sent) \in TxSession \cup {NoSession}
    <3>1. tx[n][s] \in TxSession \cup {NoSession} /\ (s \in sent) \in BOOLEAN
      BY DEF TxTypeOK
    <3> QED
      BY <3>1, TickedType
  <2> QED
    BY <2>1 DEF TxTick, TxTypeOK
<1>2. outcome' \subseteq Outcome
  <2>1. \A s \in TxSlots : Expired(tx[n][s]) => Result(n, tx[n][s], FALSE) \in Outcome
    BY TxActiveSession DEF Expired, Result, Outcome, TxSession
  <2> QED
    BY <2>1 DEF TxTick, TxTypeOK
<1>3. net' \subseteq Frames
  <2>1. \A s \in TxSlots : SendDue(tx[n][s]) =>
            Fragment(n, tx[n][s], tx[n][s].current_frag) \in DataFrames
    BY TxActiveSession, FragmentType DEF SendDue, MaySend, TxSession
  <2>2. {Fragment(n, tx[n][s], tx[n][s].current_frag) :
            s \in {s \in sent : SendDue(tx[n][s])}} \in SUBSET Frames
    BY <2>1 DEF Frames
  <2> QED
    BY <2>2, TransmitType DEF TxTick
<1> QED
  BY <1>1, <1>2, <1>3 DEF TxTick, TxTypeOK

LEMMA TxIgnoreType ==
    ASSUME TxTypeOK, net \subseteq Frames, NEW n, NEW f, NEW from,
           TxIgnore(n, f, from)
    PROVE  TxTypeOK' /\ net' \subseteq Frames
<1>1. net' \subseteq Frames
  BY ConsumeType DEF TxIgnore, Ignored
<1> QED
  BY <1>1 DEF TxIgnore, Ignored, txVars, TxTypeOK

LEMMA TxNackExhaustedType ==
    ASSUME TxTypeOK, net \subseteq Frames, NEW n \in Senders, NEW f, NEW from,
           TxNackExhausted(n, f, from)
    PROVE  TxTypeOK' /\ net' \subseteq Frames
<1>1. PICK s \in FindTx(n, f.msg_id) :
        /\ tx' = [tx EXCEPT ![n][s] = NoSession]
        /\ outcome' = outcome \cup {Result(n, tx[n][s], FALSE)}
  BY DEF TxNackExhausted
<1>2. s \in TxSlots /\ tx[n][s] \in TxSession
  BY FindTxSession
<1>3. tx' \in [Senders -> [TxSlots -> TxSession \cup {NoSession}]]
  BY <1>1, <1>2, TxSlotUpdate
<1>4. outcome' \subseteq Outcome
  BY <1>1, <1>2, ResultType DEF TxTypeOK
<1>5. net' \subseteq Frames
  BY ConsumeType DEF TxNackExhausted
<1> QED
  BY <1>3, <1>4, <1>5 DEF TxNackExhausted, TxTypeOK

\* The session a NACK leaves.
Retried(t) == [t EXCEPT !.nack_rounds = @ + 1, !.state = "WAITING_DONE", !.idle = 0]

LEMMA TxNackUpdates ==
    ASSUME TxTypeOK, NEW n \in Senders, NEW f, NEW from, NEW sent,
           TxNack(n, f, from, sent)
    PROVE  \E s \in FindTx(n, f.msg_id) : tx' = [tx EXCEPT ![n][s] = Retried(tx[n][s])]
<1>1. PICK s \in FindTx(n, f.msg_id) :
        tx' = [tx EXCEPT ![n][s].nack_rounds = @ + 1,
                         ![n][s].state = "WAITING_DONE",
                         ![n][s].idle = 0]
  BY DEF TxNack
<1>2. s \in TxSlots /\ tx[n][s] \in TxSession
  BY FindTxSession
<1>3. tx' = [tx EXCEPT ![n][s] = Retried(tx[n][s])]
  BY <1>1, <1>2 DEF TxTypeOK, Retried
<1> QED
  BY <1>3

LEMMA TxNackType ==
    ASSUME TxTypeOK, net \subseteq Frames, NEW n \in Senders, NEW f, NEW from,
           NEW sent \in SUBSET f.missing, f.missing \subseteq Nat,
           TxNack(n, f, from, sent)
    PROVE  TxTypeOK' /\ net' \subseteq Frames
<1>1. PICK s \in FindTx(n, f.msg_id) : tx' = [tx EXCEPT ![n][s] = Retried(tx[n][s])]
  BY TxNackUpdates
<1>2. s \in TxSlots /\ tx[n][s] \in TxSession
  BY FindTxSession
<1>3. tx' \in [Senders -> [TxSlots -> TxSession \cup {NoSession}]]
  <2>1. Retried(tx[n][s]) \in TxSession
    BY <1>2, RetriedType DEF Retried
  <2> QED
    BY <1>1, <1>2, <2>1, TxSlotUpdate
<1>4. net' \subseteq Frames
  <2> DEFINE again(r) == {Fragment(n, tx[n][r], i) :
                i \in {i \in f.missing \cap sent : i < tx[n][r].frag_cnt}}
  <2>1. PICK r \in FindTx(n, f.msg_id) : Consume(f, again(r))
    BY DEF TxNack
  <2>2. tx[n][r] \in TxSession
    BY FindTxSession
  <2>3. again(r) \in SUBSET Frames
    BY <2>2, FragmentType DEF Frames
  <2> HIDE DEF again
  <2> QED
    BY <2>1, <2>3, ConsumeType
<1> QED
  BY <1>3, <1>4 DEF TxNack, TxTypeOK

LEMMA TxDoneType ==
    ASSUME TxTypeOK, net \subseteq Frames, NEW n \in Senders, NEW f, NEW from,
           TxDone(n, f, from)
    PROVE  TxTypeOK' /\ net' \subseteq Frames
<1>1. PICK s \in FindTx(n, f.msg_id) :
        /\ tx' = [tx EXCEPT ![n][s] = NoSession]
        /\ outcome' = outcome \cup {Result(n, tx[n][s], TRUE)}
  BY DEF TxDone
<1>2. s \in TxSlots /\ tx[n][s] \in TxSession
  BY FindTxSession
<1>3. tx' \in [Senders -> [TxSlots -> TxSession \cup {NoSession}]]
  BY <1>1, <1>2, TxSlotUpdate
<1>4. outcome' \subseteq Outcome
  BY <1>1, <1>2, ResultType DEF TxTypeOK
<1>5. net' \subseteq Frames
  BY ConsumeType DEF TxDone
<1> QED
  BY <1>3, <1>4, <1>5 DEF TxDone, TxTypeOK

LEMMA TxAgedType ==
    ASSUME TxTypeOK, NEW n \in Senders, NEW s \in TxSlots
    PROVE  TxAged(tx[n][s]) \in TxSession \cup {NoSession}
<1>1. IdleCap \in Nat /\ SessionTimeout + 1 \in Nat
  BY LimitsAssumption, TxAssumption DEF IdleCap
<1>2. CASE tx[n][s].active
  <2>1. tx[n][s] \in TxSession
    BY <1>2, TxActiveSession
  <2>2. /\ Older(tx[n][s].age, SessionTimeout + 1) \in Nat
        /\ Older(tx[n][s].idle, IdleCap) \in Nat
    BY <1>1, <2>1, OlderType DEF TxSession
  <2> QED
    BY <1>2, <2>1, <2>2 DEF TxAged, TxSession
<1>3. CASE ~tx[n][s].active
  BY <1>3 DEF TxAged, TxTypeOK
<1> QED
  BY <1>2, <1>3

-----------------------------------------------------------------------------
(* The receiver. *)

\* A slot in use holds a session.
LEMMA RxActiveSession ==
    ASSUME RxTypeOK, NEW s \in RxSlots, rx[s].active
    PROVE  rx[s] \in RxSession
BY DEF RxTypeOK, NoSession

\* A place for a fragment is a slot and a session of the fragment's transfer
\* that lacks the fragment.
LEMMA PlaceType ==
    ASSUME RxTypeOK, NEW f \in DataFrames, NEW p \in PlaceFor(f)
    PROVE  /\ p[1] \in RxSlots
           /\ p[2] \in RxSession
           /\ p[2].source = f.source /\ p[2].msg_id = f.msg_id
           /\ SameMetadata(p[2], f)
           /\ f.frag_idx \in Indices
<1> USE LimitsAssumption
<1>1. p \in SessionFor(f) /\ Valid(f)
  BY DEF PlaceFor
<1>2. f.frag_idx \in Nat /\ f.frag_cnt \in 1..MaxFragments /\ f.frag_idx < f.frag_cnt
  BY <1>1 DEF DataFrames, Valid
<1>3. MaxFragments \in Nat
  BY CeilDivType DEF MaxFragments
<1>4. f.frag_idx \in Indices
  BY <1>2, <1>3 DEF Indices
<1>5. CASE FindRx(f) # {}
  <2>1. PICK s \in FindRx(f) : p = <<s, rx[s]>> /\ SameMetadata(p[2], f)
    BY <1>1, <1>5 DEF SessionFor
  <2>2. s \in RxSlots /\ rx[s] \in RxSession
           /\ rx[s].source = f.source /\ rx[s].msg_id = f.msg_id
    BY <2>1, RxActiveSession DEF FindRx, First, RxActive
  <2> QED
    BY <2>1, <2>2, <1>4
<1>6. CASE FindRx(f) = {}
  <2>1. PICK s \in FreeRx : p = <<s, NewRxSession(f)>>
    BY <1>1, <1>6 DEF SessionFor
  <2>2. s \in RxSlots
    BY <2>1 DEF FreeRx, First
  <2>3. [i \in Indices |-> Blank] \in Buffer
    BY DEF Buffer
  <2>4. NewRxSession(f) \in RxSession
    BY <1>2, <2>3 DEF NewRxSession, RxSession, DataFrames
  <2>5. SameMetadata(NewRxSession(f), f)
    BY DEF NewRxSession, SameMetadata
  <2> QED
    BY <2>1, <2>2, <2>4, <2>5, <1>4 DEF NewRxSession
<1> QED
  BY <1>5, <1>6

\* Storing a payload.
LEMMA StoredType ==
    ASSUME NEW f \in DataFrames, NEW r \in RxSession, f.frag_idx \in Indices
    PROVE  /\ Stored(r, f) \in RxSession
           /\ Stored(r, f).source = r.source
           /\ Stored(r, f).msg_id = r.msg_id
           /\ Stored(r, f).total_len = r.total_len
           /\ Stored(r, f).frag_cnt = r.frag_cnt
           /\ Stored(r, f).received = r.received \cup {f.frag_idx}
           /\ Stored(r, f).buffer =
                [r.buffer EXCEPT ![f.frag_idx] = f.payload]
<1>1. r.buffer \in Buffer /\ f.payload \in Payload
  BY DEF RxSession, DataFrames
<1>2. [r.buffer EXCEPT ![f.frag_idx] = f.payload] \in Buffer
  BY <1>1 DEF Buffer
<1>3. r.received \cup {f.frag_idx} \in SUBSET Indices
  BY DEF RxSession
<1> QED
  BY <1>2, <1>3 DEF Stored, RxSession

LEMMA AfterNackType ==
    ASSUME NEW r \in RxSession
    PROVE  /\ GivesUp(r) => AfterNack(r) = NoSession
           /\ ~GivesUp(r) =>
                 /\ AfterNack(r) \in RxSession
                 /\ [AfterNack(r) EXCEPT !.idle = 0] \in RxSession
<1>1. CASE GivesUp(r)
  BY <1>1 DEF AfterNack
<1>2. CASE ~GivesUp(r)
  <2>1. r.nacks_sent + 1 \in 0..MaxNackRounds
    BY <1>2, LimitsAssumption DEF GivesUp, RxSession
  <2>2. [r EXCEPT !.nacks_sent = @ + 1] \in RxSession
    BY <2>1 DEF RxSession
  <2>3. [[r EXCEPT !.nacks_sent = @ + 1] EXCEPT !.idle = 0] \in RxSession
    BY <2>2 DEF RxSession
  <2> QED
    BY <1>2, <2>2, <2>3 DEF AfterNack
<1> QED
  BY <1>1, <1>2

LEMMA NackForType ==
    ASSUME NEW r \in RxSession
    PROVE  NackFor(r) \subseteq NackFrames
<1>1. Reported(r) \in SUBSET Nat
  BY DEF Reported, Missing, RxSession
<1> QED
  BY <1>1 DEF NackFor, NackFrame, NackFrames, RxSession

\* What process_data_fragment leaves, and answers.
LEMMA RxDataType ==
    ASSUME RxTypeOK, net \subseteq Frames, NEW f \in DataFrames, RxData(f)
    PROVE  RxTypeOK' /\ net' \subseteq Frames
<1>1. CASE RxIgnore(f)
  BY <1>1, ConsumeType DEF RxIgnore, rxVars, RxTypeOK
<1>2. ASSUME NEW p \in PlaceFor(f),
             NEW r \in RxSession \cup {NoSession}, rx' = [rx EXCEPT ![p[1]] = r]
      PROVE  rx' \in [RxSlots -> RxSession \cup {NoSession}]
  BY <1>2, PlaceType DEF RxTypeOK
<1>3. ASSUME NEW p \in PlaceFor(f)
      PROVE  /\ Stored(p[2], f) \in RxSession
             /\ Stored(p[2], f).source \in Senders
             /\ Stored(p[2], f).msg_id \in Nat
  BY PlaceType, StoredType DEF RxSession
<1>4. CASE RxStore(f)
  <2>1. PICK p \in PlaceFor(f) : /\ rx' = [rx EXCEPT ![p[1]] = Stored(p[2], f)]
                                 /\ Consume(f, {}) /\ UNCHANGED delivered
    BY <1>4 DEF RxStore
  <2> QED
    BY <1>2, <1>3, <2>1, ConsumeType DEF RxTypeOK
<1>5. CASE RxLastFragment(f)
  <2>1. PICK p \in PlaceFor(f) :
          /\ rx' = [rx EXCEPT ![p[1]] = AfterNack(Stored(p[2], f))]
          /\ Consume(f, NackFor(Stored(p[2], f))) /\ UNCHANGED delivered
    BY <1>5 DEF RxLastFragment
  <2>2. NackFor(Stored(p[2], f)) \in SUBSET Frames
    BY <1>3, NackForType DEF Frames
  <2>3. AfterNack(Stored(p[2], f)) \in RxSession \cup {NoSession}
    BY <1>3, AfterNackType
  <2> QED
    BY <1>2, <2>1, <2>2, <2>3, ConsumeType DEF RxTypeOK
<1>6. CASE RxComplete(f)
  <2>1. PICK p \in PlaceFor(f) :
          LET r == Stored(p[2], f) IN
          /\ rx' = [rx EXCEPT ![p[1]] = NoSession]
          /\ delivered' = delivered \cup
                {[source |-> r.source, msg_id |-> r.msg_id,
                  len |-> r.total_len, buffer |-> r.buffer]}
          /\ Consume(f, {DoneFrame(r.source, r.msg_id)})
    BY <1>6 DEF RxComplete
  <2>2. DoneFrame(Stored(p[2], f).source, Stored(p[2], f).msg_id) \in Frames
    BY <1>3 DEF DoneFrame, DoneFrames, Frames
  <2>3. delivered' \subseteq Delivery
    <3> DEFINE r == Stored(p[2], f)
    <3>1. r \in RxSession
      BY <1>3
    <3>2. [source |-> r.source, msg_id |-> r.msg_id,
           len |-> r.total_len, buffer |-> r.buffer] \in Delivery
      <4> HIDE DEF r
      <4> QED
        BY <3>1 DEF RxSession, Delivery
    <3> QED
      BY <2>1, <3>2 DEF RxTypeOK
  <2> QED
    BY <1>2, <2>1, <2>2, <2>3, ConsumeType DEF RxTypeOK
<1> QED
  BY <1>1, <1>4, <1>5, <1>6 DEF RxData

\* Sessions q and r hold the same part of the same transfer.
SameParts(q, r) ==
    /\ q.source = r.source /\ q.msg_id = r.msg_id
    /\ q.total_len = r.total_len /\ q.frag_cnt = r.frag_cnt
    /\ q.received = r.received /\ q.buffer = r.buffer

\* Asking for fragments leaves the contents of a session alone.
LEMMA AfterNackSame ==
    ASSUME NEW r \in RxSession, ~GivesUp(r)
    PROVE  /\ SameParts(AfterNack(r), r)
           /\ SameParts([AfterNack(r) EXCEPT !.idle = 0], r)
<1>1. AfterNack(r) = [r EXCEPT !.nacks_sent = @ + 1]
  BY DEF AfterNack
<1> QED
  BY <1>1 DEF SameParts, RxSession

\* One session's part of frag_rx_tick.
LEMMA TickRxType ==
    ASSUME RxTypeOK, NEW s \in RxSlots
    PROVE  /\ RxTicked(rx[s]) \in RxSession \cup {NoSession}
           /\ NackDue(rx[s]) => NackFor(rx[s]) \subseteq Frames
<1>1. CASE rx[s].active
  <2>1. rx[s] \in RxSession
    BY <1>1, RxActiveSession
  <2> QED
    BY <2>1, AfterNackType, NackForType DEF RxTicked, Frames
<1>2. CASE ~rx[s].active
  BY <1>2 DEF RxTicked, NackDue, RxTypeOK
<1> QED
  BY <1>1, <1>2

\* One session's part of HAL_GetTick.
LEMMA RxAgedType ==
    ASSUME RxTypeOK, NEW s \in RxSlots
    PROVE  RxAged(rx[s]) \in RxSession \cup {NoSession}
<1>1. SessionTimeout + 1 \in Nat /\ FragTimeout + 1 \in Nat
  BY LimitsAssumption
<1>2. CASE rx[s].active
  <2>1. rx[s] \in RxSession
    BY <1>2, RxActiveSession
  <2>2. /\ Older(rx[s].age, SessionTimeout + 1) \in Nat
        /\ Older(rx[s].idle, FragTimeout + 1) \in Nat
    BY <1>1, <2>1, OlderType DEF RxSession
  <2> QED
    BY <1>2, <2>1, <2>2 DEF RxAged, RxSession
<1>3. CASE ~rx[s].active
  BY <1>3 DEF RxAged, RxTypeOK
<1> QED
  BY <1>2, <1>3

=============================================================================
