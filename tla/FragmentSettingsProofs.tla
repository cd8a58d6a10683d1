----------------------- MODULE FragmentSettingsProofs -----------------------
(* The link in two settings.  With transmitters that reboot and give out    *)
(* ids again, whatever the number of reboots, a message handed to           *)
(* on_message may be made of several messages, but every part of it was     *)
(* sent as that part.  With one prompt transfer at a time and fragments     *)
(* lost, the receiver's slot is free again when the transfer is over.       *)
EXTENDS FragmentReboot, FragmentPrompt, FragmentLinkProofs, TLAPS

-----------------------------------------------------------------------------
(* A reboot. *)

\* BIN_COM_Init forgets sessions and ids, and no frame in the air becomes
\* untrue by it: what was accepted stays accepted.
LEMMA RebootTruth ==
    ASSUME TruthInv, NEW n \in Senders, RebootTx(n)
    PROVE  TruthInv'
<1>1. UNCHANGED <<net, accepted, outcome, rx, delivered>>
  BY DEF RebootTx, rxVars
<1>2. TxTypeOK
  BY DEF TruthInv, TypeOK
<1>3. tx' \in [Senders -> [TxSlots -> TxSession \cup {NoSession}]]
  BY <1>2 DEF RebootTx, TxTypeOK
<1>4. next_msg_id' \in [Senders -> 1..MaxMsgId]
  <2>1. 1 \in 1..MaxMsgId
    BY LimitsAssumption
  <2> QED
    BY <1>2, <2>1 DEF RebootTx, TxTypeOK
<1>5. payload_size' \in [Senders -> MinPayloadSize..MaxPayloadSize]
  <2>1. MaxPayload \in MinPayloadSize..MaxPayloadSize
    BY LimitsAssumption, TxAssumption
  <2> QED
    BY <1>2, <2>1 DEF RebootTx, TxTypeOK
<1>6. TypeOK'
  BY <1>1, <1>3, <1>4, <1>5 DEF TruthInv, TypeOK, TxTypeOK, RxTypeOK
<1>7. DefaultPayloadSize'
  BY DEF RebootTx, TruthInv, DefaultPayloadSize
<1>8. TxMatchesTransfer'
  <2> SUFFICES ASSUME NEW m \in Senders, NEW s \in TxActive(m)'
               PROVE  \E a \in accepted' : IsSending(m, tx'[m][s], a)
    BY DEF TxMatchesTransfer
  <2>1. m # n
    BY TxType DEF RebootTx, TxActive, NoSession, TruthInv
  <2>2. tx'[m] = tx[m] /\ s \in TxActive(m)
    BY <2>1 DEF RebootTx, TxActive
  <2> QED
    BY <1>1, <2>2 DEF TruthInv, TxMatchesTransfer
<1>9. FramesTruthful' /\ SuccessMeansDelivered'
  BY <1>1 DEF TruthInv, FramesTruthful, SuccessMeansDelivered
<1> QED
  BY <1>6, <1>7, <1>8, <1>9 DEF TruthInv

-----------------------------------------------------------------------------
(* The receiver, part by part. *)

\* All that session r holds is genuine.
GenuineSession(r) ==
    /\ r.frag_cnt = CeilDiv(r.total_len, MaxPayload)
    /\ \A i \in r.received :
          GenuinePart(r.buffer[i], r.source, r.msg_id, r.total_len, i)

\* A part that was sent stays one that was sent.
LEMMA GenuineStays ==
    ASSUME accepted \subseteq accepted', NEW part, NEW source, NEW msg_id, NEW len,
           NEW i, GenuinePart(part, source, msg_id, len, i)
    PROVE  GenuinePart(part, source, msg_id, len, i)'
BY DEF GenuinePart

LEMMA SamePartsGenuine ==
    ASSUME NEW q, NEW r, SameParts(q, r), GenuineSession(r)
    PROVE  GenuineSession(q)
BY DEF SameParts, GenuineSession

LEMMA SessionsGenuine ==
    ASSUME SessionPartsGenuine, NEW s \in RxSlots, rx[s].active
    PROVE  GenuineSession(rx[s])
BY DEF SessionPartsGenuine, RxActive, GenuineSession

\* The sessions of a step, genuine by what was accepted before it.
LEMMA SessionsStayGenuine ==
    ASSUME accepted \subseteq accepted',
           \A s \in RxSlots : rx'[s].active => GenuineSession(rx'[s])
    PROVE  SessionPartsGenuine'
<1> SUFFICES ASSUME NEW s \in RxSlots, rx'[s].active
             PROVE  /\ rx'[s].frag_cnt = CeilDiv(rx'[s].total_len, MaxPayload)
                    /\ \A i \in rx'[s].received :
                          GenuinePart(rx[s].buffer[i], rx[s].source, rx[s].msg_id,
                                      rx[s].total_len, i)'
  BY DEF SessionPartsGenuine, RxActive
<1>1. GenuineSession(rx'[s])
  OBVIOUS
<1> QED
  BY <1>1 DEF GenuineSession, GenuinePart

LEMMA GoingOnGenuine ==
    ASSUME RebootInv, SessionsGoOn, UNCHANGED delivered, accepted \subseteq accepted'
    PROVE  SessionPartsGenuine' /\ PartsGenuine'
<1>1. ASSUME NEW s \in RxSlots, rx'[s].active
      PROVE  GenuineSession(rx'[s])
  BY <1>1, SessionsGenuine, SamePartsGenuine DEF SessionsGoOn, RebootInv
<1>2. SessionPartsGenuine'
  BY <1>1, SessionsStayGenuine
<1>3. PartsGenuine'
  BY DEF RebootInv, PartsGenuine, GenuinePart
<1> QED
  BY <1>2, <1>3

\* The session a fragment is stored in is of its transfer: a genuine one of
\* an earlier life of the transmitter, or a new one.
LEMMA PlaceGenuineParts ==
    ASSUME RebootInv, NEW f \in net, f.type = "DATA", f \in DataFrames,
           NEW p \in PlaceFor(f)
    PROVE  /\ GenuineSession(p[2])
           /\ GenuinePart(f.payload, f.source, f.msg_id, f.total_len, f.frag_idx)
<1>1. PICK a \in accepted : IsFragmentOf(f, a)
  BY DEF RebootInv, TruthInv, FramesTruthful
<1>2. p \in SessionFor(f)
  BY DEF PlaceFor
<1>3. CASE FindRx(f) # {}
  <2>1. PICK s \in FindRx(f) : p = <<s, rx[s]>>
    BY <1>2, <1>3 DEF SessionFor
  <2>2. s \in RxSlots /\ rx[s].active
    BY DEF FindRx, First, RxActive
  <2> QED
    BY <1>1, <2>1, <2>2, SessionsGenuine DEF RebootInv, GenuinePart, IsFragmentOf
<1>4. CASE FindRx(f) = {}
  <2>1. p[2] = NewRxSession(f)
    BY <1>2, <1>4 DEF SessionFor
  <2>2. p[2].frag_cnt = f.frag_cnt /\ p[2].total_len = f.total_len /\ p[2].received = {}
    BY <2>1 DEF NewRxSession
  <2> QED
    BY <1>1, <2>2 DEF GenuineSession, GenuinePart, IsFragmentOf
<1> QED
  BY <1>3, <1>4

LEMMA StoredGenuineParts ==
    ASSUME RebootInv, NEW f \in net, f.type = "DATA", f \in DataFrames,
           NEW p \in PlaceFor(f)
    PROVE  Stored(p[2], f) \in RxSession /\ GenuineSession(Stored(p[2], f))
<1> DEFINE r == p[2]
           q == Stored(p[2], f)
<1>1. /\ r \in RxSession /\ f.frag_idx \in Indices /\ SameMetadata(r, f)
      /\ r.source = f.source /\ r.msg_id = f.msg_id
  BY PlaceType DEF RebootInv, TruthInv, TypeOK
<1>2. /\ q \in RxSession
      /\ q.source = r.source /\ q.msg_id = r.msg_id
      /\ q.total_len = r.total_len /\ q.frag_cnt = r.frag_cnt
      /\ q.received = r.received \cup {f.frag_idx}
      /\ q.buffer = [r.buffer EXCEPT ![f.frag_idx] = f.payload]
  BY <1>1, StoredType
<1>3. r.buffer \in [Indices -> Payload \cup {Blank}] /\ r.received \subseteq Indices
  BY <1>1 DEF RxSession, Buffer
<1>4. /\ GenuineSession(r)
      /\ GenuinePart(f.payload, f.source, f.msg_id, f.total_len, f.frag_idx)
  BY PlaceGenuineParts
<1>5. r.total_len = f.total_len
  BY <1>1 DEF SameMetadata
<1> HIDE DEF q, r
<1>6. ASSUME NEW i \in q.received
      PROVE  GenuinePart(q.buffer[i], q.source, q.msg_id, q.total_len, i)
  <2>1. CASE i = f.frag_idx
    <3>1. q.buffer[i] = f.payload
      BY <1>1, <1>2, <1>3, <2>1
    <3> QED
      BY <1>1, <1>2, <1>4, <1>5, <2>1, <3>1
  <2>2. CASE i # f.frag_idx
    <3>1. i \in r.received /\ q.buffer[i] = r.buffer[i]
      BY <1>2, <1>3, <2>2
    <3> QED
      BY <1>2, <1>4, <3>1 DEF GenuineSession
  <2> QED
    BY <2>1, <2>2
<1> QED
  BY <1>2, <1>4, <1>6 DEF GenuineSession, q

LEMMA ReceiveDataGenuine ==
    ASSUME RebootInv, NEW f \in net, ReceiveData(f)
    PROVE  SessionPartsGenuine' /\ PartsGenuine'
<1>1. f.type = "DATA" /\ f \in DataFrames /\ TypeOK
  BY HeardType DEF ReceiveData, RebootInv, TruthInv
<1>2. accepted' = accepted
  BY DEF ReceiveData, txVars
<1>3. ASSUME NEW p \in PlaceFor(f)
      PROVE  GenuineSession(Stored(p[2], f))
  BY <1>1, StoredGenuineParts
<1>4. SessionPartsGenuine'
  <2>1. ASSUME NEW s \in RxSlots, rx'[s].active
        PROVE  GenuineSession(rx'[s])
    <3>1. CASE rx[s].active /\ SameParts(rx'[s], rx[s])
      BY <3>1, SessionsGenuine, SamePartsGenuine DEF RebootInv
    <3>2. ASSUME NEW p \in PlaceFor(f), SameParts(rx'[s], Stored(p[2], f))
          PROVE  GenuineSession(rx'[s])
      BY <1>3, <3>2, SamePartsGenuine
    <3> QED
      BY <1>1, <2>1, <3>1, <3>2, ReceiveDataStores
  <2> QED
    BY <1>2, <2>1, SessionsStayGenuine
<1>5. PartsGenuine'
  <2>1. CASE delivered' = delivered
    BY <1>2, <2>1 DEF RebootInv, PartsGenuine, GenuinePart
  <2>2. ASSUME NEW p \in PlaceFor(f), IsComplete(Stored(p[2], f)),
               delivered' = delivered \cup {Made(Stored(p[2], f))}
        PROVE  PartsGenuine'
    <3> DEFINE r == Stored(p[2], f)
               d == Made(r)
    <3>1. GenuineSession(r) /\ IsComplete(r)
      BY <1>3, <2>2
    <3> HIDE DEF r
    <3>2. \A i \in 0..(CeilDiv(d.len, MaxPayload) - 1) :
             GenuinePart(d.buffer[i], d.source, d.msg_id, d.len, i)
      BY <3>1 DEF Made, GenuineSession, IsComplete, Missing
    <3>3. delivered' = delivered \cup {d}
      BY <2>2 DEF r
    <3> HIDE DEF d
    <3> QED
      BY <1>2, <3>2, <3>3 DEF RebootInv, PartsGenuine, GenuinePart
  <2> QED
    BY <1>1, <2>1, <2>2, ReceiveDataStores
<1> QED
  BY <1>4, <1>5

-----------------------------------------------------------------------------
(* RebootInv is inductive. *)

LEMMA InitReboot == RebootInit => RebootInv
<1> SUFFICES ASSUME RebootInit PROVE RebootInv
  OBVIOUS
<1>1. TruthInv
  BY InitTruth DEF RebootInit
<1>2. RxActive = {} /\ delivered = {}
  BY DEF RebootInit, Init, RxInit, RxActive, NoSession
<1>3. reboots \in 0..MaxReboots
  BY RebootAssumption DEF RebootInit
<1> QED
  BY <1>1, <1>2, <1>3 DEF RebootInv, SessionPartsGenuine, PartsGenuine

LEMMA LinkStepGenuine ==
    ASSUME RebootInv, [Next]_vars
    PROVE  SessionPartsGenuine' /\ PartsGenuine'
<1> USE DEF RebootInv, TruthInv
<1>1. ASSUME SessionsGoOn, UNCHANGED delivered, accepted \subseteq accepted'
      PROVE  SessionPartsGenuine' /\ PartsGenuine'
  BY <1>1, GoingOnGenuine
<1>2. ASSUME UNCHANGED rxVars, accepted \subseteq accepted'
      PROVE  SessionPartsGenuine' /\ PartsGenuine'
  BY <1>1, <1>2, RxUnchangedGoesOn DEF rxVars
<1>3. ASSUME NEW n \in Senders, Send(n)
      PROVE  SessionPartsGenuine' /\ PartsGenuine'
  BY <1>2, <1>3 DEF Send, TxSend
<1>4. ASSUME NEW n \in Senders, Cancel(n) \/ ClearTx(n) \/ TickTx(n)
      PROVE  SessionPartsGenuine' /\ PartsGenuine'
  BY <1>2, <1>4 DEF Cancel, TxCancel, ClearTx, TxClear, TickTx, TxTick
<1>5. CASE ClearRx
  BY <1>1, <1>5, ClearRxGoesOn DEF ClearRx, txVars
<1>6. CASE TickRx
  BY <1>1, <1>6, TickRxGoesOn DEF TickRx, txVars
<1>7. ASSUME NEW f \in net, ReceiveNack(f) \/ ReceiveDone(f)
      PROVE  SessionPartsGenuine' /\ PartsGenuine'
  <2>1. UNCHANGED rxVars /\ accepted' = accepted
    BY <1>7 DEF ReceiveNack, ReceiveDone, TxIgnore, Ignored, txVars,
       TxNackExhausted, TxNack, TxDone
  <2> QED
    BY <1>2, <2>1
<1>8. ASSUME NEW f \in net, ReceiveData(f)
      PROVE  SessionPartsGenuine' /\ PartsGenuine'
  BY <1>8, ReceiveDataGenuine
<1>9. ASSUME NEW f \in net, Lose(f)
      PROVE  SessionPartsGenuine' /\ PartsGenuine'
  BY <1>2, <1>9 DEF Lose, txVars
<1>10. CASE Clock
  BY <1>1, <1>10, ClockGoesOn DEF Clock
<1>11. CASE UNCHANGED vars
  BY <1>2, <1>11 DEF vars, rxVars
<1> QED
  BY <1>3, <1>4, <1>5, <1>6, <1>7, <1>8, <1>9, <1>10, <1>11 DEF Next, Receive

LEMMA StepReboot == RebootInv /\ [RebootNext]_rebootVars => RebootInv'
<1> SUFFICES ASSUME RebootInv, [RebootNext]_rebootVars
             PROVE  RebootInv'
  OBVIOUS
<1>1. ASSUME [Next]_vars, UNCHANGED reboots
      PROVE  RebootInv'
  BY <1>1, TruthStep, LinkStepGenuine DEF RebootInv
<1>2. ASSUME NEW n \in Senders, RebootTx(n)
      PROVE  RebootInv'
  <2>1. TruthInv'
    BY <1>2, RebootTruth DEF RebootInv
  <2>2. reboots' \in 0..MaxReboots
    BY <1>2, RebootAssumption DEF RebootTx, RebootInv
  <2>3. UNCHANGED <<rx, delivered, accepted>>
    BY <1>2 DEF RebootTx, rxVars
  <2>4. SessionPartsGenuine' /\ PartsGenuine'
    BY <2>3, GoingOnGenuine, RxUnchangedGoesOn
  <2> QED
    BY <2>1, <2>2, <2>4 DEF RebootInv
<1> QED
  BY <1>1, <1>2 DEF RebootNext, rebootVars

THEOREM RebootInvariance == RebootSpec => []RebootInv
<1>1. RebootInit => RebootInv
  BY InitReboot
<1>2. RebootInv /\ [RebootNext]_rebootVars => RebootInv'
  BY StepReboot
<1> QED
  BY <1>1, <1>2, PTL DEF RebootSpec

\* However often transmitters reboot and give out their ids again, and
\* whatever the radio does: each part of a message complete_message hands on
\* was sent by that device, under that id, at that index, in a message of
\* that length.
THEOREM PartsAreGenuine == RebootSpec => []PartsGenuine
<1>1. RebootInv => PartsGenuine
  BY DEF RebootInv
<1> QED
  BY <1>1, RebootInvariance, PTL

\* After reboots, too, frag_tx_handle_done reports success only for an id
\* under which the receiver was given a message of that device; it may be an
\* older message than the one reported.
THEOREM RebootSuccessIsDelivery == RebootSpec => []SuccessMeansDelivered
<1>1. RebootInv => SuccessMeansDelivered
  BY DEF RebootInv, TruthInv
<1> QED
  BY <1>1, RebootInvariance, PTL

-----------------------------------------------------------------------------
(* One prompt transfer: what a step does to the pair of sessions.           *)

\* The transfers of FragmentPrompt are those of FragmentLink.
LEMMA PromptIsLink ==
    ASSUME IndInv, [PromptNext]_promptVars
    PROVE  IndInv'
<1>1. CASE LoseFragment
  <2>1. net' \subseteq net /\ UNCHANGED <<txVars, rxVars>>
    BY <1>1 DEF LoseFragment
  <2>2. TypeOK'
    BY <2>1 DEF IndInv, TruthInv, TypeOK, TxTypeOK, RxTypeOK, txVars, rxVars
  <2>3. accepted' = accepted /\ delivered' = delivered
    BY <2>1 DEF txVars, rxVars
  <2>4. TruthInv'
    BY <2>1, <2>2, <2>3, QuietTruth DEF IndInv
  <2> QED
    BY <2>1, <2>3, <2>4, TransmitterUntouched, ReceiverUntouched DEF IndInv
<1>2. CASE PromptReceive
  <2>1. [Next]_vars
    BY <1>2 DEF PromptReceive, Next
  <2> QED
    BY <2>1, StepSafe
<1>3. CASE PromptTick
  <2>1. [Next]_vars
    BY <1>3 DEF PromptTick, Next
  <2> QED
    BY <2>1, StepSafe
<1>4. ASSUME NEW n \in Senders, PromptSend(n)
      PROVE  IndInv'
  <2>1. Send(n)
    BY <1>4 DEF PromptSend, Send
  <2>2. [Next]_vars
    BY <2>1 DEF Next
  <2> QED
    BY <2>2, StepSafe
<1>5. CASE PromptClock
  <2>1. [Next]_vars
    BY <1>5 DEF PromptClock, Next
  <2> QED
    BY <2>1, StepSafe
<1>6. CASE UNCHANGED promptVars
  <2>1. [Next]_vars
    BY <1>6 DEF promptVars, vars
  <2> QED
    BY <2>1, StepSafe
<1> QED
  BY <1>1, <1>2, <1>3, <1>4, <1>5, <1>6 DEF PromptNext

-----------------------------------------------------------------------------
(* The clocks. *)

LEMMA TimesMonotone ==
    ASSUME NEW a \in Nat, NEW b \in Nat, NEW k \in Nat, a <= b
    PROVE  a * k <= b * k
<1>1. b * k = a * k + (b - a) * k
  OBVIOUS
<1>2. (b - a) * k \in Nat
  OBVIOUS
<1>3. a * k \in Nat
  OBVIOUS
<1> QED
  BY <1>1, <1>2, <1>3

LEMMA OneMore ==
    ASSUME NEW a \in Int, NEW k \in Nat
    PROVE  (a + 1) * k = a * k + k
OBVIOUS

LEMMA TimesType ==
    ASSUME NEW a \in Nat, NEW k \in Nat
    PROVE  a * k \in Nat
OBVIOUS

LEMMA FragmentsType == MaxFragments \in Nat
BY CeilDivType, LimitsAssumption DEF MaxFragments

\* Fragments that went out every SendDelay took no longer than that.
LEMMA SendingTime ==
    ASSUME NEW t \in TxSession, Sending(t), t.frag_cnt >= 1
    PROVE  t.age <= t.frag_cnt * SendDelay
<1>1. SendDelay \in Nat /\ t.frag_cnt \in Nat /\ t.current_frag \in Nat
      /\ t.age \in Nat /\ t.idle \in Nat
  BY TxAssumption DEF TxSession
<1>2. CASE t.current_frag = 0 /\ t.age = 0
  BY <1>1, <1>2, TimesType
<1>3. CASE /\ t.current_frag \in 1..t.frag_cnt
           /\ t.idle <= SendDelay
           /\ t.age <= (t.current_frag - 1) * SendDelay + t.idle
  <2>1. ((t.current_frag - 1) + 1) * SendDelay
          = (t.current_frag - 1) * SendDelay + SendDelay
    BY <1>1, OneMore
  <2>2. (t.current_frag - 1) + 1 = t.current_frag
    BY <1>1
  <2>3. t.current_frag * SendDelay <= t.frag_cnt * SendDelay
    BY <1>1, <1>3, TimesMonotone
  <2>4. /\ (t.current_frag - 1) * SendDelay \in Int
        /\ t.current_frag * SendDelay \in Int /\ t.frag_cnt * SendDelay \in Int
    BY <1>1
  <2> QED
    BY <1>1, <1>3, <2>1, <2>2, <2>3, <2>4
<1> QED
  BY <1>2, <1>3 DEF Sending

\* A session outlives its transfer.
LEMMA LivesOn ==
    ASSUME NEW t \in TxSession, t.frag_cnt \in 1..MaxFragments,
           Sending(t) \/ Waiting(t), t.nack_rounds <= MaxNackRounds,
           Waiting(t) => t.idle <= FragTimeout + 1
    PROVE  t.age <= SessionTimeout
<1>1. /\ SendDelay \in Nat /\ FragTimeout \in Nat /\ MaxNackRounds \in Nat
      /\ SessionTimeout \in Nat /\ MaxFragments \in Nat
  BY TxAssumption, LimitsAssumption, FragmentsType
<1>2. t.frag_cnt \in Nat /\ t.age \in Nat /\ t.idle \in Nat /\ t.nack_rounds \in Nat
  BY DEF TxSession
<1>3. t.frag_cnt * SendDelay <= MaxFragments * SendDelay
  BY <1>1, <1>2, TimesMonotone
<1>4. t.nack_rounds * (FragTimeout + 1) <= MaxNackRounds * (FragTimeout + 1)
  <2>1. FragTimeout + 1 \in Nat
    BY <1>1
  <2> QED
    BY <1>1, <1>2, <2>1, TimesMonotone
<1>5. (MaxNackRounds + 1) * (FragTimeout + 1)
        = MaxNackRounds * (FragTimeout + 1) + (FragTimeout + 1)
  <2>1. FragTimeout + 1 \in Nat /\ MaxNackRounds \in Int
    BY <1>1
  <2> QED
    BY <2>1, OneMore
<1>6. /\ t.frag_cnt * SendDelay \in Nat /\ MaxFragments * SendDelay \in Nat
      /\ t.nack_rounds * (FragTimeout + 1) \in Nat
      /\ MaxNackRounds * (FragTimeout + 1) \in Nat
  BY <1>1, <1>2, TimesType
<1>7. SessionTimeout >= MaxFragments * SendDelay
                          + (MaxNackRounds + 1) * (FragTimeout + 1)
  BY PromptAssumption
<1>8. CASE Sending(t)
  <2>1. t.age <= t.frag_cnt * SendDelay
    BY <1>8, SendingTime
  <2> QED
    BY <1>1, <1>2, <1>3, <1>5, <1>6, <1>7, <2>1
<1>9. CASE Waiting(t)
  <2>1. t.age <= t.frag_cnt * SendDelay + t.nack_rounds * (FragTimeout + 1) + t.idle
    BY <1>9 DEF Waiting
  <2> QED
    BY <1>1, <1>2, <1>3, <1>4, <1>5, <1>6, <1>7, <1>9, <2>1
<1> QED
  BY <1>8, <1>9

-----------------------------------------------------------------------------
(* The frames. *)

LEMMA FragmentSame ==
    ASSUME NEW n, NEW t, NEW u, SameTransfer(u, t), NEW i
    PROVE  Fragment(n, u, i) = Fragment(n, t, i)
BY DEF Fragment, SameTransfer

LEMMA FragmentFields ==
    ASSUME NEW n, NEW t, NEW i
    PROVE  LET f == Fragment(n, t, i)
           IN  /\ f.type = "DATA" /\ f.source = n /\ f.msg_id = t.msg_id
               /\ f.frag_idx = i /\ f.frag_cnt = t.frag_cnt
BY DEF Fragment, DataFrame

LEMMA FrameTypes ==
    ASSUME NEW n, NEW id, NEW missing
    PROVE  /\ NackFrame(n, id, missing).type = "NACK"
           /\ NackFrame(n, id, missing).missing = missing
           /\ NackFrame(n, id, missing).msg_id = id
           /\ NackFrame(n, id, missing).dest = n
           /\ DoneFrame(n, id).type = "DONE"
           /\ DoneFrame(n, id).msg_id = id
           /\ DoneFrame(n, id).dest = n
BY DEF NackFrame, DoneFrame

\* Nothing is in the air.
LEMMA QuietAir ==
    ASSUME NEW n, NEW t, NEW r, InFlight(n, t, r, {})
    PROVE  FragmentsInAir(n, t, r, {}, {})
<1>1. PICK D \in SUBSET (0..(t.frag_cnt - 1)) : FragmentsInAir(n, t, r, {}, D)
  BY DEF InFlight, NackInAir
<1>2. D = {}
  BY <1>1 DEF FragmentsInAir
<1> QED
  BY <1>1, <1>2

LEMMA FromQuiet ==
    ASSUME NEW n, NEW t, NEW r, t.active, t.dest = Receiver,
           t.frag_cnt \in 1..MaxFragments, Sending(t) \/ Waiting(t),
           r.active => InStep(n, t, r),
           r.active /\ t.state = "WAITING_DONE" => t.idle <= r.idle
    PROVE  InFlight(n, t, r, {})
<1>1. FragmentsInAir(n, t, r, {}, {})
  BY DEF FragmentsInAir
<1> QED
  BY <1>1 DEF InFlight

-----------------------------------------------------------------------------
(* The transmitter's session takes a step. *)

\* Ticked when a fragment has gone out, and when all have.
SentOne(t) == [t EXCEPT !.current_frag = @ + 1, !.idle = 0]

SentAll(t) == [t EXCEPT !.state = "WAITING_DONE", !.idle = 0]

LEMMA ActiveRx ==
    ASSUME NEW r \in RxSession \cup {NoSession}, r.active
    PROVE  r \in RxSession
BY DEF NoSession

LEMMA TickedCases ==
    ASSUME NEW t \in TxSession
    PROVE  /\ Expired(t) => Ticked(t, TRUE) = NoSession /\ ~SendDue(t)
           /\ SendDue(t) => Ticked(t, TRUE) = SentOne(t)
           /\ AllSent(t) => Ticked(t, TRUE) = SentAll(t)
           /\ ~Expired(t) /\ ~SendDue(t) /\ ~AllSent(t) => Ticked(t, TRUE) = t
           /\ AllSent(t) => ~SendDue(t)
<1>1. Expired(t) => ~SendDue(t) /\ ~AllSent(t)
  BY LimitsAssumption DEF Expired, SendDue, AllSent, MaySend, TxSession
<1>2. SendDue(t) => ~AllSent(t)
  BY DEF SendDue, AllSent, TxSession
<1> QED
  BY <1>1, <1>2 DEF Ticked, SentOne, SentAll

\* No session expires while the receiver is at work on the message.
LEMMA NotExpired ==
    ASSUME NEW n, NEW t \in TxSession, NEW r \in RxSession, r.active,
           InFlight(n, t, r, {})
    PROVE  ~Expired(t)
<1>1. FragmentsInAir(n, t, r, {}, {})
  BY QuietAir
<1>2. InStep(n, t, r) /\ (Sending(t) \/ Waiting(t)) /\ t.frag_cnt \in 1..MaxFragments
  BY DEF InFlight
<1>3. /\ t.idle \in Nat /\ r.idle \in Nat /\ FragTimeout \in Nat
      /\ t.nack_rounds \in Nat /\ r.nacks_sent \in 0..MaxNackRounds
      /\ MaxNackRounds \in Nat /\ t.age \in Nat /\ SessionTimeout \in Nat
  BY LimitsAssumption DEF TxSession, RxSession
<1>4. t.state = "WAITING_DONE" => t.idle <= FragTimeout + 1
  BY <1>1, <1>2, <1>3 DEF FragmentsInAir, InStep
<1>5. t.nack_rounds <= MaxNackRounds
  BY <1>2, <1>3 DEF InStep
<1>6. t.age <= SessionTimeout
  BY <1>2, <1>4, <1>5, LivesOn DEF Waiting
<1>7. FragTimeout + 1 <= 2 * FragTimeout
  BY <1>3, PromptAssumption
<1> QED
  BY <1>3, <1>4, <1>6, <1>7 DEF Expired

LEMMA SendDueFlight ==
    ASSUME NEW n, NEW t \in TxSession, NEW r \in RxSession \cup {NoSession},
           InFlight(n, t, r, {}), SendDue(t)
    PROVE  InFlight(n, SentOne(t), r, {Fragment(n, t, t.current_frag)})
<1> DEFINE i == t.current_frag
           u == SentOne(t)
<1>1. /\ SendDelay \in Nat /\ i \in Nat /\ t.frag_cnt \in Nat
      /\ t.age \in Nat /\ t.idle \in Nat
  BY TxAssumption DEF TxSession
<1>2. t.state = "SENDING" /\ i < t.frag_cnt
  BY DEF SendDue, MaySend
<1>3. Sending(t)
  BY <1>2 DEF InFlight, Waiting
<1>4. /\ u.current_frag = i + 1 /\ u.idle = 0 /\ u.state = "SENDING"
      /\ u.nack_rounds = t.nack_rounds /\ u.age = t.age
      /\ u.frag_cnt = t.frag_cnt /\ u.msg_id = t.msg_id
      /\ u.active = t.active /\ u.dest = t.dest /\ SameTransfer(u, t)
  BY <1>2 DEF SentOne, TxSession, SameTransfer
<1> HIDE DEF u
<1>5. u.age <= (u.current_frag - 1) * SendDelay + u.idle
  <2>1. u.current_frag - 1 = i
    BY <1>1, <1>4
  <2>2. CASE i = 0 /\ t.age = 0
    BY <1>1, <1>4, <2>1, <2>2
  <2>3. CASE /\ i \in 1..t.frag_cnt /\ t.idle <= SendDelay
             /\ t.age <= (i - 1) * SendDelay + t.idle
    <3>1. ((i - 1) + 1) * SendDelay = (i - 1) * SendDelay + SendDelay
      BY <1>1, OneMore
    <3>2. (i - 1) + 1 = i /\ (i - 1) * SendDelay \in Int
      BY <1>1
    <3> QED
      BY <1>1, <1>4, <2>1, <2>3, <3>1, <3>2
  <2> QED
    BY <1>3, <2>2, <2>3 DEF Sending
<1>6. Sending(u)
  <2>1. u.current_frag \in 1..u.frag_cnt /\ u.idle <= SendDelay
    BY <1>1, <1>2, <1>4
  <2>2. u.state = "SENDING" /\ u.nack_rounds = 0
    BY <1>3, <1>4 DEF Sending
  <2> QED
    BY <1>5, <2>1, <2>2 DEF Sending
<1>7. r.active => i \notin r.received /\ InStep(n, u, r)
  <2> SUFFICES ASSUME r.active
               PROVE  i \notin r.received /\ InStep(n, u, r)
    OBVIOUS
  <2>1. InStep(n, t, r) /\ \A j \in r.received : j < i
    BY <1>2 DEF InFlight, InStep
  <2>2. r.received \subseteq Nat
    <3>1. Indices \subseteq Nat
      BY FragmentsType DEF Indices
    <3>2. r \in RxSession
      BY ActiveRx
    <3>3. r.received \in SUBSET Indices
      BY <3>2 DEF RxSession
    <3> QED
      BY <3>1, <3>3
  <2> QED
    BY <1>1, <1>4, <2>1, <2>2 DEF InStep
<1>8. FragmentsInAir(n, u, r, {Fragment(n, t, i)}, {i})
  <2>1. {Fragment(n, t, i)} = {Fragment(n, u, j) : j \in {i}}
    BY <1>4, FragmentSame
  <2> HIDE DEF i
  <2> QED
    BY <1>1, <1>4, <1>7, <2>1 DEF FragmentsInAir
<1>9. {i} \in SUBSET (0..(u.frag_cnt - 1))
  BY <1>1, <1>2, <1>4
<1>10. u.active /\ u.dest = Receiver /\ u.frag_cnt \in 1..MaxFragments
  BY <1>4 DEF InFlight
<1>11. InFlight(n, u, r, {Fragment(n, t, i)})
  <2> HIDE DEF i
  <2> QED
    BY <1>6, <1>7, <1>8, <1>9, <1>10 DEF InFlight
<1> QED
  BY <1>11 DEF u

LEMMA AllSentFlight ==
    ASSUME NEW n, NEW t \in TxSession, NEW r \in RxSession \cup {NoSession},
           InFlight(n, t, r, {}), AllSent(t)
    PROVE  InFlight(n, SentAll(t), r, {})
<1> DEFINE u == SentAll(t)
<1>1. t.state = "SENDING" /\ t.frag_cnt \in 1..MaxFragments
  BY DEF AllSent, MaySend, InFlight
<1>2. Sending(t)
  BY <1>1 DEF InFlight, Waiting
<1>3. /\ u.idle = 0 /\ u.state = "WAITING_DONE"
      /\ u.nack_rounds = t.nack_rounds /\ u.age = t.age
      /\ u.frag_cnt = t.frag_cnt /\ u.msg_id = t.msg_id
      /\ u.active = t.active /\ u.dest = t.dest
  BY DEF SentAll, TxSession
<1> HIDE DEF u
<1>4. t.age <= t.frag_cnt * SendDelay
  BY <1>1, <1>2, SendingTime, FragmentsType
<1>5. u.nack_rounds * (FragTimeout + 1) = 0
  BY <1>2, <1>3, LimitsAssumption DEF Sending
<1>6. t.age \in Nat /\ t.frag_cnt * SendDelay \in Nat
  BY TxAssumption DEF TxSession
<1>7. Waiting(u)
  BY <1>3, <1>4, <1>5, <1>6 DEF Waiting
<1>8. r.active => InStep(n, u, r) /\ u.idle <= r.idle
  <2> SUFFICES ASSUME r.active
               PROVE  InStep(n, u, r) /\ u.idle <= r.idle
    OBVIOUS
  <2>1. r.idle \in Nat
    BY ActiveRx DEF RxSession
  <2> QED
    BY <1>3, <2>1 DEF InFlight, InStep
<1>9. u.active /\ u.dest = Receiver /\ u.frag_cnt \in 1..MaxFragments
  BY <1>3 DEF InFlight
<1>10. InFlight(n, u, r, {})
  BY <1>7, <1>8, <1>9, FromQuiet
<1> QED
  BY <1>10 DEF u

\* frag_tx_tick
LEMMA TickedFlight ==
    ASSUME NEW n, NEW t \in TxSession, NEW r \in RxSession \cup {NoSession},
           InFlight(n, t, r, {}), NEW air,
           air = IF SendDue(t) THEN {Fragment(n, t, t.current_frag)} ELSE {}
    PROVE  \/ Ticked(t, TRUE) = NoSession /\ ~r.active /\ air = {}
           \/ InFlight(n, Ticked(t, TRUE), r, air)
<1>1. CASE Expired(t)
  <2>1. ~r.active
    BY <1>1, NotExpired, ActiveRx
  <2> QED
    BY <1>1, <2>1, TickedCases
<1>2. CASE SendDue(t)
  BY <1>2, SendDueFlight, TickedCases
<1>3. CASE AllSent(t)
  BY <1>3, AllSentFlight, TickedCases
<1>4. CASE ~Expired(t) /\ ~SendDue(t) /\ ~AllSent(t)
  BY <1>4, TickedCases
<1> QED
  BY <1>1, <1>2, <1>3, <1>4

-----------------------------------------------------------------------------
(* The receiver's session takes a step. *)

\* The receiver has given up, or finished.
LEMMA FreeFlight ==
    ASSUME NEW n, NEW t, NEW r, InFlight(n, t, r, {})
    PROVE  InFlight(n, t, NoSession, {})
<1>1. ~NoSession.active
  BY DEF NoSession
<1> HIDE DEF NoSession
<1>2. t.active /\ t.dest = Receiver /\ t.frag_cnt \in 1..MaxFragments
      /\ (Sending(t) \/ Waiting(t))
  BY DEF InFlight
<1> QED
  BY <1>1, <1>2, FromQuiet

LEMMA NackForCases ==
    ASSUME NEW r
    PROVE  /\ GivesUp(r) => NackFor(r) = {} /\ AfterNack(r) = NoSession
           /\ ~GivesUp(r) => NackFor(r) = {NackFrame(r.source, r.msg_id, Reported(r))}
           /\ Reported(r) \in SUBSET Missing(r)
BY DEF NackFor, AfterNack, Reported

\* A NACK is in the air, and the receiver has counted it.
LEMMA NackFlight ==
    ASSUME NEW n, NEW t \in TxSession, NEW r \in RxSession, NEW q \in RxSession,
           t.active, t.dest = Receiver, t.frag_cnt \in 1..MaxFragments,
           Sending(t) \/ Waiting(t), InStep(n, t, r),
           t.state = "WAITING_DONE" => t.idle <= FragTimeout + 1,
           SameParts(q, r), q.active, q.nacks_sent = r.nacks_sent + 1,
           q.idle <= FragTimeout + 1
    PROVE  InFlight(n, t, q, {NackFrame(r.source, r.msg_id, Reported(r))})
<1> DEFINE air == {NackFrame(r.source, r.msg_id, Reported(r))}
<1>1. t.nack_rounds \in Nat /\ r.nacks_sent \in Nat
  BY DEF TxSession, RxSession
<1>2. t.nack_rounds < q.nacks_sent
  BY <1>1 DEF InStep
<1>3. InStep(n, t, q)
  BY <1>1, <1>2 DEF InStep, SameParts
<1>4. Reported(r) \in SUBSET Missing(q)
  BY NackForCases DEF SameParts, Missing
<1>5. NackInAir(n, t, q, air, Reported(r))
  BY <1>2 DEF NackInAir, InStep
<1> HIDE DEF air
<1>6. \E missing \in SUBSET Missing(q) : NackInAir(n, t, q, air, missing)
  BY <1>4, <1>5
<1>7. InFlight(n, t, q, air)
  BY <1>3, <1>6 DEF InFlight
<1> QED
  BY <1>7 DEF air

\* The session asks again, from frag_rx_tick.
Asked(r) == [AfterNack(r) EXCEPT !.idle = 0]

LEMMA AskedFields ==
    ASSUME NEW r \in RxSession, ~GivesUp(r)
    PROVE  /\ Asked(r) \in RxSession /\ SameParts(Asked(r), r)
           /\ Asked(r).active /\ Asked(r).idle = 0
           /\ Asked(r).nacks_sent = r.nacks_sent + 1
           /\ AfterNack(r) \in RxSession /\ SameParts(AfterNack(r), r)
           /\ AfterNack(r).active /\ AfterNack(r).idle = r.idle
           /\ AfterNack(r).nacks_sent = r.nacks_sent + 1
<1>1. /\ AfterNack(r) \in RxSession /\ Asked(r) \in RxSession
      /\ SameParts(AfterNack(r), r) /\ SameParts(Asked(r), r)
  BY AfterNackType, AfterNackSame DEF Asked
<1>2. AfterNack(r) = [r EXCEPT !.nacks_sent = @ + 1]
  BY DEF AfterNack
<1>3. AfterNack(r).nacks_sent = r.nacks_sent + 1 /\ AfterNack(r).idle = r.idle
  BY <1>2 DEF RxSession
<1>4. Asked(r).nacks_sent = r.nacks_sent + 1 /\ Asked(r).idle = 0
  BY <1>1, <1>3 DEF Asked, RxSession
<1>5. Asked(r).active /\ AfterNack(r).active
  BY <1>1 DEF RxSession
<1> QED
  BY <1>1, <1>3, <1>4, <1>5

\* frag_rx_tick
LEMMA RxTickedFlight ==
    ASSUME NEW n, NEW t \in TxSession, NEW r \in RxSession \cup {NoSession},
           InFlight(n, t, r, {}), NEW air,
           air = IF NackDue(r) THEN NackFor(r) ELSE {}
    PROVE  InFlight(n, t, RxTicked(r), air)
<1>1. CASE r.active /\ r.age > SessionTimeout
  <2>1. r \in RxSession
    BY <1>1, ActiveRx
  <2>2. ~NackDue(r)
    BY <1>1, <2>1, LimitsAssumption DEF NackDue, RxSession
  <2> QED
    BY <1>1, <2>2, FreeFlight DEF RxTicked
<1>2. CASE ~(r.active /\ r.age > SessionTimeout) /\ ~NackDue(r)
  BY <1>2 DEF RxTicked
<1>3. CASE ~(r.active /\ r.age > SessionTimeout) /\ NackDue(r) /\ GivesUp(r)
  <2>1. RxTicked(r) = NoSession /\ air = {}
    BY <1>3, NackForCases DEF RxTicked
  <2> QED
    BY <2>1, FreeFlight
<1>4. CASE ~(r.active /\ r.age > SessionTimeout) /\ NackDue(r) /\ ~GivesUp(r)
  <2>1. r.active
    BY <1>4 DEF NackDue
  <2>2. r \in RxSession
    BY <2>1, ActiveRx
  <2>3. RxTicked(r) = Asked(r)
    BY <1>4 DEF RxTicked, Asked
  <2>4. air = {NackFrame(r.source, r.msg_id, Reported(r))}
    BY <1>4, NackForCases
  <2>5. FragmentsInAir(n, t, r, {}, {}) /\ InStep(n, t, r)
    BY <2>1, QuietAir DEF InFlight
  <2>6. t.state = "WAITING_DONE" => t.idle <= FragTimeout + 1
    <3>1. t.idle \in Nat /\ r.idle \in Nat /\ FragTimeout \in Nat
      BY <2>2, LimitsAssumption DEF TxSession, RxSession
    <3> QED
      BY <2>1, <2>5, <3>1 DEF FragmentsInAir, InStep
  <2>7. 0 <= FragTimeout + 1
    BY LimitsAssumption
  <2>8. /\ Asked(r) \in RxSession /\ SameParts(Asked(r), r) /\ Asked(r).active
        /\ Asked(r).idle <= FragTimeout + 1
        /\ Asked(r).nacks_sent = r.nacks_sent + 1
    BY <1>4, <2>2, <2>7, AskedFields
  <2>9. /\ t.active /\ t.dest = Receiver /\ t.frag_cnt \in 1..MaxFragments
        /\ Sending(t) \/ Waiting(t)
    BY DEF InFlight
  <2> QED
    BY <2>2, <2>3, <2>4, <2>5, <2>6, <2>8, <2>9, NackFlight
<1> QED
  BY <1>1, <1>2, <1>3, <1>4

-----------------------------------------------------------------------------
(* The clock. *)

\* A session that has nothing to do is not late.
LEMMA SettledTx ==
    ASSUME NEW t \in TxSession, Ticked(t, TRUE) = t
    PROVE  ~Expired(t) /\ ~SendDue(t) /\ ~AllSent(t)
<1>1. ~Expired(t)
  <2>1. t.active /\ ~NoSession.active
    BY DEF NoSession, TxSession
  <2> QED
    BY <2>1, TickedCases
<1>2. ~SendDue(t)
  <2>1. SentOne(t).current_frag = t.current_frag + 1 /\ t.current_frag \in Nat
    BY DEF SentOne, TxSession
  <2>2. t.current_frag + 1 # t.current_frag
    BY <2>1
  <2> QED
    BY <2>1, <2>2, TickedCases
<1>3. ~AllSent(t)
  <2>1. SentAll(t).state = "WAITING_DONE"
    BY DEF SentAll, TxSession
  <2> QED
    BY <2>1, TickedCases DEF AllSent, MaySend
<1> QED
  BY <1>1, <1>2, <1>3

LEMMA SettledRx ==
    ASSUME NEW r \in RxSession, RxTicked(r) = r, ~IsComplete(r)
    PROVE  r.idle <= FragTimeout
<1>1. r.active /\ r.age \in Nat /\ r.idle \in Nat /\ ~NoSession.active
  BY DEF RxSession, NoSession
<1>2. ~(r.active /\ r.age > SessionTimeout)
  BY <1>1 DEF RxTicked
<1>3. ~NackDue(r)
  <2>1. NackDue(r) /\ ~GivesUp(r) => RxTicked(r) = Asked(r)
    BY <1>2 DEF RxTicked, Asked
  <2>2. ~GivesUp(r) => Asked(r) # r
    <3>1. r.nacks_sent + 1 # r.nacks_sent
      BY DEF RxSession
    <3> QED
      BY <3>1, AskedFields
  <2>3. NackDue(r) /\ GivesUp(r) => RxTicked(r) = NoSession
    BY <1>2 DEF RxTicked
  <2> QED
    BY <1>1, <2>1, <2>2, <2>3
<1> QED
  BY <1>1, <1>2, <1>3, LimitsAssumption DEF NackDue

LEMMA AgedFields ==
    ASSUME NEW t \in TxSession
    PROVE  LET u == TxAged(t)
           IN  /\ SameTransfer(u, t) /\ u.active /\ u.dest = t.dest
               /\ u.state = t.state /\ u.current_frag = t.current_frag
               /\ u.nack_rounds = t.nack_rounds
               /\ u.age = Older(t.age, SessionTimeout + 1)
               /\ u.idle = Older(t.idle, IdleCap)
BY DEF TxAged, TxSession, SameTransfer

LEMMA RxAgedFields ==
    ASSUME NEW r \in RxSession
    PROVE  LET q == RxAged(r)
           IN  /\ SameParts(q, r) /\ q.active /\ q.nacks_sent = r.nacks_sent
               /\ q.idle = Older(r.idle, FragTimeout + 1)
BY DEF RxAged, RxSession, SameParts

\* HAL_GetTick advances.
LEMMA AgedFlight ==
    ASSUME NEW n, NEW t \in TxSession, NEW r \in RxSession \cup {NoSession},
           InFlight(n, t, r, {}), Ticked(t, TRUE) = t, RxTicked(r) = r,
           r.active => ~IsComplete(r)
    PROVE  InFlight(n, TxAged(t), RxAged(r), {})
<1> DEFINE u == TxAged(t)
           q == RxAged(r)
<1>1. ~Expired(t) /\ ~SendDue(t) /\ ~AllSent(t)
  BY SettledTx
<1>2. /\ SendDelay \in Nat /\ FragTimeout \in Nat /\ SessionTimeout \in Nat
      /\ t.idle \in Nat /\ t.age \in Nat /\ t.current_frag \in Nat
      /\ t.frag_cnt \in Nat /\ IdleCap \in Nat
      /\ SessionTimeout + 1 \in Nat /\ FragTimeout + 1 \in Nat
      /\ IdleCap = 2 * FragTimeout + SendDelay + 1
  BY LimitsAssumption, TxAssumption DEF TxSession, IdleCap
<1>3. /\ SameTransfer(u, t) /\ u.active /\ u.dest = t.dest
      /\ u.state = t.state /\ u.current_frag = t.current_frag
      /\ u.nack_rounds = t.nack_rounds
      /\ u.age = Older(t.age, SessionTimeout + 1) /\ u.idle = Older(t.idle, IdleCap)
  BY AgedFields
<1>4. /\ t.active /\ t.dest = Receiver /\ t.frag_cnt \in 1..MaxFragments
      /\ Sending(t) \/ Waiting(t)
      /\ FragmentsInAir(n, t, r, {}, {})
  BY QuietAir DEF InFlight
<1>5. ~(t.age > SessionTimeout) /\ ~(t.state = "WAITING_DONE" /\ t.idle > 2 * FragTimeout)
  BY <1>1, <1>4 DEF Expired
<1>6. u.age <= t.age + 1 /\ u.frag_cnt = t.frag_cnt /\ u.msg_id = t.msg_id
  BY <1>2, <1>3, LimitsAssumption DEF SameTransfer, Older
<1>7. u.age \in Nat
  BY <1>2, <1>3, OlderType
<1> HIDE DEF u
<1>8. ASSUME Sending(t)
      PROVE  Sending(u)
  <2>1. t.idle < SendDelay
    BY <1>1, <1>2, <1>4, <1>5, <1>8 DEF SendDue, AllSent, MaySend, Sending
  <2>2. t.idle < IdleCap
    BY <1>2, <2>1
  <2>3. u.idle = t.idle + 1
    BY <1>2, <1>3, <2>2 DEF Older
  <2>4. /\ t.current_frag \in 1..t.frag_cnt
        /\ t.age <= (t.current_frag - 1) * SendDelay + t.idle
    BY <1>2, <1>8, <2>1 DEF Sending
  <2>5. u.idle <= SendDelay
    BY <1>2, <2>1, <2>3
  <2>6. u.age <= (u.current_frag - 1) * SendDelay + u.idle
    <3>1. (t.current_frag - 1) * SendDelay \in Int
      BY <1>2
    <3> QED
      BY <1>2, <1>3, <1>6, <1>7, <2>3, <2>4, <3>1
  <2> QED
    BY <1>3, <1>6, <1>8, <2>4, <2>5, <2>6 DEF Sending
<1>9. ASSUME Waiting(t)
      PROVE  Waiting(u)
  <2>1. t.idle < IdleCap
    BY <1>2, <1>5, <1>9 DEF Waiting
  <2>2. u.idle = t.idle + 1
    BY <1>2, <1>3, <2>1 DEF Older
  <2>3. t.nack_rounds * (FragTimeout + 1) \in Nat /\ t.frag_cnt * SendDelay \in Nat
    BY <1>2 DEF TxSession
  <2> QED
    BY <1>2, <1>3, <1>6, <1>7, <1>9, <2>2, <2>3 DEF Waiting
<1>10. CASE r.active
  <2>1. r \in RxSession
    BY <1>10, ActiveRx
  <2>2. r.idle <= FragTimeout /\ r.idle \in Nat
    BY <1>10, <2>1, SettledRx DEF RxSession
  <2>3. /\ SameParts(q, r) /\ q.active /\ q.nacks_sent = r.nacks_sent
        /\ q.idle = Older(r.idle, FragTimeout + 1)
    BY <2>1, RxAgedFields
  <2> HIDE DEF q
  <2>4. q.idle = r.idle + 1
    BY <1>2, <2>2, <2>3 DEF Older
  <2>5. InStep(n, t, r)
    BY <1>10 DEF InFlight
  <2>6. InStep(n, u, q)
    BY <1>2, <1>3, <1>6, <2>2, <2>3, <2>4, <2>5 DEF InStep, SameParts
  <2>7. u.state = "WAITING_DONE" => u.idle <= q.idle
    <3>1. t.state = "WAITING_DONE" => t.idle <= r.idle
      BY <1>4, <1>10 DEF FragmentsInAir
    <3>2. u.idle <= t.idle + 1
      BY <1>2, <1>3 DEF Older
    <3>3. u.idle \in Nat
      BY <1>2, <1>3, OlderType
    <3> QED
      BY <1>2, <1>3, <2>2, <2>4, <3>1, <3>2, <3>3
  <2>8. u.dest = Receiver /\ u.frag_cnt \in 1..MaxFragments
    BY <1>3, <1>4, <1>6
  <2>9. InFlight(n, u, q, {})
    BY <1>3, <1>4, <1>8, <1>9, <2>6, <2>7, <2>8, FromQuiet
  <2> QED
    BY <2>9 DEF u, q
<1>11. CASE ~r.active
  <2>1. q = r
    BY <1>11 DEF RxAged
  <2> HIDE DEF q
  <2>2. u.dest = Receiver /\ u.frag_cnt \in 1..MaxFragments
    BY <1>3, <1>4, <1>6
  <2>3. InFlight(n, u, q, {})
    BY <1>3, <1>4, <1>8, <1>9, <1>11, <2>1, <2>2, FromQuiet
  <2> QED
    BY <2>3 DEF u, q
<1> QED
  BY <1>10, <1>11

-----------------------------------------------------------------------------
(* A fragment arrives, or is lost. *)

\* Fragment i of D leaves the air, and the others stay.
Leaves(n, t, air, f, i, D) ==
    /\ i \in D /\ f = Fragment(n, t, i)
    /\ air \ {f} = {Fragment(n, t, j) : j \in D \ {i}}

LEMMA DataLeaves ==
    ASSUME NEW n, NEW t, NEW r, NEW air, InFlight(n, t, r, air),
           NEW f \in air, f.type = "DATA"
    PROVE  \E D \in SUBSET (0..(t.frag_cnt - 1)) :
              FragmentsInAir(n, t, r, air, D) /\ \E i \in D : Leaves(n, t, air, f, i, D)
<1>1. PICK D \in SUBSET (0..(t.frag_cnt - 1)) : FragmentsInAir(n, t, r, air, D)
  <2>1. ~(\E missing : NackInAir(n, t, r, air, missing))
    BY FrameTypes DEF NackInAir
  <2>2. ~(air = {DoneFrame(n, t.msg_id)})
    BY FrameTypes
  <2> QED
    BY <2>1, <2>2 DEF InFlight
<1>2. air = {Fragment(n, t, i) : i \in D}
  BY <1>1 DEF FragmentsInAir
<1>3. PICK i \in D : f = Fragment(n, t, i)
  BY <1>2
<1>4. \A j \in D : Fragment(n, t, j) = f => j = i
  BY <1>3, FragmentFields
<1>5. air \ {f} = {Fragment(n, t, j) : j \in D \ {i}}
  BY <1>2, <1>3, <1>4
<1>6. Leaves(n, t, air, f, i, D)
  BY <1>3, <1>5 DEF Leaves
<1> QED
  BY <1>1, <1>6

\* A fragment is lost, or refused.
LEMMA DroppedFlight ==
    ASSUME NEW n, NEW t, NEW r, NEW air, InFlight(n, t, r, air),
           NEW f \in air, f.type = "DATA"
    PROVE  InFlight(n, t, r, air \ {f})
<1>1. PICK D \in SUBSET (0..(t.frag_cnt - 1)) :
         FragmentsInAir(n, t, r, air, D) /\ \E i \in D : Leaves(n, t, air, f, i, D)
  BY DataLeaves
<1>2. PICK i \in D : Leaves(n, t, air, f, i, D)
  BY <1>1
<1>3. FragmentsInAir(n, t, r, air \ {f}, D \ {i})
  <2>1. air \ {f} = {Fragment(n, t, j) : j \in D \ {i}}
    BY <1>2 DEF Leaves
  <2>2. ~r.active => D \ {i} = {}
    BY <1>1 DEF FragmentsInAir
  <2>3. D \ {i} # {} => D # {}
    OBVIOUS
  <2>4. D \cap r.received = {} => (D \ {i}) \cap r.received = {}
    OBVIOUS
  <2> QED
    BY <1>1, <2>1, <2>2, <2>3, <2>4 DEF FragmentsInAir
<1>4. D \ {i} \in SUBSET (0..(t.frag_cnt - 1))
  OBVIOUS
<1> QED
  BY <1>3, <1>4 DEF InFlight

\* The session a fragment of t is stored in: r, or a new one.
SessionOf(n, t, r, r0) ==
    \/ r.active /\ r0 = r
    \/ /\ ~r.active
       /\ r0.received = {} /\ r0.nacks_sent = 0
       /\ r0.source = n /\ r0.msg_id = t.msg_id

\* Session q holds fragment f, and the fragments D are still in the air.
HeldWith(n, t, q, air, f, D) ==
    /\ q.active /\ q.idle = 0 /\ InStep(n, t, q)
    /\ t.state = "WAITING_DONE" => t.idle = 0
    /\ D \in SUBSET (0..(t.frag_cnt - 1))
    /\ FragmentsInAir(n, t, q, air \ {f}, D)
    /\ \A j \in D : j # f.frag_idx /\ Fragment(n, t, j) \in air

LEMMA StoredFlight ==
    ASSUME NEW n, NEW t \in TxSession, NEW r \in RxSession \cup {NoSession}, NEW air,
           InFlight(n, t, r, air), NEW f \in air, f \in DataFrames,
           f.frag_idx \in Indices, NEW r0 \in RxSession, SessionOf(n, t, r, r0),
           f.frag_idx \notin r0.received
    PROVE  \E D : HeldWith(n, t, Stored(r0, f), air, f, D)
<1> DEFINE q == Stored(r0, f)
<1>0. f.type = "DATA"
  BY DEF DataFrames
<1>1. PICK D \in SUBSET (0..(t.frag_cnt - 1)) :
         FragmentsInAir(n, t, r, air, D) /\ \E i \in D : Leaves(n, t, air, f, i, D)
  BY <1>0, DataLeaves
<1>2. PICK i \in D : Leaves(n, t, air, f, i, D)
  BY <1>1
<1>3. f.frag_idx = i
  BY <1>2, FragmentFields DEF Leaves
<1>4. /\ q \in RxSession /\ q.source = r0.source /\ q.msg_id = r0.msg_id
      /\ q.received = r0.received \cup {i}
  BY <1>3, StoredType
<1>5. q.active /\ q.idle = 0 /\ q.nacks_sent = r0.nacks_sent
  BY <1>4 DEF Stored, RxSession
<1> HIDE DEF q
<1>6. t.state = "WAITING_DONE" => t.idle = 0
  BY <1>1, <1>2 DEF FragmentsInAir
<1>7. t.state = "SENDING" => \A j \in r0.received \cup {i} : j < t.current_frag
  BY <1>1, <1>2 DEF FragmentsInAir, SessionOf, InFlight, InStep
<1>8. r0.source = n /\ r0.msg_id = t.msg_id
  BY DEF SessionOf, InFlight, InStep
<1>9. t.nack_rounds <= r0.nacks_sent
  <2>1. CASE r.active
    BY <2>1 DEF SessionOf, InFlight, InStep
  <2>2. CASE ~r.active
    <3>1. t.state = "SENDING"
      BY <1>1, <1>2, <2>2 DEF FragmentsInAir
    <3>2. Sending(t)
      BY <3>1 DEF InFlight, Waiting
    <3> QED
      BY <2>2, <3>2 DEF Sending, SessionOf
  <2> QED
    BY <2>1, <2>2
<1>10. InStep(n, t, q)
  <2>1. 0 <= FragTimeout + 1
    BY LimitsAssumption
  <2> QED
    BY <1>4, <1>5, <1>7, <1>8, <1>9, <2>1 DEF InStep
<1>11. FragmentsInAir(n, t, q, air \ {f}, D \ {i})
  <2>1. air \ {f} = {Fragment(n, t, j) : j \in D \ {i}}
    BY <1>2 DEF Leaves
  <2>2. (D \ {i}) \cap q.received = {}
    <3>1. D \cap r0.received = {}
      BY <1>1 DEF FragmentsInAir, SessionOf
    <3> QED
      BY <1>4, <3>1
  <2>3. t.state = "WAITING_DONE" => t.idle <= q.idle
    BY <1>5, <1>6
  <2>4. t.state = "SENDING" => \A j \in D \ {i} : j < t.current_frag
    BY <1>1 DEF FragmentsInAir
  <2> QED
    BY <1>5, <1>6, <2>1, <2>2, <2>3, <2>4 DEF FragmentsInAir
<1>12. \A j \in D \ {i} : j # f.frag_idx /\ Fragment(n, t, j) \in air
  <2>1. air = {Fragment(n, t, j) : j \in D}
    BY <1>1 DEF FragmentsInAir
  <2> QED
    BY <1>3, <2>1
<1>13. HeldWith(n, t, q, air, f, D \ {i})
  BY <1>5, <1>6, <1>10, <1>11, <1>12 DEF HeldWith
<1> QED
  BY <1>13 DEF q

\* Other fragments are still to come.
LEMMA HeldFlight ==
    ASSUME NEW n, NEW t, NEW r, NEW air, InFlight(n, t, r, air),
           NEW q, NEW f, NEW D, HeldWith(n, t, q, air, f, D)
    PROVE  InFlight(n, t, q, air \ {f})
BY DEF HeldWith, InFlight

\* The last fragment arrived and others are missing: none is in the air,
\* and the receiver asks for them.
LEMMA LastFlight ==
    ASSUME NEW n, NEW t \in TxSession, NEW r, NEW air, InFlight(n, t, r, air),
           NEW q \in RxSession, NEW f, NEW D, HeldWith(n, t, q, air, f, D),
           f.frag_idx = t.frag_cnt - 1,
           \A g \in air : g.type = "DATA" => f.frag_idx <= g.frag_idx
    PROVE  InFlight(n, t, AfterNack(q), (air \ {f}) \cup NackFor(q))
<1>1. D = {}
  <2> SUFFICES ASSUME NEW j \in D
               PROVE  FALSE
    OBVIOUS
  <2>1. j \in 0..(t.frag_cnt - 1) /\ j # f.frag_idx /\ Fragment(n, t, j) \in air
    BY DEF HeldWith
  <2>2. f.frag_idx <= j
    BY <2>1, FragmentFields
  <2> QED
    BY <2>1, <2>2 DEF TxSession
<1>2. air \ {f} = {}
  BY <1>1 DEF HeldWith, FragmentsInAir
<1>3. InFlight(n, t, q, {})
  BY <1>2, HeldFlight
<1>4. CASE GivesUp(q)
  BY <1>2, <1>3, <1>4, FreeFlight, NackForCases
<1>5. CASE ~GivesUp(q)
  <2>1. (air \ {f}) \cup NackFor(q) = {NackFrame(q.source, q.msg_id, Reported(q))}
    BY <1>2, <1>5, NackForCases
  <2>2. /\ t.active /\ t.dest = Receiver /\ t.frag_cnt \in 1..MaxFragments
        /\ Sending(t) \/ Waiting(t)
    BY DEF InFlight
  <2>3. 0 <= FragTimeout + 1
    BY LimitsAssumption
  <2>4. InStep(n, t, q) /\ q.idle = 0 /\ (t.state = "WAITING_DONE" => t.idle = 0)
    BY DEF HeldWith
  <2>5. /\ AfterNack(q) \in RxSession /\ SameParts(AfterNack(q), q)
        /\ AfterNack(q).active /\ AfterNack(q).idle = 0
        /\ AfterNack(q).nacks_sent = q.nacks_sent + 1
    BY <1>5, <2>4, AskedFields
  <2> QED
    BY <2>1, <2>2, <2>3, <2>4, <2>5, NackFlight
<1> QED
  BY <1>4, <1>5

\* The message is complete: nothing else is in the air.
LEMMA CompleteFlight ==
    ASSUME NEW n, NEW t \in TxSession, NEW r, NEW air, InFlight(n, t, r, air),
           NEW q \in RxSession, NEW f, NEW D, HeldWith(n, t, q, air, f, D),
           q.frag_cnt = t.frag_cnt, IsComplete(q)
    PROVE  InFlight(n, t, NoSession, (air \ {f}) \cup {DoneFrame(q.source, q.msg_id)})
<1>1. D = {}
  <2>1. \A j \in 0..(t.frag_cnt - 1) : j \in q.received
    BY DEF IsComplete, Missing
  <2>2. D \in SUBSET (0..(t.frag_cnt - 1)) /\ D \cap q.received = {}
    BY DEF HeldWith, FragmentsInAir
  <2> QED
    BY <2>1, <2>2
<1>2. air \ {f} = {}
  BY <1>1 DEF HeldWith, FragmentsInAir
<1>3. q.source = n /\ q.msg_id = t.msg_id
  BY DEF HeldWith, InStep
<1>4. (air \ {f}) \cup {DoneFrame(q.source, q.msg_id)} = {DoneFrame(n, t.msg_id)}
  BY <1>2, <1>3
<1>5. ~NoSession.active
  BY DEF NoSession
<1> HIDE DEF NoSession
<1> QED
  BY <1>4, <1>5 DEF InFlight

-----------------------------------------------------------------------------
(* A NACK or a DONE arrives. *)

LEMMA RetriedFlight ==
    ASSUME NEW n, NEW t \in TxSession, NEW r \in RxSession, NEW air, r.active,
           InFlight(n, t, r, air), NEW missing \in SUBSET Missing(r),
           NackInAir(n, t, r, air, missing)
    PROVE  InFlight(n, Retried(t), r,
                    {Fragment(n, t, i) : i \in {i \in missing : i < t.frag_cnt}})
<1> DEFINE u == Retried(t)
           D == {i \in missing : i < t.frag_cnt}
<1>1. /\ u.state = "WAITING_DONE" /\ u.idle = 0 /\ u.nack_rounds = t.nack_rounds + 1
      /\ u.age = t.age /\ u.active = t.active /\ u.dest = t.dest
      /\ SameTransfer(u, t)
  BY DEF Retried, TxSession, SameTransfer
<1> HIDE DEF u
<1>2. /\ FragTimeout + 1 \in Nat /\ t.nack_rounds \in Nat /\ r.nacks_sent \in Nat
      /\ t.age \in Nat /\ t.idle \in Nat /\ t.frag_cnt \in Nat /\ r.idle \in Nat
      /\ t.frag_cnt * SendDelay \in Nat
      /\ t.nack_rounds * (FragTimeout + 1) \in Nat
  BY LimitsAssumption, TxAssumption DEF TxSession, RxSession
<1>3. u.nack_rounds * (FragTimeout + 1)
        = t.nack_rounds * (FragTimeout + 1) + (FragTimeout + 1)
  BY <1>1, <1>2, OneMore
<1>4. u.age <= u.frag_cnt * SendDelay + u.nack_rounds * (FragTimeout + 1) + u.idle
  <2>1. u.frag_cnt = t.frag_cnt
    BY <1>1 DEF SameTransfer
  <2>2. CASE Sending(t)
    <3>1. t.frag_cnt >= 1
      BY FragmentsType DEF InFlight
    <3>2. t.age <= t.frag_cnt * SendDelay
      BY <2>2, <3>1, SendingTime
    <3> QED
      BY <1>1, <1>2, <1>3, <2>1, <3>2
  <2>3. CASE Waiting(t)
    <3>1. /\ t.age <= t.frag_cnt * SendDelay + t.nack_rounds * (FragTimeout + 1) + t.idle
          /\ t.idle <= FragTimeout + 1
      BY <2>3 DEF Waiting, NackInAir
    <3> QED
      BY <1>1, <1>2, <1>3, <2>1, <3>1
  <2> QED
    BY <2>2, <2>3 DEF InFlight
<1>5. Waiting(u)
  BY <1>1, <1>4 DEF Waiting
<1>6. InStep(n, u, r)
  <2>1. InStep(n, t, r) /\ t.nack_rounds < r.nacks_sent
    BY DEF InFlight, NackInAir
  <2> QED
    BY <1>1, <1>2, <2>1 DEF InStep, SameTransfer
<1>7. D \in SUBSET (0..(u.frag_cnt - 1)) /\ D \cap r.received = {}
  <2>1. \A i \in missing : i \in Nat /\ i \notin r.received
    BY DEF Missing
  <2> QED
    BY <1>1, <1>2, <2>1 DEF SameTransfer
<1>8. {Fragment(n, t, i) : i \in D} = {Fragment(n, u, i) : i \in D}
  BY <1>1, FragmentSame
<1> HIDE DEF D
<1>9. FragmentsInAir(n, u, r, {Fragment(n, t, i) : i \in D}, D)
  BY <1>1, <1>2, <1>7, <1>8 DEF FragmentsInAir
<1>10. u.active /\ u.dest = Receiver /\ u.frag_cnt \in 1..MaxFragments
  BY <1>1 DEF InFlight, SameTransfer
<1>11. InFlight(n, u, r, {Fragment(n, t, i) : i \in D})
  BY <1>5, <1>6, <1>7, <1>9, <1>10 DEF InFlight
<1> QED
  BY <1>11 DEF u, D

-----------------------------------------------------------------------------
(* The invariant, step by step. *)

LEMMA PromptTypes ==
    ASSUME IndInv, NEW n \in Senders, NEW s \in TxSlots, NEW q \in RxSlots
    PROVE  /\ tx[n][s] \in TxSession \cup {NoSession}
           /\ tx[n][s].active => tx[n][s] \in TxSession
           /\ rx[q] \in RxSession \cup {NoSession}
<1>1. TxTypeOK /\ RxTypeOK
  BY DEF IndInv, TruthInv, TypeOK
<1> QED
  BY <1>1, TxActiveSession DEF TxTypeOK, RxTypeOK

\* A transfer is under way in the next state.
LEMMA FlightNext ==
    ASSUME IndInv', payload_size' = payload_size,
           NEW n \in Senders, NEW s \in TxSlots, NEW q \in RxSlots,
           OnlySessions(n, s, q)', InFlight(n, tx'[n][s], rx'[q], net')
    PROVE  PromptInv'
<1>1. ASSUME NEW i
      PROVE  Fragment(n, tx[n][s], i)' = Fragment(n, tx'[n][s], i)
  BY DEF Fragment
<1>2. ASSUME NEW D, FragmentsInAir(n, tx'[n][s], rx'[q], net', D)
      PROVE  FragmentsInAir(n, tx[n][s], rx[q], net, D)'
  <2>1. {Fragment(n, tx[n][s], i)' : i \in D} = {Fragment(n, tx'[n][s], i) : i \in D}
    BY <1>1
  <2> QED
    BY <1>2, <2>1 DEF FragmentsInAir
<1>3. InFlight(n, tx[n][s], rx[q], net)'
  BY <1>2 DEF InFlight
<1> QED
  BY <1>3 DEF PromptInv

\* None is.
LEMMA QuietNext ==
    ASSUME IndInv', NEW n \in Senders, NEW s \in TxSlots, NEW q \in RxSlots,
           OnlySessions(n, s, q)', ~tx'[n][s].active, ~rx'[q].active, net' = {}
    PROVE  PromptInv'
<1>1. \A m \in Senders : TxActive(m)' = {}
  BY DEF OnlySessions, TxActive
<1>2. RxActive' = {}
  BY DEF OnlySessions, RxActive
<1> QED
  BY <1>1, <1>2 DEF PromptInv, Idle

LEMMA StillOnly ==
    ASSUME SessionsOnlyEnd, SessionsGoOn,
           NEW n \in Senders, NEW s \in TxSlots, NEW q \in RxSlots,
           OnlySessions(n, s, q)
    PROVE  OnlySessions(n, s, q)'
BY DEF OnlySessions, SessionsOnlyEnd, SessionsGoOn

LEMMA TxUnchangedEnds ==
    ASSUME UNCHANGED tx
    PROVE  SessionsOnlyEnd
BY DEF SessionsOnlyEnd, SameTransfer

\* Sessions that are not in use do nothing.
LEMMA FreeTicked ==
    ASSUME NEW t, ~t.active, NEW sent
    PROVE  Ticked(t, sent) = t /\ ~SendDue(t)
BY DEF Ticked, Expired, SendDue, AllSent, MaySend

LEMMA FreeRxTicked ==
    ASSUME NEW r, ~r.active
    PROVE  RxTicked(r) = r /\ ~NackDue(r)
BY DEF RxTicked, NackDue

\* A quiet installation stays quiet.
LEMMA QuietStays ==
    ASSUME IndInv, IndInv', Idle, RxActive = {}, SessionsOnlyEnd, SessionsGoOn, net' = {}
    PROVE  PromptInv'
<1>1. \A m \in Senders : TxActive(m)' = {}
  BY DEF SessionsOnlyEnd, Idle, TxActive
<1>2. RxActive' = {}
  BY DEF SessionsGoOn, RxActive
<1> QED
  BY <1>1, <1>2 DEF PromptInv, Idle

\* A transfer begins.
LEMMA PromptSendStep ==
    ASSUME PromptInv, IndInv', NEW n \in Senders, PromptSend(n)
    PROVE  PromptInv'
<1>1. PICK data \in Data, len \in Lens : TxSend(n, data, len, Receiver)
  BY DEF PromptSend
<1>2. IndInv /\ Idle
  BY DEF PromptInv, PromptSend
<1>3. RxActive = {}
  BY <1>2 DEF PromptInv, InFlight, TxActive, Idle
<1> DEFINE t == NewTxSession(n, data, len, Receiver)
<1>4. PICK s \in FreeTx(n) : tx' = [tx EXCEPT ![n][s] = t]
  BY <1>1 DEF TxSend
<1>5. s \in TxSlots
  BY DEF FreeTx, First
<1>6. UNCHANGED <<payload_size, rx, net>>
  BY <1>1 DEF PromptSend, TxSend, rxVars
<1>7. /\ t.active /\ t.dest = Receiver /\ t.state = "SENDING" /\ t.nack_rounds = 0
      /\ t.current_frag = 0 /\ t.age = 0 /\ t.idle = IdleCap
      /\ t.frag_cnt = CeilDiv(len, payload_size[n])
  BY DEF NewTxSession
<1> HIDE DEF t
<1>8. t.frag_cnt \in 1..MaxFragments
  <2>1. len \in 1..MaxMessageSize
    BY <1>1 DEF TxSend
  <2>2. payload_size[n] = MaxPayload
    BY <1>2 DEF IndInv, TruthInv, DefaultPayloadSize
  <2>3. len \in Nat \ {0} /\ MaxMessageSize \in Nat /\ len <= MaxMessageSize
        /\ MaxPayload \in Nat \ {0}
    BY <2>1, LimitsAssumption
  <2>4. CeilDiv(len, MaxPayload) \in Nat \ {0}
    BY <2>3, CeilDivType
  <2>5. CeilDiv(len, MaxPayload) <= MaxFragments
    BY <2>3, CeilDivMonotone DEF MaxFragments
  <2> QED
    BY <1>7, <2>2, <2>4, <2>5, FragmentsType
<1>9. Sending(t)
  <2>1. IdleCap >= SendDelay
    BY LimitsAssumption, TxAssumption DEF IdleCap
  <2> QED
    BY <1>7, <2>1 DEF Sending
<1>10. 1 \in RxSlots
  BY RxAssumption DEF RxSlots
<1>11. ~rx'[1].active /\ net' = {}
  BY <1>2, <1>3, <1>6, <1>10 DEF RxActive, Idle
<1>12. InFlight(n, t, rx'[1], {})
  BY <1>7, <1>8, <1>9, <1>11, FromQuiet
<1>13. tx'[n][s] = t
  BY <1>2, <1>4, <1>5, TxType DEF IndInv, TruthInv
<1>14. OnlySessions(n, s, 1)'
  <2>1. ASSUME NEW m \in Senders, NEW u \in TxSlots, tx'[m][u].active
        PROVE  m = n /\ u = s
    BY <1>2, <1>4, <1>5, <2>1, TxType DEF IndInv, TruthInv, Idle, TxActive
  <2>2. \A p \in RxSlots : ~rx'[p].active
    BY <1>3, <1>6 DEF RxActive
  <2> QED
    BY <2>1, <2>2 DEF OnlySessions
<1> QED
  BY <1>5, <1>6, <1>10, <1>11, <1>12, <1>13, <1>14, FlightNext

-----------------------------------------------------------------------------
(* frag_tx_tick and frag_rx_tick. *)

LEMMA TickTxSlots ==
    ASSUME IndInv, net = {}, NEW m \in Senders, TickTx(m)
    PROVE  /\ \A n \in Senders : \A s \in TxSlots :
                 tx'[n][s] = IF n = m THEN Ticked(tx[n][s], TRUE) ELSE tx[n][s]
           /\ net' = {Fragment(m, tx[m][s], tx[m][s].current_frag) :
                         s \in {s \in TxSlots : SendDue(tx[m][s])}}
           /\ SessionsOnlyEnd /\ SessionsGoOn /\ UNCHANGED <<payload_size, rx>>
<1>1. TxTick(m, TxSlots)
  BY PromptAssumption DEF TickTx, Sent
<1>2. \A n \in Senders : \A s \in TxSlots :
         tx'[n][s] = IF n = m THEN Ticked(tx[n][s], TRUE) ELSE tx[n][s]
  BY <1>1, TxType DEF TxTick, IndInv, TruthInv
<1>3. SessionsOnlyEnd
  BY TickTxEnds DEF IndInv, TruthInv
<1>4. UNCHANGED <<payload_size, rx>>
  BY <1>1 DEF TickTx, TxTick, rxVars
<1> QED
  BY <1>1, <1>2, <1>3, <1>4, RxUnchangedGoesOn DEF TxTick, Transmit

LEMMA TickTxStep ==
    ASSUME PromptInv, IndInv', net = {}, NEW m \in Senders, TickTx(m)
    PROVE  PromptInv'
<1>0. IndInv
  BY DEF PromptInv
<1>1. /\ \A n \in Senders : \A s \in TxSlots :
            tx'[n][s] = IF n = m THEN Ticked(tx[n][s], TRUE) ELSE tx[n][s]
      /\ net' = {Fragment(m, tx[m][s], tx[m][s].current_frag) :
                    s \in {s \in TxSlots : SendDue(tx[m][s])}}
      /\ SessionsOnlyEnd /\ SessionsGoOn /\ UNCHANGED <<payload_size, rx>>
  BY <1>0, TickTxSlots
<1>2. CASE Idle /\ RxActive = {}
  <2>1. \A s \in TxSlots : ~SendDue(tx[m][s])
    BY <1>2, FreeTicked DEF Idle, TxActive
  <2> QED
    BY <1>0, <1>1, <1>2, <2>1, QuietStays
<1>3. ASSUME NEW n \in Senders, NEW s \in TxSlots, NEW q \in RxSlots,
             OnlySessions(n, s, q), InFlight(n, tx[n][s], rx[q], net)
      PROVE  PromptInv'
  <2> DEFINE t == tx[n][s]
             air == IF SendDue(t) THEN {Fragment(n, t, t.current_frag)} ELSE {}
  <2>1. t \in TxSession /\ rx[q] \in RxSession \cup {NoSession}
    BY <1>0, <1>3, PromptTypes DEF InFlight
  <2>2. OnlySessions(n, s, q)'
    BY <1>1, <1>3, StillOnly
  <2>3. \A u \in TxSlots : m # n \/ u # s => ~SendDue(tx[m][u])
    BY <1>3, FreeTicked DEF OnlySessions
  <2>4. CASE m # n
    <3>1. net' = {}
      BY <1>1, <2>3, <2>4
    <3>2. tx'[n][s] = tx[n][s]
      BY <1>1, <2>4
    <3> QED
      BY <1>1, <1>3, <2>2, <3>1, <3>2, FlightNext
  <2>5. CASE m = n
    <3>1. net' = air
      BY <1>1, <2>3, <2>5
    <3>2. tx'[n][s] = Ticked(t, TRUE)
      BY <1>1, <2>5
    <3>3. InFlight(n, t, rx[q], {})
      BY <1>3
    <3> HIDE DEF t
    <3>4. \/ Ticked(t, TRUE) = NoSession /\ ~rx[q].active /\ air = {}
          \/ InFlight(n, Ticked(t, TRUE), rx[q], air)
      BY <2>1, <3>3, TickedFlight
    <3> HIDE DEF air
    <3>5. CASE Ticked(t, TRUE) = NoSession /\ ~rx[q].active /\ air = {}
      <4>1. ~tx'[n][s].active /\ ~rx'[q].active /\ net' = {}
        <5>1. ~NoSession.active
          BY DEF NoSession
        <5> QED
          BY <1>1, <3>1, <3>2, <3>5, <5>1
      <4> QED
        BY <2>2, <4>1, QuietNext
    <3>6. CASE InFlight(n, Ticked(t, TRUE), rx[q], air)
      <4>1. InFlight(n, tx'[n][s], rx'[q], net')
        BY <1>1, <3>1, <3>2, <3>6
      <4> QED
        BY <1>1, <2>2, <4>1, FlightNext
    <3> QED
      BY <3>4, <3>5, <3>6
  <2> QED
    BY <2>4, <2>5
<1> QED
  BY <1>2, <1>3 DEF PromptInv

LEMMA TickRxStep ==
    ASSUME PromptInv, IndInv', net = {}, TickRx
    PROVE  PromptInv'
<1>0. IndInv
  BY DEF PromptInv
<1>1. /\ \A q \in RxSlots : rx'[q] = RxTicked(rx[q])
      /\ net' = UNION {NackFor(rx[s]) : s \in {s \in RxSlots : NackDue(rx[s])}}
      /\ UNCHANGED <<payload_size, tx>>
  BY DEF TickRx, RxTick, Transmit, txVars
<1>2. SessionsOnlyEnd /\ SessionsGoOn
  BY <1>0, <1>1, TxUnchangedEnds, TickRxGoesOn DEF IndInv, TruthInv
<1>3. CASE Idle /\ RxActive = {}
  <2>1. \A s \in RxSlots : ~NackDue(rx[s])
    BY <1>3, FreeRxTicked DEF RxActive
  <2>2. net' = {}
    BY <1>1, <2>1
  <2> QED
    BY <1>0, <1>2, <1>3, <2>2, QuietStays
<1>4. ASSUME NEW n \in Senders, NEW s \in TxSlots, NEW q \in RxSlots,
             OnlySessions(n, s, q), InFlight(n, tx[n][s], rx[q], net)
      PROVE  PromptInv'
  <2> DEFINE t == tx[n][s]
             r == rx[q]
             air == IF NackDue(r) THEN NackFor(r) ELSE {}
  <2>1. t \in TxSession /\ r \in RxSession \cup {NoSession}
    BY <1>0, <1>4, PromptTypes DEF InFlight
  <2>2. OnlySessions(n, s, q)'
    BY <1>2, <1>4, StillOnly
  <2>3. \A p \in RxSlots : p # q => ~NackDue(rx[p])
    BY <1>4, FreeRxTicked DEF OnlySessions
  <2>4. net' = air
    BY <1>1, <2>3
  <2>5. tx'[n][s] = t /\ rx'[q] = RxTicked(r)
    BY <1>1
  <2>6. InFlight(n, t, r, {})
    BY <1>4
  <2> HIDE DEF t, r
  <2>7. InFlight(n, t, RxTicked(r), air)
    BY <2>1, <2>6, RxTickedFlight
  <2> HIDE DEF air
  <2>8. InFlight(n, tx'[n][s], rx'[q], net')
    BY <2>4, <2>5, <2>7
  <2> QED
    BY <1>1, <2>2, <2>8, FlightNext
<1> QED
  BY <1>3, <1>4 DEF PromptInv

-----------------------------------------------------------------------------
(* Frames are received, or lost. *)

LEMMA PromptConsumes ==
    ASSUME NEW f, NEW ms, Consume(f, ms)
    PROVE  net' = (net \ {f}) \cup ms
BY PromptAssumption DEF Consume

LEMMA RxSlotsAreNumbers == RxSlots \subseteq Nat
BY RxAssumption DEF RxSlots

\* A fragment of the transfer is stored in its session, or in a new one.
LEMMA PromptPlace ==
    ASSUME IndInv, NEW n \in Senders, NEW s \in TxSlots, NEW q \in RxSlots,
           OnlySessions(n, s, q), InFlight(n, tx[n][s], rx[q], net),
           NEW f \in net, f.type = "DATA", NEW p \in PlaceFor(f)
    PROVE  /\ p[1] \in RxSlots /\ p[2] \in RxSession
           /\ rx[q].active => p[1] = q
           /\ SessionOf(n, tx[n][s], rx[q], p[2])
           /\ f \in DataFrames /\ f.frag_idx \in Indices
           /\ f.frag_idx \notin p[2].received
           /\ p[2].frag_cnt = tx[n][s].frag_cnt /\ f.frag_cnt = tx[n][s].frag_cnt
<1> DEFINE t == tx[n][s]
<1>1. TypeOK /\ RxTypeOK
  BY DEF IndInv, TruthInv, TypeOK
<1>2. f \in DataFrames
  BY <1>1, HeardType
<1>3. /\ p[1] \in RxSlots /\ p[2] \in RxSession /\ SameMetadata(p[2], f)
      /\ f.frag_idx \in Indices
  BY <1>1, <1>2, PlaceType
<1>4. PICK D \in SUBSET (0..(t.frag_cnt - 1)) :
        FragmentsInAir(n, t, rx[q], net, D) /\ \E i \in D : Leaves(n, t, net, f, i, D)
  <2> HIDE DEF t
  <2>1. InFlight(n, t, rx[q], net)
    BY DEF t
  <2> QED
    BY <2>1, DataLeaves
<1>5. PICK i \in D : Leaves(n, t, net, f, i, D)
  BY <1>4
<1>6. f.source = n /\ f.msg_id = t.msg_id /\ f.frag_cnt = t.frag_cnt
  BY <1>5, FragmentFields DEF Leaves
<1>7. p \in SessionFor(f) /\ f.frag_idx \notin p[2].received
  BY DEF PlaceFor
<1>8. (rx[q].active => p[1] = q) /\ SessionOf(n, t, rx[q], p[2])
  <2>1. CASE rx[q].active
    <3>1. rx[q].source = n /\ rx[q].msg_id = t.msg_id
      BY <2>1 DEF InFlight, InStep
    <3>2. {w \in RxActive : rx[w].msg_id = f.msg_id /\ rx[w].source = f.source} = {q}
      BY <1>6, <2>1, <3>1 DEF OnlySessions, RxActive
    <3>3. FindRx(f) = {q}
      BY <3>2, RxSlotsAreNumbers DEF FindRx, First
    <3>4. p = <<q, rx[q]>>
      BY <1>7, <3>3 DEF SessionFor
    <3> QED
      BY <2>1, <3>4 DEF SessionOf
  <2>2. CASE ~rx[q].active
    <3>1. RxActive = {}
      BY <2>2 DEF OnlySessions, RxActive
    <3>2. FindRx(f) = {}
      BY <3>1 DEF FindRx, First
    <3>3. PICK w \in FreeRx : p = <<w, NewRxSession(f)>>
      BY <1>7, <3>2 DEF SessionFor
    <3>4. p[2] = NewRxSession(f)
      BY <3>3
    <3>5. /\ p[2].received = {} /\ p[2].nacks_sent = 0
          /\ p[2].source = n /\ p[2].msg_id = t.msg_id
      BY <1>6, <3>4 DEF NewRxSession
    <3> QED
      BY <2>2, <3>5 DEF SessionOf
  <2> QED
    BY <2>1, <2>2
<1>9. p[2].frag_cnt = f.frag_cnt
  BY <1>3 DEF SameMetadata
<1> QED
  BY <1>2, <1>3, <1>6, <1>7, <1>8, <1>9

\* The session of the receiver changes.
LEMMA RxSlotNext ==
    ASSUME IndInv, IndInv', UNCHANGED txVars,
           NEW n \in Senders, NEW s \in TxSlots, NEW q \in RxSlots,
           OnlySessions(n, s, q), NEW w \in RxSlots, rx[q].active => w = q,
           NEW r, rx' = [rx EXCEPT ![w] = r], InFlight(n, tx[n][s], r, net')
    PROVE  PromptInv'
<1>1. tx' = tx /\ payload_size' = payload_size
  BY DEF txVars
<1>2. rx'[w] = r /\ \A p \in RxSlots : p # w => rx'[p] = rx[p]
  BY DEF IndInv, TruthInv, TypeOK, RxTypeOK
<1>3. OnlySessions(n, s, w)'
  BY <1>1, <1>2 DEF OnlySessions
<1>4. InFlight(n, tx'[n][s], rx'[w], net')
  BY <1>1, <1>2
<1> QED
  BY <1>1, <1>3, <1>4, FlightNext

LEMMA ReceiveDataStep ==
    ASSUME IndInv, IndInv', NEW n \in Senders, NEW s \in TxSlots, NEW q \in RxSlots,
           OnlySessions(n, s, q), InFlight(n, tx[n][s], rx[q], net),
           NEW f \in net, Foremost(f), ReceiveData(f)
    PROVE  PromptInv'
<1> DEFINE t == tx[n][s]
<1>0. f.type = "DATA" /\ UNCHANGED txVars /\ tx' = tx /\ payload_size' = payload_size
  BY DEF ReceiveData, txVars
<1>1. t \in TxSession /\ rx[q] \in RxSession \cup {NoSession}
  BY PromptTypes DEF InFlight
<1>2. InFlight(n, t, rx[q], net)
  OBVIOUS
<1> HIDE DEF t
<1>3. CASE RxIgnore(f)
  <2>1. net' = net \ {f} /\ rx' = rx
    BY <1>3, PromptConsumes DEF RxIgnore, rxVars
  <2>2. InFlight(n, t, rx[q], net \ {f})
    BY <1>0, <1>2, DroppedFlight
  <2>3. OnlySessions(n, s, q)'
    BY <1>0, <2>1 DEF OnlySessions
  <2>4. InFlight(n, tx'[n][s], rx'[q], net')
    BY <1>0, <2>1, <2>2 DEF t
  <2> QED
    BY <1>0, <2>3, <2>4, FlightNext
<1>4. ASSUME NEW p \in PlaceFor(f)
      PROVE  /\ p[1] \in RxSlots /\ (rx[q].active => p[1] = q)
             /\ Stored(p[2], f) \in RxSession
             /\ Stored(p[2], f).frag_cnt = t.frag_cnt /\ f.frag_cnt = t.frag_cnt
             /\ \E D : HeldWith(n, t, Stored(p[2], f), net, f, D)
  <2>1. /\ p[1] \in RxSlots /\ p[2] \in RxSession /\ (rx[q].active => p[1] = q)
        /\ SessionOf(n, t, rx[q], p[2])
        /\ f \in DataFrames /\ f.frag_idx \in Indices
        /\ f.frag_idx \notin p[2].received
        /\ p[2].frag_cnt = t.frag_cnt /\ f.frag_cnt = t.frag_cnt
    BY <1>0, PromptPlace DEF t
  <2>2. \E D : HeldWith(n, t, Stored(p[2], f), net, f, D)
    BY <1>1, <1>2, <2>1, StoredFlight
  <2> QED
    BY <2>1, <2>2, StoredType
<1>5. ASSUME NEW p \in PlaceFor(f), NEW r, rx' = [rx EXCEPT ![p[1]] = r],
             InFlight(n, t, r, net')
      PROVE  PromptInv'
  BY <1>0, <1>4, <1>5, RxSlotNext DEF t
<1>6. CASE RxStore(f)
  <2>1. PICK p \in PlaceFor(f) : rx' = [rx EXCEPT ![p[1]] = Stored(p[2], f)]
    BY <1>6 DEF RxStore
  <2>2. net' = net \ {f}
    BY <1>6, PromptConsumes DEF RxStore
  <2>3. InFlight(n, t, Stored(p[2], f), net')
    BY <1>2, <1>4, <2>2, HeldFlight
  <2> QED
    BY <1>5, <2>1, <2>3
<1>7. CASE RxLastFragment(f)
  <2>1. PICK p \in PlaceFor(f) :
          /\ f.frag_idx = f.frag_cnt - 1
          /\ rx' = [rx EXCEPT ![p[1]] = AfterNack(Stored(p[2], f))]
          /\ Consume(f, NackFor(Stored(p[2], f)))
    BY <1>7 DEF RxLastFragment
  <2> DEFINE r == Stored(p[2], f)
  <2>2. r \in RxSession /\ f.frag_cnt = t.frag_cnt
    BY <1>4
  <2>3. PICK D : HeldWith(n, t, r, net, f, D)
    BY <1>4
  <2> HIDE DEF r
  <2>4. net' = (net \ {f}) \cup NackFor(r)
    BY <2>1, PromptConsumes DEF r
  <2>5. \A g \in net : g.type = "DATA" => f.frag_idx <= g.frag_idx
    BY <1>0 DEF Foremost
  <2>6. f.frag_idx = t.frag_cnt - 1
    BY <2>1, <2>2
  <2>7. InFlight(n, t, AfterNack(r), (net \ {f}) \cup NackFor(r))
    BY <1>1, <1>2, <2>2, <2>3, <2>5, <2>6, LastFlight
  <2> QED
    BY <1>5, <2>1, <2>4, <2>7 DEF r
<1>8. CASE RxComplete(f)
  <2>1. PICK p \in PlaceFor(f) :
          /\ IsComplete(Stored(p[2], f))
          /\ rx' = [rx EXCEPT ![p[1]] = NoSession]
          /\ Consume(f, {DoneFrame(Stored(p[2], f).source, Stored(p[2], f).msg_id)})
    BY <1>8 DEF RxComplete
  <2> DEFINE r == Stored(p[2], f)
  <2>2. r \in RxSession /\ r.frag_cnt = t.frag_cnt
    BY <1>4
  <2>3. PICK D : HeldWith(n, t, r, net, f, D)
    BY <1>4
  <2> HIDE DEF r
  <2>4. net' = (net \ {f}) \cup {DoneFrame(r.source, r.msg_id)}
    BY <2>1, PromptConsumes DEF r
  <2>5. InFlight(n, t, NoSession, (net \ {f}) \cup {DoneFrame(r.source, r.msg_id)})
    BY <1>1, <1>2, <2>1, <2>2, <2>3, CompleteFlight DEF r
  <2> QED
    BY <1>5, <2>1, <2>4, <2>5
<1> QED
  BY <1>3, <1>6, <1>7, <1>8 DEF ReceiveData, RxData

\* The session a NACK or a DONE is for.
LEMMA PromptFindTx ==
    ASSUME NEW n \in Senders, NEW s \in TxSlots, NEW q \in RxSlots,
           OnlySessions(n, s, q), tx[n][s].active
    PROVE  FindTx(n, tx[n][s].msg_id) = {s}
<1>1. {u \in TxActive(n) : tx[n][u].msg_id = tx[n][s].msg_id} = {s}
  BY DEF OnlySessions, TxActive
<1>2. TxSlots \subseteq Nat
  BY TxAssumption DEF TxSlots
<1> QED
  BY <1>1, <1>2 DEF FindTx, First

LEMMA NackHeard ==
    ASSUME NEW n, NEW t, NEW r, NEW air, InFlight(n, t, r, air),
           NEW f \in air, f.type = "NACK"
    PROVE  /\ r.active /\ air = {f} /\ f.dest = n /\ f.msg_id = t.msg_id
           /\ f.missing \in SUBSET Missing(r) /\ NackInAir(n, t, r, air, f.missing)
<1>1. ~(\E D : FragmentsInAir(n, t, r, air, D))
  BY FragmentFields DEF FragmentsInAir
<1>2. ~(air = {DoneFrame(n, t.msg_id)})
  BY FrameTypes
<1>3. PICK missing \in SUBSET Missing(r) : r.active /\ NackInAir(n, t, r, air, missing)
  BY <1>1, <1>2 DEF InFlight
<1>4. air = {NackFrame(n, t.msg_id, missing)}
  BY <1>3 DEF NackInAir
<1>5. f = NackFrame(n, t.msg_id, missing) /\ air = {f}
  BY <1>4
<1>6. f.dest = n /\ f.msg_id = t.msg_id /\ f.missing = missing
  BY <1>5, FrameTypes
<1> QED
  BY <1>3, <1>5, <1>6

LEMMA DoneHeard ==
    ASSUME NEW n, NEW t, NEW r, NEW air, InFlight(n, t, r, air),
           NEW f \in air, f.type = "DONE"
    PROVE  ~r.active /\ air = {f} /\ f.dest = n /\ f.msg_id = t.msg_id
<1>1. ~(\E D : FragmentsInAir(n, t, r, air, D))
  BY FragmentFields DEF FragmentsInAir
<1>2. ~(\E missing : NackInAir(n, t, r, air, missing))
  BY FrameTypes DEF NackInAir
<1>3. ~r.active /\ air = {DoneFrame(n, t.msg_id)}
  BY <1>1, <1>2 DEF InFlight
<1> QED
  BY <1>3, FrameTypes

LEMMA ReceiveNackStep ==
    ASSUME IndInv, IndInv', NEW n \in Senders, NEW s \in TxSlots, NEW q \in RxSlots,
           OnlySessions(n, s, q), InFlight(n, tx[n][s], rx[q], net),
           NEW f \in net, ReceiveNack(f)
    PROVE  PromptInv'
<1> DEFINE t == tx[n][s]
           r == rx[q]
<1>1. f.type = "NACK" /\ UNCHANGED rxVars
  BY DEF ReceiveNack
<1>2. /\ r.active /\ net = {f} /\ f.dest = n /\ f.msg_id = t.msg_id
      /\ f.missing \in SUBSET Missing(r) /\ NackInAir(n, t, r, net, f.missing)
  BY <1>1, NackHeard
<1>3. t \in TxSession /\ r \in RxSession
  BY <1>2, PromptTypes, ActiveRx DEF InFlight
<1>4. FindTx(n, f.msg_id) = {s} /\ t.dest = Receiver
  BY <1>2, PromptFindTx DEF InFlight
<1>5. t.nack_rounds + 1 <= MaxNackRounds
  <2>1. t.nack_rounds < r.nacks_sent
    BY <1>2 DEF NackInAir
  <2>2. t.nack_rounds \in Nat
    BY <1>3 DEF TxSession
  <2>3. r.nacks_sent \in 0..MaxNackRounds
    BY <1>3 DEF RxSession
  <2> HIDE DEF t, r
  <2> QED
    BY <2>1, <2>2, <2>3, LimitsAssumption
<1>6. ~TxIgnore(f.dest, f, Receiver)
  BY <1>2, <1>4 DEF TxIgnore
<1>7. ~TxNackExhausted(f.dest, f, Receiver)
  <2>1. ~(t.nack_rounds + 1 > MaxNackRounds)
    <3>1. t.nack_rounds \in Nat
      BY <1>3 DEF TxSession
    <3> HIDE DEF t
    <3> QED
      BY <1>5, <3>1, LimitsAssumption
  <2> QED
    BY <1>2, <1>4, <2>1 DEF TxNackExhausted
<1>8. PICK sent \in Sent(f.missing) : TxNack(n, f, Receiver, sent)
  BY <1>2, <1>6, <1>7 DEF ReceiveNack
<1>9. sent = f.missing
  BY PromptAssumption DEF Sent
<1>10. tx' = [tx EXCEPT ![n][s] = Retried(tx[n][s])]
  BY <1>4, <1>8, TxNackUpdates DEF IndInv, TruthInv, TypeOK
<1>11. tx'[n][s] = Retried(t)
  BY <1>10, TxType DEF IndInv, TruthInv
<1> DEFINE air == {Fragment(n, t, i) : i \in {i \in f.missing : i < t.frag_cnt}}
<1>12. net' = air
  <2>1. Consume(f, {Fragment(n, t, i) : i \in {i \in f.missing \cap sent : i < t.frag_cnt}})
    BY <1>4, <1>8 DEF TxNack
  <2>2. {i \in f.missing \cap sent : i < t.frag_cnt}
          = {i \in f.missing : i < t.frag_cnt}
    BY <1>9
  <2>3. Consume(f, air)
    BY <2>1, <2>2
  <2> HIDE DEF air
  <2>4. net' = (net \ {f}) \cup air
    BY <2>3, PromptConsumes
  <2> QED
    BY <1>2, <2>4
<1>13. UNCHANGED <<payload_size, rx>>
  BY <1>1, <1>8 DEF TxNack, rxVars
<1>14. SessionsOnlyEnd
  BY ReceiveNackEnds DEF IndInv, TruthInv
<1>15. OnlySessions(n, s, q)'
  BY <1>13, <1>14, RxUnchangedGoesOn, StillOnly
<1>16. InFlight(n, Retried(t), r, air)
  <2>1. InFlight(n, t, r, net)
    OBVIOUS
  <2> HIDE DEF t, r
  <2> QED
    BY <1>2, <1>3, <2>1, RetriedFlight
<1> HIDE DEF air
<1>17. InFlight(n, tx'[n][s], rx'[q], net')
  BY <1>11, <1>12, <1>13, <1>16
<1> QED
  BY <1>13, <1>15, <1>17, FlightNext

LEMMA ReceiveDoneStep ==
    ASSUME IndInv, IndInv', NEW n \in Senders, NEW s \in TxSlots, NEW q \in RxSlots,
           OnlySessions(n, s, q), InFlight(n, tx[n][s], rx[q], net),
           NEW f \in net, ReceiveDone(f)
    PROVE  PromptInv'
<1> DEFINE t == tx[n][s]
<1>1. f.type = "DONE" /\ UNCHANGED rxVars
  BY DEF ReceiveDone
<1>2. ~rx[q].active /\ net = {f} /\ f.dest = n /\ f.msg_id = t.msg_id
  BY <1>1, DoneHeard
<1>3. Consume(f, {}) /\ UNCHANGED <<payload_size, rx>>
  BY <1>1 DEF ReceiveDone, TxIgnore, Ignored, TxDone, txVars, rxVars
<1>4. net' = {}
  BY <1>2, <1>3, PromptConsumes
<1>5. SessionsOnlyEnd
  BY ReceiveDoneEnds DEF IndInv, TruthInv
<1>6. OnlySessions(n, s, q)'
  BY <1>3, <1>5, RxUnchangedGoesOn, StillOnly
<1>7. FindTx(n, f.msg_id) = {s} /\ t.dest = Receiver
  BY <1>2, PromptFindTx DEF InFlight
<1>8. TxDone(n, f, Receiver)
  BY <1>2, <1>7 DEF ReceiveDone, TxIgnore
<1>9. tx' = [tx EXCEPT ![n][s] = NoSession]
  BY <1>7, <1>8 DEF TxDone
<1>10. ~tx'[n][s].active /\ ~rx'[q].active
  BY <1>2, <1>3, <1>9, TxType DEF IndInv, TruthInv, NoSession
<1> QED
  BY <1>4, <1>6, <1>10, QuietNext

LEMMA PromptReceiveStep ==
    ASSUME PromptInv, IndInv', PromptReceive
    PROVE  PromptInv'
<1>1. PICK f \in net : Foremost(f) /\ Receive(f)
  BY DEF PromptReceive
<1>2. PICK n \in Senders, s \in TxSlots, q \in RxSlots :
         OnlySessions(n, s, q) /\ InFlight(n, tx[n][s], rx[q], net)
  BY <1>1 DEF PromptInv, Idle
<1> QED
  BY <1>1, <1>2, ReceiveDataStep, ReceiveNackStep, ReceiveDoneStep DEF Receive, PromptInv

LEMMA LoseStep ==
    ASSUME PromptInv, IndInv', LoseFragment
    PROVE  PromptInv'
<1>1. PICK f \in net : f.type = "DATA" /\ net' = net \ {f}
  BY DEF LoseFragment
<1>2. PICK n \in Senders, s \in TxSlots, q \in RxSlots :
         OnlySessions(n, s, q) /\ InFlight(n, tx[n][s], rx[q], net)
  BY <1>1 DEF PromptInv, Idle
<1>3. UNCHANGED <<tx, rx, payload_size>>
  BY DEF LoseFragment, txVars, rxVars
<1>4. OnlySessions(n, s, q)'
  BY <1>2, <1>3 DEF OnlySessions
<1>5. InFlight(n, tx[n][s], rx[q], net \ {f})
  BY <1>1, <1>2, DroppedFlight
<1>6. InFlight(n, tx'[n][s], rx'[q], net')
  BY <1>1, <1>3, <1>5
<1> QED
  BY <1>3, <1>4, <1>6, FlightNext

LEMMA PromptClockStep ==
    ASSUME PromptInv, IndInv', PromptClock
    PROVE  PromptInv'
<1>0. IndInv
  BY DEF PromptInv
<1>1. /\ \A n \in Senders : \A s \in TxSlots : tx'[n][s] = TxAged(tx[n][s])
      /\ \A q \in RxSlots : rx'[q] = RxAged(rx[q])
      /\ UNCHANGED <<payload_size, net>>
  BY DEF PromptClock, Clock, TxAge, RxAge
<1>2. /\ net = {}
      /\ \A n \in Senders, s \in TxSlots : Ticked(tx[n][s], TRUE) = tx[n][s]
      /\ \A s \in RxSlots : RxTicked(rx[s]) = rx[s]
  BY DEF PromptClock, Settled
<1>3. SessionsOnlyEnd /\ SessionsGoOn
  BY <1>0, ClockEnds, ClockGoesOn DEF IndInv, TruthInv, PromptClock
<1>4. CASE Idle /\ RxActive = {}
  BY <1>0, <1>1, <1>2, <1>3, <1>4, QuietStays
<1>5. ASSUME NEW n \in Senders, NEW s \in TxSlots, NEW q \in RxSlots,
             OnlySessions(n, s, q), InFlight(n, tx[n][s], rx[q], net)
      PROVE  PromptInv'
  <2>1. tx[n][s] \in TxSession /\ rx[q] \in RxSession \cup {NoSession}
    BY <1>0, <1>5, PromptTypes DEF InFlight
  <2>2. rx[q].active => ~IsComplete(rx[q])
    BY <1>0 DEF IndInv, SessionMatchesTransfer, RxActive
  <2>3. InFlight(n, TxAged(tx[n][s]), RxAged(rx[q]), {})
    BY <1>2, <1>5, <2>1, <2>2, AgedFlight
  <2>4. InFlight(n, tx'[n][s], rx'[q], net')
    BY <1>1, <1>2, <2>3
  <2>5. OnlySessions(n, s, q)'
    BY <1>3, <1>5, StillOnly
  <2> QED
    BY <1>1, <2>4, <2>5, FlightNext
<1> QED
  BY <1>4, <1>5 DEF PromptInv

LEMMA PromptStep == PromptInv /\ [PromptNext]_promptVars => PromptInv'
<1> SUFFICES ASSUME PromptInv, [PromptNext]_promptVars
             PROVE  PromptInv'
  OBVIOUS
<1>1. IndInv /\ IndInv'
  BY PromptIsLink DEF PromptInv
<1>2. ASSUME NEW n \in Senders, PromptSend(n)
      PROVE  PromptInv'
  BY <1>1, <1>2, PromptSendStep
<1>3. CASE PromptTick
  BY <1>1, <1>3, TickTxStep, TickRxStep DEF PromptTick
<1>4. CASE PromptReceive
  BY <1>1, <1>4, PromptReceiveStep
<1>5. CASE LoseFragment
  BY <1>1, <1>5, LoseStep
<1>6. CASE PromptClock
  BY <1>1, <1>6, PromptClockStep
<1>7. CASE UNCHANGED promptVars
  <2>1. UNCHANGED <<net, tx, rx, payload_size>>
    BY <1>7 DEF promptVars, vars
  <2>2. CASE Idle /\ RxActive = {}
    BY <1>1, <2>1, <2>2 DEF PromptInv, Idle, TxActive, RxActive
  <2>3. ASSUME NEW n \in Senders, NEW s \in TxSlots, NEW q \in RxSlots,
               OnlySessions(n, s, q), InFlight(n, tx[n][s], rx[q], net)
        PROVE  PromptInv'
    <3>1. OnlySessions(n, s, q)'
      BY <2>1, <2>3 DEF OnlySessions
    <3>2. InFlight(n, tx'[n][s], rx'[q], net')
      BY <2>1, <2>3
    <3> QED
      BY <1>1, <2>1, <3>1, <3>2, FlightNext
  <2> QED
    BY <2>2, <2>3 DEF PromptInv
<1> QED
  BY <1>2, <1>3, <1>4, <1>5, <1>6, <1>7 DEF PromptNext

LEMMA PromptInitial == PromptInit => PromptInv
<1> SUFFICES ASSUME PromptInit
             PROVE  PromptInv
  OBVIOUS
<1>1. IndInv
  BY InitSafe DEF PromptInit
<1>2. Idle /\ RxActive = {}
  BY DEF PromptInit, Init, TxInit, RxInit, Idle, TxActive, RxActive, NoSession
<1> QED
  BY <1>1, <1>2 DEF PromptInv

\* Recovery never leaves a session behind: however a prompt transfer goes,
\* whatever fragments are lost, the session frag_tx_tick, frag_tx_handle_nack
\* or frag_tx_handle_done ends is the last thing of it, and the receiver's
\* slot is free for the next transfer.
THEOREM SlotIsFree == PromptSpec => []SlotFreeForNext
<1>1. PromptInv => SlotFreeForNext
  <2> SUFFICES ASSUME PromptInv, Idle
               PROVE  RxActive = {}
    BY DEF SlotFreeForNext
  <2> QED
    BY DEF PromptInv, Idle, InFlight, TxActive
<1> QED
  BY <1>1, PromptInitial, PromptStep, PTL DEF PromptSpec

=============================================================================
