------------------------- MODULE FragmentAloneProofs -------------------------
(* The transmitter's sessions stay sound whatever NACK and DONE frames      *)
(* anyone sends it, for any payload sizes, and when its ids wrap; the       *)
(* receiver keeps its sessions sound and its NACKs honest whatever DATA     *)
(* frames come, from any number of devices and for any limits.              *)
EXTENDS FragmentTxAlone, FragmentRxAlone, FragmentHandlerProofs, FiniteSetTheorems,
        WellFoundedInduction, TLAPS

-----------------------------------------------------------------------------
(* The transmitter.  One session. *)

\* Session t has sent no fragment that does not exist, and waits for DONE
\* only after its last fragment or a NACK.
Paced(t) ==
    t.active =>
        /\ t.current_frag <= t.frag_cnt
        /\ t.state = "WAITING_DONE" =>
              t.current_frag = t.frag_cnt \/ t.nack_rounds > 0

AllPaced == \A n \in Senders : \A s \in TxSlots : Paced(tx[n][s])

LEMMA NewPaced ==
    ASSUME TxTypeOK, NEW n \in Senders, NEW data, NEW len \in Nat \ {0}, NEW dest
    PROVE  Paced(NewTxSession(n, data, len, dest))
<1>1. payload_size[n] \in Nat \ {0}
  BY TxAssumption DEF TxTypeOK
<1>2. CeilDiv(len, payload_size[n]) \in Nat
  BY <1>1, CeilDivType
<1> QED
  BY <1>2 DEF Paced, NewTxSession

LEMMA TickedPaced ==
    ASSUME NEW t \in TxSession \cup {NoSession}, Paced(t), NEW sent \in BOOLEAN
    PROVE  Paced(Ticked(t, sent))
<1>1. CASE t \in TxSession
  <2> DEFINE u == [t EXCEPT !.current_frag = @ + 1, !.idle = 0]
             w == [t EXCEPT !.state = "WAITING_DONE", !.idle = 0]
  <2>1. t.active /\ t.current_frag \in Nat /\ t.frag_cnt \in Nat /\ t.nack_rounds \in Nat
    BY <1>1 DEF TxSession
  <2>2. SendDue(t) => Paced(u)
    <3>1. /\ u.current_frag = t.current_frag + 1 /\ u.frag_cnt = t.frag_cnt
          /\ u.state = t.state
      BY <1>1 DEF TxSession
    <3> HIDE DEF u
    <3> QED
      BY <2>1, <3>1 DEF Paced, SendDue, MaySend
  <2>3. AllSent(t) => Paced(w)
    <3>1. /\ w.current_frag = t.current_frag /\ w.frag_cnt = t.frag_cnt
      BY <1>1 DEF TxSession
    <3> HIDE DEF w
    <3> QED
      BY <2>1, <3>1 DEF Paced, AllSent, MaySend
  <2>4. Paced(NoSession)
    BY DEF Paced, NoSession
  <2> HIDE DEF u, w
  <2> QED
    BY <2>2, <2>3, <2>4 DEF Ticked, u, w
<1>2. CASE t = NoSession
  BY <1>2 DEF Ticked, NoSession, Expired, SendDue, AllSent, MaySend
<1> QED
  BY <1>1, <1>2

LEMMA RetriedPaced ==
    ASSUME NEW t \in TxSession, Paced(t)
    PROVE  Paced(Retried(t))
<1>1. /\ Retried(t).current_frag = t.current_frag
      /\ Retried(t).frag_cnt = t.frag_cnt
      /\ Retried(t).nack_rounds = t.nack_rounds + 1
      /\ t.active /\ t.nack_rounds \in Nat
  BY DEF Retried, TxSession
<1> QED
  BY <1>1 DEF Paced

LEMMA AgedPaced ==
    ASSUME NEW t \in TxSession \cup {NoSession}, Paced(t)
    PROVE  Paced(TxAged(t))
<1>1. CASE t \in TxSession
  <2>1. /\ TxAged(t).current_frag = t.current_frag
        /\ TxAged(t).frag_cnt = t.frag_cnt
        /\ TxAged(t).nack_rounds = t.nack_rounds
        /\ TxAged(t).state = t.state
        /\ t.active
    BY <1>1 DEF TxAged, TxSession
  <2> QED
    BY <2>1 DEF Paced
<1>2. CASE t = NoSession
  BY <1>2 DEF TxAged, NoSession
<1> QED
  BY <1>1, <1>2

\* A step that changes one slot.
LEMMA SlotPaced ==
    ASSUME TxTypeOK, AllPaced, NEW n \in Senders, NEW s \in TxSlots, NEW t, Paced(t),
           tx' = [tx EXCEPT ![n][s] = t]
    PROVE  AllPaced'
<1>1. \A m \in Senders : \A r \in TxSlots : tx'[m][r] = tx[m][r] \/ tx'[m][r] = t
  BY DEF TxTypeOK
<1> QED
  BY <1>1 DEF AllPaced

LEMMA FreePaced == Paced(NoSession)
BY DEF Paced, NoSession

-----------------------------------------------------------------------------
(* Its invariant. *)

TxAloneInv == net \subseteq Frames /\ TxTypeOK /\ AllPaced

LEMMA InitPaced == TxAloneInit => TxAloneInv
<1> SUFFICES ASSUME TxAloneInit
             PROVE  TxAloneInv
  OBVIOUS
<1>1. TxTypeOK /\ net \subseteq Frames
  BY LimitsAssumption, TxAssumption DEF TxAloneInit, TxInit, TxTypeOK
<1>2. AllPaced
  BY FreePaced DEF TxAloneInit, TxInit, AllPaced
<1> QED
  BY <1>1, <1>2 DEF TxAloneInv

LEMMA CallSound ==
    ASSUME TxAloneInv, NEW n \in Senders, ApplicationCall(n)
    PROVE  TxAloneInv'
<1>1. TxTypeOK /\ net \subseteq Frames /\ AllPaced
  BY DEF TxAloneInv
<1>2. net' = net
  BY DEF ApplicationCall, TxSend, TxSetPayloadSize, TxCancel, TxClear
<1>3. ASSUME NEW data \in Data, NEW len \in Lens, NEW dest \in Dests,
             TxSend(n, data, len, dest)
      PROVE  TxTypeOK' /\ AllPaced'
  <2>1. len \in Nat \ {0} /\ dest \in {Receiver, Broadcast}
    BY <1>3, TxAloneAssumption DEF TxSend
  <2>2. TxTypeOK'
    BY <1>1, <1>3, <2>1, TxSendType
  <2>3. PICK s \in TxSlots : tx' = [tx EXCEPT ![n][s] = NewTxSession(n, data, len, dest)]
    BY <1>3 DEF TxSend, FreeTx, First
  <2>4. AllPaced'
    BY <1>1, <2>1, <2>3, NewPaced, SlotPaced
  <2> QED
    BY <2>2, <2>4
<1>4. ASSUME NEW size \in Sizes, TxSetPayloadSize(n, size)
      PROVE  TxTypeOK' /\ AllPaced'
  <2>1. size \in Nat
    BY TxAloneAssumption
  <2>2. payload_size' \in [Senders -> MinPayloadSize..MaxPayloadSize]
    BY <1>1, <1>4, <2>1, TxAssumption, LimitsAssumption DEF TxSetPayloadSize, TxTypeOK
  <2> QED
    BY <1>1, <1>4, <2>2 DEF TxSetPayloadSize, TxTypeOK, AllPaced
<1>5. ASSUME NEW id \in 1..MaxMsgId, TxCancel(n, id)
      PROVE  TxTypeOK' /\ AllPaced'
  <2>1. PICK s \in FindTx(n, id) : tx' = [tx EXCEPT ![n][s] = NoSession]
    BY <1>5 DEF TxCancel
  <2>2. s \in TxSlots
    BY <1>1, FindTxSession
  <2> QED
    BY <1>1, <1>5, <2>1, <2>2, TxCancelType, FreePaced, SlotPaced
<1>6. ASSUME TxClear(n)
      PROVE  TxTypeOK' /\ AllPaced'
  <2>1. \A m \in Senders : \A s \in TxSlots : tx'[m][s] = tx[m][s] \/ tx'[m][s] = NoSession
    BY <1>1, <1>6 DEF TxClear, TxTypeOK
  <2> QED
    BY <1>1, <1>6, <2>1, TxClearType, FreePaced DEF AllPaced
<1> QED
  BY <1>1, <1>2, <1>3, <1>4, <1>5, <1>6 DEF ApplicationCall, TxAloneInv

LEMMA TickSound ==
    ASSUME TxAloneInv, NEW n \in Senders, SomeTick(n)
    PROVE  TxAloneInv'
<1>1. TxTypeOK /\ net \subseteq Frames /\ AllPaced
  BY DEF TxAloneInv
<1>2. PICK sent \in SUBSET TxSlots : TxTick(n, sent)
  BY DEF SomeTick
<1>3. \A m \in Senders : \A s \in TxSlots :
         tx'[m][s] = tx[m][s] \/ tx'[m][s] = Ticked(tx[m][s], s \in sent)
  BY <1>1, <1>2 DEF TxTick, TxTypeOK
<1>4. ASSUME NEW m \in Senders, NEW s \in TxSlots
      PROVE  Paced(Ticked(tx[m][s], s \in sent))
  <2>1. /\ tx[m][s] \in TxSession \cup {NoSession} /\ Paced(tx[m][s])
        /\ (s \in sent) \in BOOLEAN
    BY <1>1 DEF TxTypeOK, AllPaced
  <2> QED
    BY <2>1, TickedPaced
<1>5. AllPaced'
  BY <1>1, <1>3, <1>4 DEF AllPaced
<1> QED
  BY <1>1, <1>2, <1>5, TxTickType DEF TxAloneInv

LEMMA ReplySound ==
    ASSUME TxAloneInv, NEW n \in Senders, Reply(n)
    PROVE  TxAloneInv'
<1>1. TxTypeOK /\ net \subseteq Frames /\ AllPaced
  BY DEF TxAloneInv
<1>2. ASSUME NEW f, NEW from, TxIgnore(n, f, from)
      PROVE  TxAloneInv'
  BY <1>1, <1>2, TxIgnoreType DEF TxIgnore, Ignored, txVars, AllPaced, TxAloneInv
<1>3. ASSUME NEW f, NEW from, TxNackExhausted(n, f, from) \/ TxDone(n, f, from)
      PROVE  TxAloneInv'
  <2>1. PICK s \in FindTx(n, f.msg_id) : tx' = [tx EXCEPT ![n][s] = NoSession]
    BY <1>3 DEF TxNackExhausted, TxDone
  <2>2. s \in TxSlots
    BY <1>1, FindTxSession
  <2>3. AllPaced'
    BY <1>1, <2>1, <2>2, FreePaced, SlotPaced
  <2> QED
    BY <1>1, <1>3, <2>3, TxNackExhaustedType, TxDoneType DEF TxAloneInv
<1>4. ASSUME NEW f, NEW from, NEW sent \in SUBSET f.missing, f.missing \subseteq Nat,
             TxNack(n, f, from, sent)
      PROVE  TxAloneInv'
  <2>1. PICK s \in FindTx(n, f.msg_id) : tx' = [tx EXCEPT ![n][s] = Retried(tx[n][s])]
    BY <1>1, <1>4, TxNackUpdates
  <2>2. s \in TxSlots /\ tx[n][s] \in TxSession
    BY <1>1, FindTxSession
  <2>3. Paced(Retried(tx[n][s]))
    BY <1>1, <2>2, RetriedPaced DEF AllPaced
  <2>4. AllPaced'
    BY <1>1, <2>1, <2>2, <2>3, SlotPaced
  <2> QED
    BY <1>1, <1>4, <2>4, TxNackType DEF TxAloneInv
<1>5. ASSUME NEW id, NEW from, NEW missing \in SUBSET (0..MaxFragments),
             NEW sent \in SUBSET missing, TxNack(n, NackFrame(n, id, missing), from, sent)
      PROVE  TxAloneInv'
  <2> DEFINE f == NackFrame(n, id, missing)
  <2>1. f.missing = missing
    BY DEF NackFrame
  <2>2. f.missing \subseteq Nat /\ sent \in SUBSET f.missing
    BY <2>1
  <2> HIDE DEF f
  <2> QED
    BY <1>4, <1>5, <2>2 DEF f
<1> QED
  BY <1>2, <1>3, <1>5 DEF Reply

LEMMA TxStepSound == TxAloneInv /\ [TxAloneNext]_txAloneVars => TxAloneInv'
<1> SUFFICES ASSUME TxAloneInv, [TxAloneNext]_txAloneVars
             PROVE  TxAloneInv'
  OBVIOUS
<1>1. TxTypeOK /\ net \subseteq Frames /\ AllPaced
  BY DEF TxAloneInv
<1>2. ASSUME NEW n \in Senders,
             InQuiet(ApplicationCall(n)) \/ InQuiet(Reply(n)) \/ InQuiet(SomeTick(n))
      PROVE  TxAloneInv'
  BY <1>2, CallSound, ReplySound, TickSound DEF InQuiet
<1>3. CASE InQuiet(TxClock)
  <2>1. /\ tx' = [n \in Senders |-> [s \in TxSlots |-> TxAged(tx[n][s])]]
        /\ UNCHANGED <<net, next_msg_id, payload_size, accepted, outcome>>
    BY <1>3 DEF InQuiet, TxClock, TxAge
  <2>2. \A n \in Senders : \A s \in TxSlots :
           TxAged(tx[n][s]) \in TxSession \cup {NoSession}
    BY <1>1, TxAgedType
  <2>3. TxTypeOK'
    BY <1>1, <2>1, <2>2 DEF TxTypeOK
  <2>4. AllPaced'
    <3>1. \A n \in Senders : \A s \in TxSlots : Paced(TxAged(tx[n][s]))
      BY <1>1, AgedPaced DEF TxTypeOK, AllPaced
    <3> QED
      BY <2>1, <3>1 DEF AllPaced
  <2> QED
    BY <1>1, <2>1, <2>3, <2>4 DEF TxAloneInv
<1>4. CASE TxHeard \/ UNCHANGED txAloneVars
  BY <1>1, <1>4 DEF TxHeard, txVars, txAloneVars, TxAloneInv, TxTypeOK, AllPaced
<1> QED
  BY <1>2, <1>3, <1>4 DEF TxAloneNext

THEOREM TxInvariance == TxAloneSpec => []TxAloneInv
BY InitPaced, TxStepSound, PTL DEF TxAloneSpec

\* Sessions and histories keep their types and ids never become 0, for any
\* replies, when ids wrap and whatever sizes frag_tx_set_payload_size is
\* given (TxTypeOK).
THEOREM TxTypes == TxAloneSpec => []TxTypeOK
<1>1. TxAloneInv => TxTypeOK
  BY DEF TxAloneInv
<1> QED
  BY <1>1, TxInvariance, PTL

\* A session waits for DONE only after its last fragment went out or a NACK
\* came for it (WaitingDoneCause).
THEOREM WaitingDoneHasCause == TxAloneSpec => []WaitingDoneCause
<1>1. TxAloneInv => WaitingDoneCause
  BY DEF TxAloneInv, AllPaced, Paced, WaitingDoneCause, TxActive
<1> QED
  BY <1>1, TxInvariance, PTL

-----------------------------------------------------------------------------
(* The receiver.  A loop over slots or indices that looks for one finds the *)
(* first.                                                                   *)

LEMMA LeastElement ==
    ASSUME NEW T \in SUBSET Nat, T # {}
    PROVE  \E x \in T : \A y \in T : x <= y
<1> DEFINE R == OpToRel(<, Nat)
<1>1. IsWellFoundedOn(R, Nat)
  BY NatLessThanWellFounded
<1>2. \A x, y \in Nat : x < y => <<x, y>> \in R
  BY DEF OpToRel
<1> HIDE DEF R
<1>3. PICK x \in T : \A y \in T : ~ (<<y, x>> \in R)
  BY <1>1, WFMin
<1>4. \A y \in T : ~(y < x)
  BY <1>2, <1>3
<1>5. \A y \in T : y \in Int /\ x \in Int
  OBVIOUS
<1> QED
  BY <1>4, <1>5

LEMMA FirstFound ==
    ASSUME NEW S \in SUBSET Nat
    PROVE  First(S) = {} <=> S = {}
<1>1. S = {} => First(S) = {}
  BY DEF First
<1>2. S # {} => First(S) # {}
  BY LeastElement DEF First
<1> QED
  BY <1>1, <1>2

LEMMA GreatestElement ==
    ASSUME NEW n \in Nat, NEW T \in SUBSET (0..n), T # {}
    PROVE  \E x \in T : \A y \in T : y <= x
<1> DEFINE W == {n - y : y \in T}
<1>1. W \in SUBSET Nat /\ W # {}
  <2>1. ASSUME NEW y \in T
        PROVE  n - y \in Nat
    <3>1. y \in Int /\ n \in Int /\ 0 <= y /\ y <= n
      OBVIOUS
    <3> QED
      BY <3>1
  <2> QED
    BY <2>1
<1>2. PICK w \in W : \A v \in W : w <= v
  <2> HIDE DEF W
  <2> QED
    BY <1>1, LeastElement
<1>3. PICK x \in T : w = n - x
  OBVIOUS
<1>4. ASSUME NEW y \in T
      PROVE  y <= x
  <2>1. n - y \in W
    OBVIOUS
  <2>2. n - x <= n - y
    BY <1>2, <1>3, <2>1
  <2>3. x \in Int /\ y \in Int
    OBVIOUS
  <2> HIDE DEF W
  <2> QED
    BY <2>2, <2>3
<1> QED
  BY <1>4

-----------------------------------------------------------------------------
(* A NACK. *)

MissingBelow(r, m) == {j \in Missing(r) : j < m}

LEMMA MissingType ==
    ASSUME NEW r \in RxSession
    PROVE  /\ Missing(r) \in SUBSET (0..(r.frag_cnt - 1)) /\ Missing(r) \in SUBSET Nat
           /\ r.frag_cnt - 1 \in Nat
           /\ \A m : IsFiniteSet(MissingBelow(r, m))
<1>1. r.frag_cnt \in Nat /\ r.frag_cnt >= 1
  <2>1. MaxFragments \in Nat
    BY LimitsAssumption, CeilDivType DEF MaxFragments
  <2> QED
    BY <2>1 DEF RxSession
<1>2. Missing(r) \in SUBSET (0..(r.frag_cnt - 1)) /\ Missing(r) \in SUBSET Nat
  BY <1>1 DEF Missing
<1>3. IsFiniteSet(0..(r.frag_cnt - 1))
  BY <1>1, FS_Interval
<1>4. ASSUME NEW m
      PROVE  IsFiniteSet(MissingBelow(r, m))
  BY <1>2, <1>3, FS_Subset DEF MissingBelow
<1> QED
  BY <1>1, <1>2, <1>4

\* The lowest missing indices, at least one and no more than a frame holds.
LEMMA ReportedHonest ==
    ASSUME NEW r \in RxSession, ~IsComplete(r)
    PROVE  /\ Cardinality(Reported(r)) \in 1..MaxNackIndices
           /\ Reported(r) \subseteq Missing(r)
           /\ \A i \in Missing(r) : \E j \in Reported(r) : j <= i
<1> DEFINE cnt == r.frag_cnt - 1
<1>1. /\ Missing(r) \in SUBSET (0..cnt) /\ Missing(r) \in SUBSET Nat
      /\ cnt \in Nat
      /\ \A m : IsFiniteSet(MissingBelow(r, m))
  BY MissingType
<1>2. MaxNackIndices \in Nat /\ MaxNackIndices >= 1
  BY LimitsAssumption
<1>3. Reported(r) \subseteq Missing(r)
      /\ \A m \in Missing(r) : m \in Reported(r) <=> Cardinality(MissingBelow(r, m)) < MaxNackIndices
  BY DEF Reported, MissingBelow
<1> HIDE DEF cnt
<1>4. PICK l \in Missing(r) : \A i \in Missing(r) : l <= i
  BY <1>1, LeastElement DEF IsComplete
<1>5. l \in Reported(r)
  <2>1. MissingBelow(r, l) = {}
    BY <1>1, <1>4 DEF MissingBelow
  <2>2. Cardinality(MissingBelow(r, l)) = 0
    BY <2>1, FS_EmptySet
  <2> QED
    BY <1>2, <1>3, <2>2
<1>6. PICK m \in Reported(r) : \A i \in Reported(r) : i <= m
  <2>1. Reported(r) \in SUBSET (0..cnt) /\ Reported(r) # {}
    BY <1>1, <1>3, <1>5
  <2> QED
    BY <1>1, <2>1, GreatestElement
<1>7. Reported(r) \subseteq MissingBelow(r, m) \cup {m}
  <2> SUFFICES ASSUME NEW i \in Reported(r)
               PROVE  i \in MissingBelow(r, m) \cup {m}
    OBVIOUS
  <2>1. i <= m /\ i \in Missing(r) /\ i \in Int /\ m \in Int
    BY <1>1, <1>3, <1>6
  <2> QED
    BY <2>1 DEF MissingBelow
<1>8. Cardinality(MissingBelow(r, m)) < MaxNackIndices
  BY <1>3, <1>6
<1>9. IsFiniteSet(MissingBelow(r, m) \cup {m}) /\ Cardinality(MissingBelow(r, m) \cup {m}) <= MaxNackIndices
  <2>1. IsFiniteSet(MissingBelow(r, m)) /\ Cardinality(MissingBelow(r, m)) \in Nat
    BY <1>1, FS_CardinalityType
  <2>2. /\ IsFiniteSet(MissingBelow(r, m) \cup {m})
        /\ \/ Cardinality(MissingBelow(r, m) \cup {m}) = Cardinality(MissingBelow(r, m))
           \/ Cardinality(MissingBelow(r, m) \cup {m}) = Cardinality(MissingBelow(r, m)) + 1
    BY <2>1, FS_AddElement
  <2> QED
    BY <1>2, <1>8, <2>1, <2>2
<1>10. /\ IsFiniteSet(Reported(r))
       /\ Cardinality(Reported(r)) <= Cardinality(MissingBelow(r, m) \cup {m})
  BY <1>7, <1>9, FS_Subset
<1>11. Cardinality(Reported(r)) \in Nat /\ Cardinality(Reported(r)) # 0
       /\ Cardinality(MissingBelow(r, m) \cup {m}) \in Nat
  BY <1>5, <1>9, <1>10, FS_CardinalityType, FS_EmptySet
<1>12. Cardinality(Reported(r)) \in 1..MaxNackIndices
  BY <1>2, <1>9, <1>10, <1>11
<1> QED
  BY <1>3, <1>4, <1>5, <1>12

\* The NACK for session r is honest about every session that holds as much.
LEMMA NackHonest ==
    ASSUME NEW r \in RxSession, ~IsComplete(r), NEW g \in NackFor(r),
           NEW q \in RxSession, SameParts(q, r)
    PROVE  /\ ~GivesUp(r)
           /\ Cardinality(g.missing) \in 1..MaxNackIndices
           /\ q.active /\ q.source = g.dest /\ q.msg_id = g.msg_id
           /\ g.missing \subseteq Missing(q)
           /\ \A i \in Missing(q) : \E j \in g.missing : j <= i
<1>1. ~GivesUp(r) /\ g = NackFrame(r.source, r.msg_id, Reported(r))
  BY DEF NackFor
<1>2. g.missing = Reported(r) /\ g.dest = r.source /\ g.msg_id = r.msg_id
  BY <1>1 DEF NackFrame
<1>3. Missing(q) = Missing(r) /\ q.source = r.source /\ q.msg_id = r.msg_id
  BY DEF SameParts, Missing
<1>4. q.active
  BY DEF RxSession
<1> QED
  BY <1>1, <1>2, <1>3, <1>4, ReportedHonest

-----------------------------------------------------------------------------
(* What a session holds. *)

\* Session r holds payloads of its own device, each where its header said.
HoldsOwn(r) ==
    /\ \A i \in r.received :
          /\ i < r.frag_cnt
          /\ r.buffer[i].data = r.source
          /\ i * MaxPayload + r.buffer[i].len <= r.total_len
    /\ \A i \in Indices \ r.received : r.buffer[i] = Blank

\* Session r is session q with perhaps more in it.
Continues(r, q) ==
    /\ r.source = q.source /\ r.msg_id = q.msg_id
    /\ q.received \subseteq r.received
    /\ \A i \in q.received : r.buffer[i] = q.buffer[i]

Distinct ==
    \A s, t \in RxActive :
        rx[s].source = rx[t].source /\ rx[s].msg_id = rx[t].msg_id => s = t

LEMMA SoundParts ==
    SessionsSound <=>
        /\ \A s \in RxActive : ~IsComplete(rx[s]) /\ HoldsOwn(rx[s])
        /\ Distinct
BY DEF SessionsSound, HoldsOwn, Distinct

LEMMA SameHolds ==
    ASSUME NEW q, NEW r, SameParts(q, r)
    PROVE  /\ HoldsOwn(r) => HoldsOwn(q)
           /\ IsComplete(q) <=> IsComplete(r)
           /\ Continues(q, r)
BY DEF SameParts, HoldsOwn, IsComplete, Missing, Continues

LEMMA AnyFrameType ==
    ASSUME NEW f \in AnyFrame
    PROVE  f \in DataFrames /\ f.payload.data = f.source
<1>1. PICK source \in Senders, msg_id \in MsgIds, len \in TotalLens,
           idx \in 0..MaxFragments, cnt \in Counts, plen \in PayloadLens :
        f = DataFrame(source, msg_id, len, idx, cnt,
                      [data |-> source, off |-> 0, len |-> plen])
  BY DEF AnyFrame, DataFrame
<1>2. /\ source \in Data /\ msg_id \in Nat /\ len \in Nat /\ cnt \in Nat
      /\ plen \in Nat /\ idx \in Nat
  <2>1. MaxFragments \in Nat
    BY LimitsAssumption, CeilDivType DEF MaxFragments
  <2> QED
    BY <2>1, RxAloneAssumption
<1>3. [data |-> source, off |-> 0, len |-> plen] \in Payload
  BY <1>2 DEF Payload
<1> QED
  BY <1>1, <1>2, <1>3 DEF DataFrame, DataFrames

\* A place is a session under way, or a free slot when there is none for the
\* transfer.
LEMMA PlaceKeeps ==
    ASSUME RxTypeOK, SessionsSound, NEW f \in AnyFrame, NEW p \in PlaceFor(f)
    PROVE  /\ HoldsOwn(p[2])
           /\ rx[p[1]].active => p[2] = rx[p[1]]
           /\ \A s \in RxActive :
                 rx[s].source = f.source /\ rx[s].msg_id = f.msg_id => s = p[1]
<1>1. p \in SessionFor(f)
  BY DEF PlaceFor
<1>2. CASE FindRx(f) # {}
  <2>1. PICK s \in FindRx(f) : p = <<s, rx[s]>>
    BY <1>1, <1>2 DEF SessionFor
  <2>2. s \in RxActive /\ rx[s].source = f.source /\ rx[s].msg_id = f.msg_id
    BY <2>1 DEF FindRx, First
  <2>3. p[1] = s /\ p[2] = rx[s]
    BY <2>1
  <2>4. HoldsOwn(p[2])
    BY <2>2, <2>3, SoundParts
  <2>5. \A t \in RxActive :
           rx[t].source = f.source /\ rx[t].msg_id = f.msg_id => t = s
    BY <2>2, SoundParts DEF Distinct
  <2> QED
    BY <2>3, <2>4, <2>5
<1>3. CASE FindRx(f) = {}
  <2> DEFINE T == {s \in RxActive : /\ rx[s].msg_id = f.msg_id
                                    /\ rx[s].source = f.source}
  <2>1. PICK s \in FreeRx : p = <<s, NewRxSession(f)>>
    BY <1>1, <1>3 DEF SessionFor
  <2>2. s \in RxSlots /\ ~rx[s].active /\ p[1] = s /\ p[2] = NewRxSession(f)
    BY <2>1 DEF FreeRx, First, RxActive
  <2>3. T = {}
    <3>1. T \in SUBSET Nat
      BY DEF RxActive, RxSlots
    <3>2. First(T) = {}
      BY <1>3 DEF FindRx
    <3> QED
      BY <3>1, <3>2, FirstFound
  <2>4. HoldsOwn(NewRxSession(f))
    BY DEF HoldsOwn, NewRxSession
  <2> QED
    BY <2>2, <2>3, <2>4
<1> QED
  BY <1>2, <1>3

\* The session a fragment is stored in.
LEMMA StoredHolds ==
    ASSUME RxTypeOK, SessionsSound, NEW f \in AnyFrame, NEW p \in PlaceFor(f)
    PROVE  /\ Stored(p[2], f) \in RxSession
           /\ Stored(p[2], f).source = f.source
           /\ Stored(p[2], f).msg_id = f.msg_id
           /\ HoldsOwn(Stored(p[2], f))
           /\ Continues(Stored(p[2], f), p[2])
<1> DEFINE q == p[2]
           r == Stored(p[2], f)
<1>1. f \in DataFrames /\ f.payload.data = f.source
  BY AnyFrameType
<1>2. /\ q \in RxSession /\ q.source = f.source /\ q.msg_id = f.msg_id
      /\ q.total_len = f.total_len /\ q.frag_cnt = f.frag_cnt
      /\ f.frag_idx \in Indices
  BY <1>1, PlaceType DEF SameMetadata
<1>3. HoldsOwn(q)
  BY PlaceKeeps
<1>4. /\ f.frag_idx \notin q.received /\ f.frag_idx < f.frag_cnt
      /\ f.frag_idx * MaxPayload + f.payload.len <= f.total_len
  BY DEF PlaceFor, Valid
<1>5. /\ r \in RxSession
      /\ r.source = q.source /\ r.msg_id = q.msg_id
      /\ r.total_len = q.total_len /\ r.frag_cnt = q.frag_cnt
      /\ r.received = q.received \cup {f.frag_idx}
      /\ r.buffer = [q.buffer EXCEPT ![f.frag_idx] = f.payload]
  BY <1>1, <1>2, StoredType
<1>6. q.buffer \in [Indices -> Payload \cup {Blank}] /\ q.received \subseteq Indices
  BY <1>2 DEF RxSession, Buffer
<1> HIDE DEF q, r
<1>7. /\ r.buffer[f.frag_idx] = f.payload
      /\ \A i \in Indices : i # f.frag_idx => r.buffer[i] = q.buffer[i]
  BY <1>2, <1>5, <1>6
<1>8. Continues(r, q)
  BY <1>4, <1>5, <1>6, <1>7 DEF Continues
<1>9. ASSUME NEW i \in r.received
      PROVE  /\ i < r.frag_cnt
             /\ r.buffer[i].data = r.source
             /\ i * MaxPayload + r.buffer[i].len <= r.total_len
  <2>1. CASE i = f.frag_idx
    BY <2>1, <1>1, <1>2, <1>4, <1>5, <1>7
  <2>2. CASE i # f.frag_idx
    <3>1. i \in q.received /\ r.buffer[i] = q.buffer[i]
      BY <2>2, <1>5, <1>6, <1>7
    <3> QED
      BY <3>1, <1>3, <1>5 DEF HoldsOwn
  <2> QED
    BY <2>1, <2>2
<1>10. \A i \in Indices \ r.received : r.buffer[i] = Blank
  BY <1>3, <1>5, <1>7 DEF HoldsOwn
<1> QED
  BY <1>2, <1>5, <1>8, <1>9, <1>10 DEF HoldsOwn, q, r

-----------------------------------------------------------------------------
(* What a step does to the sessions. *)

Kept == \A s \in RxSlots : rx[s].active /\ rx'[s].active => Continues(rx'[s], rx[s])

\* A step that changes nothing the sessions hold, and opens none.
LEMMA NoneOpened ==
    ASSUME RxTypeOK, SessionsSound,
           \A s \in RxSlots : rx'[s].active =>
               rx[s].active /\ SameParts(rx'[s], rx[s])
    PROVE  SessionsSound' /\ Kept
<1>1. \A s \in RxActive' : s \in RxActive /\ SameParts(rx'[s], rx[s])
  BY DEF RxActive
<1>2. \A s \in RxActive' : ~IsComplete(rx'[s]) /\ HoldsOwn(rx'[s])
  BY <1>1, SameHolds, SoundParts
<1>3. Distinct'
  BY <1>1, SoundParts DEF Distinct, SameParts
<1>4. Kept
  BY SameHolds DEF Kept
<1>5. SessionsSound'
  BY <1>2, <1>3 DEF SessionsSound, HoldsOwn, Distinct
<1> QED
  BY <1>4, <1>5

\* A step that stores a fragment and may then free the slot.
LEMMA Updated ==
    ASSUME RxTypeOK, SessionsSound, NEW f \in AnyFrame, NEW p \in PlaceFor(f),
           NEW r, rx' = [rx EXCEPT ![p[1]] = r],
           \/ r = NoSession
           \/ ~IsComplete(r) /\ SameParts(r, Stored(p[2], f))
    PROVE  SessionsSound' /\ Kept
<1>1. p[1] \in RxSlots
  BY AnyFrameType, PlaceType
<1>2. rx \in [RxSlots -> RxSession \cup {NoSession}]
  BY DEF RxTypeOK
<1>3. rx'[p[1]] = r /\ \A s \in RxSlots : s # p[1] => rx'[s] = rx[s]
  BY <1>1, <1>2
<1>4. ASSUME r.active
      PROVE  /\ ~IsComplete(r) /\ HoldsOwn(r)
             /\ r.source = f.source /\ r.msg_id = f.msg_id
             /\ Continues(r, p[2])
  <2>1. ~IsComplete(r) /\ SameParts(r, Stored(p[2], f))
    BY <1>4 DEF NoSession
  <2>2. HoldsOwn(r) /\ Continues(r, Stored(p[2], f))
    BY <2>1, SameHolds, StoredHolds
  <2> QED
    BY <2>1, <2>2, StoredHolds DEF SameParts, Continues
<1>5. ASSUME NEW s \in RxActive'
      PROVE  ~IsComplete(rx'[s]) /\ HoldsOwn(rx'[s])
  <2>1. s \in RxSlots /\ rx'[s].active
    BY DEF RxActive
  <2>2. CASE s = p[1]
    BY <2>1, <2>2, <1>3, <1>4
  <2>3. CASE s # p[1]
    <3>1. s \in RxActive /\ rx'[s] = rx[s]
      BY <2>1, <2>3, <1>3 DEF RxActive
    <3> QED
      BY <3>1, SoundParts
  <2> QED
    BY <2>2, <2>3
<1>6. \A s \in RxActive :
         rx[s].source = f.source /\ rx[s].msg_id = f.msg_id => s = p[1]
  BY PlaceKeeps
<1>7. Distinct'
  <2>1. \A s \in RxActive' : s \in RxSlots /\ rx'[s].active
    BY DEF RxActive
  <2>2. \A s \in RxActive' : s # p[1] => s \in RxActive /\ rx'[s] = rx[s]
    BY <2>1, <1>3 DEF RxActive
  <2>3. p[1] \in RxActive' => rx'[p[1]].source = f.source /\ rx'[p[1]].msg_id = f.msg_id
    BY <2>1, <1>3, <1>4
  <2>4. Distinct
    BY SoundParts
  <2> QED
    BY <2>2, <2>3, <2>4, <1>6 DEF Distinct
<1>8. Kept
  <2> SUFFICES ASSUME NEW s \in RxSlots, rx[s].active, rx'[s].active
               PROVE  Continues(rx'[s], rx[s])
    BY DEF Kept
  <2>1. CASE s = p[1]
    BY <2>1, <1>3, <1>4, PlaceKeeps
  <2>2. CASE s # p[1]
    BY <2>2, <1>3 DEF Continues
  <2> QED
    BY <2>1, <2>2
<1>9. SessionsSound'
  BY <1>5, <1>7 DEF SessionsSound, HoldsOwn, Distinct
<1> QED
  BY <1>8, <1>9

\* The sessions at a call for a DATA frame.
LEMMA DataStep ==
    ASSUME RxTypeOK, SessionsSound, NEW f \in AnyFrame, RxData(f)
    PROVE  SessionsSound' /\ Kept
<1>1. CASE RxIgnore(f)
  <2>1. \A s \in RxSlots : rx'[s] = rx[s]
    BY <1>1 DEF RxIgnore, rxVars
  <2> QED
    BY <2>1, NoneOpened DEF SameParts
<1>2. CASE RxStore(f)
  <2>1. PICK p \in PlaceFor(f) : /\ ~IsComplete(Stored(p[2], f))
                                 /\ rx' = [rx EXCEPT ![p[1]] = Stored(p[2], f)]
    BY <1>2 DEF RxStore
  <2> QED
    BY <2>1, Updated DEF SameParts
<1>3. CASE RxLastFragment(f)
  <2>1. PICK p \in PlaceFor(f) :
          /\ ~IsComplete(Stored(p[2], f))
          /\ rx' = [rx EXCEPT ![p[1]] = AfterNack(Stored(p[2], f))]
    BY <1>3 DEF RxLastFragment
  <2> DEFINE r == Stored(p[2], f)
  <2>2. r \in RxSession
    BY StoredHolds
  <2> HIDE DEF r
  <2>3. \/ AfterNack(r) = NoSession
        \/ SameParts(AfterNack(r), r)
    BY <2>2, AfterNackType, AfterNackSame
  <2>4. ~IsComplete(r) => AfterNack(r) = NoSession \/ ~IsComplete(AfterNack(r))
    BY <2>3, SameHolds
  <2> QED
    BY <2>1, <2>3, <2>4, Updated DEF r
<1>4. CASE RxComplete(f)
  <2>1. PICK p \in PlaceFor(f) : rx' = [rx EXCEPT ![p[1]] = NoSession]
    BY <1>4 DEF RxComplete
  <2> QED
    BY <2>1, Updated
<1> QED
  BY <1>1, <1>2, <1>3, <1>4 DEF RxData

\* One session's part of frag_rx_tick, of frag_rx_clear_sessions and of the
\* clock.
LEMMA TickSession ==
    ASSUME RxTypeOK, NEW s \in RxSlots, RxTicked(rx[s]).active
    PROVE  rx[s].active /\ SameParts(RxTicked(rx[s]), rx[s])
<1>1. rx[s].active
  BY DEF RxTypeOK, RxTicked, NackDue, NoSession
<1>2. rx[s] \in RxSession
  BY <1>1, RxActiveSession
<1>3. CASE ~NackDue(rx[s])
  BY <1>1, <1>3 DEF RxTicked, NoSession, SameParts
<1>4. CASE NackDue(rx[s])
  <2>1. ~GivesUp(rx[s]) /\ RxTicked(rx[s]) = [AfterNack(rx[s]) EXCEPT !.idle = 0]
    BY <1>4 DEF RxTicked, NoSession
  <2> QED
    BY <1>1, <1>2, <2>1, AfterNackSame
<1> QED
  BY <1>3, <1>4

LEMMA AgedSession ==
    ASSUME RxTypeOK, NEW s \in RxSlots, RxAged(rx[s]).active
    PROVE  rx[s].active /\ SameParts(RxAged(rx[s]), rx[s])
<1>1. rx[s].active
  BY DEF RxAged
<1>2. rx[s] \in RxSession
  BY <1>1, RxActiveSession
<1> QED
  BY <1>1, <1>2 DEF RxAged, SameParts, RxSession

-----------------------------------------------------------------------------
(* The invariant. *)

RxAloneInv == net \subseteq Frames /\ RxTypeOK /\ SessionsSound

LEMMA InitSound == RxAloneInit => RxAloneInv
<1> SUFFICES ASSUME RxAloneInit
             PROVE  RxAloneInv
  OBVIOUS
<1>1. net = {} /\ rx = [s \in RxSlots |-> NoSession] /\ delivered = {}
  BY DEF RxAloneInit, RxInit
<1>2. RxTypeOK
  BY <1>1 DEF RxTypeOK
<1>3. RxActive = {}
  BY <1>1 DEF RxActive, NoSession
<1>4. SessionsSound
  BY <1>3 DEF SessionsSound
<1> QED
  BY <1>1, <1>2, <1>4 DEF RxAloneInv

LEMMA StepSound ==
    ASSUME RxAloneInv, RxAloneNext
    PROVE  RxAloneInv' /\ Kept
<1>1. net \subseteq Frames /\ RxTypeOK /\ SessionsSound
  BY DEF RxAloneInv
<1>2. CASE InQuiet(Arrive)
  <2>1. PICK f \in AnyFrame : RxData(f)
    BY <1>2 DEF InQuiet, Arrive
  <2>2. f \in DataFrames
    BY AnyFrameType
  <2> QED
    BY <1>1, <2>1, <2>2, RxDataType, DataStep DEF RxAloneInv
<1>3. CASE InQuiet(RxTick)
  <2>1. /\ rx' = [s \in RxSlots |-> RxTicked(rx[s])]
        /\ Transmit(UNION {NackFor(rx[s]) : s \in {s \in RxSlots : NackDue(rx[s])}})
        /\ delivered' = delivered
    BY <1>3 DEF InQuiet, RxTick
  <2>2. net' \subseteq Frames /\ RxTypeOK'
    <3>1. \A s \in RxSlots : /\ RxTicked(rx[s]) \in RxSession \cup {NoSession}
                             /\ NackDue(rx[s]) => NackFor(rx[s]) \subseteq Frames
      BY <1>1, TickRxType
    <3>2. UNION {NackFor(rx[s]) : s \in {s \in RxSlots : NackDue(rx[s])}} \in SUBSET Frames
      BY <3>1
    <3> QED
      BY <1>1, <2>1, <3>1, <3>2, TransmitType DEF RxTypeOK
  <2>3. SessionsSound' /\ Kept
    BY <1>1, <2>1, TickSession, NoneOpened
  <2> QED
    BY <2>2, <2>3 DEF RxAloneInv
<1>4. CASE InQuiet(RxClear)
  <2>1. /\ rx' = [s \in RxSlots |-> NoSession]
        /\ delivered' = delivered /\ net' = net
    BY <1>4 DEF InQuiet, RxClear
  <2>2. SessionsSound' /\ Kept
    <3>1. \A s \in RxSlots : ~rx'[s].active
      BY <2>1 DEF NoSession
    <3> QED
      BY <1>1, <3>1, NoneOpened
  <2>3. RxTypeOK'
    BY <1>1, <2>1 DEF RxTypeOK
  <2> QED
    BY <1>1, <2>1, <2>2, <2>3 DEF RxAloneInv
<1>5. CASE InQuiet(RxClock)
  <2>1. /\ rx' = [s \in RxSlots |-> RxAged(rx[s])]
        /\ delivered' = delivered /\ net' = net
    BY <1>5 DEF InQuiet, RxClock, RxAge
  <2>2. SessionsSound' /\ Kept
    BY <1>1, <2>1, AgedSession, NoneOpened
  <2>3. RxTypeOK'
    BY <1>1, <2>1, RxAgedType DEF RxTypeOK
  <2> QED
    BY <1>1, <2>1, <2>2, <2>3 DEF RxAloneInv
<1>6. CASE RxHeard
  <2>1. net' = {} /\ rx' = rx /\ delivered' = delivered
    BY <1>6 DEF RxHeard, rxVars
  <2>2. SessionsSound' /\ Kept
    BY <1>1, <2>1, NoneOpened DEF SameParts
  <2>3. RxTypeOK'
    BY <1>1, <2>1 DEF RxTypeOK
  <2> QED
    BY <2>1, <2>2, <2>3 DEF RxAloneInv
<1> QED
  BY <1>2, <1>3, <1>4, <1>5, <1>6 DEF RxAloneNext

\* However the frames sent contradict each other, the sessions stay sound.
THEOREM RxInvariance == RxAloneSpec => []RxAloneInv
<1>1. RxAloneInv /\ [RxAloneNext]_rxAloneVars => RxAloneInv'
  <2>1. RxAloneInv /\ RxAloneNext => RxAloneInv'
    BY StepSound
  <2>2. RxAloneInv /\ UNCHANGED rxAloneVars => RxAloneInv'
    <3> SUFFICES ASSUME RxAloneInv, UNCHANGED rxAloneVars
                 PROVE  RxAloneInv'
      OBVIOUS
    <3>1. net' = net /\ rx' = rx /\ delivered' = delivered
      BY DEF rxAloneVars, rxVars
    <3>2. RxTypeOK' /\ net' \subseteq Frames
      BY <3>1 DEF RxTypeOK, RxAloneInv
    <3>3. SessionsSound'
      BY <3>1, NoneOpened DEF SameParts, RxAloneInv
    <3> QED
      BY <3>2, <3>3 DEF RxAloneInv
  <2> QED
    BY <2>1, <2>2
<1> QED
  BY <1>1, InitSound, PTL DEF RxAloneSpec

\* Sessions and delivered messages keep their type: no index, count or round
\* of NACKs leaves its range (RxTypeOK).
THEOREM RxTypes == RxAloneSpec => []RxTypeOK
<1>1. RxAloneInv => RxTypeOK
  BY DEF RxAloneInv
<1> QED
  BY <1>1, RxInvariance, PTL

\* No session is complete and kept, two never serve one transfer, and each
\* holds only its own device's payloads, inside the part of the buffer its
\* header declared (SessionsSound).
THEOREM SoundSessions == RxAloneSpec => []SessionsSound
<1>1. RxAloneInv => SessionsSound
  BY DEF RxAloneInv
<1> QED
  BY <1>1, RxInvariance, PTL

\* Until its slot is freed a session never loses, overwrites or gives away
\* what it has received (SessionKeepsItsParts).
THEOREM PartsKept == RxAloneSpec => SessionKeepsItsParts
<1>1. RxAloneInv /\ [RxAloneNext]_rxAloneVars =>
        [\A s \in RxSlots : rx[s].active /\ rx'[s].active =>
            /\ rx'[s].source = rx[s].source /\ rx'[s].msg_id = rx[s].msg_id
            /\ rx[s].received \subseteq rx'[s].received
            /\ \A i \in rx[s].received : rx'[s].buffer[i] = rx[s].buffer[i]
        ]_rxAloneVars
  BY StepSound DEF Kept, Continues
<1> QED
  BY <1>1, RxInvariance, PTL DEF RxAloneSpec, SessionKeepsItsParts

-----------------------------------------------------------------------------
(* The NACKs a step sends. *)

HonestNacks ==
    \A f \in net' \ net : f.type = "NACK" =>
        /\ Cardinality(f.missing) \in 1..MaxNackIndices
        /\ \E s \in RxSlots :
              /\ rx'[s].active
              /\ rx'[s].source = f.dest /\ rx'[s].msg_id = f.msg_id
              /\ f.missing \subseteq Missing(rx'[s])
              /\ \A i \in Missing(rx'[s]) : \E j \in f.missing : j <= i

LEMMA DataNacks ==
    ASSUME RxAloneInv, NEW f \in AnyFrame, RxData(f)
    PROVE  HonestNacks
<1> SUFFICES ASSUME NEW g \in net' \ net, g.type = "NACK"
             PROVE  /\ Cardinality(g.missing) \in 1..MaxNackIndices
                    /\ \E s \in RxSlots :
                          /\ rx'[s].active
                          /\ rx'[s].source = g.dest /\ rx'[s].msg_id = g.msg_id
                          /\ g.missing \subseteq Missing(rx'[s])
                          /\ \A i \in Missing(rx'[s]) : \E j \in g.missing : j <= i
  BY DEF HonestNacks
<1>1. RxTypeOK /\ SessionsSound
  BY DEF RxAloneInv
<1>2. ~RxIgnore(f) /\ ~RxStore(f)
  BY DEF RxIgnore, RxStore, Consume
<1>3. ~RxComplete(f)
  BY DEF RxComplete, Consume, DoneFrame
<1>4. PICK p \in PlaceFor(f) :
        /\ ~IsComplete(Stored(p[2], f))
        /\ rx' = [rx EXCEPT ![p[1]] = AfterNack(Stored(p[2], f))]
        /\ Consume(f, NackFor(Stored(p[2], f)))
  BY <1>2, <1>3 DEF RxData, RxLastFragment
<1> DEFINE r == Stored(p[2], f)
<1>5. r \in RxSession /\ p[1] \in RxSlots
  BY <1>1, StoredHolds, AnyFrameType, PlaceType
<1>6. g \in NackFor(r)
  BY <1>4 DEF Consume
<1> HIDE DEF r
<1>7. ~GivesUp(r)
  BY <1>6 DEF NackFor
<1>8. AfterNack(r) \in RxSession /\ SameParts(AfterNack(r), r)
  BY <1>5, <1>7, AfterNackType, AfterNackSame
<1>9. rx'[p[1]] = AfterNack(r)
  BY <1>1, <1>4, <1>5 DEF RxTypeOK, r
<1>10. ~IsComplete(r)
  BY <1>4 DEF r
<1> QED
  BY <1>5, <1>6, <1>8, <1>9, <1>10, NackHonest

LEMMA TickNacks ==
    ASSUME RxAloneInv, RxTick
    PROVE  HonestNacks
<1> SUFFICES ASSUME NEW g \in net' \ net
             PROVE  /\ Cardinality(g.missing) \in 1..MaxNackIndices
                    /\ \E s \in RxSlots :
                          /\ rx'[s].active
                          /\ rx'[s].source = g.dest /\ rx'[s].msg_id = g.msg_id
                          /\ g.missing \subseteq Missing(rx'[s])
                          /\ \A i \in Missing(rx'[s]) : \E j \in g.missing : j <= i
  BY DEF HonestNacks
<1>1. RxTypeOK
  BY DEF RxAloneInv
<1>2. PICK s \in RxSlots : NackDue(rx[s]) /\ g \in NackFor(rx[s])
  BY DEF RxTick, Transmit
<1>3. rx[s] \in RxSession /\ ~IsComplete(rx[s])
  BY <1>1, <1>2, RxActiveSession DEF NackDue
<1>4. ~GivesUp(rx[s])
  BY <1>2 DEF NackFor
<1>5. rx'[s] = [AfterNack(rx[s]) EXCEPT !.idle = 0]
  <2>1. rx'[s] = RxTicked(rx[s])
    BY DEF RxTick
  <2>2. rx[s].age \in Nat /\ SessionTimeout \in Nat
    BY <1>3, LimitsAssumption DEF RxSession
  <2>3. ~(rx[s].active /\ rx[s].age > SessionTimeout)
    BY <1>2, <2>2 DEF NackDue
  <2> QED
    BY <1>2, <1>4, <2>1, <2>3 DEF RxTicked
<1>6. rx'[s] \in RxSession /\ SameParts(rx'[s], rx[s])
  BY <1>3, <1>4, <1>5, AfterNackType, AfterNackSame
<1> QED
  BY <1>2, <1>3, <1>6, NackHonest

\* Every NACK asks the sender of a session, which goes on, for fragments that
\* session lacks, the first among them, and for no more than a frame holds
\* (NacksHonest).
THEOREM HonestReports == RxAloneSpec => NacksHonest
<1>1. ASSUME RxAloneInv, RxAloneNext
      PROVE  HonestNacks
  <2>1. CASE InQuiet(Arrive)
    BY <1>1, <2>1, DataNacks DEF InQuiet, Arrive
  <2>2. CASE InQuiet(RxTick)
    BY <1>1, <2>2, TickNacks DEF InQuiet
  <2>3. CASE InQuiet(RxClear) \/ InQuiet(RxClock) \/ RxHeard
    BY <2>3 DEF InQuiet, RxClear, RxClock, RxHeard, HonestNacks
  <2> QED
    BY <1>1, <2>1, <2>2, <2>3 DEF RxAloneNext
<1>2. RxAloneInv /\ [RxAloneNext]_rxAloneVars =>
        [\A f \in net' \ net : f.type = "NACK" =>
            /\ Cardinality(f.missing) \in 1..MaxNackIndices
            /\ \E s \in RxSlots :
                  /\ rx'[s].active
                  /\ rx'[s].source = f.dest /\ rx'[s].msg_id = f.msg_id
                  /\ f.missing \subseteq Missing(rx'[s])
                  /\ \A i \in Missing(rx'[s]) : \E j \in f.missing : j <= i
        ]_rxAloneVars
  BY <1>1 DEF HonestNacks
<1> QED
  BY <1>2, RxInvariance, PTL DEF RxAloneSpec, NacksHonest
==============================================================================
