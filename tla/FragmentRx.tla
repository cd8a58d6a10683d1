----------------------------- MODULE FragmentRx -----------------------------
(* Src/fragment_rx.c: reassembling messages from fragments that arrive late,*)
(* twice, out of order or never, and asking for those that are missing.     *)
(*                                                                          *)
(* payload_buffer is kept as the slice stored at each index * MaxPayload,   *)
(* received_bitmap as the set `received` of the indices whose bit is set.   *)
(* Each call of frag_rx_process is one action.  The results of the calls    *)
(* that send DONE and NACK are ignored by the code: a frame the UART        *)
(* refused is a lost frame.  The counters and the log are left out.         *)
EXTENDS FragmentProtocol

CONSTANT NumRxSessions    \* FRAG_MAX_RX_SESSIONS

ASSUME RxAssumption == NumRxSessions \in Nat \ {0}

VARIABLES
    rx,         \* rx[s]: session s
    delivered   \* history: the messages passed to on_message

rxVars == <<rx, delivered>>

RxSlots == 1..NumRxSessions

Indices == 0..(MaxFragments - 1)

Blank == [len |-> 0]    \* a part of the buffer memset left zero

Buffer == [Indices -> Payload \cup {Blank}]

RxSession == [active : {TRUE}, source : Senders, msg_id : Nat,
              total_len : Nat, frag_cnt : 1..MaxFragments,
              received : SUBSET Indices, buffer : Buffer,
              age : Nat, idle : Nat, nacks_sent : 0..MaxNackRounds]

Delivery == [source : Senders, msg_id : Nat, len : Nat, buffer : Buffer]

RxTypeOK ==
    /\ rx \in [RxSlots -> RxSession \cup {NoSession}]
    /\ delivered \subseteq Delivery

RxInit ==
    /\ rx = [s \in RxSlots |-> NoSession]
    /\ delivered = {}

-----------------------------------------------------------------------------
(* Definitions commented as "Variant" are not used: each is the definition  *)
(* that follows it with a bug a property is there to notice.                *)

(* Helpers of the handlers. *)

\* The checks process_data_fragment makes before it looks for a session.
Valid(f) ==
    /\ f.total_len <= MaxMessageSize
    /\ f.payload.len <= MaxPayload
    /\ f.frag_cnt \in 1..MaxFragments
    /\ f.frag_idx < f.frag_cnt
    /\ f.frag_idx * MaxPayload + f.payload.len <= f.total_len

RxActive == {s \in RxSlots : rx[s].active}

\* Variant: sessions are told apart by the message id alone.
FindRxById(f) == First({s \in RxActive : rx[s].msg_id = f.msg_id})

FindRx(f) == First({s \in RxActive : /\ rx[s].msg_id = f.msg_id
                                     /\ rx[s].source = f.source})

FreeRx == First(RxSlots \ RxActive)

\* Variant: the headers of later fragments are taken on trust.
AnyMetadata(r, f) == TRUE

SameMetadata(r, f) == r.total_len = f.total_len /\ r.frag_cnt = f.frag_cnt

NewRxSession(f) ==
    [active |-> TRUE, source |-> f.source, msg_id |-> f.msg_id,
     total_len |-> f.total_len, frag_cnt |-> f.frag_cnt,
     received |-> {}, buffer |-> [i \in Indices |-> Blank],
     age |-> 0, idle |-> 0, nacks_sent |-> 0]

\* get_or_create_session: the slot and the session in it, if there is one.
SessionFor(f) ==
    IF FindRx(f) # {}
    THEN {p \in {<<s, rx[s]>> : s \in FindRx(f)} : SameMetadata(p[2], f)}
    ELSE {<<s, NewRxSession(f)>> : s \in FreeRx}

\* Variant: the count of fragments is off by one.
MissingButLast(r) == {i \in 0..(r.frag_cnt - 2) : i \notin r.received}

Missing(r) == {i \in 0..(r.frag_cnt - 1) : i \notin r.received}

IsComplete(r) == Missing(r) = {}

\* Variant: one index more than a NACK holds.
ReportedPlusOne(r) ==
    {i \in Missing(r) : Cardinality({j \in Missing(r) : j < i}) <= MaxNackIndices}

\* get_missing_fragments: the lowest missing indices, as many as a NACK holds.
Reported(r) ==
    {i \in Missing(r) : Cardinality({j \in Missing(r) : j < i}) < MaxNackIndices}

\* The session with the payload of f stored and its bit set.
Stored(r, f) ==
    [r EXCEPT !.buffer[f.frag_idx] = f.payload,
              !.received = @ \cup {f.frag_idx},
              !.idle = 0]

\* Variant: the NACK about to be sent is not counted.
GivesUpLate(r) == r.nacks_sent > MaxNackRounds

\* send_nack gives up, and frees the session, after MaxNackRounds NACKs.
GivesUp(r) == r.nacks_sent + 1 > MaxNackRounds

AfterNack(r) ==
    IF GivesUp(r) THEN NoSession ELSE [r EXCEPT !.nacks_sent = @ + 1]

\* Variant: a receiver that gives up tells the transmitter to stop.
NackOrDoneFor(r) ==
    IF GivesUp(r) THEN {DoneFrame(r.source, r.msg_id)}
    ELSE {NackFrame(r.source, r.msg_id, Reported(r))}

NackFor(r) ==
    IF GivesUp(r) THEN {} ELSE {NackFrame(r.source, r.msg_id, Reported(r))}

-----------------------------------------------------------------------------
(* frag_rx_process for DATA: one action per way out of it. *)

\* Variant: a fragment that was received before is stored again.
PlaceForAny(f) == {p \in SessionFor(f) : Valid(f)}

\* Where the payload of f goes: nowhere when the header is bad, when there
\* is no session for it, or when that session has it already.
PlaceFor(f) ==
    {p \in SessionFor(f) : Valid(f) /\ f.frag_idx \notin p[2].received}

RxIgnore(f) ==
    /\ PlaceFor(f) = {}
    /\ Consume(f, {})
    /\ UNCHANGED rxVars

RxStore(f) ==
    \E p \in PlaceFor(f) :
        LET r == Stored(p[2], f) IN
        /\ ~IsComplete(r)
        /\ f.frag_idx # f.frag_cnt - 1
        /\ rx' = [rx EXCEPT ![p[1]] = r]
        /\ Consume(f, {})
        /\ UNCHANGED delivered

\* The last fragment arrived and others are missing.
RxLastFragment(f) ==
    \E p \in PlaceFor(f) :
        LET r == Stored(p[2], f) IN
        /\ ~IsComplete(r)
        /\ f.frag_idx = f.frag_cnt - 1
        /\ rx' = [rx EXCEPT ![p[1]] = AfterNack(r)]
        /\ Consume(f, NackFor(r))
        /\ UNCHANGED delivered

\* Variant: the slot is not freed.
RxCompleteKept(f) ==
    \E p \in PlaceFor(f) :
        LET r == Stored(p[2], f) IN
        /\ IsComplete(r)
        /\ rx' = [rx EXCEPT ![p[1]] = r]
        /\ delivered' = delivered \cup
              {[source |-> r.source, msg_id |-> r.msg_id,
                len |-> r.total_len, buffer |-> r.buffer]}
        /\ Consume(f, {DoneFrame(r.source, r.msg_id)})

\* complete_message: DONE, then on_message, then the slot is free.
RxComplete(f) ==
    \E p \in PlaceFor(f) :
        LET r == Stored(p[2], f) IN
        /\ IsComplete(r)
        /\ rx' = [rx EXCEPT ![p[1]] = NoSession]
        /\ delivered' = delivered \cup
              {[source |-> r.source, msg_id |-> r.msg_id,
                len |-> r.total_len, buffer |-> r.buffer]}
        /\ Consume(f, {DoneFrame(r.source, r.msg_id)})

RxData(f) == RxIgnore(f) \/ RxStore(f) \/ RxLastFragment(f) \/ RxComplete(f)

-----------------------------------------------------------------------------
(* frag_rx_tick *)

NackDue(r) ==
    /\ r.active
    /\ r.age <= SessionTimeout
    /\ r.idle > FragTimeout
    /\ ~IsComplete(r)

\* Variant: no limit on a session's age.
RxTickedWithoutAge(r) ==
    IF ~NackDue(r) THEN r
    ELSE IF GivesUp(r) THEN NoSession
    ELSE [AfterNack(r) EXCEPT !.idle = 0]

RxTicked(r) ==
    IF r.active /\ r.age > SessionTimeout THEN NoSession
    ELSE IF ~NackDue(r) THEN r
    ELSE IF GivesUp(r) THEN NoSession
    ELSE [AfterNack(r) EXCEPT !.idle = 0]

RxTick ==
    /\ rx' = [s \in RxSlots |-> RxTicked(rx[s])]
    /\ Transmit(UNION {NackFor(rx[s]) : s \in {s \in RxSlots : NackDue(rx[s])}})
    /\ UNCHANGED delivered

\* frag_rx_clear_sessions
RxClear ==
    /\ rx' = [s \in RxSlots |-> NoSession]
    /\ UNCHANGED <<delivered, net>>

\* HAL_GetTick advances.
RxAged(r) ==
    IF r.active
    THEN [r EXCEPT !.age = Older(@, SessionTimeout + 1),
                   !.idle = Older(@, FragTimeout + 1)]
    ELSE r

RxAge == rx' = [s \in RxSlots |-> RxAged(rx[s])]
=============================================================================
