----------------------------- MODULE FragmentTx -----------------------------
(* Src/fragment_tx.c: cutting messages into fragments, pacing them out, and *)
(* retransmitting what the receiver reports missing.  One transmitter per   *)
(* member of Senders, each with the session slots of its FragTxContext_t.   *)
(*                                                                          *)
(* A handler runs to completion (everything runs in the main loop), so one  *)
(* call is one action.  xbee_send_data_no_wait refuses a frame when the     *)
(* UART ring is full: the sets of frames that get out are chosen freely.    *)
(* waiting_done is written and never read; the counters and the log are     *)
(* left out.                                                                *)
EXTENDS FragmentProtocol

CONSTANTS
    NumTxSessions,    \* FRAG_MAX_TX_SESSIONS
    SendDelay,        \* calculate_send_delay (10..30 ms) in clock units
    MinPayloadSize,   \* lower clamp of frag_tx_set_payload_size (10)
    MaxPayloadSize    \* upper clamp of frag_tx_set_payload_size (34)

ASSUME TxAssumption ==
    /\ NumTxSessions \in Nat \ {0} /\ SendDelay \in Nat
    /\ MinPayloadSize \in Nat \ {0} /\ MaxPayloadSize \in Nat
    /\ MinPayloadSize <= MaxPayload /\ MaxPayload <= MaxPayloadSize

VARIABLES
    tx,            \* tx[n][s]: session s of transmitter n
    next_msg_id,   \* next_msg_id[n]
    payload_size,  \* payload_size[n]
    accepted,      \* history: the messages frag_tx_send accepted
    outcome        \* history: the on_complete callbacks

txVars == <<tx, next_msg_id, payload_size, accepted, outcome>>

TxSlots == 1..NumTxSessions

TxSession == [active : {TRUE}, msg_id : Nat, data : Data, data_len : Nat,
              frag_cnt : Nat, current_frag : Nat, nack_rounds : Nat,
              age : Nat, idle : Nat, dest : {Receiver, Broadcast},
              state : {"SENDING", "WAITING_DONE"}]

Message == [source : Senders, msg_id : Nat, dest : {Receiver, Broadcast},
            data : Data, len : Nat]

Outcome == [source : Senders, msg_id : Nat, success : BOOLEAN]

TxTypeOK ==
    /\ tx \in [Senders -> [TxSlots -> TxSession \cup {NoSession}]]
    /\ next_msg_id \in [Senders -> 1..MaxMsgId]
    /\ payload_size \in [Senders -> MinPayloadSize..MaxPayloadSize]
    /\ accepted \subseteq Message
    /\ outcome \subseteq Outcome

TxInit ==
    /\ tx = [n \in Senders |-> [s \in TxSlots |-> NoSession]]
    /\ next_msg_id = [n \in Senders |-> 1]
    /\ payload_size = [n \in Senders |-> MaxPayload]
    /\ accepted = {}
    /\ outcome = {}

-----------------------------------------------------------------------------
(* Definitions commented as "Variant" are not used: each is the definition  *)
(* that follows it with a bug a property is there to notice.                *)

(* Helpers of the handlers. *)

\* `now - last_send_tick` past every delay and timeout.
IdleCap == 2 * FragTimeout + SendDelay + 1

\* Variant: 0 is not skipped.
NextMsgIdWithZero(id) == (id + 1) % (MaxMsgId + 1)

\* frag_tx_get_next_msg_id: a uint16_t that skips 0 when it wraps.
NextMsgId(id) ==
    LET next == (id + 1) % (MaxMsgId + 1)
    IN  IF next = 0 THEN 1 ELSE next

TxActive(n) == {s \in TxSlots : tx[n][s].active}

FindTx(n, msg_id) == First({s \in TxActive(n) : tx[n][s].msg_id = msg_id})

FreeTx(n) == First(TxSlots \ TxActive(n))

\* The frame send_fragment builds.
Fragment(n, t, idx) ==
    DataFrame(n, t.msg_id, t.data_len, idx, t.frag_cnt,
              Slice(t.data, t.data_len, payload_size[n], idx))

NewTxSession(n, data, len, dest) ==
    [active |-> TRUE, msg_id |-> next_msg_id[n], data |-> data,
     data_len |-> len, frag_cnt |-> CeilDiv(len, payload_size[n]),
     current_frag |-> 0, nack_rounds |-> 0, age |-> 0, idle |-> IdleCap,
     dest |-> dest, state |-> "SENDING"]

Result(n, t, success) ==
    [source |-> n, msg_id |-> t.msg_id, success |-> success]

-----------------------------------------------------------------------------
(* API calls of the application. *)

\* frag_tx_send; a call with a bad length or no free slot returns 0.
TxSend(n, data, len, dest) ==
    /\ len \in 1..MaxMessageSize
    /\ \E s \in FreeTx(n) :
          tx' = [tx EXCEPT ![n][s] = NewTxSession(n, data, len, dest)]
    /\ next_msg_id' = [next_msg_id EXCEPT ![n] = NextMsgId(@)]
    /\ accepted' = accepted \cup
          {[source |-> n, msg_id |-> next_msg_id[n], dest |-> dest,
            data |-> data, len |-> len]}
    /\ UNCHANGED <<payload_size, outcome, net>>

\* frag_tx_set_payload_size; sessions under way keep their frag_cnt.
TxSetPayloadSize(n, size) ==
    /\ payload_size' = [payload_size EXCEPT ![n] =
          IF size < MinPayloadSize THEN MinPayloadSize
          ELSE IF size > MaxPayloadSize THEN MaxPayloadSize ELSE size]
    /\ UNCHANGED <<tx, next_msg_id, accepted, outcome, net>>

\* frag_tx_cancel: no callback is made.
TxCancel(n, msg_id) ==
    /\ \E s \in FindTx(n, msg_id) : tx' = [tx EXCEPT ![n][s] = NoSession]
    /\ UNCHANGED <<next_msg_id, payload_size, accepted, outcome, net>>

\* frag_tx_clear_sessions
TxClear(n) ==
    /\ tx' = [tx EXCEPT ![n] = [s \in TxSlots |-> NoSession]]
    /\ UNCHANGED <<next_msg_id, payload_size, accepted, outcome, net>>

-----------------------------------------------------------------------------
(* frag_tx_tick: every session takes at most one of these steps. *)

\* Variant: no limit on a session's age.
ExpiredWithoutAge(t) ==
    t.active /\ t.state = "WAITING_DONE" /\ t.idle > 2 * FragTimeout

\* Variant: the transmitter waits no longer than the receiver.
ExpiredEarly(t) ==
    /\ t.active
    /\ \/ t.age > SessionTimeout
       \/ t.state = "WAITING_DONE" /\ t.idle > FragTimeout

Expired(t) ==
    /\ t.active
    /\ \/ t.age > SessionTimeout
       \/ t.state = "WAITING_DONE" /\ t.idle > 2 * FragTimeout

MaySend(t) ==
    /\ t.active
    /\ t.age <= SessionTimeout
    /\ t.state = "SENDING"
    /\ t.idle >= SendDelay

SendDue(t) == MaySend(t) /\ t.current_frag < t.frag_cnt

AllSent(t) == MaySend(t) /\ t.current_frag >= t.frag_cnt

\* Variant: the last fragment counts as sent although the UART refused it.
TickedEagerly(t, sent) ==
    CASE Expired(t) -> NoSession
      [] SendDue(t) ->
            [t EXCEPT !.current_frag = IF sent THEN @ + 1 ELSE @,
                      !.state = IF t.current_frag + 1 = t.frag_cnt
                                THEN "WAITING_DONE" ELSE @,
                      !.idle = 0]
      [] OTHER -> t

\* sent: xbee_send_data_no_wait took the fragment.
Ticked(t, sent) ==
    CASE Expired(t) -> NoSession
      [] SendDue(t) -> IF sent
                       THEN [t EXCEPT !.current_frag = @ + 1, !.idle = 0]
                       ELSE t
      [] AllSent(t) -> [t EXCEPT !.state = "WAITING_DONE", !.idle = 0]
      [] OTHER      -> t

TxTick(n, sent) ==
    /\ tx' = [tx EXCEPT ![n] = [s \in TxSlots |-> Ticked(tx[n][s], s \in sent)]]
    /\ outcome' = outcome \cup
          {Result(n, tx[n][s], FALSE) : s \in {s \in TxSlots : Expired(tx[n][s])}}
    /\ Transmit({Fragment(n, tx[n][s], tx[n][s].current_frag) :
                    s \in {s \in sent : SendDue(tx[n][s])}})
    /\ UNCHANGED <<next_msg_id, payload_size, accepted>>

-----------------------------------------------------------------------------
(* Frames from the radio.  from is the source address of the frame. *)

Ignored(f) == Consume(f, {}) /\ UNCHANGED txVars

\* NACK or DONE for an unknown id, or not from the session's destination.
TxIgnore(n, f, from) ==
    /\ \A s \in FindTx(n, f.msg_id) : tx[n][s].dest # from
    /\ Ignored(f)

\* Variant: the failure is reported and the session goes on.
TxNackReported(n, f, from) ==
    /\ \E s \in FindTx(n, f.msg_id) :
          /\ tx[n][s].dest = from
          /\ tx[n][s].nack_rounds + 1 > MaxNackRounds
          /\ outcome' = outcome \cup {Result(n, tx[n][s], FALSE)}
    /\ Consume(f, {})
    /\ UNCHANGED <<tx, next_msg_id, payload_size, accepted>>

\* frag_tx_handle_nack, the round that gives up.
TxNackExhausted(n, f, from) ==
    /\ \E s \in FindTx(n, f.msg_id) :
          /\ tx[n][s].dest = from
          /\ tx[n][s].nack_rounds + 1 > MaxNackRounds
          /\ tx' = [tx EXCEPT ![n][s] = NoSession]
          /\ outcome' = outcome \cup {Result(n, tx[n][s], FALSE)}
    /\ Consume(f, {})
    /\ UNCHANGED <<next_msg_id, payload_size, accepted>>

\* frag_tx_handle_nack: retransmit the indices that exist; those in `sent`
\* get out, the others are not tried again.
TxNack(n, f, from, sent) ==
    /\ \E s \in FindTx(n, f.msg_id) :
          /\ tx[n][s].dest = from
          /\ tx[n][s].nack_rounds + 1 <= MaxNackRounds
          /\ tx' = [tx EXCEPT ![n][s].nack_rounds = @ + 1,
                              ![n][s].state = "WAITING_DONE",
                              ![n][s].idle = 0]
          /\ Consume(f, {Fragment(n, tx[n][s], i) :
                i \in {i \in f.missing \cap sent : i < tx[n][s].frag_cnt}})
    /\ UNCHANGED <<next_msg_id, payload_size, accepted, outcome>>

\* frag_tx_handle_done
TxDone(n, f, from) ==
    /\ \E s \in FindTx(n, f.msg_id) :
          /\ tx[n][s].dest = from
          /\ tx' = [tx EXCEPT ![n][s] = NoSession]
          /\ outcome' = outcome \cup {Result(n, tx[n][s], TRUE)}
    /\ Consume(f, {})
    /\ UNCHANGED <<next_msg_id, payload_size, accepted>>

-----------------------------------------------------------------------------
(* HAL_GetTick advances. *)

TxAged(t) ==
    IF t.active
    THEN [t EXCEPT !.age = Older(@, SessionTimeout + 1),
                   !.idle = Older(@, IdleCap)]
    ELSE t

TxAge == tx' = [n \in Senders |-> [s \in TxSlots |-> TxAged(tx[n][s])]]
=============================================================================
