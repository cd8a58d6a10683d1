-------------------------- MODULE FragmentProtocol --------------------------
(* The vocabulary fragment_tx.c and fragment_rx.c share                     *)
(* (Inc/fragment_protocol.h): the limits, the three frame types, the        *)
(* slicing of a message into fragments, and the radio that carries frames.  *)
(*                                                                          *)
(* A message body is a value of Data; the bytes of one fragment are a slice *)
(* [data, off, len] of it.  Header serialisation and the CRC are not        *)
(* modelled here: a corrupted frame fails the CRC and is a lost frame.      *)
EXTENDS Integers, FiniteSets

CONSTANTS
    Senders,         \* 64-bit addresses of the devices that send messages
    Receiver,        \* the 64-bit address of the device that reassembles
    Broadcast,       \* a destination every device hears and none answers from
    Data,            \* message bodies
    MaxPayload,      \* FRAG_MAX_PAYLOAD (30 bytes)
    MaxMessageSize,  \* FRAG_MAX_MESSAGE_SIZE (4096 bytes)
    MaxMsgId,        \* the largest uint16_t message id (65535)
    MaxNackIndices,  \* FRAG_MAX_NACK_INDICES (20)
    MaxNackRounds,   \* FRAG_MAX_NACK_ROUNDS (10)
    FragTimeout,     \* FRAG_TIMEOUT_MS (500 ms) in clock units
    SessionTimeout,  \* FRAG_SESSION_TIMEOUT_MS (30000 ms) in clock units
    Duplicates       \* TRUE: the radio may deliver a frame more than once

ASSUME LimitsAssumption ==
    /\ MaxPayload \in Nat \ {0} /\ MaxMessageSize \in Nat \ {0}
    /\ MaxMsgId \in Nat \ {0} /\ MaxNackIndices \in Nat \ {0}
    /\ MaxNackRounds \in Nat /\ FragTimeout \in Nat /\ SessionTimeout \in Nat
    /\ Duplicates \in BOOLEAN

ASSUME AddressAssumption ==
    /\ Receiver \notin Senders
    /\ Broadcast \notin Senders \cup {Receiver}

VARIABLE net    \* the frames in the air

-----------------------------------------------------------------------------
(* Slicing. *)

CeilDiv(a, b) == (a + b - 1) \div b

MaxFragments == CeilDiv(MaxMessageSize, MaxPayload)

\* The slice send_fragment copies for index idx; `remaining` is a uint16_t.
Slice(data, data_len, size, idx) ==
    LET off       == idx * size
        remaining == (data_len - off) % 65536
    IN  [data |-> data, off |-> off,
         len |-> IF remaining > size THEN size ELSE remaining]

-----------------------------------------------------------------------------
(* Frames.  Every frame a device sends is heard by the one it is meant for; *)
(* a DATA frame, unicast or broadcast, is heard by the receiver.            *)

DataFrame(source, msg_id, total_len, frag_idx, frag_cnt, payload) ==
    [type |-> "DATA", source |-> source, msg_id |-> msg_id,
     total_len |-> total_len, frag_idx |-> frag_idx, frag_cnt |-> frag_cnt,
     payload |-> payload]

NackFrame(dest, msg_id, missing) ==
    [type |-> "NACK", dest |-> dest, msg_id |-> msg_id, missing |-> missing]

DoneFrame(dest, msg_id) ==
    [type |-> "DONE", dest |-> dest, msg_id |-> msg_id]

Payload == [data : Data, off : Nat, len : Nat]

DataFrames == [type : {"DATA"}, source : Senders, msg_id : Nat,
               total_len : Nat, frag_idx : Nat, frag_cnt : Nat,
               payload : Payload]
NackFrames == [type : {"NACK"}, dest : Senders, msg_id : Nat,
               missing : SUBSET Nat]
DoneFrames == [type : {"DONE"}, dest : Senders, msg_id : Nat]

Frames == DataFrames \cup NackFrames \cup DoneFrames

-----------------------------------------------------------------------------
(* The radio.  Frames are received in any order.  Where it duplicates, a    *)
(* frame stays in the air once sent: it is received any number of times,    *)
(* none included, so that loss needs no step of its own.                    *)

\* Handle frame f and put the frames ms on the air.
Consume(f, ms) == net' = (IF Duplicates THEN net ELSE net \ {f}) \cup ms

Transmit(ms) == net' = net \cup ms

\* BOUND, where a device is by itself: the frames of a step reach whoever
\* listens before the next step.
InQuiet(step) == net = {} /\ step

-----------------------------------------------------------------------------
(* A session slot that is not in use.  memset clears a slot before it is    *)
(* used again, so the other fields of a free slot are never read.           *)
NoSession == [active |-> FALSE]

\* The slot a loop over S stops at.
First(S) == {s \in S : \A t \in S : s <= t}

\* HAL_GetTick() - since, kept as an age that stops at cap, the first value
\* past every limit it is compared with.
Older(age, cap) == IF age < cap THEN age + 1 ELSE age
=============================================================================
