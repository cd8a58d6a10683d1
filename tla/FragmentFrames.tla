--------------------------- MODULE FragmentFrames ---------------------------
(* The bytes of fragments, NACKs and DONEs (Inc/fragment_protocol.h,        *)
(* send_fragment, send_nack, send_done, process_data_fragment,              *)
(* frag_rx_parse_nack, frag_rx_parse_done) and the bitmap a NACK is made    *)
(* from.                                                                    *)
(*                                                                          *)
(* The other modules treat a frame as a record and a corrupted one as lost; *)
(* this one says why they may.  One frame is under way at a time: it is     *)
(* written, one burst of bits may be inverted, and it is read.              *)
EXTENDS Crc16, FiniteSetsExt

CONSTANTS
    MaxPayload,        \* FRAG_MAX_PAYLOAD (30)
    MaxMessageSize,    \* FRAG_MAX_MESSAGE_SIZE (4096)
    MaxNackIndices,    \* FRAG_MAX_NACK_INDICES (20)
    BitmapSize,        \* FRAG_BITMAP_SIZE (64)
    MsgIds,            \* ids of the messages
    TotalLens,         \* their lengths
    FragIdxs,          \* the fragments that are sent
    Stored,            \* the fragments that may arrive before a NACK is sent
    Messages,          \* what they consist of
    Bursts             \* what is inverted: 16 bits that begin at any bit

\* frag_tx_send
FragCnt(total_len) == (total_len + MaxPayload - 1) \div MaxPayload

\* What the fields of the frames and the bitmap have room for.
ASSUME FramesAssumption ==
    /\ MaxPayload \in 1..255 /\ MaxNackIndices \in 1..255 /\ BitmapSize \in 1..8191
    /\ MaxMessageSize \in Nat \ {0} /\ FragCnt(MaxMessageSize) <= 8 * BitmapSize
    /\ MsgIds \subseteq Word \ {0} /\ TotalLens \subseteq 1..MaxMessageSize
    /\ Messages \subseteq [0..(MaxMessageSize - 1) -> Byte]
    /\ Stored \cup FragIdxs \subseteq Nat
    /\ Bursts \subseteq Word \ {0}

VARIABLES
    session,     \* the receiver's session: msg_id, total_len, frag_cnt, bitmap
    received,    \* history: the fragments it has stored
    sent,        \* the frame under way, as it was meant
    wire,        \* its bytes, <<>> when none is
    damaged,     \* some of them were inverted
    read         \* what the device that heard the last frame made of it

vars == <<session, received, sent, wire, damaged, read>>

Nothing == [type |-> "none"]

Version == 1
Types == [DATA |-> 1, NACK |-> 2, DONE |-> 3]

-----------------------------------------------------------------------------
(* Definitions commented as "Variant" are not used: each is the definition  *)
(* that follows it with a bug a property is there to notice.                *)

\* Variant: the most significant byte comes last.
BigEndian32Swapped(n) == BigEndian16(n % 65536) \o BigEndian16(n \div 65536)

BigEndian32(n) == BigEndian16(n \div 65536) \o BigEndian16(n % 65536)

\* frag_header_write
HeaderBytes(f) ==
    <<Version, Types.DATA>> \o BigEndian16(f.msg_id) \o BigEndian32(f.total_len)
        \o BigEndian16(f.frag_idx) \o BigEndian16(f.frag_cnt) \o <<Len(f.payload)>>

HeaderSize == 13    \* FRAG_HEADER_SIZE
CrcSize == 2        \* FRAG_CRC_SIZE

\* The indices of a NACK, two bytes each.
IndexBytes(missing) ==
    [k \in 1..(2 * Len(missing)) |->
        BigEndian16(missing[(k + 1) \div 2])[2 - (k % 2)]]

Bytes(f) ==
    crc16_append(
        CASE f.type = "DATA" -> HeaderBytes(f) \o f.payload
          [] f.type = "NACK" -> <<Version, Types.NACK>> \o BigEndian16(f.msg_id)
                                          \o <<Len(f.missing)>> \o IndexBytes(f.missing)
          [] f.type = "DONE" -> <<Version, Types.DONE>> \o BigEndian16(f.msg_id))

-----------------------------------------------------------------------------
(* Reading. *)

\* process_data_fragment up to the payload length; FragmentRx!Valid has the
\* checks of the fields that follow.
ReadData(data) ==
    LET payload_len == data[13]
        room        == Len(data) - HeaderSize - CrcSize
    IN  IF /\ Len(data) >= HeaderSize + CrcSize
           /\ crc16_verify(data)
           /\ data[1] = Version
           /\ payload_len <= room /\ payload_len <= MaxPayload
        THEN [type |-> "DATA", msg_id |-> Read16(data, 3),
              total_len |-> 65536 * Read16(data, 5) + Read16(data, 7),
              frag_idx |-> Read16(data, 9), frag_cnt |-> Read16(data, 11),
              payload |-> SubSeq(data, HeaderSize + 1, HeaderSize + payload_len)]
        ELSE Nothing

\* frag_rx_parse_nack; the count is cut to the indices there is room for.
ReadNack(data) ==
    LET count == Min({data[5], MaxNackIndices})
    IN  IF /\ Len(data) >= 7
           /\ crc16_verify(data)
           /\ data[1] = Version /\ data[2] = Types.NACK
           /\ Len(data) >= 5 + 2 * count + CrcSize
        THEN [type |-> "NACK", msg_id |-> Read16(data, 3),
              missing |-> [i \in 1..count |-> Read16(data, 4 + 2 * i)]]
        ELSE Nothing

\* frag_rx_parse_done
ReadDone(data) ==
    IF /\ Len(data) = 6
       /\ crc16_verify(data)
       /\ data[1] = Version /\ data[2] = Types.DONE
    THEN [type |-> "DONE", msg_id |-> Read16(data, 3)]
    ELSE Nothing

\* OnXBeeFrame and frag_rx_process: which of the three reads it.
Read(data) ==
    CASE Len(data) >= 2 /\ data[2] = Types.NACK -> ReadNack(data)
      [] Len(data) >= 2 /\ data[2] = Types.DONE -> ReadDone(data)
      [] Len(data) >= 2 /\ data[2] = Types.DATA -> ReadData(data)
      [] OTHER                                  -> Nothing

-----------------------------------------------------------------------------
(* The bitmap. *)

\* Variant: the indices of a byte are counted from its other end.
MarkedReversed(bitmap, idx) == Bit(bitmap[idx \div 8 + 1], 7 - (idx % 8)) = 1

\* frag_bitmap_get
Marked(bitmap, idx) == Bit(bitmap[idx \div 8 + 1], idx % 8) = 1

\* frag_bitmap_set
Mark(bitmap, idx) ==
    IF Bit(bitmap[idx \div 8 + 1], idx % 8) = 1 THEN bitmap
    ELSE [bitmap EXCEPT ![idx \div 8 + 1] = @ + Power[(idx % 8) + 1]]

\* frag_bitmap_clear
Cleared == [i \in 1..BitmapSize |-> 0]

Unmarked(s) == {idx \in 0..(s.frag_cnt - 1) : ~Marked(s.bitmap, idx)}

\* get_missing_fragments: the loop finds the least index it has not found
\* yet, until it has as many as a NACK takes.
MissingFragments(s) ==
    LET missing[count \in 0..MaxNackIndices] ==
          IF count = 0 THEN <<>>
          ELSE LET found == missing[count - 1]
                   rest  == Unmarked(s) \ {found[k] : k \in DOMAIN found}
               IN  IF rest = {} THEN found ELSE Append(found, Min(rest))
    IN  missing[MaxNackIndices]

-----------------------------------------------------------------------------
Quiet == wire = <<>>

Write(f, bytes) ==
    /\ Quiet
    /\ sent' = f /\ wire' = bytes
    /\ damaged' = FALSE /\ read' = Nothing

\* send_fragment
SendFragment(msg_id, total_len, frag_idx, message) ==
    /\ frag_idx < FragCnt(total_len)
    /\ LET offset == frag_idx * MaxPayload
           f == [type |-> "DATA", msg_id |-> msg_id, total_len |-> total_len,
                 frag_idx |-> frag_idx, frag_cnt |-> FragCnt(total_len),
                 payload |-> [i \in 1..Min({MaxPayload, total_len - offset}) |->
                                 message[offset + i - 1]]]
       IN  Write(f, Bytes(f))
    /\ UNCHANGED <<session, received>>

\* get_or_create_session
Open(msg_id, total_len) ==
    /\ Quiet /\ session = Nothing
    /\ session' = [type |-> "session", msg_id |-> msg_id, total_len |-> total_len,
                   frag_cnt |-> FragCnt(total_len), bitmap |-> Cleared]
    /\ received' = {}
    /\ UNCHANGED <<sent, wire, damaged, read>>

\* process_data_fragment stores the fragment idx.
Store(idx) ==
    /\ Quiet /\ session # Nothing
    /\ idx \in 0..(session.frag_cnt - 1) /\ ~Marked(session.bitmap, idx)
    /\ session' = [session EXCEPT !.bitmap = Mark(@, idx)]
    /\ received' = received \cup {idx}
    /\ UNCHANGED <<sent, wire, damaged, read>>

\* send_nack, which sends nothing when nothing is missing.  What it means to
\* say is which fragments have not been stored.
SendNack ==
    LET missing  == MissingFragments(session)
        unstored == (0..(session.frag_cnt - 1)) \ received
    IN  /\ session # Nothing /\ missing # <<>>
        /\ Write([type |-> "NACK", msg_id |-> session.msg_id, unstored |-> unstored],
                 Bytes([type |-> "NACK", msg_id |-> session.msg_id, missing |-> missing]))
        /\ UNCHANGED <<session, received>>

\* send_done, when nothing is missing.
SendDone ==
    /\ session # Nothing /\ MissingFragments(session) = <<>>
    /\ LET f == [type |-> "DONE", msg_id |-> session.msg_id] IN Write(f, Bytes(f))
    /\ session' = Nothing /\ received' = {}

\* The session times out.
Drop ==
    /\ Quiet /\ session # Nothing
    /\ session' = Nothing /\ received' = {}
    /\ UNCHANGED <<sent, wire, damaged, read>>

\* The bits of `burst`, most significant first, are inverted, from bit `at` of
\* the frame on; those past its end are not there.
Invert(burst, at) ==
    LET number == at \div 8 + 1
        bits   == burst * Power[9 - (at % 8)]
        of     == <<bits \div 65536, (bits \div 256) % 256, bits % 256>>
    IN  [i \in DOMAIN wire |-> IF i - number \in 0..2 THEN XorByte[wire[i]][of[i - number + 1]]
                               ELSE wire[i]]

Damage(burst, at) ==
    /\ ~damaged /\ at < 8 * Len(wire)
    /\ wire' = Invert(burst, at)
    /\ damaged' = (wire' # wire)
    /\ UNCHANGED <<session, received, sent, read>>

Receive ==
    /\ ~Quiet
    /\ read' = Read(wire) /\ wire' = <<>>
    /\ UNCHANGED <<session, received, sent, damaged>>

-----------------------------------------------------------------------------
Init ==
    /\ session = Nothing /\ received = {}
    /\ sent = Nothing /\ wire = <<>> /\ damaged = FALSE /\ read = Nothing

SenderNext ==
    \E msg_id \in MsgIds, total_len \in TotalLens, frag_idx \in FragIdxs,
       message \in Messages :
          SendFragment(msg_id, total_len, frag_idx, message)

ReceiverNext ==
    \/ \E msg_id \in MsgIds, total_len \in TotalLens : Open(msg_id, total_len)
    \/ \E idx \in Stored : Store(idx)
    \/ SendNack \/ SendDone \/ Drop

RadioNext ==
    \/ \E burst \in Bursts, at \in 0..(8 * Len(wire) - 1) : Damage(burst, at)
    \/ Receive

Next == SenderNext \/ ReceiverNext \/ RadioNext

Spec == Init /\ [][Next]_vars

-----------------------------------------------------------------------------
\* The indices of a NACK: the first of those in unstored, in order; all of
\* them when it has room.
Announces(missing, unstored) ==
    /\ \A k \in DOMAIN missing : missing[k] \in unstored
    /\ \A j, k \in DOMAIN missing : j < k => missing[j] < missing[k]
    /\ \A idx \in unstored :
          \/ \E k \in DOMAIN missing : missing[k] = idx
          \/ Len(missing) = MaxNackIndices /\ missing[MaxNackIndices] < idx

\* A frame whose bytes arrive as they were written is read as what was meant:
\* every field of a fragment and its payload; in a NACK the first fragments
\* that have not been stored, whatever order the others came in.
ReadBack ==
    Quiet /\ sent # Nothing /\ ~damaged =>
        IF sent.type = "NACK"
        THEN /\ read.type = "NACK" /\ read.msg_id = sent.msg_id
             /\ Announces(read.missing, sent.unstored)
        ELSE read = sent

\* A frame with a burst of up to 16 inverted bits anywhere, in the type, the
\* count or the CRC itself as well, is taken for nothing at all, neither for
\* what it was nor for a frame of another type: it is a lost frame.
DamageNoticed == Quiet /\ damaged => read = Nothing

\* What the table computes is the remainder of CRC-16-CCITT, polynomial 0x1021
\* and initial value 0xFFFF (crc16.h), whatever the bytes.
CrcRight == Polynomial(crc16_compute(wire)) = Remainder(wire)
=============================================================================
