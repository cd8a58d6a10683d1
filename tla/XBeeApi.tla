------------------------------ MODULE XBeeApi ------------------------------
(* Src/xbee_api.c: the frames exchanged with the XBee module over the UART, *)
(* in API mode 2.  A frame is a start delimiter, a length, a body and a     *)
(* checksum; whatever after the delimiter looks like a control byte is      *)
(* escaped.                                                                 *)
(*                                                                          *)
(* The writer hands a frame to UART_SendByte byte by byte, and the XBee     *)
(* reads the bytes in the order they were queued (UartQueue!WireInOrder).   *)
(* The parser is fed the bytes of UART_ReadByte.  The XBee is external: it  *)
(* writes whole frames, of which bytes are lost (RX ring full, overrun),    *)
(* changed or added (line noise) on the way, and as a reader it starts over *)
(* at every delimiter.                                                      *)
EXTENDS Naturals, Sequences

CONSTANTS
    MaxFrameLen,    \* XBEE_MAX_FRAME_LEN (256)
    MaxFrameId,     \* the largest uint8_t frame id (255)
    RingSpace,      \* the bytes the TX ring holds, UART_BUFFER_SIZE - 1 (1023)
    Dests,          \* 64-bit destinations, as eight bytes
    RfData,         \* RF data the application sends
    Commands,       \* AT commands and parameters it sends, as one sequence
    RadioBodies,    \* the bodies of the frames the XBee writes
    Noise,          \* what a byte may turn into on the line
    MaxCalls,       \* BOUND: frames the application sends
    MaxFrames,      \* BOUND: frames the XBee writes
    MaxDamage       \* BOUND: bytes lost, changed or added

Byte == 0..255

\* A length has two bytes, and xbee_send_tx_request always writes fourteen.
ASSUME XBeeAssumption ==
    /\ MaxFrameLen \in 1..65535 /\ MaxFrameId \in 1..255 /\ RingSpace \in Nat \ {0}
    /\ Dests \cup RfData \cup Commands \subseteq Seq(Byte)
    /\ RadioBodies \subseteq Seq(Byte) \ {<<>>}
    /\ \A body \in RadioBodies : Len(body) <= MaxFrameLen
    /\ Noise \subseteq Byte
    /\ MaxCalls \in Nat /\ MaxFrames \in Nat /\ MaxDamage \in Nat

VARIABLES
    frame_id_counter,
    out,         \* the frame the writer is sending, or sent last
    returned,    \* what the last call returned
    ring,        \* the number of bytes in the TX ring
    calls,       \* counter of the bound
    module,      \* what the XBee has of the frame it is reading
    queued,      \* history: the bodies whose last byte was queued
    received,    \* history: the bodies the XBee received
    parser,      \* XBeeParser_t; data is frame_buffer up to data_index
    incoming,    \* the frame the XBee is writing, or wrote last
    intact,      \* no damage since that frame began
    calm,        \* the undamaged bytes before it, up to Horizon
    since,       \* the undamaged bytes so far, up to Horizon
    heard,       \* history: the frames passed to on_frame while it came
    frames, damage    \* counters of the bounds

writerVars == <<frame_id_counter, out, returned, ring, calls, module, queued, received>>
readerVars == <<parser, incoming, intact, calm, since, heard, frames, damage>>
vars == <<writerVars, readerVars>>

-----------------------------------------------------------------------------
(* Definitions commented as "Variant" are not used: each is the definition  *)
(* that follows it with a bug a property is there to notice.                *)

StartDelimiter == 126    \* 0x7E
EscapeChar == 125        \* 0x7D

\* byte ^ XBEE_ESCAPE_XOR (0x20)
Toggled(byte) == IF (byte \div 32) % 2 = 0 THEN byte + 32 ELSE byte - 32

\* Addition of uint8_t values.
Sum8(a, b) == (a + b) % 256

\* xbee_needs_escape; 17 and 19 are XON and XOFF.
NeedsEscape(byte) == byte \in {StartDelimiter, EscapeChar, 17, 19}

-----------------------------------------------------------------------------
(* A frame on its way to a UART: byte pos of it comes next (0 the delimiter,*)
(* 1 and 2 the length, then the body, then the checksum), or, with half,    *)
(* the second byte of its escape pair; sum adds up the body so far.         *)

\* send_length_escaped: the two bytes of a length.
HighByte(length) == length \div 256
LowByte(length) == length % 256

FrameUnderWay == [body : Seq(Byte), pos : Nat, half : BOOLEAN, sum : Byte]

Started(body) == [body |-> body, pos |-> 0, half |-> FALSE, sum |-> 0]

\* No frame yet.
Silent == [body |-> <<>>, pos |-> 4, half |-> FALSE, sum |-> 0]

ChecksumPos(w) == Len(w.body) + 3

Over(w) == w.pos > ChecksumPos(w)

\* The byte at pos before it is escaped.
Plain(w) ==
    CASE w.pos = 0              -> StartDelimiter
      [] w.pos = 1              -> HighByte(Len(w.body))
      [] w.pos = 2              -> LowByte(Len(w.body))
      [] w.pos = ChecksumPos(w) -> 255 - w.sum
      [] OTHER                  -> w.body[w.pos - 2]

\* Variant: the checksum is sent as it is.
EscapesAllButChecksum(w) ==
    ~w.half /\ w.pos \in 1..(ChecksumPos(w) - 1) /\ NeedsEscape(Plain(w))

\* An escape character comes first.
Escapes(w) == ~w.half /\ w.pos > 0 /\ NeedsEscape(Plain(w))

NextByte(w) ==
    IF Escapes(w) THEN EscapeChar
    ELSE IF w.half THEN Toggled(Plain(w))
    ELSE Plain(w)

\* After that byte.
Advanced(w) ==
    IF Escapes(w) THEN [w EXCEPT !.half = TRUE]
    ELSE [w EXCEPT !.half = FALSE, !.pos = @ + 1,
                   !.sum = IF w.pos \in 3..(ChecksumPos(w) - 1)
                           THEN Sum8(@, Plain(w)) ELSE @]

-----------------------------------------------------------------------------
(* Frames out. *)

Addr16Unknown == <<255, 254>>    \* XBEE_ADDR16_UNKNOWN

\* The body xbee_send_tx_request writes: broadcast radius and options are 0.
TxRequest(dest64, dest16, rf_data, frame_id) ==
    <<16, frame_id>> \o dest64 \o dest16 \o <<0, 0>> \o rf_data

\* The body xbee_send_at_command writes: two characters and the parameter.
AtCommand(command, frame_id) == <<8, frame_id>> \o command

\* Variant: 0 is not skipped.
NextFrameIdWithZero(id) == (id + 1) % (MaxFrameId + 1)

\* xbee_get_next_frame_id: 0, which asks for no status, is skipped.
NextFrameId(id) == IF id = MaxFrameId THEN 1 ELSE id + 1

\* A body too long is refused before anything is written.
Begin(body) ==
    /\ Over(out) /\ calls < MaxCalls
    /\ Len(body) <= MaxFrameLen
    /\ out' = Started(body) /\ returned' = "nothing yet"
    /\ calls' = calls + 1
    /\ UNCHANGED <<ring, module, queued, received, readerVars>>

SendTxRequest(dest, rf_data) ==
    /\ Begin(TxRequest(dest, Addr16Unknown, rf_data, frame_id_counter))
    /\ frame_id_counter' = NextFrameId(frame_id_counter)

\* xbee_send_data_no_wait: no status is asked for.
SendDataNoWait(dest, rf_data) ==
    /\ Begin(TxRequest(dest, Addr16Unknown, rf_data, 0))
    /\ UNCHANGED frame_id_counter

SendAtCommand(command) ==
    /\ Begin(AtCommand(command, frame_id_counter))
    /\ frame_id_counter' = NextFrameId(frame_id_counter)

\* The call returns before its frame is out.
CutShort(w) == [w EXCEPT !.pos = ChecksumPos(w) + 1, !.half = FALSE]

\* The unescaped bytes after a delimiter are as many as a frame of the
\* length they begin with has.
FrameEnds(got) == Len(got) > 3 /\ Len(got) = 256 * got[1] + got[2] + 3

\* The XBee reads a byte.
ModuleReads(byte) ==
    IF byte = StartDelimiter
    THEN /\ module' = [listens |-> TRUE, escaped |-> FALSE, got |-> <<>>, sum |-> 0]
         /\ UNCHANGED received
    ELSE IF ~module.listens
    THEN UNCHANGED <<module, received>>
    ELSE IF byte = EscapeChar /\ ~module.escaped
    THEN module' = [module EXCEPT !.escaped = TRUE] /\ UNCHANGED received
    ELSE LET plain == IF module.escaped THEN Toggled(byte) ELSE byte
             got   == Append(module.got, plain)
             sum   == IF Len(got) > 2 THEN Sum8(module.sum, plain) ELSE 0
         IN  /\ module' = [listens |-> ~FrameEnds(got), escaped |-> FALSE,
                           got |-> got, sum |-> sum]
             /\ received' = IF FrameEnds(got) /\ sum = 255
                            THEN Append(received, SubSeq(got, 3, Len(got) - 1))
                            ELSE received

\* UART_SendByte puts the next byte in the ring.
Enqueue ==
    /\ ~Over(out) /\ ring < RingSpace
    /\ ring' = ring + 1
    /\ ModuleReads(NextByte(out))
    /\ queued' = IF Over(Advanced(out)) THEN Append(queued, out.body) ELSE queued
    /\ UNCHANGED <<frame_id_counter, calls, readerVars>>

ByteTaken ==
    /\ Enqueue
    /\ out' = Advanced(out)
    /\ returned' = IF Over(Advanced(out)) THEN "ok" ELSE returned

\* It takes the byte but the HAL refuses to start: -2 ends the call.
ByteTakenUnstarted ==
    /\ Enqueue
    /\ out' = CutShort(out)
    /\ returned' = "failure"

\* The ring is full: -1 ends the call, and cuts the frame.
RingFull ==
    /\ ~Over(out) /\ ring = RingSpace
    /\ out' = CutShort(out)
    /\ returned' = "failure"
    /\ UNCHANGED <<frame_id_counter, ring, calls, module, queued, received, readerVars>>

\* The UART has sent a byte.
Transmitted ==
    /\ ring > 0
    /\ ring' = ring - 1
    /\ UNCHANGED <<frame_id_counter, out, returned, calls, module, queued, received,
                   readerVars>>

WriterNext ==
    \/ \E dest \in Dests, rf_data \in RfData :
          SendTxRequest(dest, rf_data) \/ SendDataNoWait(dest, rf_data)
    \/ \E command \in Commands : SendAtCommand(command)
    \/ ByteTaken \/ ByteTakenUnstarted \/ RingFull \/ Transmitted

-----------------------------------------------------------------------------
(* The parser: xbee_process_byte. *)

ParserStates == {"WAITING_START", "LENGTH_MSB", "LENGTH_LSB", "FRAME_DATA", "CHECKSUM"}

\* xbee_parser_reset
Reset == [state |-> "WAITING_START", escaped |-> FALSE, frame_length |-> 0,
          data |-> <<>>, checksum |-> 0]

\* The bytes before the RF data of the frame types that have some, and the
\* bytes after the type that parse_frame asks for.
RfOffset(type) == CASE type = 144 -> 11 [] type = 145 -> 17

MinDataLen(type) ==
    CASE type = 144 -> 11    \* XBEE_FRAME_RX_PACKET
      [] type = 145 -> 17    \* XBEE_FRAME_EXPLICIT_RX
      [] type = 139 -> 6     \* XBEE_FRAME_TX_STATUS
      [] type = 136 -> 4     \* XBEE_FRAME_AT_COMMAND_RESPONSE
      [] OTHER      -> 0

\* The XBeeFrame_t on_frame is given.  Where parse_frame fails the fields of
\* the frame stay zero, and there is no RF data.
FrameOf(body) ==
    LET type == Head(body)
        data == Tail(body)
        good == Len(data) >= MinDataLen(type)
    IN  [frame_type |-> type, data |-> data, parsed |-> good,
         source |-> IF type \in {144, 145} /\ good THEN SubSeq(data, 1, 8) ELSE <<>>,
         rf_data |-> IF type \in {144, 145} /\ good
                     THEN SubSeq(data, RfOffset(type) + 1, Len(data)) ELSE <<>>]

\* One step of the switch, for the byte b (unescaped) and the parser p with
\* its escaped flag cleared.
WaitingStart(p, b) ==
    /\ p.state = "WAITING_START"
    /\ parser' = IF b = StartDelimiter
                 THEN [p EXCEPT !.state = "LENGTH_MSB", !.checksum = 0, !.data = <<>>]
                 ELSE p
    /\ UNCHANGED heard

LengthMsb(p, b) ==
    /\ p.state = "LENGTH_MSB"
    /\ parser' = [p EXCEPT !.frame_length = 256 * b, !.state = "LENGTH_LSB"]
    /\ UNCHANGED heard

\* Variant: any length is taken.
LengthOKAny(length) == length > 0

LengthOK(length) == length \in 1..MaxFrameLen

LengthLsb(p, b) ==
    /\ p.state = "LENGTH_LSB"
    /\ parser' = IF LengthOK(p.frame_length + b)
                 THEN [p EXCEPT !.frame_length = @ + b, !.state = "FRAME_DATA"]
                 ELSE Reset
    /\ UNCHANGED heard

FrameData(p, b) ==
    /\ p.state = "FRAME_DATA"
    /\ parser' = [p EXCEPT !.data = Append(@, b), !.checksum = Sum8(@, b),
                           !.state = IF Len(p.data) + 1 >= p.frame_length
                                     THEN "CHECKSUM" ELSE @]
    /\ UNCHANGED heard

Checksum(p, b) ==
    /\ p.state = "CHECKSUM"
    /\ heard' = IF Sum8(p.checksum, b) = 255
                THEN Append(heard, FrameOf(p.data)) ELSE heard
    /\ parser' = Reset

Step(p, b) ==
    WaitingStart(p, b) \/ LengthMsb(p, b) \/ LengthLsb(p, b) \/ FrameData(p, b)
        \/ Checksum(p, b)

IsEscape(byte) == byte = EscapeChar /\ parser.state # "WAITING_START"

\* xbee_process_byte
ProcessByte(byte) ==
    \/ parser.escaped /\ Step([parser EXCEPT !.escaped = FALSE], Toggled(byte))
    \/ /\ ~parser.escaped /\ IsEscape(byte)
       /\ parser' = [parser EXCEPT !.escaped = TRUE]
       /\ UNCHANGED heard
    \/ ~parser.escaped /\ ~IsEscape(byte) /\ Step(parser, byte)

-----------------------------------------------------------------------------
(* Frames in. *)

\* After so many undamaged bytes the parser has ended whatever the damage
\* made it begin: a length, the longest body and a checksum, all escaped.
Horizon == 2 * (MaxFrameLen + 3)

\* The XBee begins a frame when the one before it is out.
RadioWrites(body) ==
    /\ Over(incoming) /\ frames < MaxFrames
    /\ frames' = frames + 1
    /\ incoming' = Started(body)
    /\ intact' = TRUE /\ calm' = since
    /\ heard' = <<>>
    /\ UNCHANGED <<parser, since, damage, writerVars>>

Arrives ==
    /\ ~Over(incoming)
    /\ incoming' = Advanced(incoming)
    /\ ProcessByte(NextByte(incoming))
    /\ since' = IF since < Horizon THEN since + 1 ELSE since
    /\ UNCHANGED <<intact, calm, frames, damage, writerVars>>

\* What every damage does.
Damage ==
    /\ damage < MaxDamage /\ damage' = damage + 1
    /\ intact' = FALSE /\ since' = 0
    /\ UNCHANGED <<calm, frames, writerVars>>

Lost ==
    /\ ~Over(incoming)
    /\ incoming' = Advanced(incoming)
    /\ Damage
    /\ UNCHANGED <<parser, heard>>

Changed(byte) ==
    /\ ~Over(incoming) /\ byte # NextByte(incoming)
    /\ incoming' = Advanced(incoming)
    /\ ProcessByte(byte)
    /\ Damage

Added(byte) == ProcessByte(byte) /\ Damage /\ UNCHANGED incoming

ReaderNext ==
    \/ \E body \in RadioBodies : RadioWrites(body)
    \/ Arrives \/ Lost
    \/ \E byte \in Noise : Changed(byte) \/ Added(byte)

-----------------------------------------------------------------------------
\* xbee_init
Init ==
    /\ frame_id_counter = 1 /\ out = Silent /\ returned = "nothing yet"
    /\ ring = 0 /\ calls = 0
    /\ module = [listens |-> FALSE, escaped |-> FALSE, got |-> <<>>, sum |-> 0]
    /\ queued = <<>> /\ received = <<>>
    /\ parser = Reset
    /\ incoming = Silent /\ heard = <<>>
    /\ intact = TRUE /\ calm = Horizon /\ since = Horizon
    /\ frames = 0 /\ damage = 0

Next == WriterNext \/ ReaderNext

Spec == Init /\ [][Next]_vars

-----------------------------------------------------------------------------
\* The parser never stores a byte past frame_buffer, nor one more than the
\* length it read: while it takes data there is room for the next byte.
ParserOK(p) ==
    /\ p \in [state : ParserStates, escaped : BOOLEAN, frame_length : Nat,
              data : Seq(Byte), checksum : Byte]
    /\ p.state = "LENGTH_LSB" => LowByte(p.frame_length) = 0    \* |= is +
    /\ p.state = "FRAME_DATA" => Len(p.data) < p.frame_length
    /\ p.state = "CHECKSUM" => Len(p.data) = p.frame_length
    /\ p.state \in {"FRAME_DATA", "CHECKSUM"} => p.frame_length <= MaxFrameLen
    /\ p.state \in {"LENGTH_MSB", "LENGTH_LSB"} => p.data = <<>> /\ p.checksum = 0
    /\ p.state = "WAITING_START" => ~p.escaped

TypeOK ==
    /\ frame_id_counter \in 1..MaxFrameId
    /\ out \in FrameUnderWay /\ returned \in {"nothing yet", "ok", "failure"}
    /\ ring \in 0..RingSpace /\ calls \in 0..MaxCalls
    /\ module \in [listens : BOOLEAN, escaped : BOOLEAN, got : Seq(Byte), sum : Byte]
    /\ queued \in Seq(Seq(Byte)) /\ received \in Seq(Seq(Byte))
    /\ ParserOK(parser)
    /\ incoming \in FrameUnderWay
    /\ intact \in BOOLEAN /\ calm \in 0..Horizon /\ since \in 0..Horizon
    /\ frames \in 0..MaxFrames /\ damage \in 0..MaxDamage

\* A frame that comes undamaged once Horizon undamaged bytes have passed is
\* handed to on_frame exactly as the XBee wrote it, once, and nothing else is
\* handed over meanwhile: whatever byte was lost, changed or added before,
\* inside an escape pair or a length as well, the parser finds its way back
\* (xbee_process_byte).
Resynchronised ==
    frames > 0 /\ Over(incoming) /\ intact /\ calm = Horizon
        => heard = <<FrameOf(incoming.body)>>

\* However calls are cut short by a full ring or a refused start, the XBee
\* receives the frames whose last byte was queued, in order and unchanged:
\* what is left of the others spoils none and is never taken for a frame.
\* The last of them is that of a call that has just returned 0.
SentWhole ==
    /\ received = queued
    /\ returned = "ok" => received # <<>> /\ received[Len(received)] = out.body
=============================================================================
