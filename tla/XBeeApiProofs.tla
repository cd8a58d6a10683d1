--------------------------- MODULE XBeeApiProofs ---------------------------
(* Theorems about XBeeApi: the parser stays inside frame_buffer, finds its  *)
(* way back after any damage, and what the writer leaves on the line is     *)
(* received whole or not at all, for every frame, every noise and every     *)
(* ring.                                                                    *)
EXTENDS XBeeApi, TLAPS

-----------------------------------------------------------------------------
(* Bytes. *)

LEMMA Limit == MaxFrameLen \in Nat /\ MaxFrameLen <= 65535
BY XBeeAssumption

LEMMA Bounds ==
    /\ MaxFrameId \in Nat /\ MaxFrameId >= 1 /\ MaxFrameId <= 255
    /\ RingSpace \in Nat /\ Noise \subseteq Byte
    /\ MaxCalls \in Nat /\ MaxFrames \in Nat /\ MaxDamage \in Nat
<1>1. MaxFrameId \in 1..255 /\ Noise \subseteq Byte
  <2>1. MaxFrameId \in 1..255
    BY XBeeAssumption
  <2>2. Noise \subseteq Byte
    BY XBeeAssumption
  <2> QED
    BY <2>1, <2>2
<1>2. RingSpace \in Nat
  <2>1. RingSpace \in Nat \ {0}
    BY XBeeAssumption
  <2> QED
    BY <2>1
<1>3. MaxCalls \in Nat /\ MaxFrames \in Nat /\ MaxDamage \in Nat
  <2>1. MaxCalls \in Nat
    BY XBeeAssumption
  <2>2. MaxFrames \in Nat
    BY XBeeAssumption
  <2>3. MaxDamage \in Nat
    BY XBeeAssumption
  <2> QED
    BY <2>1, <2>2, <2>3
<1> QED
  BY <1>1, <1>2, <1>3

LEMMA ByteRange == ASSUME NEW b PROVE b \in Byte <=> b \in Nat /\ b <= 255
BY DEF Byte

LEMMA ToggledByte == ASSUME NEW b \in Byte PROVE Toggled(b) \in Byte
BY DEF Toggled, Byte

LEMMA SumByte == ASSUME NEW a \in Byte, NEW b \in Byte PROVE Sum8(a, b) \in Byte
BY DEF Sum8, Byte

\* A sum and its complement: the checksum.
LEMMA Complement == ASSUME NEW a \in Byte PROVE Sum8(a, 255 - a) = 255
BY DEF Sum8, Byte

\* The second byte of an escape pair is no delimiter, and gives the byte back.
LEMMA EscapePair ==
    ASSUME NEW b, NeedsEscape(b)
    PROVE  /\ Toggled(b) \in Byte
           /\ Toggled(b) \notin {StartDelimiter, EscapeChar}
           /\ Toggled(Toggled(b)) = b
<1> USE DEF Toggled, Byte, StartDelimiter, EscapeChar
<1>1. CASE b = 126
  BY <1>1
<1>2. CASE b = 125
  BY <1>2
<1>3. CASE b = 17
  BY <1>3
<1>4. CASE b = 19
  BY <1>4
<1> QED
  BY <1>1, <1>2, <1>3, <1>4 DEF NeedsEscape

-----------------------------------------------------------------------------
(* A frame under way. *)

\* w is a frame as the code writes it, up to its place.
Sound(w) ==
    /\ w \in FrameUnderWay
    /\ Len(w.body) <= MaxFrameLen
    /\ w.pos <= ChecksumPos(w) + 1
    /\ w.half => w.pos > 0 /\ ~Over(w) /\ NeedsEscape(Plain(w))
    /\ w.pos <= 3 => w.sum = 0
    /\ ~Over(w) => w.body # <<>>

LEMMA SilentSound == Sound(Silent) /\ Over(Silent)
BY Limit DEF Sound, Silent, Over, ChecksumPos, FrameUnderWay, Byte

LEMMA StartedSound ==
    ASSUME NEW body \in Seq(Byte), body # <<>>, Len(body) <= MaxFrameLen
    PROVE  Sound(Started(body)) /\ ~Over(Started(body))
BY DEF Sound, Started, Over, ChecksumPos, FrameUnderWay, Byte

LEMMA SoundParts ==
    ASSUME NEW w, Sound(w)
    PROVE  /\ w.body \in Seq(Byte) /\ Len(w.body) \in Nat /\ Len(w.body) <= 65535
           /\ w.pos \in Nat /\ w.pos <= Len(w.body) + 4
           /\ w.half \in BOOLEAN
           /\ w.sum \in Nat /\ w.sum <= 255
<1>1. w \in FrameUnderWay /\ Len(w.body) <= MaxFrameLen /\ w.pos <= Len(w.body) + 3 + 1
  BY DEF Sound, ChecksumPos
<1>2. w.body \in Seq(Byte) /\ w.pos \in Nat /\ w.half \in BOOLEAN /\ w.sum \in Byte
  BY <1>1 DEF FrameUnderWay
<1>3. Len(w.body) \in Nat
  BY <1>2
<1>4. Len(w.body) <= 65535 /\ w.pos <= Len(w.body) + 4
  BY <1>1, <1>2, <1>3, Limit
<1>5. w.sum \in Nat /\ w.sum <= 255
  BY <1>2, ByteRange
<1> QED
  BY <1>2, <1>3, <1>4, <1>5

LEMMA Whole ==
    ASSUME NEW w \in FrameUnderWay
    PROVE  w = [body |-> w.body, pos |-> w.pos, half |-> w.half, sum |-> w.sum]
BY DEF FrameUnderWay

LEMMA PlainAt ==
    ASSUME NEW w, w.pos \in Nat, NEW n \in Nat, n = Len(w.body)
    PROVE  /\ w.pos = 0 => Plain(w) = StartDelimiter
           /\ w.pos = 1 => Plain(w) = HighByte(n)
           /\ w.pos = 2 => Plain(w) = LowByte(n)
           /\ w.pos = n + 3 => Plain(w) = 255 - w.sum
           /\ w.pos > 2 /\ w.pos < n + 3 => Plain(w) = w.body[w.pos - 2]
<1>0. ChecksumPos(w) = n + 3
  BY DEF ChecksumPos
<1>1. ASSUME w.pos = 0 PROVE Plain(w) = StartDelimiter
  BY <1>0, <1>1 DEF Plain
<1>2. ASSUME w.pos = 1 PROVE Plain(w) = HighByte(n)
  <2>1. w.pos # ChecksumPos(w)
    BY <1>0, <1>2
  <2>2. Plain(w) = HighByte(Len(w.body))
    BY <1>2, <2>1 DEF Plain
  <2> QED
    BY <2>2
<1>3. ASSUME w.pos = 2 PROVE Plain(w) = LowByte(n)
  <2>1. w.pos # ChecksumPos(w)
    BY <1>0, <1>3
  <2>2. Plain(w) = LowByte(Len(w.body))
    BY <1>3, <2>1 DEF Plain
  <2> QED
    BY <2>2
<1>4. ASSUME w.pos = n + 3 PROVE Plain(w) = 255 - w.sum
  BY <1>0, <1>4 DEF Plain
<1>5. ASSUME w.pos > 2, w.pos < n + 3 PROVE Plain(w) = w.body[w.pos - 2]
  <2>1. w.pos # ChecksumPos(w) /\ w.pos # 0 /\ w.pos # 1 /\ w.pos # 2
    BY <1>0, <1>5
  <2> QED
    BY <2>1 DEF Plain
<1> QED
  BY <1>1, <1>2, <1>3, <1>4, <1>5

LEMMA LengthBytesOf ==
    ASSUME NEW n \in Nat, n <= 65535
    PROVE  /\ HighByte(n) \in Byte /\ LowByte(n) \in Byte
           /\ 256 * HighByte(n) + LowByte(n) = n
<1>1. HighByte(n) \in Byte /\ LowByte(n) \in Byte
  BY DEF Byte, HighByte, LowByte
<1>2. 256 * HighByte(n) + LowByte(n) = n
  BY DEF HighByte, LowByte
<1> QED
  BY <1>1, <1>2

LEMMA PlainByte ==
    ASSUME NEW w, Sound(w), ~Over(w)
    PROVE  Plain(w) \in Byte
<1> PICK n \in Nat : n = Len(w.body)
  BY SoundParts
<1>1. w.body \in Seq(Byte) /\ n <= 65535 /\ w.pos \in Nat /\ w.pos <= n + 3
      /\ w.sum \in Nat /\ w.sum <= 255
  BY SoundParts DEF Over, ChecksumPos
<1>2. CASE w.pos > 2 /\ w.pos < n + 3
  <2>1. w.pos - 2 \in 1..n
    BY <1>1, <1>2
  <2>2. w.body[w.pos - 2] \in Byte
    BY <1>1, <2>1
  <2>3. Plain(w) = w.body[w.pos - 2]
    BY <1>1, <1>2, PlainAt
  <2> QED
    BY <2>2, <2>3
<1>3. CASE w.pos = 0
  <2>1. Plain(w) = 126
    BY <1>1, <1>3, PlainAt DEF StartDelimiter
  <2> QED
    BY <2>1, ByteRange
<1>4. CASE w.pos = 1
  <2>1. Plain(w) = HighByte(n)
    BY <1>1, <1>4, PlainAt
  <2> QED
    BY <1>1, <2>1, LengthBytesOf
<1>5. CASE w.pos = 2
  <2>1. Plain(w) = LowByte(n)
    BY <1>1, <1>5, PlainAt
  <2> QED
    BY <1>1, <2>1, LengthBytesOf
<1>6. CASE w.pos = n + 3
  <2>1. Plain(w) = 255 - w.sum
    BY <1>1, <1>6, PlainAt
  <2> QED
    BY <1>1, <2>1, ByteRange
<1> QED
  BY <1>1, <1>2, <1>3, <1>4, <1>5, <1>6

LEMMA NextByteByte ==
    ASSUME NEW w, Sound(w), ~Over(w)
    PROVE  /\ NextByte(w) \in Byte
           /\ NextByte(w) = StartDelimiter <=> w.pos = 0
<1>1. Plain(w) \in Byte /\ w.pos \in Nat /\ Len(w.body) \in Nat
  BY PlainByte, SoundParts
<1>2. CASE Escapes(w)
  BY <1>2 DEF NextByte, Escapes, EscapeChar, StartDelimiter, Byte
<1>3. CASE w.half
  <2>1. w.pos > 0 /\ NeedsEscape(Plain(w)) /\ ~Escapes(w)
    BY <1>3 DEF Sound, Escapes
  <2> QED
    BY <1>1, <1>3, <2>1, EscapePair DEF NextByte
<1>4. CASE ~Escapes(w) /\ ~w.half
  <2>1. NextByte(w) = Plain(w)
    BY <1>4 DEF NextByte
  <2>2. w.pos = 0 => Plain(w) = StartDelimiter
    BY <1>1, PlainAt
  <2>3. w.pos > 0 => Plain(w) # StartDelimiter
    BY <1>4 DEF Escapes, NeedsEscape
  <2> QED
    BY <1>1, <2>1, <2>2, <2>3
<1> QED
  BY <1>2, <1>3, <1>4

\* A byte that only begins an escape pair, and one that is the last of its
\* place.
LEMMA AdvancedHalf ==
    ASSUME NEW w, Sound(w), Escapes(w)
    PROVE  Advanced(w) = [body |-> w.body, pos |-> w.pos, half |-> TRUE, sum |-> w.sum]
<1>1. w = [body |-> w.body, pos |-> w.pos, half |-> w.half, sum |-> w.sum]
  BY Whole DEF Sound
<1> QED
  BY <1>1 DEF Advanced

NewSum(w) ==
    IF w.pos > 2 /\ w.pos < ChecksumPos(w) THEN Sum8(w.sum, Plain(w)) ELSE w.sum

LEMMA AdvancedFull ==
    ASSUME NEW w, Sound(w), ~Escapes(w)
    PROVE  Advanced(w) = [body |-> w.body, pos |-> w.pos + 1, half |-> FALSE,
                          sum |-> NewSum(w)]
<1>1. w = [body |-> w.body, pos |-> w.pos, half |-> w.half, sum |-> w.sum]
  BY Whole DEF Sound
<1>2. w.pos \in Nat /\ Len(w.body) \in Nat
  BY SoundParts
<1>3. w.pos \in 3..(ChecksumPos(w) - 1) <=> w.pos > 2 /\ w.pos < ChecksumPos(w)
  BY <1>2 DEF ChecksumPos
<1> QED
  BY <1>1, <1>3 DEF Advanced, NewSum

LEMMA AdvancedSound ==
    ASSUME NEW w, Sound(w), ~Over(w)
    PROVE  Sound(Advanced(w)) /\ Advanced(w).body = w.body
<1> DEFINE n == Len(w.body)
<1>1. Plain(w) \in Nat /\ Plain(w) <= 255
  BY PlainByte, ByteRange
<1>2. /\ w.body \in Seq(Byte) /\ n \in Nat /\ n <= MaxFrameLen
      /\ w.pos \in Nat /\ w.pos <= n + 3
      /\ w.sum \in Nat /\ w.sum <= 255
      /\ w.pos <= 3 => w.sum = 0
      /\ w.body # <<>>
  BY SoundParts DEF Over, ChecksumPos, Sound
<1>3. CASE Escapes(w)
  <2>1. Advanced(w) = [body |-> w.body, pos |-> w.pos, half |-> TRUE, sum |-> w.sum]
    BY <1>3, AdvancedHalf
  <2>2. Plain(Advanced(w)) = Plain(w)
    BY <2>1 DEF Plain, ChecksumPos
  <2>3. w.pos > 0 /\ NeedsEscape(Plain(w))
    BY <1>3 DEF Escapes
  <2>4. Advanced(w) \in FrameUnderWay
    BY <1>2, <2>1, ByteRange DEF FrameUnderWay
  <2> QED
    BY <2>1, <2>2, <2>3, <2>4, <1>2 DEF Sound, Over, ChecksumPos
<1>4. CASE ~Escapes(w)
  <2>1. Advanced(w) = [body |-> w.body, pos |-> w.pos + 1, half |-> FALSE, sum |-> NewSum(w)]
    BY <1>4, AdvancedFull
  <2>2. NewSum(w) \in Nat /\ NewSum(w) <= 255 /\ (w.pos <= 2 => NewSum(w) = 0)
    BY <1>1, <1>2, SumByte, ByteRange DEF NewSum
  <2>3. Advanced(w) \in FrameUnderWay
    BY <1>2, <2>1, <2>2, ByteRange DEF FrameUnderWay
  <2> QED
    BY <2>1, <2>2, <2>3, <1>2 DEF Sound, Over, ChecksumPos
<1> QED
  BY <1>3, <1>4

-----------------------------------------------------------------------------
(* Types. *)

LEMMA ParserWhole ==
    ASSUME NEW p, ParserOK(p)
    PROVE  p = [state |-> p.state, escaped |-> p.escaped, frame_length |-> p.frame_length,
                data |-> p.data, checksum |-> p.checksum]
<1>1. p \in [state : ParserStates, escaped : BOOLEAN, frame_length : Nat,
             data : Seq(Byte), checksum : Byte]
  BY DEF ParserOK
<1> QED
  BY <1>1

LEMMA ParserParts ==
    ASSUME NEW p, ParserOK(p)
    PROVE  /\ p.state \in ParserStates /\ p.escaped \in BOOLEAN /\ p.frame_length \in Nat
           /\ p.data \in Seq(Byte) /\ Len(p.data) \in Nat /\ p.checksum \in Byte
<1>1. p \in [state : ParserStates, escaped : BOOLEAN, frame_length : Nat,
             data : Seq(Byte), checksum : Byte]
  BY DEF ParserOK
<1>2. /\ p.state \in ParserStates /\ p.escaped \in BOOLEAN /\ p.frame_length \in Nat
      /\ p.data \in Seq(Byte) /\ p.checksum \in Byte
  BY <1>1
<1> QED
  BY <1>2

\* The escaped flag, set and cleared.
WithEscaped(p, flag) ==
    [state |-> p.state, escaped |-> flag, frame_length |-> p.frame_length,
     data |-> p.data, checksum |-> p.checksum]

LEMMA EscapedSet ==
    ASSUME NEW p, ParserOK(p), NEW flag \in BOOLEAN
    PROVE  /\ [p EXCEPT !.escaped = flag] = WithEscaped(p, flag)
           /\ ~flag \/ p.state # "WAITING_START" => ParserOK(WithEscaped(p, flag))
<1>1. p = [state |-> p.state, escaped |-> p.escaped, frame_length |-> p.frame_length,
           data |-> p.data, checksum |-> p.checksum]
  BY ParserWhole
<1>2. [p EXCEPT !.escaped = flag] = WithEscaped(p, flag)
  BY <1>1 DEF WithEscaped
<1>3. /\ p.state \in ParserStates /\ p.escaped \in BOOLEAN /\ p.frame_length \in Nat
      /\ p.data \in Seq(Byte) /\ Len(p.data) \in Nat /\ p.checksum \in Byte
  BY ParserParts
<1>4. WithEscaped(p, flag) \in [state : ParserStates, escaped : BOOLEAN, frame_length : Nat,
                                data : Seq(Byte), checksum : Byte]
  BY <1>3 DEF WithEscaped
<1>5. ASSUME ~flag \/ p.state # "WAITING_START" PROVE ParserOK(WithEscaped(p, flag))
  BY <1>4, <1>5 DEF ParserOK, WithEscaped
<1> QED
  BY <1>2, <1>5

LEMMA BytesEmpty == <<>> \in Seq(Byte) /\ 0 \in Byte /\ Len(<<>>) = 0
BY DEF Byte

LEMMA ResetOK == ParserOK(Reset)
BY BytesEmpty DEF Reset, ParserOK, ParserStates

\* What a step of the switch leaves, field by field.
LEMMA StepOfWaiting ==
    ASSUME NEW p, ParserOK(p), NEW b, WaitingStart(p, b)
    PROVE  /\ p.state = "WAITING_START" /\ heard' = heard
           /\ b # StartDelimiter => parser' = p
           /\ b = StartDelimiter =>
                 parser' = [state |-> "LENGTH_MSB", escaped |-> p.escaped,
                            frame_length |-> p.frame_length, data |-> <<>>, checksum |-> 0]
<1> DEFINE q == [p EXCEPT !.state = "LENGTH_MSB", !.checksum = 0, !.data = <<>>]
<1>1. p \in [state : ParserStates, escaped : BOOLEAN, frame_length : Nat,
             data : Seq(Byte), checksum : Byte]
  BY DEF ParserOK
<1>2. q \in [state : {"LENGTH_MSB"}, escaped : BOOLEAN, frame_length : Nat, data : {<<>>}, checksum : {0}]
  BY <1>1
<1>3. /\ q.state = "LENGTH_MSB" /\ q.escaped = p.escaped /\ q.frame_length = p.frame_length
      /\ q.data = <<>> /\ q.checksum = 0
  BY <1>1
<1>4. parser' = IF b = StartDelimiter THEN q ELSE p
  BY DEF WaitingStart
<1> HIDE DEF q
<1>5. q = [state |-> q.state, escaped |-> q.escaped, frame_length |-> q.frame_length,
           data |-> q.data, checksum |-> q.checksum]
  BY <1>2
<1> QED
  BY <1>3, <1>4, <1>5 DEF WaitingStart

LEMMA StepOfMsb ==
    ASSUME NEW p, ParserOK(p), NEW b, LengthMsb(p, b)
    PROVE  /\ p.state = "LENGTH_MSB" /\ heard' = heard
           /\ parser' = [state |-> "LENGTH_LSB", escaped |-> p.escaped,
                         frame_length |-> 256 * b, data |-> p.data, checksum |-> p.checksum]
<1> DEFINE q == [p EXCEPT !.frame_length = 256 * b, !.state = "LENGTH_LSB"]
<1>1. p \in [state : ParserStates, escaped : BOOLEAN, frame_length : Nat,
             data : Seq(Byte), checksum : Byte]
  BY DEF ParserOK
<1>2. q \in [state : {"LENGTH_LSB"}, escaped : BOOLEAN, frame_length : {256 * b}, data : Seq(Byte), checksum : Byte]
  BY <1>1
<1>3. /\ q.state = "LENGTH_LSB" /\ q.escaped = p.escaped /\ q.frame_length = 256 * b
      /\ q.data = p.data /\ q.checksum = p.checksum
  BY <1>1
<1>4. parser' = q
  BY DEF LengthMsb
<1> HIDE DEF q
<1>5. q = [state |-> q.state, escaped |-> q.escaped, frame_length |-> q.frame_length,
           data |-> q.data, checksum |-> q.checksum]
  BY <1>2
<1> QED
  BY <1>3, <1>4, <1>5 DEF LengthMsb

LEMMA StepOfLsb ==
    ASSUME NEW p, ParserOK(p), NEW b, LengthLsb(p, b)
    PROVE  /\ p.state = "LENGTH_LSB" /\ heard' = heard
           /\ ~LengthOK(p.frame_length + b) => parser' = Reset
           /\ LengthOK(p.frame_length + b) =>
                 parser' = [state |-> "FRAME_DATA", escaped |-> p.escaped,
                            frame_length |-> p.frame_length + b, data |-> p.data,
                            checksum |-> p.checksum]
<1> DEFINE q == [p EXCEPT !.frame_length = @ + b, !.state = "FRAME_DATA"]
<1>1. p \in [state : ParserStates, escaped : BOOLEAN, frame_length : Nat,
             data : Seq(Byte), checksum : Byte]
  BY DEF ParserOK
<1>2. q \in [state : {"FRAME_DATA"}, escaped : BOOLEAN, frame_length : {p.frame_length + b}, data : Seq(Byte), checksum : Byte]
  BY <1>1
<1>3. /\ q.state = "FRAME_DATA" /\ q.escaped = p.escaped /\ q.frame_length = p.frame_length + b
      /\ q.data = p.data /\ q.checksum = p.checksum
  BY <1>1
<1>4. parser' = IF LengthOK(p.frame_length + b) THEN q ELSE Reset
  BY DEF LengthLsb
<1> HIDE DEF q
<1>5. q = [state |-> q.state, escaped |-> q.escaped, frame_length |-> q.frame_length,
           data |-> q.data, checksum |-> q.checksum]
  BY <1>2
<1> QED
  BY <1>3, <1>4, <1>5 DEF LengthLsb

LEMMA StepOfData ==
    ASSUME NEW p, ParserOK(p), NEW b, FrameData(p, b)
    PROVE  /\ p.state = "FRAME_DATA" /\ heard' = heard
           /\ parser' = [state |-> IF Len(p.data) + 1 >= p.frame_length
                                   THEN "CHECKSUM" ELSE "FRAME_DATA",
                         escaped |-> p.escaped, frame_length |-> p.frame_length,
                         data |-> Append(p.data, b), checksum |-> Sum8(p.checksum, b)]
<1> DEFINE next == IF Len(p.data) + 1 >= p.frame_length THEN "CHECKSUM" ELSE "FRAME_DATA"
           q == [p EXCEPT !.data = Append(@, b), !.checksum = Sum8(@, b),
                          !.state = IF Len(p.data) + 1 >= p.frame_length
                                    THEN "CHECKSUM" ELSE @]
<1>1. p \in [state : ParserStates, escaped : BOOLEAN, frame_length : Nat,
             data : Seq(Byte), checksum : Byte]
  BY DEF ParserOK
<1>0. p.state = "FRAME_DATA"
  BY DEF FrameData
<1>2. q \in [state : {next}, escaped : BOOLEAN, frame_length : Nat, data : {Append(p.data, b)}, checksum : {Sum8(p.checksum, b)}]
  BY <1>0, <1>1
<1>3. /\ q.state = next /\ q.escaped = p.escaped /\ q.frame_length = p.frame_length
      /\ q.data = Append(p.data, b) /\ q.checksum = Sum8(p.checksum, b)
  BY <1>1, <1>0
<1>4. parser' = q
  BY DEF FrameData
<1> HIDE DEF q
<1>5. q = [state |-> q.state, escaped |-> q.escaped, frame_length |-> q.frame_length,
           data |-> q.data, checksum |-> q.checksum]
  BY <1>2
<1> QED
  BY <1>3, <1>4, <1>5 DEF FrameData

LEMMA StepTypes ==
    ASSUME NEW p, ParserOK(p), ~p.escaped, NEW b \in Byte, Step(p, b)
    PROVE  ParserOK(parser')
<1>0. /\ p.state \in ParserStates /\ p.escaped = FALSE /\ p.frame_length \in Nat
      /\ p.data \in Seq(Byte) /\ Len(p.data) \in Nat /\ p.checksum \in Byte
      /\ b \in Nat
  BY ParserParts, ByteRange
<1>1. CASE WaitingStart(p, b)
  <2>1. CASE b # StartDelimiter
    BY <1>1, <2>1, StepOfWaiting
  <2>2. CASE b = StartDelimiter
    <3>1. parser' = [state |-> "LENGTH_MSB", escaped |-> FALSE,
                     frame_length |-> p.frame_length, data |-> <<>>, checksum |-> 0]
      BY <1>0, <1>1, <2>2, StepOfWaiting
    <3> QED
      BY <1>0, <3>1, BytesEmpty DEF ParserOK, ParserStates
  <2> QED
    BY <2>1, <2>2
<1>2. CASE LengthMsb(p, b)
  <2>1. 256 * b \in Nat /\ LowByte(256 * b) = 0
    BY DEF Byte, LowByte
  <2>2. p.data = <<>> /\ p.checksum = 0
    BY <1>2, StepOfMsb DEF ParserOK
  <2>3. parser' = [state |-> "LENGTH_LSB", escaped |-> FALSE,
                   frame_length |-> 256 * b, data |-> <<>>, checksum |-> 0]
    BY <1>0, <1>2, <2>2, StepOfMsb
  <2> QED
    BY <2>1, <2>3, BytesEmpty DEF ParserOK, ParserStates
<1>3. CASE LengthLsb(p, b)
  <2>1. CASE LengthOK(p.frame_length + b)
    <3>1. p.data = <<>> /\ p.checksum = 0
      BY <1>3, StepOfLsb DEF ParserOK
    <3>2. parser' = [state |-> "FRAME_DATA", escaped |-> FALSE,
                     frame_length |-> p.frame_length + b, data |-> <<>>, checksum |-> 0]
      BY <1>0, <1>3, <2>1, <3>1, StepOfLsb
    <3>3. p.frame_length + b \in Nat /\ p.frame_length + b > 0
          /\ p.frame_length + b <= MaxFrameLen
      BY <1>0, <2>1, Limit DEF LengthOK
    <3> QED
      BY <3>2, <3>3, BytesEmpty DEF ParserOK, ParserStates
  <2>2. CASE ~LengthOK(p.frame_length + b)
    <3>1. parser' = Reset
      BY <1>3, <2>2, StepOfLsb
    <3> QED
      BY <3>1, ResetOK
  <2> QED
    BY <2>1, <2>2
<1>4. CASE FrameData(p, b)
  <2>1. Sum8(p.checksum, b) \in Byte
    BY <1>0, SumByte
  <2>2. Append(p.data, b) \in Seq(Byte) /\ Len(Append(p.data, b)) = Len(p.data) + 1
    BY <1>0
  <2>3. Len(p.data) < p.frame_length /\ p.frame_length <= MaxFrameLen
    BY <1>4, StepOfData DEF ParserOK
  <2>4. parser' = [state |-> IF Len(p.data) + 1 >= p.frame_length
                             THEN "CHECKSUM" ELSE "FRAME_DATA",
                   escaped |-> FALSE, frame_length |-> p.frame_length,
                   data |-> Append(p.data, b), checksum |-> Sum8(p.checksum, b)]
    BY <1>0, <1>4, StepOfData
  <2>5. CASE Len(p.data) + 1 >= p.frame_length
    BY <1>0, <2>1, <2>2, <2>3, <2>4, <2>5 DEF ParserOK, ParserStates
  <2>6. CASE ~(Len(p.data) + 1 >= p.frame_length)
    BY <1>0, <2>1, <2>2, <2>3, <2>4, <2>6 DEF ParserOK, ParserStates
  <2> QED
    BY <2>5, <2>6
<1>5. CASE Checksum(p, b)
  BY <1>5, ResetOK DEF Checksum
<1> QED
  BY <1>1, <1>2, <1>3, <1>4, <1>5 DEF Step

LEMMA ParserTypes ==
    ASSUME ParserOK(parser), NEW byte \in Byte, ProcessByte(byte)
    PROVE  ParserOK(parser')
<1>1. CASE parser.escaped /\ Step([parser EXCEPT !.escaped = FALSE], Toggled(byte))
  <2>1. ParserOK(WithEscaped(parser, FALSE)) /\ Step(WithEscaped(parser, FALSE), Toggled(byte))
    BY <1>1, EscapedSet
  <2>2. ~WithEscaped(parser, FALSE).escaped
    BY DEF WithEscaped
  <2> QED
    BY <2>1, <2>2, ToggledByte, StepTypes
<1>2. CASE IsEscape(byte) /\ parser' = [parser EXCEPT !.escaped = TRUE]
  BY <1>2, EscapedSet DEF IsEscape
<1>3. CASE ~parser.escaped /\ Step(parser, byte)
  BY <1>3, StepTypes
<1> QED
  BY <1>1, <1>2, <1>3 DEF ProcessByte

ModuleStates == [listens : BOOLEAN, escaped : BOOLEAN, got : Seq(Byte), sum : Byte]

LEMMA ModuleTypes ==
    ASSUME module \in ModuleStates, received \in Seq(Seq(Byte)),
           NEW byte \in Byte, ModuleReads(byte)
    PROVE  module' \in ModuleStates /\ received' \in Seq(Seq(Byte))
<1> DEFINE plain == IF module.escaped THEN Toggled(byte) ELSE byte
           got == Append(module.got, plain)
           sum == IF Len(got) > 2 THEN Sum8(module.sum, plain) ELSE 0
<1>0. module.got \in Seq(Byte) /\ module.sum \in Byte /\ module.escaped \in BOOLEAN
      /\ module.listens \in BOOLEAN
      /\ module = [listens |-> module.listens, escaped |-> module.escaped,
                   got |-> module.got, sum |-> module.sum]
  BY DEF ModuleStates
<1>1. plain \in Byte
  BY ToggledByte
<1>2. got \in Seq(Byte)
  BY <1>0, <1>1
<1>3. sum \in Byte
  <2> HIDE DEF plain, got
  <2> QED
    BY <1>0, <1>1, SumByte, BytesEmpty
<1>4. FrameEnds(got) => SubSeq(got, 3, Len(got) - 1) \in Seq(Byte)
  <2> HIDE DEF got
  <2>1. Len(got) \in Nat
    BY <1>2
  <2> QED
    BY <1>2, <2>1 DEF FrameEnds
<1> HIDE DEF plain, got, sum
<1>5. CASE byte = StartDelimiter
  <2>1. module' = [listens |-> TRUE, escaped |-> FALSE, got |-> <<>>, sum |-> 0]
        /\ received' = received
    BY <1>5 DEF ModuleReads
  <2> QED
    BY <2>1, BytesEmpty DEF ModuleStates
<1>6. CASE byte # StartDelimiter /\ ~module.listens
  BY <1>6 DEF ModuleReads
<1>7. CASE byte # StartDelimiter /\ module.listens /\ byte = EscapeChar /\ ~module.escaped
  <2>1. module' = [listens |-> module.listens, escaped |-> TRUE, got |-> module.got,
                   sum |-> module.sum] /\ received' = received
    BY <1>0, <1>7 DEF ModuleReads
  <2> QED
    BY <1>0, <2>1 DEF ModuleStates
<1>8. CASE byte # StartDelimiter /\ module.listens /\ ~(byte = EscapeChar /\ ~module.escaped)
  <2>1. /\ module' = [listens |-> ~FrameEnds(got), escaped |-> FALSE, got |-> got, sum |-> sum]
        /\ received' = IF FrameEnds(got) /\ sum = 255
                       THEN Append(received, SubSeq(got, 3, Len(got) - 1)) ELSE received
    BY <1>8 DEF ModuleReads, got, sum, plain
  <2>2. module' \in ModuleStates
    BY <2>1, <1>2, <1>3 DEF ModuleStates, FrameEnds
  <2>3. received' \in Seq(Seq(Byte))
    BY <2>1, <1>4
  <2> QED
    BY <2>2, <2>3
<1> QED
  BY <1>5, <1>6, <1>7, <1>8

-----------------------------------------------------------------------------
(* The parser reads along. *)

\* The parser is where the writer of w is.
InPlace(p, w) ==
    /\ w.pos > 0 /\ ~Over(w)
    /\ w.pos = 1 => p.state = "LENGTH_MSB"
    /\ w.pos = 2 => p.state = "LENGTH_LSB" /\ p.frame_length = 256 * HighByte(Len(w.body))
    /\ w.pos > 2 => /\ p.frame_length = Len(w.body) /\ p.checksum = w.sum
                    /\ Len(p.data) = w.pos - 3
                    /\ \A i \in 1..(w.pos - 3) : p.data[i] = w.body[i]
                    /\ p.state = IF w.pos < ChecksumPos(w) THEN "FRAME_DATA" ELSE "CHECKSUM"

InStep(p, w) == InPlace(p, w) /\ p.escaped = w.half

\* The bytes, unescaped, after which a parser that waits for none has ended
\* the frame it is in, and the bytes of the line they come in.
Places(p) ==
    CASE p.state = "LENGTH_MSB" -> MaxFrameLen + 3
      [] p.state = "LENGTH_LSB" -> MaxFrameLen + 2
      [] p.state = "FRAME_DATA" -> (p.frame_length - Len(p.data)) + 1
      [] p.state = "CHECKSUM"   -> 1
      [] OTHER -> 0

Left(p) == IF p.escaped THEN 2 * Places(p) - 1 ELSE 2 * Places(p)

Waiting == parser.state = "WAITING_START"

LEMMA PlacesBounds ==
    ASSUME NEW p, ParserOK(p)
    PROVE  /\ Places(p) \in Nat /\ Places(p) <= MaxFrameLen + 3
           /\ p.state # "WAITING_START" => Places(p) >= 1
<1>1. p.state \in ParserStates /\ p.frame_length \in Nat /\ Len(p.data) \in Nat
  BY ParserParts
<1>2. CASE p.state = "FRAME_DATA"
  <2>1. Len(p.data) < p.frame_length /\ p.frame_length <= MaxFrameLen
    BY <1>2 DEF ParserOK
  <2>2. Places(p) = (p.frame_length - Len(p.data)) + 1
    BY <1>2 DEF Places
  <2> QED
    BY <1>1, <2>1, <2>2, Limit
<1>3. CASE p.state # "FRAME_DATA"
  BY <1>1, <1>3, Limit DEF Places, ParserStates
<1> QED
  BY <1>2, <1>3

LEMMA LeftBounds ==
    ASSUME NEW p, ParserOK(p)
    PROVE  /\ Left(p) \in Nat /\ Left(p) <= Horizon
           /\ p.state # "WAITING_START" => Left(p) >= 1
<1>1. p.escaped => p.state # "WAITING_START"
  BY DEF ParserOK
<1>2. /\ Places(p) \in Nat /\ Places(p) <= MaxFrameLen + 3
      /\ p.state # "WAITING_START" => Places(p) >= 1
  BY PlacesBounds
<1> QED
  BY <1>1, <1>2, Limit DEF Left, Horizon

\* Each byte brings the parser one place nearer to waiting for a frame.
LEMMA StepNearer ==
    ASSUME NEW p, ParserOK(p), ~p.escaped, p.state # "WAITING_START",
           NEW b \in Byte, Step(p, b)
    PROVE  ~parser'.escaped
           /\ (parser'.state = "WAITING_START" \/ Places(parser') + 1 <= Places(p))
<1>0. p.state \in ParserStates /\ p.frame_length \in Nat /\ Len(p.data) \in Nat
      /\ p.data \in Seq(Byte) /\ b \in Nat
  BY ParserParts, ByteRange
<1>1. CASE WaitingStart(p, b)
  BY <1>1, StepOfWaiting
<1>2. CASE LengthMsb(p, b)
  <2>1. p.state = "LENGTH_MSB" /\ parser'.state = "LENGTH_LSB" /\ ~parser'.escaped
    BY <1>2, StepOfMsb
  <2> QED
    BY <2>1, Limit DEF Places
<1>3. CASE LengthLsb(p, b)
  <2>1. CASE LengthOK(p.frame_length + b)
    <3>1. p.state = "LENGTH_LSB" /\ parser'.state = "FRAME_DATA" /\ ~parser'.escaped
          /\ parser'.frame_length = p.frame_length + b /\ parser'.data = p.data
      BY <1>3, <2>1, StepOfLsb
    <3>2. Len(p.data) = 0
      BY <3>1, BytesEmpty DEF ParserOK
    <3>3. p.frame_length + b \in Nat /\ p.frame_length + b <= MaxFrameLen
      BY <1>0, <2>1, Limit DEF LengthOK
    <3>4. Places(parser') = p.frame_length + b + 1 /\ Places(p) = MaxFrameLen + 2
      BY <1>0, <3>1, <3>2, <3>3 DEF Places
    <3> QED
      BY <3>1, <3>3, <3>4, Limit
  <2>2. CASE ~LengthOK(p.frame_length + b)
    BY <1>3, <2>2, StepOfLsb DEF Reset
  <2> QED
    BY <2>1, <2>2
<1>4. CASE FrameData(p, b)
  <2>1. /\ p.state = "FRAME_DATA" /\ ~parser'.escaped
        /\ parser'.state = IF Len(p.data) + 1 >= p.frame_length
                           THEN "CHECKSUM" ELSE "FRAME_DATA"
        /\ parser'.frame_length = p.frame_length /\ parser'.data = Append(p.data, b)
    BY <1>4, StepOfData
  <2>2. Len(parser'.data) = Len(p.data) + 1
    BY <1>0, <2>1
  <2>3. Len(p.data) < p.frame_length
    BY <2>1 DEF ParserOK
  <2>4. Places(p) = (p.frame_length - Len(p.data)) + 1
    BY <2>1 DEF Places
  <2>5. CASE Len(p.data) + 1 >= p.frame_length
    <3>1. Places(parser') = 1
      BY <2>1, <2>5 DEF Places
    <3> QED
      BY <1>0, <2>1, <2>3, <2>4, <3>1
  <2>6. CASE ~(Len(p.data) + 1 >= p.frame_length)
    <3>1. Places(parser') = (p.frame_length - (Len(p.data) + 1)) + 1
      BY <2>1, <2>2, <2>6 DEF Places
    <3> QED
      BY <1>0, <2>1, <2>3, <2>4, <3>1
  <2> QED
    BY <2>5, <2>6
<1>5. CASE Checksum(p, b)
  BY <1>5 DEF Checksum, Reset
<1> QED
  BY <1>1, <1>2, <1>3, <1>4, <1>5 DEF Step

LEMMA Nearer ==
    ASSUME ParserOK(parser), ~Waiting, NEW byte \in Byte, ProcessByte(byte)
    PROVE  parser'.state = "WAITING_START" \/ Left(parser') + 1 <= Left(parser)
<1>0. ParserOK(parser')
  BY ParserTypes
<1>1. /\ Places(parser) \in Nat /\ Places(parser') \in Nat
      /\ Places(parser) >= 1
  BY <1>0, PlacesBounds DEF Waiting
<1>2. CASE parser.escaped /\ Step([parser EXCEPT !.escaped = FALSE], Toggled(byte))
  <2> DEFINE p == WithEscaped(parser, FALSE)
  <2>1. ParserOK(p) /\ Step(p, Toggled(byte))
    BY <1>2, EscapedSet
  <2>2. ~p.escaped /\ p.state # "WAITING_START" /\ Places(p) = Places(parser)
    BY DEF WithEscaped, Places, Waiting
  <2> HIDE DEF p
  <2>3. ~parser'.escaped
        /\ (parser'.state = "WAITING_START" \/ Places(parser') + 1 <= Places(p))
    BY <2>1, <2>2, ToggledByte, StepNearer
  <2> QED
    BY <1>1, <1>2, <2>2, <2>3 DEF Left
<1>3. CASE ~parser.escaped /\ IsEscape(byte) /\ parser' = [parser EXCEPT !.escaped = TRUE]
  <2>1. parser' = WithEscaped(parser, TRUE)
    BY <1>3, EscapedSet
  <2>2. parser'.escaped /\ Places(parser') = Places(parser)
    BY <2>1 DEF WithEscaped, Places
  <2> QED
    BY <1>1, <1>3, <2>2 DEF Left
<1>4. CASE ~parser.escaped /\ Step(parser, byte)
  <2>1. ~parser'.escaped
        /\ (parser'.state = "WAITING_START" \/ Places(parser') + 1 <= Places(parser))
    BY <1>4, StepNearer DEF Waiting
  <2> QED
    BY <1>1, <1>4, <2>1 DEF Left
<1> QED
  BY <1>2, <1>3, <1>4 DEF ProcessByte

LEMMA KeepsWaiting ==
    ASSUME ParserOK(parser), Waiting, NEW byte, byte # StartDelimiter, ProcessByte(byte)
    PROVE  parser' = parser /\ heard' = heard
<1>1. ~parser.escaped /\ ~IsEscape(byte)
  BY DEF ParserOK, Waiting, IsEscape
<1>2. Step(parser, byte)
  BY <1>1 DEF ProcessByte
<1>3. WaitingStart(parser, byte)
  BY <1>2 DEF Step, Waiting, LengthMsb, LengthLsb, FrameData, Checksum
<1> QED
  BY <1>3, StepOfWaiting

\* An unescaped byte of the frame, read where it was written.
LEMMA StepInPlace ==
    ASSUME NEW p, ParserOK(p), NEW w, Sound(w), ~Over(w), ~Escapes(w),
           (w.pos = 0 /\ p.state = "WAITING_START") \/ InPlace(p, w),
           Step(p, Plain(w))
    PROVE  IF w.pos < ChecksumPos(w)
           THEN /\ InPlace(parser', Advanced(w)) /\ heard' = heard
                /\ parser'.escaped = p.escaped
           ELSE parser' = Reset /\ heard' = Append(heard, FrameOf(w.body))
<1> PICK n \in Nat : n = Len(w.body)
  BY SoundParts
<1> DEFINE b == Plain(w)
           next == Advanced(w)
<1>1. /\ w.body \in Seq(Byte) /\ n <= MaxFrameLen /\ n <= 65535 /\ n > 0
      /\ w.pos \in Nat /\ w.pos <= n + 3 /\ w.sum \in Byte
      /\ w.pos <= 3 => w.sum = 0
  <2>1. w.sum \in Byte /\ w.body # <<>>
    BY DEF Sound, FrameUnderWay
  <2> QED
    BY <2>1, SoundParts DEF Over, ChecksumPos, Sound
<1>2. /\ p.state \in ParserStates /\ p.frame_length \in Nat
      /\ p.data \in Seq(Byte) /\ Len(p.data) \in Nat
  BY ParserParts
<1>3. next = [body |-> w.body, pos |-> w.pos + 1, half |-> FALSE, sum |-> NewSum(w)]
  BY AdvancedFull
<1>4. ChecksumPos(w) = n + 3
  BY DEF ChecksumPos
<1>5. w.pos < n + 3 => ~Over(next) /\ next.pos > 0 /\ ChecksumPos(next) = n + 3
  BY <1>1, <1>3 DEF Over, ChecksumPos
<1>6. /\ w.pos = 0 => p.state = "WAITING_START"
      /\ w.pos > 0 => InPlace(p, w)
  BY <1>1 DEF InPlace
<1>7. /\ w.pos = 0 => b = StartDelimiter
      /\ w.pos = 1 => b = HighByte(n)
      /\ w.pos = 2 => b = LowByte(n)
      /\ w.pos = n + 3 => b = 255 - w.sum
      /\ w.pos > 2 /\ w.pos < n + 3 => b = w.body[w.pos - 2]
  BY <1>1, PlainAt
<1> HIDE DEF b, next
<1>8. Step(p, b)
  BY DEF b
<1>10. CASE w.pos = 0
  <2>1. WaitingStart(p, b)
    BY <1>6, <1>8, <1>10 DEF Step, LengthMsb, LengthLsb, FrameData, Checksum
  <2>2. parser'.state = "LENGTH_MSB" /\ parser'.escaped = p.escaped /\ heard' = heard
    BY <1>7, <1>10, <2>1, StepOfWaiting
  <2>3. next.pos = 1
    BY <1>3, <1>10
  <2>4. InPlace(parser', next)
    BY <1>1, <1>5, <1>10, <2>2, <2>3 DEF InPlace
  <2> QED
    BY <1>1, <1>4, <1>10, <2>2, <2>4 DEF next
<1>11. CASE w.pos = 1
  <2>1. p.state = "LENGTH_MSB"
    BY <1>6, <1>11 DEF InPlace
  <2>2. LengthMsb(p, b)
    BY <1>8, <2>1 DEF Step, WaitingStart, LengthLsb, FrameData, Checksum
  <2>3. parser'.state = "LENGTH_LSB" /\ parser'.escaped = p.escaped /\ heard' = heard
        /\ parser'.frame_length = 256 * HighByte(n)
    BY <1>7, <1>11, <2>2, StepOfMsb
  <2>4. next.pos = 2 /\ next.body = w.body
    BY <1>3, <1>11
  <2>5. InPlace(parser', next)
    BY <1>1, <1>5, <1>11, <2>3, <2>4 DEF InPlace
  <2> QED
    BY <1>1, <1>4, <1>11, <2>3, <2>5 DEF next
<1>12. CASE w.pos = 2
  <2>1. p.state = "LENGTH_LSB" /\ p.frame_length = 256 * HighByte(n)
    BY <1>6, <1>12 DEF InPlace
  <2>2. LengthLsb(p, b)
    BY <1>8, <2>1 DEF Step, WaitingStart, LengthMsb, FrameData, Checksum
  <2>3. p.frame_length + b = n
    BY <1>1, <1>7, <1>12, <2>1, LengthBytesOf
  <2>4. LengthOK(n)
    BY <1>1, Limit DEF LengthOK
  <2>5. p.data = <<>> /\ p.checksum = 0
    BY <2>1 DEF ParserOK
  <2>6. /\ parser'.state = "FRAME_DATA" /\ parser'.escaped = p.escaped /\ heard' = heard
        /\ parser'.frame_length = n /\ parser'.data = <<>> /\ parser'.checksum = 0
    BY <2>2, <2>3, <2>4, <2>5, StepOfLsb
  <2>7. next.pos = 3 /\ next.body = w.body /\ next.sum = 0
    BY <1>1, <1>3, <1>12 DEF NewSum
  <2>8. InPlace(parser', next)
    BY <1>1, <1>5, <1>12, <2>6, <2>7, BytesEmpty DEF InPlace
  <2> QED
    BY <1>1, <1>4, <1>12, <2>6, <2>8 DEF next
<1>13. CASE w.pos > 2 /\ w.pos < n + 3
  <2>1. /\ p.state = "FRAME_DATA" /\ p.frame_length = n /\ p.checksum = w.sum
        /\ Len(p.data) = w.pos - 3
        /\ \A i \in 1..(w.pos - 3) : p.data[i] = w.body[i]
    BY <1>1, <1>4, <1>6, <1>13 DEF InPlace
  <2>2. FrameData(p, b)
    BY <1>8, <2>1 DEF Step, WaitingStart, LengthMsb, LengthLsb, Checksum
  <2>3. /\ parser'.state = IF Len(p.data) + 1 >= n THEN "CHECKSUM" ELSE "FRAME_DATA"
        /\ parser'.escaped = p.escaped /\ heard' = heard
        /\ parser'.frame_length = n /\ parser'.data = Append(p.data, b)
        /\ parser'.checksum = Sum8(w.sum, b)
    BY <2>1, <2>2, StepOfData
  <2>4. next.pos = w.pos + 1 /\ next.body = w.body /\ next.sum = Sum8(w.sum, b)
    BY <1>1, <1>3, <1>4, <1>13 DEF NewSum, b
  <2>5. b = w.body[w.pos - 2]
    BY <1>7, <1>13
  <2>6. Len(parser'.data) = w.pos - 2
    BY <1>1, <1>2, <1>13, <2>1, <2>3
  <2>7. ASSUME NEW i \in 1..(w.pos - 2) PROVE parser'.data[i] = w.body[i]
    <3>1. CASE i = w.pos - 2
      <4>1. parser'.data[i] = b
        BY <1>1, <1>2, <1>13, <2>1, <2>3, <3>1
      <4> QED
        BY <2>5, <3>1, <4>1
    <3>2. CASE i # w.pos - 2
      <4>1. i \in 1..(w.pos - 3)
        BY <1>1, <1>13, <3>2
      <4>2. parser'.data[i] = p.data[i]
        BY <1>1, <1>2, <1>13, <2>1, <2>3, <4>1
      <4> QED
        BY <2>1, <4>1, <4>2
    <3> QED
      BY <3>1, <3>2
  <2>8. parser'.state = IF w.pos + 1 < n + 3 THEN "FRAME_DATA" ELSE "CHECKSUM"
    BY <1>1, <1>13, <2>1, <2>3
  <2>9. w.pos + 1 > 2 /\ w.pos + 1 # 1 /\ w.pos + 1 # 2 /\ (w.pos + 1) - 3 = w.pos - 2
    BY <1>1, <1>13
  <2>10. InPlace(parser', next)
    BY <1>5, <1>13, <2>3, <2>4, <2>6, <2>7, <2>8, <2>9 DEF InPlace
  <2> QED
    BY <1>4, <1>13, <2>3, <2>10 DEF next
<1>14. CASE w.pos = n + 3
  <2>1. /\ p.state = "CHECKSUM" /\ p.checksum = w.sum
        /\ Len(p.data) = n /\ \A i \in 1..n : p.data[i] = w.body[i]
    BY <1>1, <1>4, <1>6, <1>14 DEF InPlace
  <2>2. Checksum(p, b)
    BY <1>8, <2>1 DEF Step, WaitingStart, LengthMsb, LengthLsb, FrameData
  <2>3. p.data = w.body
    BY <1>1, <1>2, <2>1
  <2>4. Sum8(p.checksum, b) = 255
    BY <1>1, <1>7, <1>14, <2>1, Complement
  <2>5. parser' = Reset /\ heard' = Append(heard, FrameOf(w.body))
    BY <2>2, <2>3, <2>4 DEF Checksum
  <2> QED
    BY <1>1, <1>4, <1>14, <2>5
<1> QED
  BY <1>1, <1>10, <1>11, <1>12, <1>13, <1>14

\* The next byte of the line, read where it was written.
LEMMA ReadsAlong ==
    ASSUME ParserOK(parser), NEW w, Sound(w), ~Over(w),
           (w.pos = 0 /\ Waiting) \/ InStep(parser, w),
           ProcessByte(NextByte(w))
    PROVE  \/ InStep(parser', Advanced(w)) /\ heard' = heard
           \/ /\ w.pos > 0 /\ Over(Advanced(w))
              /\ parser' = Reset /\ heard' = Append(heard, FrameOf(w.body))
<1>0. w.pos \in Nat /\ Len(w.body) \in Nat /\ w.half \in BOOLEAN /\ parser.escaped \in BOOLEAN
      /\ w.pos <= ChecksumPos(w)
  BY SoundParts, ParserParts DEF Over, ChecksumPos
<1>1. /\ w.pos > 0 => InStep(parser, w) /\ ~Waiting /\ parser.escaped = w.half
      /\ w.pos = 0 => Waiting /\ ~parser.escaped /\ ~w.half /\ ~Escapes(w)
  <2>1. InStep(parser, w) => w.pos > 0 /\ ~Waiting
    <3>1. ASSUME InStep(parser, w), Waiting PROVE FALSE
      BY <1>0, <3>1 DEF InStep, InPlace, Waiting
    <3> QED
      BY <3>1 DEF InStep, InPlace
  <2>2. Waiting => ~parser.escaped
    BY DEF ParserOK, Waiting
  <2>3. w.pos = 0 => ~w.half /\ ~Escapes(w)
    BY <1>0 DEF Sound, Escapes
  <2> QED
    BY <1>0, <2>1, <2>2, <2>3 DEF InStep
<1>2. CASE Escapes(w)
  <2>1. w.pos > 0 /\ ~w.half /\ NextByte(w) = EscapeChar
    BY <1>2 DEF Escapes, NextByte
  <2>2. ~parser.escaped /\ IsEscape(NextByte(w))
    BY <1>1, <2>1 DEF IsEscape, Waiting
  <2>3. parser' = WithEscaped(parser, TRUE) /\ heard' = heard
    BY <2>2, EscapedSet DEF ProcessByte
  <2>4. Advanced(w) = [body |-> w.body, pos |-> w.pos, half |-> TRUE, sum |-> w.sum]
    BY <1>2, AdvancedHalf
  <2>5. InPlace(parser, w)
    BY <1>1, <2>1 DEF InStep
  <2>6. parser'.escaped = Advanced(w).half
    BY <2>3, <2>4 DEF WithEscaped
  <2>7. InPlace(parser', Advanced(w))
    BY <2>3, <2>4, <2>5 DEF InPlace, WithEscaped, Over, ChecksumPos
  <2> QED
    BY <2>3, <2>6, <2>7 DEF InStep
<1>3. CASE ~Escapes(w)
  <2> DEFINE p == WithEscaped(parser, FALSE)
  <2>1. ParserOK(p) /\ ~p.escaped
    BY EscapedSet DEF WithEscaped
  <2>2. (w.pos = 0 /\ p.state = "WAITING_START") \/ InPlace(p, w)
    BY <1>0, <1>1 DEF InStep, InPlace, WithEscaped, Waiting
  <2>3. Step(p, Plain(w))
    <3>1. CASE w.half
      <4>1. NextByte(w) = Toggled(Plain(w)) /\ NeedsEscape(Plain(w)) /\ parser.escaped
        BY <1>1, <1>3, <3>1 DEF NextByte, Sound
      <4>2. Toggled(NextByte(w)) = Plain(w)
        BY <4>1, EscapePair
      <4>3. Step([parser EXCEPT !.escaped = FALSE], Plain(w))
        BY <4>1, <4>2 DEF ProcessByte
      <4> QED
        BY <4>3, EscapedSet
    <3>2. CASE ~w.half
      <4>1. NextByte(w) = Plain(w) /\ ~parser.escaped
        BY <1>0, <1>1, <1>3, <3>2 DEF NextByte
      <4>2. ~IsEscape(NextByte(w))
        BY <1>0, <1>1, <1>3, <3>2, <4>1 DEF IsEscape, Escapes, NeedsEscape, Waiting
      <4>3. Step(parser, Plain(w))
        BY <4>1, <4>2 DEF ProcessByte
      <4>4. parser = p
        BY <4>1, <1>0, ParserWhole DEF WithEscaped
      <4> QED
        BY <4>3, <4>4
    <3> QED
      BY <1>0, <3>1, <3>2
  <2> HIDE DEF p
  <2>4. IF w.pos < ChecksumPos(w)
        THEN /\ InPlace(parser', Advanced(w)) /\ heard' = heard
             /\ parser'.escaped = p.escaped
        ELSE parser' = Reset /\ heard' = Append(heard, FrameOf(w.body))
    BY <1>3, <2>1, <2>2, <2>3, StepInPlace
  <2>5. Advanced(w) = [body |-> w.body, pos |-> w.pos + 1, half |-> FALSE, sum |-> NewSum(w)]
    BY <1>3, AdvancedFull
  <2>6. CASE w.pos < ChecksumPos(w)
    <3>1. parser'.escaped = FALSE
      <4>1. parser'.escaped = p.escaped
        BY <2>4, <2>6
      <4>2. p.escaped = FALSE
        BY DEF p, WithEscaped
      <4> QED
        BY <4>1, <4>2
    <3>2. Advanced(w).half = FALSE
      BY <2>5
    <3> QED
      BY <2>4, <2>6, <3>1, <3>2 DEF InStep
  <2>7. CASE ~(w.pos < ChecksumPos(w))
    <3>1. w.pos = Len(w.body) + 3
      BY <1>0, <2>7 DEF ChecksumPos
    <3>2. w.pos > 0 /\ Over(Advanced(w))
      BY <1>0, <2>5, <3>1 DEF Over, ChecksumPos
    <3> QED
      BY <2>4, <2>7, <3>2
  <2> QED
    BY <2>6, <2>7
<1> QED
  BY <1>2, <1>3

-----------------------------------------------------------------------------
(* The reader: the inductive invariant. *)

\* A parser that damage has led astray is back before the horizon.
Returning == since + Left(parser) <= Horizon

ReaderInv ==
    /\ Sound(incoming)
    /\ Waiting \/ InStep(parser, incoming) \/ Returning
    \* A frame that began in calm is read along, and handed over.
    /\ intact /\ calm = Horizon /\ frames > 0 =>
          \/ incoming.pos = 0 /\ Waiting /\ heard = <<>>
          \/ InStep(parser, incoming) /\ heard = <<>>
          \/ Over(incoming) /\ Waiting /\ heard = <<FrameOf(incoming.body)>>

LEMMA HorizonNat == Horizon \in Nat /\ Horizon >= 1
BY Limit DEF Horizon

\* Where the parser is after an undamaged byte.
LEMMA ArrivesNear ==
    ASSUME ParserOK(parser), since \in 0..Horizon, ReaderInv, Arrives
    PROVE  \/ parser'.state = "WAITING_START" \/ InStep(parser', incoming')
           \/ since' + Left(parser') <= Horizon
<1> DEFINE Near == \/ parser'.state = "WAITING_START" \/ InStep(parser', incoming')
                   \/ since' + Left(parser') <= Horizon
<1> SUFFICES Near
  OBVIOUS
<1>1. /\ Sound(incoming) /\ ~Over(incoming)
      /\ incoming' = Advanced(incoming) /\ ProcessByte(NextByte(incoming))
      /\ since' = IF since < Horizon THEN since + 1 ELSE since
  BY DEF Arrives, ReaderInv
<1>2. NextByte(incoming) \in Byte /\ (NextByte(incoming) = StartDelimiter <=> incoming.pos = 0)
  BY <1>1, NextByteByte
<1>10. CASE InStep(parser, incoming)
  BY <1>1, <1>10, ReadsAlong DEF Reset
<1>3. CASE incoming.pos = 0 /\ Waiting
  BY <1>1, <1>3, ReadsAlong DEF Reset
<1>4. CASE Waiting /\ incoming.pos # 0
  BY <1>1, <1>2, <1>4, KeepsWaiting DEF Waiting
<1>5. CASE ~Waiting /\ Returning
  <2>0. since + Left(parser) <= Horizon
    BY <1>5 DEF Returning
  <2>1. ParserOK(parser') /\ Left(parser') \in Nat /\ Left(parser) \in Nat
        /\ Left(parser) >= 1
    BY <1>1, <1>2, <1>5, ParserTypes, LeftBounds DEF Waiting
  <2>2. parser'.state = "WAITING_START" \/ Left(parser') + 1 <= Left(parser)
    BY <1>1, <1>2, <1>5, Nearer
  <2>3. since \in Nat
    BY HorizonNat
  <2>4. CASE Left(parser') + 1 <= Left(parser)
    <3>1. since < Horizon
      BY <2>0, <2>1, <2>3, HorizonNat
    <3>2. since' = since + 1
      BY <1>1, <3>1
    <3> QED
      BY <2>0, <2>1, <2>3, <2>4, <3>2, HorizonNat
  <2>5. CASE parser'.state = "WAITING_START"
    BY <2>5
  <2> QED
    BY <2>2, <2>4, <2>5
<1>6. Waiting \/ InStep(parser, incoming) \/ Returning
  BY Zenon DEF ReaderInv
<1> HIDE DEF Near
<1>7. CASE Waiting
  BY <1>3, <1>4, <1>7
<1>9. CASE Returning
  BY <1>5, <1>7, <1>9
<1> QED
  BY <1>6, <1>7, <1>9, <1>10

LEMMA ReaderStep ==
    ASSUME TypeOK, ReaderInv, Next
    PROVE  ReaderInv'
<1>0. /\ ParserOK(parser) /\ Sound(incoming)
      /\ since \in 0..Horizon /\ calm \in 0..Horizon
  BY DEF TypeOK, ReaderInv
<1>1. CASE WriterNext
  <2>1. UNCHANGED readerVars
    BY <1>1 DEF WriterNext, SendTxRequest, SendDataNoWait, SendAtCommand, Begin, ByteTaken,
                ByteTakenUnstarted, Enqueue, RingFull, Transmitted
  <2> QED
    BY <2>1 DEF ReaderInv, readerVars, Waiting, Returning
<1>2. ASSUME NEW body \in RadioBodies, RadioWrites(body) PROVE ReaderInv'
  <2>1. /\ Over(incoming) /\ incoming' = Started(body)
        /\ calm' = since /\ heard' = <<>> /\ parser' = parser /\ since' = since
    BY <1>2 DEF RadioWrites
  <2>2. Sound(incoming') /\ incoming'.pos = 0
    <3>1. body \in Seq(Byte) /\ body # <<>> /\ Len(body) <= MaxFrameLen
      BY XBeeAssumption
    <3> QED
      BY <2>1, <3>1, StartedSound DEF Started
  <2>3. Waiting \/ since + Left(parser) <= Horizon
    BY <2>1 DEF ReaderInv, InStep, InPlace, Returning
  <2>4. since = Horizon => Waiting
    BY <1>0, <2>3, LeftBounds, HorizonNat DEF Waiting
  <2> QED
    BY <2>1, <2>2, <2>3, <2>4 DEF ReaderInv, Waiting, Returning
<1>3. ASSUME Arrives PROVE ReaderInv'
  <2>1. /\ ~Over(incoming) /\ incoming' = Advanced(incoming)
        /\ ProcessByte(NextByte(incoming))
        /\ intact' = intact /\ calm' = calm /\ frames' = frames
    BY <1>3 DEF Arrives
  <2>2. Sound(incoming') /\ incoming'.body = incoming.body
    BY <1>0, <2>1, AdvancedSound
  <2>3. Waiting' \/ InStep(parser', incoming') \/ since' + Left(parser') <= Horizon
    BY <1>0, <1>3, ArrivesNear DEF Waiting
  <2>4. ASSUME intact, calm = Horizon, frames > 0
        PROVE  \/ InStep(parser', incoming') /\ heard' = <<>>
               \/ Over(incoming') /\ Waiting' /\ heard' = <<FrameOf(incoming'.body)>>
    <3>1. heard = <<>> /\ ((incoming.pos = 0 /\ Waiting) \/ InStep(parser, incoming))
      BY <2>1, <2>4 DEF ReaderInv
    <3>2. \/ InStep(parser', incoming') /\ heard' = heard
          \/ /\ Over(incoming') /\ parser' = Reset
             /\ heard' = Append(heard, FrameOf(incoming.body))
      BY <1>0, <2>1, <3>1, ReadsAlong
    <3>3. Append(<<>>, FrameOf(incoming.body)) = <<FrameOf(incoming.body)>>
      OBVIOUS
    <3>4. CASE InStep(parser', incoming') /\ heard' = heard
      BY <3>1, <3>4
    <3>5. CASE /\ Over(incoming') /\ parser' = Reset
               /\ heard' = Append(heard, FrameOf(incoming.body))
      BY <2>2, <3>1, <3>3, <3>5 DEF Waiting, Reset
    <3> QED
      BY <3>2, <3>4, <3>5
  <2> QED
    BY <2>1, <2>2, <2>3, <2>4 DEF ReaderInv, Waiting, Returning
<1>4. ASSUME Damage, ParserOK(parser'), Sound(incoming') PROVE ReaderInv'
  <2>1. since' = 0 /\ intact' = FALSE
    BY <1>4 DEF Damage
  <2>2. Left(parser') \in Nat /\ Left(parser') <= Horizon
    BY <1>4, LeftBounds
  <2> QED
    BY <1>4, <2>1, <2>2 DEF ReaderInv, Waiting, Returning
<1>5. ASSUME Lost PROVE ReaderInv'
  BY <1>0, <1>4, <1>5, AdvancedSound DEF Lost
<1>6. ASSUME NEW byte \in Noise, Changed(byte) PROVE ReaderInv'
  <2>1. byte \in Byte
    BY XBeeAssumption
  <2> QED
    BY <1>0, <1>4, <1>6, <2>1, AdvancedSound, ParserTypes DEF Changed
<1>7. ASSUME NEW byte \in Noise, Added(byte) PROVE ReaderInv'
  <2>1. byte \in Byte
    BY XBeeAssumption
  <2> QED
    BY <1>0, <1>4, <1>7, <2>1, ParserTypes DEF Added
<1> QED
  BY <1>1, <1>2, <1>3, <1>5, <1>6, <1>7 DEF Next, ReaderNext

-----------------------------------------------------------------------------
(* The writer: the inductive invariant. *)

\* The XBee is where the writer of w is.
Follows(m, w) ==
    /\ m.listens /\ m.escaped = w.half
    /\ Len(m.got) = w.pos - 1
    /\ w.pos > 1 => m.got[1] = HighByte(Len(w.body))
    /\ w.pos > 2 => m.got[2] = LowByte(Len(w.body))
    /\ \A i \in 3..(w.pos - 1) : m.got[i] = w.body[i - 2]
    /\ m.sum = w.sum

WriterInv ==
    /\ Sound(out)
    /\ out.pos > 0 /\ ~Over(out) => Follows(module, out)
    /\ received = queued
    /\ returned = "ok" => Over(out) /\ received # <<>> /\ received[Len(received)] = out.body

\* The bodies the application sends.
LEMMA TxRequestBytes ==
    ASSUME NEW dest \in Dests, NEW rf_data \in RfData, NEW id \in Byte
    PROVE  /\ TxRequest(dest, Addr16Unknown, rf_data, id) \in Seq(Byte)
           /\ TxRequest(dest, Addr16Unknown, rf_data, id) # <<>>
<1>1. dest \in Seq(Byte) /\ rf_data \in Seq(Byte)
  BY XBeeAssumption
<1>2. <<16, id>> \in Seq(Byte) /\ <<255, 254>> \in Seq(Byte) /\ <<0, 0>> \in Seq(Byte)
  BY DEF Byte
<1>3. Len(TxRequest(dest, Addr16Unknown, rf_data, id)) = 6 + Len(dest) + Len(rf_data)
  BY <1>1, <1>2 DEF TxRequest, Addr16Unknown
<1>4. TxRequest(dest, Addr16Unknown, rf_data, id) \in Seq(Byte)
  BY <1>1, <1>2 DEF TxRequest, Addr16Unknown
<1>5. Len(dest) \in Nat /\ Len(rf_data) \in Nat
  BY <1>1
<1> QED
  BY <1>3, <1>4, <1>5, BytesEmpty

LEMMA AtCommandBytes ==
    ASSUME NEW command \in Commands, NEW id \in Byte
    PROVE  AtCommand(command, id) \in Seq(Byte) /\ AtCommand(command, id) # <<>>
<1>1. command \in Seq(Byte)
  BY XBeeAssumption
<1>2. <<8, id>> \in Seq(Byte)
  BY DEF Byte
<1>3. AtCommand(command, id) \in Seq(Byte) /\ Len(AtCommand(command, id)) = 2 + Len(command)
  BY <1>1, <1>2 DEF AtCommand
<1>4. Len(command) \in Nat
  BY <1>1
<1> QED
  BY <1>3, <1>4, BytesEmpty

LEMMA CutShortIs ==
    ASSUME NEW w, Sound(w)
    PROVE  /\ CutShort(w) = [body |-> w.body, pos |-> ChecksumPos(w) + 1, half |-> FALSE,
                             sum |-> w.sum]
           /\ Sound(CutShort(w)) /\ Over(CutShort(w))
<1> PICK n \in Nat : n = Len(w.body)
  BY SoundParts
<1> DEFINE q == CutShort(w)
<1>1. /\ w.body \in Seq(Byte) /\ n \in Nat /\ n <= MaxFrameLen
      /\ w.pos \in Nat /\ w.sum \in Byte
      /\ w \in [body : Seq(Byte), pos : Nat, half : BOOLEAN, sum : Byte]
  BY SoundParts DEF Sound, FrameUnderWay
<1>2. q \in [body : Seq(Byte), pos : Nat, half : BOOLEAN, sum : Byte]
  <2>1. ChecksumPos(w) + 1 \in Nat
    BY <1>1 DEF ChecksumPos
  <2> QED
    BY <1>1, <2>1 DEF CutShort
<1>3. q.body = w.body /\ q.sum = w.sum /\ q.half = FALSE /\ q.pos = ChecksumPos(w) + 1
  BY <1>1 DEF CutShort
<1> HIDE DEF q
<1>4. q = [body |-> q.body, pos |-> q.pos, half |-> q.half, sum |-> q.sum]
  BY <1>2
<1>5. ChecksumPos(w) + 1 = n + 4 /\ q.pos = n + 4
  BY <1>1, <1>3 DEF ChecksumPos
<1>6. q \in FrameUnderWay
  BY <1>2 DEF FrameUnderWay
<1>7. w.pos > 3 \/ w.sum = 0
  BY <1>1 DEF Sound
<1>8. q.pos <= 3 => q.sum = 0
  BY <1>1, <1>5
<1>9. Over(q) /\ ChecksumPos(q) + 1 = n + 4
  BY <1>1, <1>3, <1>5 DEF Over, ChecksumPos
<1>10. Sound(q)
  BY <1>1, <1>3, <1>5, <1>6, <1>8, <1>9 DEF Sound
<1> QED
  BY <1>3, <1>4, <1>5, <1>9, <1>10 DEF q

\* The XBee reads the next byte of the frame where it was written.
LEMMA ModuleFollows ==
    ASSUME NEW w, Sound(w), ~Over(w), w.pos > 0, module \in ModuleStates,
           Follows(module, w), ModuleReads(NextByte(w))
    PROVE  IF Over(Advanced(w))
           THEN received' = Append(received, w.body)
           ELSE received' = received /\ Follows(module', Advanced(w))
<1> PICK n \in Nat : n = Len(w.body)
  BY SoundParts
<1>1. /\ w.body \in Seq(Byte) /\ n <= 65535 /\ n > 0
      /\ w.pos \in Nat /\ w.pos <= n + 3 /\ w.sum \in Byte /\ w.half \in BOOLEAN
      /\ w.pos <= 3 => w.sum = 0
  <2>1. w.sum \in Byte /\ w.body # <<>>
    BY DEF Sound, FrameUnderWay
  <2> QED
    BY <2>1, SoundParts DEF Over, ChecksumPos, Sound
<1>2. /\ module.listens /\ module.escaped = w.half /\ module.sum = w.sum
      /\ module.got \in Seq(Byte) /\ Len(module.got) = w.pos - 1
      /\ module = [listens |-> module.listens, escaped |-> module.escaped,
                   got |-> module.got, sum |-> module.sum]
  BY DEF Follows, ModuleStates
<1>3. NextByte(w) # StartDelimiter
  BY <1>1, NextByteByte
<1>4. ChecksumPos(w) = n + 3
  BY DEF ChecksumPos
<1>5. CASE Escapes(w)
  <2>1. NextByte(w) = EscapeChar /\ ~module.escaped
    BY <1>2, <1>5 DEF NextByte, Escapes
  <2>2. /\ module' = [listens |-> module.listens, escaped |-> TRUE, got |-> module.got,
                      sum |-> module.sum]
        /\ received' = received
    BY <1>2, <1>3, <2>1 DEF ModuleReads
  <2>3. Advanced(w) = [body |-> w.body, pos |-> w.pos, half |-> TRUE, sum |-> w.sum]
    BY <1>5, AdvancedHalf
  <2>4. ~Over(Advanced(w))
    BY <2>3 DEF Over, ChecksumPos
  <2>5. Follows(module', Advanced(w))
    BY <1>2, <2>2, <2>3 DEF Follows
  <2> QED
    BY <2>2, <2>4, <2>5
<1>6. CASE ~Escapes(w)
  <2> DEFINE b == Plain(w)
             got == Append(module.got, b)
             sum == IF Len(got) > 2 THEN Sum8(module.sum, b) ELSE 0
             next == Advanced(w)
  <2>1. /\ module' = [listens |-> ~FrameEnds(got), escaped |-> FALSE, got |-> got, sum |-> sum]
        /\ received' = IF FrameEnds(got) /\ sum = 255
                       THEN Append(received, SubSeq(got, 3, Len(got) - 1)) ELSE received
    <3>1. (IF module.escaped THEN Toggled(NextByte(w)) ELSE NextByte(w)) = Plain(w)
      <4>1. CASE w.half
        <5>1. NextByte(w) = Toggled(Plain(w)) /\ NeedsEscape(Plain(w))
          BY <1>6, <4>1 DEF NextByte, Sound
        <5> QED
          BY <1>2, <4>1, <5>1, EscapePair
      <4>2. CASE ~w.half
        BY <1>2, <1>6, <4>2 DEF NextByte
      <4> QED
        BY <4>1, <4>2
    <3>2. ~(NextByte(w) = EscapeChar /\ ~module.escaped)
      <4>1. ASSUME NextByte(w) = EscapeChar, ~module.escaped PROVE FALSE
        <5>1. ~w.half /\ Plain(w) = EscapeChar
          BY <1>2, <3>1, <4>1
        <5> QED
          BY <1>6, <5>1 DEF Escapes, NeedsEscape
      <4> QED
        BY <4>1
    <3> QED
      BY <1>2, <1>3, <3>1, <3>2 DEF ModuleReads
  <2>2. next = [body |-> w.body, pos |-> w.pos + 1, half |-> FALSE, sum |-> NewSum(w)]
    BY <1>6, AdvancedFull
  <2>3. b \in Byte
    BY PlainByte
  <2>4. /\ w.pos = 1 => b = HighByte(n)
        /\ w.pos = 2 => b = LowByte(n)
        /\ w.pos = n + 3 => b = 255 - w.sum
        /\ w.pos > 2 /\ w.pos < n + 3 => b = w.body[w.pos - 2]
    BY <1>1, PlainAt
  <2>5. NewSum(w) = IF w.pos > 2 /\ w.pos < n + 3 THEN Sum8(w.sum, b) ELSE w.sum
    BY <1>4 DEF NewSum
  <2> HIDE DEF b, next
  <2>6. /\ got \in Seq(Byte) /\ Len(got) = w.pos /\ got[w.pos] = b
        /\ \A i \in 1..(w.pos - 1) : got[i] = module.got[i]
    BY <1>1, <1>2, <2>3
  <2> HIDE DEF got
  <2>7. /\ got[1] = HighByte(n)
        /\ w.pos > 1 => got[2] = LowByte(n)
    BY <1>1, <2>4, <2>6 DEF Follows
  <2>8. ASSUME NEW i \in 3..w.pos, i < n + 3 PROVE got[i] = w.body[i - 2]
    <3>1. CASE i = w.pos
      BY <1>1, <2>4, <2>6, <2>8, <3>1
    <3>2. CASE i # w.pos
      <4>1. i \in 3..(w.pos - 1) /\ i \in 1..(w.pos - 1)
        BY <1>1, <3>2
      <4> QED
        BY <2>6, <4>1 DEF Follows
    <3> QED
      BY <3>1, <3>2
  <2>9. FrameEnds(got) <=> w.pos = n + 3
    <3>1. w.pos > 1 => 256 * got[1] + got[2] = n
      BY <1>1, <2>7, LengthBytesOf
    <3> QED
      BY <1>1, <2>6, <3>1 DEF FrameEnds
  <2>10. Over(next) <=> w.pos = n + 3
    BY <1>1, <2>2 DEF Over, ChecksumPos
  <2>11. CASE w.pos = n + 3
    <3>1. sum = 255
      BY <1>1, <1>2, <2>4, <2>6, <2>11, Complement
    <3>2. received' = Append(received, SubSeq(got, 3, n + 2))
      BY <1>1, <2>1, <2>6, <2>9, <2>11, <3>1
    <3>3. SubSeq(got, 3, n + 2) = w.body
      <4>1. SubSeq(got, 3, n + 2) \in Seq(Byte) /\ Len(SubSeq(got, 3, n + 2)) = n
        BY <1>1, <2>6, <2>11
      <4>2. ASSUME NEW i \in 1..n PROVE SubSeq(got, 3, n + 2)[i] = w.body[i]
        <5>1. SubSeq(got, 3, n + 2)[i] = got[i + 2]
          BY <1>1, <2>6, <2>11
        <5>2. i + 2 \in 3..w.pos /\ i + 2 < n + 3 /\ (i + 2) - 2 = i
          BY <2>11
        <5>3. got[i + 2] = w.body[(i + 2) - 2]
          BY <2>8, <5>2
        <5> QED
          BY <5>1, <5>2, <5>3
      <4> QED
        BY <1>1, <4>1, <4>2
    <3> QED
      BY <2>10, <2>11, <3>2, <3>3 DEF next
  <2>12. CASE w.pos # n + 3
    <3>1. received' = received /\ module'.listens /\ ~module'.escaped
          /\ module'.got = got /\ module'.sum = sum
      BY <2>1, <2>9, <2>12
    <3>2. next.body = w.body /\ next.pos = w.pos + 1 /\ ~next.half /\ next.sum = NewSum(w)
      BY <2>2
    <3>3. sum = NewSum(w)
      BY <1>1, <1>2, <2>5, <2>6, <2>12
    <3>4. \A i \in 3..((w.pos + 1) - 1) : got[i] = w.body[i - 2]
      <4>1. (w.pos + 1) - 1 = w.pos /\ w.pos < n + 3
        BY <1>1, <2>12
      <4>2. ASSUME NEW i \in 3..w.pos PROVE i < n + 3
        BY <1>1, <4>1
      <4> QED
        BY <2>8, <4>1, <4>2
    <3>5. Follows(module', next)
      <4>1. next.pos - 1 = w.pos /\ (next.pos > 2 => w.pos > 1)
        BY <1>1, <3>2
      <4>2. module'.got[1] = HighByte(Len(next.body))
            /\ (next.pos > 2 => module'.got[2] = LowByte(Len(next.body)))
        BY <2>7, <3>1, <3>2, <4>1
      <4>3. Len(module'.got) = next.pos - 1
        BY <2>6, <3>1, <4>1
      <4>4. \A i \in 3..(next.pos - 1) : module'.got[i] = next.body[i - 2]
        BY <3>1, <3>2, <3>4
      <4>5. module'.escaped = next.half
        BY <1>1, <2>1, <2>2
      <4> QED
        BY <3>1, <3>2, <3>3, <4>2, <4>3, <4>4, <4>5 DEF Follows
    <3> QED
      BY <2>10, <2>12, <3>1, <3>5 DEF next
  <2> QED
    BY <2>11, <2>12
<1> QED
  BY <1>5, <1>6

\* The delimiter makes it begin.
LEMMA ModuleBegins ==
    ASSUME NEW w, Sound(w), ~Over(w), w.pos = 0, ModuleReads(NextByte(w))
    PROVE  ~Over(Advanced(w)) /\ received' = received /\ Follows(module', Advanced(w))
<1>1. /\ w.sum = 0 /\ ~w.half /\ ~Escapes(w) /\ Len(w.body) \in Nat /\ w.half \in BOOLEAN
  BY SoundParts DEF Sound, Escapes
<1>2. Advanced(w) = [body |-> w.body, pos |-> w.pos + 1, half |-> FALSE, sum |-> NewSum(w)]
  BY <1>1, AdvancedFull
<1>3. NewSum(w) = 0
  BY <1>1 DEF NewSum
<1>4. Advanced(w).pos = 1 /\ ~Advanced(w).half /\ Advanced(w).sum = 0
      /\ Advanced(w).body = w.body
  BY <1>2, <1>3
<1>5. ~Over(Advanced(w))
  BY <1>1, <1>4 DEF Over, ChecksumPos
<1>6. /\ module' = [listens |-> TRUE, escaped |-> FALSE, got |-> <<>>, sum |-> 0]
      /\ received' = received
  BY NextByteByte DEF ModuleReads
<1>7. Follows(module', Advanced(w))
  <2>1. Advanced(w).half = FALSE
    BY <1>2
  <2> QED
    <3>1. module'.listens /\ ~module'.escaped /\ module'.got = <<>> /\ module'.sum = 0
      BY <1>6
    <3>2. Len(module'.got) = Advanced(w).pos - 1
      BY <1>4, <3>1, BytesEmpty
    <3>3. ~(Advanced(w).pos > 1) /\ ~(Advanced(w).pos > 2) /\ 3..(Advanced(w).pos - 1) = {}
      BY <1>4
    <3>4. module'.escaped = FALSE
      BY <1>6
    <3> QED
      BY <1>4, <2>1, <3>1, <3>2, <3>3, <3>4 DEF Follows
<1> QED
  BY <1>5, <1>6, <1>7

LEMMA EnqueueStep ==
    ASSUME TypeOK, WriterInv, Enqueue
    PROVE  /\ received' = queued'
           /\ Over(Advanced(out)) => received' = Append(received, out.body)
           /\ ~Over(Advanced(out)) => received' = received /\ Follows(module', Advanced(out))
<1>1. /\ Sound(out) /\ ~Over(out) /\ received = queued /\ module \in ModuleStates
      /\ out.pos \in Nat /\ ModuleReads(NextByte(out))
      /\ queued' = IF Over(Advanced(out)) THEN Append(queued, out.body) ELSE queued
  <2>1. Sound(out) /\ received = queued
    BY Zenon DEF WriterInv
  <2>2. module \in ModuleStates
    BY Zenon DEF TypeOK, ModuleStates
  <2>3. /\ ~Over(out) /\ ModuleReads(NextByte(out))
        /\ queued' = IF Over(Advanced(out)) THEN Append(queued, out.body) ELSE queued
    BY Zenon DEF Enqueue
  <2>4. out.pos \in Nat
    BY <2>1, SoundParts
  <2> QED
    BY <2>1, <2>2, <2>3, <2>4
<1>2. CASE out.pos = 0
  BY <1>1, <1>2, ModuleBegins
<1>3. CASE out.pos > 0
  <2>1. Follows(module, out)
    BY <1>1, <1>3 DEF WriterInv
  <2>2. IF Over(Advanced(out))
        THEN received' = Append(received, out.body)
        ELSE received' = received /\ Follows(module', Advanced(out))
    BY <1>1, <1>3, <2>1, ModuleFollows
  <2> QED
    BY <1>1, <2>2
<1> QED
  BY <1>1, <1>2, <1>3

LEMMA WriterStep ==
    ASSUME TypeOK, WriterInv, Next
    PROVE  WriterInv'
<1>0. Sound(out) /\ frame_id_counter \in Byte /\ received \in Seq(Seq(Byte))
  <2>1. frame_id_counter \in 1..MaxFrameId /\ received \in Seq(Seq(Byte))
    BY Zenon DEF TypeOK
  <2>2. frame_id_counter \in Byte
    BY <2>1, Bounds DEF Byte
  <2>3. Sound(out)
    BY Zenon DEF WriterInv
  <2> QED
    BY <2>1, <2>2, <2>3
<1>1. CASE ReaderNext
  <2>1. UNCHANGED writerVars
    BY <1>1 DEF ReaderNext, RadioWrites, Arrives, Lost, Changed, Added, Damage
  <2> QED
    BY <2>1 DEF WriterInv, writerVars
<1>2. ASSUME NEW body \in Seq(Byte), body # <<>>, Begin(body) PROVE WriterInv'
  <2>1. /\ out' = Started(body) /\ returned' = "nothing yet" /\ Len(body) <= MaxFrameLen
        /\ UNCHANGED <<module, queued, received>>
    BY <1>2 DEF Begin
  <2>2. Sound(out') /\ out'.pos = 0
    BY <1>2, <2>1, StartedSound DEF Started
  <2>3. ~(out'.pos > 0)
    BY <2>2
  <2>4. returned' # "ok"
    BY <2>1
  <2> QED
    BY <2>1, <2>2, <2>3, <2>4, Zenon DEF WriterInv
<1>3. ASSUME NEW dest \in Dests, NEW rf_data \in RfData,
             SendTxRequest(dest, rf_data) \/ SendDataNoWait(dest, rf_data)
      PROVE  WriterInv'
  BY <1>0, <1>2, <1>3, TxRequestBytes, BytesEmpty DEF SendTxRequest, SendDataNoWait
<1>4. ASSUME NEW command \in Commands, SendAtCommand(command) PROVE WriterInv'
  BY <1>0, <1>2, <1>4, AtCommandBytes DEF SendAtCommand
<1>5. ASSUME ByteTaken PROVE WriterInv'
  <2>1. /\ Enqueue /\ ~Over(out) /\ out' = Advanced(out)
        /\ returned' = IF Over(Advanced(out)) THEN "ok" ELSE returned
    BY <1>5 DEF ByteTaken, Enqueue
  <2>2. Sound(out') /\ out'.body = out.body
    BY <1>0, <2>1, AdvancedSound
  <2>3. /\ received' = queued'
        /\ Over(out') => received' = Append(received, out.body)
        /\ ~Over(out') => Follows(module', out')
    BY <2>1, EnqueueStep
  <2>4. returned # "ok"
    BY <2>1 DEF WriterInv
  <2>5. ASSUME Over(out') PROVE received' # <<>> /\ received'[Len(received')] = out'.body
    <3>1. received' = Append(received, out.body)
      BY <2>3, <2>5
    <3> QED
      BY <1>0, <2>2, <3>1
  <2> QED
    BY <2>1, <2>2, <2>3, <2>4, <2>5 DEF WriterInv
<1>6. ASSUME ByteTakenUnstarted PROVE WriterInv'
  <2>1. Enqueue /\ out' = CutShort(out) /\ returned' = "failure"
    BY <1>6 DEF ByteTakenUnstarted
  <2> QED
    BY <1>0, <2>1, CutShortIs, EnqueueStep DEF WriterInv
<1>7. ASSUME RingFull PROVE WriterInv'
  <2>1. /\ out' = CutShort(out) /\ returned' = "failure"
        /\ UNCHANGED <<module, queued, received>>
    BY <1>7 DEF RingFull
  <2> QED
    BY <1>0, <2>1, CutShortIs DEF WriterInv
<1>8. ASSUME Transmitted PROVE WriterInv'
  BY <1>8 DEF Transmitted, WriterInv
<1> QED
  BY <1>1, <1>3, <1>4, <1>5, <1>6, <1>7, <1>8 DEF Next, WriterNext

-----------------------------------------------------------------------------
(* Types, and the theorems. *)

LEMMA WriterTypes ==
    ASSUME TypeOK, ReaderInv, WriterInv, ReaderInv', WriterInv', WriterNext
    PROVE  TypeOK'
<1>0. /\ MaxFrameId \in Nat /\ MaxFrameId >= 1 /\ RingSpace \in Nat /\ MaxCalls \in Nat
      /\ frame_id_counter \in 1..MaxFrameId /\ ring \in 0..RingSpace /\ calls \in 0..MaxCalls
  <2>1. frame_id_counter \in 1..MaxFrameId /\ ring \in 0..RingSpace /\ calls \in 0..MaxCalls
    BY Zenon DEF TypeOK
  <2> QED
    BY <2>1, Bounds
<1>1. out' \in FrameUnderWay
  BY DEF WriterInv, Sound
<1>2. UNCHANGED readerVars
  BY DEF WriterNext, SendTxRequest, SendDataNoWait, SendAtCommand, Begin, ByteTaken,
         ByteTakenUnstarted, Enqueue, RingFull, Transmitted
<1>12. ASSUME frame_id_counter' \in 1..MaxFrameId, returned' \in {"nothing yet", "ok", "failure"},
              ring' \in 0..RingSpace, calls' \in 0..MaxCalls, module' \in ModuleStates,
              queued' \in Seq(Seq(Byte)), received' \in Seq(Seq(Byte))
       PROVE  TypeOK'
  <2>1. /\ ParserOK(parser') /\ incoming' \in FrameUnderWay
        /\ intact' \in BOOLEAN /\ calm' \in 0..Horizon /\ since' \in 0..Horizon
        /\ frames' \in 0..MaxFrames /\ damage' \in 0..MaxDamage
    BY <1>2, Zenon DEF TypeOK, readerVars
  <2> QED
    BY <1>1, <1>12, <2>1, Zenon DEF TypeOK, ModuleStates
<1>13. /\ returned \in {"nothing yet", "ok", "failure"} /\ module \in ModuleStates
       /\ queued \in Seq(Seq(Byte)) /\ received \in Seq(Seq(Byte))
  BY Zenon DEF TypeOK, ModuleStates
<1>3. ASSUME NEW body, Begin(body), frame_id_counter' \in 1..MaxFrameId PROVE TypeOK'
  <2>1. /\ returned' = "nothing yet"
        /\ UNCHANGED <<ring, module, queued, received>>
    <3>1. returned' = "nothing yet"
      BY <1>3 DEF Begin
    <3>2. UNCHANGED ring /\ UNCHANGED module
      BY <1>3 DEF Begin
    <3>3. UNCHANGED queued /\ UNCHANGED received
      BY <1>3 DEF Begin
    <3> QED
      BY <3>1, <3>2, <3>3
  <2>2. calls' \in 0..MaxCalls
    <3>1. calls < MaxCalls /\ calls' = calls + 1
      BY <1>3 DEF Begin
    <3> QED
      BY <1>0, <3>1
  <2> QED
    BY <1>0, <1>3, <1>12, <1>13, <2>1, <2>2
<1>4. NextFrameId(frame_id_counter) \in 1..MaxFrameId
  BY <1>0 DEF NextFrameId
<1>5. ASSUME NEW dest \in Dests, NEW rf_data \in RfData,
             SendTxRequest(dest, rf_data) \/ SendDataNoWait(dest, rf_data)
      PROVE  TypeOK'
  BY <1>0, <1>3, <1>4, <1>5 DEF SendTxRequest, SendDataNoWait
<1>6. ASSUME NEW command \in Commands, SendAtCommand(command) PROVE TypeOK'
  BY <1>0, <1>3, <1>4, <1>6 DEF SendAtCommand
<1>7. ASSUME Enqueue
      PROVE  /\ ring' \in 0..RingSpace /\ frame_id_counter' = frame_id_counter /\ calls' = calls
             /\ module' \in ModuleStates /\ received' \in Seq(Seq(Byte))
             /\ queued' \in Seq(Seq(Byte))
  <2>1. NextByte(out) \in Byte /\ ModuleReads(NextByte(out))
    BY <1>7, NextByteByte DEF Enqueue, WriterInv
  <2>2. module' \in ModuleStates /\ received' \in Seq(Seq(Byte))
    BY <2>1, ModuleTypes DEF TypeOK, ModuleStates
  <2>3. ring' \in 0..RingSpace
    BY <1>0, <1>7 DEF Enqueue
  <2> QED
    BY <1>7, <2>2, <2>3 DEF Enqueue, WriterInv
<1>8. CASE ByteTaken
  BY <1>0, <1>7, <1>8, <1>12, <1>13 DEF ByteTaken
<1>9. CASE ByteTakenUnstarted
  BY <1>0, <1>7, <1>9, <1>12, <1>13 DEF ByteTakenUnstarted
<1>10. CASE RingFull
  BY <1>0, <1>10, <1>12, <1>13 DEF RingFull
<1>11. CASE Transmitted
  <2>1. ring' \in 0..RingSpace
    BY <1>0, <1>11 DEF Transmitted
  <2> QED
    BY <1>0, <1>11, <1>12, <1>13, <2>1 DEF Transmitted
<1> QED
  BY <1>5, <1>6, <1>8, <1>9, <1>10, <1>11 DEF WriterNext

LEMMA ReaderTypes ==
    ASSUME TypeOK, ReaderInv, ReaderInv', ReaderNext
    PROVE  TypeOK'
<1>0. /\ MaxFrames \in Nat /\ MaxDamage \in Nat /\ Horizon \in Nat /\ Noise \subseteq Byte
      /\ frames \in 0..MaxFrames /\ damage \in 0..MaxDamage
      /\ since \in 0..Horizon /\ calm \in 0..Horizon /\ intact \in BOOLEAN
      /\ ParserOK(parser)
  <2>1. /\ frames \in 0..MaxFrames /\ damage \in 0..MaxDamage
        /\ since \in 0..Horizon /\ calm \in 0..Horizon /\ intact \in BOOLEAN
        /\ ParserOK(parser)
    BY Zenon DEF TypeOK
  <2> QED
    BY <2>1, Bounds, HorizonNat
<1>1. incoming' \in FrameUnderWay
  BY DEF ReaderInv, Sound
<1>2. UNCHANGED writerVars
  BY DEF ReaderNext, RadioWrites, Arrives, Lost, Changed, Added, Damage
<1>3. ParserOK(parser')
  <2>1. ~Over(incoming) => NextByte(incoming) \in Byte
    BY NextByteByte DEF ReaderInv
  <2> QED
    BY <1>0, <2>1, ParserTypes DEF ReaderNext, RadioWrites, Arrives, Lost, Changed, Added
<1>4. /\ frames' \in 0..MaxFrames /\ damage' \in 0..MaxDamage
      /\ since' \in 0..Horizon /\ calm' \in 0..Horizon /\ intact' \in BOOLEAN
  <2>1. ASSUME NEW body \in RadioBodies, RadioWrites(body) PROVE <1>4!:
    BY <1>0, <2>1 DEF RadioWrites
  <2>2. ASSUME Arrives PROVE <1>4!:
    BY <1>0, <2>2 DEF Arrives
  <2>3. ASSUME Damage PROVE <1>4!:
    <3>1. since' = 0 /\ intact' = FALSE /\ UNCHANGED <<calm, frames>>
      BY <2>3 DEF Damage
    <3>2. damage' \in 0..MaxDamage
      BY <1>0, <2>3 DEF Damage
    <3>3. 0 \in 0..Horizon
      BY <1>0
    <3> QED
      BY <1>0, <3>1, <3>2, <3>3
  <2> QED
    BY <2>1, <2>2, <2>3 DEF ReaderNext, Lost, Changed, Added
<1> QED
  BY <1>1, <1>2, <1>3, <1>4 DEF TypeOK, writerVars

IInv == TypeOK /\ ReaderInv /\ WriterInv

LEMMA InitInv == Init => IInv
<1> SUFFICES ASSUME Init PROVE IInv
  OBVIOUS
<1>1. Horizon \in 0..Horizon /\ MaxFrameId \in Nat /\ MaxFrameId >= 1 /\ RingSpace \in Nat
      /\ MaxCalls \in Nat /\ MaxFrames \in Nat /\ MaxDamage \in Nat
  BY Bounds, HorizonNat
<1>2. TypeOK
  <2>1. 1 \in 1..MaxFrameId /\ 0 \in 0..RingSpace /\ 0 \in 0..MaxCalls
        /\ 0 \in 0..MaxFrames /\ 0 \in 0..MaxDamage
    BY <1>1
  <2>2. Silent \in FrameUnderWay
    BY SilentSound DEF Sound
  <2>3. [listens |-> FALSE, escaped |-> FALSE, got |-> <<>>, sum |-> 0]
           \in [listens : BOOLEAN, escaped : BOOLEAN, got : Seq(Byte), sum : Byte]
    BY BytesEmpty
  <2>4. <<>> \in Seq(Seq(Byte))
    OBVIOUS
  <2>5. /\ frame_id_counter = 1 /\ out = Silent /\ returned = "nothing yet"
        /\ ring = 0 /\ calls = 0
        /\ module = [listens |-> FALSE, escaped |-> FALSE, got |-> <<>>, sum |-> 0]
        /\ queued = <<>> /\ received = <<>> /\ parser = Reset
        /\ incoming = Silent /\ intact = TRUE /\ calm = Horizon /\ since = Horizon
        /\ frames = 0 /\ damage = 0
    BY Zenon DEF Init
  <2>6. frame_id_counter \in 1..MaxFrameId /\ ring \in 0..RingSpace /\ calls \in 0..MaxCalls
    BY <2>1, <2>5, Zenon
  <2>7. out \in FrameUnderWay /\ incoming \in FrameUnderWay /\ ParserOK(parser)
    BY <2>2, <2>5, ResetOK, Zenon
  <2>8. returned \in {"nothing yet", "ok", "failure"} /\ intact \in BOOLEAN
    BY <2>5
  <2>9. /\ module \in [listens : BOOLEAN, escaped : BOOLEAN, got : Seq(Byte), sum : Byte]
        /\ queued \in Seq(Seq(Byte)) /\ received \in Seq(Seq(Byte))
    BY <2>3, <2>4, <2>5, Zenon
  <2>10. /\ calm \in 0..Horizon /\ since \in 0..Horizon
         /\ frames \in 0..MaxFrames /\ damage \in 0..MaxDamage
    BY <1>1, <2>1, <2>5, Zenon
  <2> HIDE DEF ParserOK, FrameUnderWay
  <2> QED
    BY <2>6, <2>7, <2>8, <2>9, <2>10 DEF TypeOK
<1>3. ReaderInv
  <2>1. frames = 0 /\ incoming = Silent /\ parser = Reset
    BY DEF Init
  <2>2. Waiting /\ Sound(incoming) /\ ~(frames > 0)
    BY <2>1, SilentSound DEF Waiting, Reset
  <2> QED
    BY <2>2, Zenon DEF ReaderInv
<1>4. WriterInv
  BY SilentSound DEF Init, WriterInv
<1> QED
  BY <1>2, <1>3, <1>4 DEF IInv

LEMMA InvStep == IInv /\ [Next]_vars => IInv'
<1> SUFFICES ASSUME IInv, [Next]_vars PROVE IInv'
  OBVIOUS
<1>1. CASE Next
  <2>1. ReaderInv' /\ WriterInv'
    BY <1>1, ReaderStep, WriterStep DEF IInv
  <2> QED
    BY <1>1, <2>1, WriterTypes, ReaderTypes DEF IInv, Next
<1>2. CASE UNCHANGED vars
  BY <1>2 DEF IInv, TypeOK, ReaderInv, WriterInv, Waiting, Returning, vars, writerVars, readerVars
<1> QED
  BY <1>1, <1>2

THEOREM SpecInv == Spec => []IInv
BY InitInv, InvStep, PTL DEF Spec

\* The parser stays inside frame_buffer and inside the length it read, and
\* every variable keeps its type (XBeeParser_t, xbee_process_byte).
THEOREM Types == Spec => []TypeOK
BY SpecInv, PTL DEF IInv

\* A frame that comes undamaged after Horizon undamaged bytes is handed to
\* on_frame as it was written, once and alone: the parser finds its way back
\* from anything (xbee_process_byte).
THEOREM Resynchronises == Spec => []Resynchronised
<1>1. ReaderInv => Resynchronised
  <2> SUFFICES ASSUME ReaderInv, frames > 0, Over(incoming), intact, calm = Horizon
               PROVE  heard = <<FrameOf(incoming.body)>>
    BY DEF Resynchronised
  <2>1. incoming.pos # 0
    BY SoundParts DEF ReaderInv, Over, ChecksumPos
  <2>2. ~InStep(parser, incoming)
    BY DEF InStep, InPlace
  <2> QED
    BY <2>1, <2>2 DEF ReaderInv
<1> QED
  BY <1>1, SpecInv, PTL DEF IInv

\* The XBee receives exactly the frames whose last byte was queued, among
\* them that of a call that returned 0 (send_byte_escaped, UART_SendByte).
THEOREM SendsWhole == Spec => []SentWhole
<1>1. WriterInv => SentWhole
  BY Zenon DEF WriterInv, SentWhole
<1> QED
  BY <1>1, SpecInv, PTL DEF IInv
=============================================================================
