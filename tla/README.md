# A verification development for the STM32 binary communication library

The library lets a microcontroller answer requests sent over an XBee DigiMesh
radio.  Bytes move through two rings shared with the UART interrupts
(`uart_queue.c`); an XBee API parser and writer turns them into radio frames
(`xbee_api.c`); the fragment protocol cuts messages of up to 4096 bytes into
30-byte fragments and reassembles them (`fragment_tx.c`, `fragment_rx.c`); the
command layer parses a request, calls the application (`device_hal.h`) and
sends one response (`binary_com.c`).  These TLA+ modules model that code, TLC
checks them on small instances, and TLAPS proves most of the safety properties,
and the refinement of the abstract protocol, for all values of the constants.

Line numbers below refer to the sources under `src/`.

## 1. The system's parts

| part | state | operations | correct when |
|---|---|---|---|
| UART queue, `uart_queue.c` | TX and RX rings (head, tail), `tx_busy`, `tx_restart_pending`, `rx_armed`, `rx_restart_pending` | `UART_SendByte` and its callers, `UART_ReadByte`, `UART_Queue_Process`; the interrupts TxCplt, RxCplt, Error | bytes leave and are read in order, each once; nothing queued is forgotten; reception recovers after an error; a blocking send hangs only where its transmission was refused |
| XBee frames, `xbee_api.c` | parser state, escape flag, frame buffer, checksum | one byte in; one frame out, byte by byte; a TX request, an AT command | some time after damage a frame is heard exactly as it was written; a call cut short spoils no other frame; the frame buffer is never overrun |
| CRC-16, `crc16.c` | none | append, verify | the table computes CRC-16-CCITT; damage is noticed |
| fragment transmitter, `fragment_tx.c` | one session slot (id, message, next fragment, state, two timers, NACK rounds), next message id, payload size | send, tick, NACK, DONE, cancel, clear, set payload size | every transfer is reported at most once, success only after delivery; every session ends |
| fragment receiver, `fragment_rx.c` | one session slot (source, id, lengths, bitmap, buffer, two timers, NACKs sent) | a DATA frame, tick, clear | what is delivered is what was sent; fragments of different transfers never mix; NACKs ask for what is missing; an abandoned session ends |
| command layer, `binary_com.c` | current source address, the one-slot pending response, drop counter | a message from the fragment receiver, flush, `BIN_COM_Process`, `BIN_COM_Tick`, `BIN_COM_Send`, `BIN_COM_SetDestAddress` | one answer or one counted drop for each request, to the device that asked; no response overruns its buffer; an error means nothing was done |
| application, `device_hal.h` | external | the `App_*` functions | any outcome is possible |

How they interact.  `BIN_COM_Process` reads the RX ring until it is empty and
feeds the parser; every frame goes to `OnXBeeFrame`, which hands NACK and DONE
to the transmitter and DATA to the receiver; a completed message goes, still
inside that call, to `HandleBinaryPacket`, whose handler calls the application
and `frag_tx_send`.  Then the transmitter's tick runs and a waiting response is
flushed.  `BIN_COM_Tick` runs both ticks and the flush.  All of this is one
thread; only the UART callbacks interrupt it.

What is hard: interrupts at every point of the main thread; frames lost,
repeated and reordered; timeouts on both sides that must fit together; a single
session slot on each side and a single pending response; ids that come back
after a reboot or a wrap; a response that waits while other devices are heard;
handlers that fail half way.  `PROJECT.json` lists each hazard at its line with
the properties that watch it.

## 2. The modules

| module | models | remarks |
|---|---|---|
| `FragmentProtocol` | `fragment_protocol.h`: limits, slicing, frames; the radio | vocabulary of the fragment modules |
| `FragmentTx` | `fragment_tx.c`, one action per handler | one transmitter per sender |
| `FragmentRx` | `fragment_rx.c`, one action per handler | |
| `FragmentLink` | both joined by the radio as `OnXBeeFrame`, `BIN_COM_Process` and `BIN_COM_Tick` join them | safety, the inductive invariant, the refinement |
| `FragmentTransfer` | abstract specification: accept, deliver, conclude | `FragmentLink!TransferSpec` is the refinement |
| `FragmentPrompt` | `FragmentLink` with a radio faster than the pacing that loses a bounded number of fragments, but no NACK and no DONE | recovery, its inductive invariant |
| `FragmentReboot` | `FragmentLink` with transmitters that restart | |
| `FragmentTxAlone` | the transmitter answered by anything | wrapping ids, payload sizes |
| `FragmentRxAlone` | the receiver sent any DATA header, by several devices | contradictory headers |
| `FragmentFrames` | the bytes of the three frame types, their readers, the bitmap | why a damaged frame may be taken for a lost one |
| `Crc16` | `crc16.c`: table, loop, append, verify; and the CRC as polynomial division | operators only, used by `FragmentFrames` |
| `XBeeApi` | `xbee_api.c`: the escaping writer over a ring that fills, the byte-wise parser | every byte on the line |
| `UartQueue` | `uart_queue.c` and the HAL calls it relies on | main thread and interrupts |
| `BinaryCom` | `binary_com.c`: dispatch, handlers, response queue | `frag_tx` seen as its slots |
| `MCFragmentLink`, `MCFragmentPrompt`, `MCFragmentReboot`, `MCFragmentFrames`, `MCXBeeApi`, `MCBinaryCom` | model values, symmetry, inputs for TLC | |
| `FragmentHandlerProofs`, `FragmentLinkProofs`, `FragmentSettingsProofs`, `FragmentAloneProofs`, `FragmentFramesProofs`, `UartQueueProofs`, `BinaryComProofs`, `XBeeApiProofs` | theorems | section 6 |

Definitions commented "Variant" stand before the definition they are a variant
of and are used by nothing: each is a plausible mistake in that code, and
`PROJECT.json` pairs it with the property that notices it.

How the levels fit together: `UartQueue` shows that bytes queued are bytes on
the wire, in order; `XBeeApi` takes such a wire, and shows that a frame is
heard whole or not at all; `FragmentFrames` takes a frame's bytes, and shows
that what is read is what was meant, or nothing; `FragmentLink` takes frames
that are lost or whole, and shows that messages are whole; `BinaryCom` takes
whole messages.  Each level states what the one below is seen to promise; the
levels are not composed into one state space.

### State and actions of the fragment modules

`tx[n][s]` and `rx[s]` are the session structs.  A message body is an opaque
value; the bytes of a fragment are the slice `[data, off, len]` that
`send_fragment` copies, with its 16-bit `remaining`.  The reassembly buffer is a
function from fragment index to slice, so that a byte from the wrong place is a
wrong slice.  The bitmap is a set.  `HAL_GetTick() - last_...` is an age that
grows with `Clock` (`TxAge`, `RxAge`) and stops at the first value past every
limit it is compared with; the timers behave the same for every later value.
`frag_tx_tick` is `TxTick`, with `Expired`, `SendDue` and `AllSent` for its
branches in the order of the code; a NACK is `TxIgnore`, `TxNackExhausted` or
`TxNack`; a DONE is `TxIgnore` or `TxDone`.  `process_data_fragment` is
`RxData`: `PlaceFor` is its checks and the choice of a session, then
`RxIgnore`, `RxStore`, `RxLastFragment` (which sends a NACK) or `RxComplete`
(which sends DONE and delivers).  `xbee_send_data_no_wait` may refuse any frame
because the UART ring is full; the set `sent` is what it took.

The radio is a set `net`.  With `Duplicates` a frame stays in the air once it
is sent, so it can be received any number of times, in any order, or never;
without, a frame is received once or lost (`Lose`).  A frame whose CRC is wrong
is dropped by the code and is a lost frame here; `FragmentFrames` is where that
is checked on the bytes.

`accepted`, `delivered` and `outcome` are history: the calls of `frag_tx_send`
that returned an id, of `on_message` and of `on_complete`.

### State and actions of `FragmentFrames` and `Crc16`

One frame is under way at a time: `SendFragment`, `SendNack` or `SendDone`
writes its bytes, `Damage` may invert up to 16 bits in a row, `Receive` reads
it the way `OnXBeeFrame` chooses a reader: by its second byte, before any CRC
is checked.  `session` and `received` are the receiver's bitmap and what it
should say; `Store` marks a fragment, and a NACK is assembled from the bits,
while `sent` keeps what it should say, the fragments not stored.  A message is a
function from positions to bytes, of which a fragment is sent a slice.
`Crc16` has the table of the source, entry by entry, and beside it the
remainder of a polynomial division by x^16 + x^12 + x^5 + 1 that uses neither
table nor shift.  `XorByte` adds bit by bit; the loops of `crc16_compute`,
`Remainder` and `MissingFragments` are recursive functions.

### State and actions of `XBeeApi`

The writer's call is a frame record `out`: the body, the position of the byte
that comes next, whether that byte is half way through its escape pair, and the
running sum.  `NextByte` and `Advanced` are `send_byte_escaped` and its callers
for any position.  A byte is taken (`ByteTaken`), taken although the HAL does
not start (`ByteTakenUnstarted`, the -2 of `UartQueue`), or refused by a full
ring (`RingFull`); the last two end the call in the middle of the frame
(`CutShort`).  The XBee reads each byte as it is queued, since `UartQueue`
keeps their order, and the ring is only a fill count that `Transmitted` lowers.
When the very last byte meets a -2 the frame is whole on the line although the
call fails, so that a caller who repeats it sends the frame twice: `SentWhole`
compares what is received with what was `queued`, and asks of a call that
returned 0 that its frame is the last received.

The parser is `xbee_process_byte`, one action per branch of its `switch`, and
is fed the bytes of frames an XBee writes (`RadioWrites`), of which some are
lost, changed or joined by others.  It does not start over at a raw start
delimiter in mid-frame: bytes that follow a damaged length are taken as its
data, the next frame's delimiter among them.  What it needs to recover is
`Horizon`, twice the longest frame in bytes: the most that a bad length can
swallow when every byte comes escaped, 518 bytes with the real limits, which at
this protocol's frame sizes is about ten good frames after one lost byte.  The
fragment layer sees the frames in between as lost.

### State and actions of `UartQueue`

The main thread's place is `main`; every access to a variable an interrupt
shares is a step of its own, and the HAL callbacks run whole between any two.
The HAL accepts or refuses a start (up to `MaxRefusals` without a reason of its
own); `tx_ring` and `rx_ring` hold byte numbers.  `UART_SendByte` returns when
the HAL refuses, with the byte already in the ring and `tx_restart_pending`
set.

Two steps are merged where no interrupt can tell: a byte is put in its slot and
the head moved (lines 122 and 123), and a byte is taken and the tail moved
(lines 189 and 190).

Two windows of the main thread break the order of the TX ring or its flags:

- between `ctx->tx_buffer.head = next_head` (line 123) and the test of
  `tx_busy` (line 126), for the TxCplt that ends that very byte: the main
  thread then starts a ring that is empty, and the next TxCplt moves the tail
  past the head, so that the whole stale ring is sent;
- between `HAL_UART_Transmit_IT` returning and `tx_busy = 1` (line 49): when the
  byte completes in between, the flag stays set with nothing in flight, and
  nothing that is queued later is ever started.

A single byte takes 87 microseconds at 115200 baud, so both need another
interrupt, or a higher baud rate, to hold the main thread up; they are rare,
not impossible.  With `Preemptible = TRUE` TxCplt may fall into them
(`MCUartBlocking`); with `Preemptible = FALSE` it is kept out (`TxWindow`), and
what `MCUart` says of transmission is said under this proviso.

The receive interrupts fall anywhere, and this is not a rarity: with reception
off and the receiver on, an overrun is usually flagged by the time
`HAL_UART_Receive_IT` enables its interrupt, and is reported at once.  When that
happens in the main thread before lines 34 and 35, `rx_restart_pending = 0`
wipes the request to start again: the receiver is deaf for good, with `rx_armed`
set.  `UART_Queue_Init` starts reception the same way, so the model begins with
its call having returned and these lines still to come.
`RxForgottenInWindowOnly` says that nothing else makes the queue forget the
receiver; it does not say that this does not happen, for it does.

Two more ways to stop for ever need no window:

- `UART_Queue_Process` alone takes up a reception that an overrun or a refused
  start ended, and a transmission that was refused, but nothing in the library
  calls it, and neither does the main loop of `README.md:94`.  What is said of
  recovery is therefore conditional on the calls of the application.
- `UART_SendStringBlocking` does not call it either.  When the ring is full,
  the restart in TxCplt refused, and the start of the byte that then fills the
  freed slot refused too, the next blocking send spins on a full ring with
  nothing in flight, at any interleaving and for any ring size.
  `WaitsOnlyForRefused` says that it hangs in that state only.  (`WaitEnds` in
  place of it fails in `MCUart`, and holds there with `MaxRefusals = 1`.)

### State and actions of `BinaryCom`

A handler is the list of its checks and application calls in the order of the
code; the first that fails gives the error code, and `changed` is what had been
done by then.  Messages are reduced to address, code and size.  `frag_tx` is the
set `sessions` of messages that occupy a slot: a message enters by
`frag_tx_send` and leaves at any time while a DONE or NACK is handled
(`TransferEnds`) or at a tick.  That every message does leave is
`FragmentTxAlone!TxSessionEnds`, and is assumed here; when it leaves is not.  A message
that arrives is handled inside `BIN_COM_Process` (`in_process`).  Besides
requests, responses of another device that runs this library arrive
(`AsRequest`): `HandleBinaryPacket` does not tell one from the other, and reads
the length of a response one byte off.

## 3. The runs

| run | what it asks | distinct states |
|---|---|---|
| `MCLinkSafety` | types, the inductive invariant, integrity, success, one outcome, sessions, and the refinement of `FragmentTransfer`; two transfers one after the other | 223,232 |
| `MCPrompt` | prompt radio, up to as many lost fragments as NACK rounds: every transfer succeeds, and leaves the slot free | 409 |
| `MCReboot` | parts of a delivered message are genuine across a reboot | 272,465 |
| `MCTxAlone` | the transmitter against any reply: types, why it waits, that it stops | 16,575 |
| `MCRxAlone` | the receiver against any header from two devices that use one id: sessions, NACKs, that sessions end | 100,633 |
| `MCUart` | order and exclusion in the rings, what is remembered of a restart, draining, recovery, blocking send | 180,086 |
| `MCCom` | the response queue with two devices, every handler on either side of each limit, responses taken for requests | 148,024 |
| `MCXBeeApi` | writer against a ring that fills, parser against a damaged byte | 84,435 |
| `MCFragmentFrames` | every byte written is read back or the damage is noticed; the CRC table | 251,559 |
| `MCLinkWaitingDone` | violation, section 5 | 300 until found |
| `MCRebootSplice` | violation, section 5 | 3,757 until found |
| `MCUartBlocking` | violation, section 5 | 130 until found |

The longest, `MCLinkSafety` and `MCRxAlone`, take two to three minutes with two
workers.

### Bounds, and why they are enough

- Fragment runs use `MaxPayload = 2` bytes and messages of 1 and 3 bytes: one
  fragment, and two of which the last is short.  That distinguishes first,
  last, only and short fragments.  `MCPrompt` adds three fragments (5 bytes) and
  NACKs with two indices, so that several losses fall in one round or across
  rounds.
- `MaxMsgId` bounds the transfers (`Send` stops one before the wrap), so one to
  two transfers follow each other with frames of the earlier still in the air.
  The wrap itself is `MCTxAlone`'s, with `MaxMsgId = 2` and no bound.
- `MaxNackRounds = 1`: the round that is answered and the round that gives up.
  `MaxNackIndices = 1`: with two fragments missing the list is cut.
- `FragTimeout = 0`, `SessionTimeout = 1`, `SendDelay = 0` in clock units: what
  matters to safety is which comparisons can hold together, and these values
  allow each of them to hold and to fail.  `MCPrompt` keeps the ratios that
  matter there: the transmitter waits for twice `FragTimeout`, fragments are a
  `SendDelay` apart, and a session outlives the sending and all NACK rounds, to
  the tick (`SessionTimeout` is the least that `PromptAssumption` admits).
- `MCRxAlone`: two slots, and two devices that both use id 1; payloads of 0, 1
  and 2 bytes with `MaxPayload = 1`, so that one is too long; counts of 3 and
  4, of which one is too large; after one delivery no more frames come, so that
  a session has to end by itself.
- `MCReboot` loses frames in steps of their own (`Duplicates = FALSE`); the
  splice needs a session left over, not a duplicate.
- Rings of 3 slots (two bytes) wrap and fill with 4 bytes in each direction.
  Two refused starts are what it takes to leave a full ring with nothing in
  flight; two line errors follow one recovery with another.
- `MCXBeeApi`: bodies of up to 16 bytes with every byte that needs escaping in
  an address, in data and as a checksum; a ring of four bytes, which every
  frame overfills; four frames of the XBee and one damaged byte, which turns
  into a delimiter, an escape, a zero or a short length.  A damaged length
  below `MaxFrameLen` swallows frames, one above is refused.
- `MCFragmentFrames`: the real `MaxPayload`, `MaxMessageSize` and bitmap, ids
  and indices on both sides of a byte boundary, every byte value in a fragment
  so that the whole table is used, and bursts of each kind at every bit of a
  frame.  `MaxNackIndices = 4` instead of 20 so that the list is cut with few
  fragments stored.  Messages are of one byte value throughout, or of
  different ones; a message of arbitrary bytes is the proof's.
- `MCCom` has three workloads, chosen at the start.  Queue: three requests of
  two devices fill the transmitter, fill the queue and find it full, and a call
  of `BIN_COM_Send` or `BIN_COM_SetDestAddress` can fall anywhere between.
  Limits: one request with every length on either side of the real limits
  (4096, 128, 512, 32, 64); handlers do not depend on earlier ones.  Peer: two
  requests and responses of lengths around the multiples of 256, where the
  misread length comes nearest to the right one.  With a bounded number of
  requests a response is overtaken a bounded number of times; that it can
  be for ever is in the property.
- Bodies are symmetric in the safety runs (`SYMMETRY`); no run with a liveness
  property uses symmetry.
- Deadlock is checked in every run but `MCXBeeApi` and `MCFragmentFrames`,
  which stop when the bounded number of calls and frames is used up, or after
  the one fragment.

### Fairness

- `FragmentPrompt`: the main loop calls the ticks, frames in the air are
  received or lost, and the clock runs.
- `FragmentTxAlone`, `FragmentRxAlone`: the tick and the clock happen again and
  again although other calls come between; nothing is assumed of replies, or of
  the UART taking a frame.  Strong fairness is needed only
  because a step waits until the frames of the previous one are gone, which
  other steps can spoil for ever in the model and not in the code.
- `UartQueue!FairSpec`: the main thread goes on within a call, and a byte being
  transmitted completes.  Nothing is assumed of what arrives or of what the
  application calls; `TxDrains` and `RxRecovers` have as hypotheses that it
  calls `UART_Queue_Process` again and again (`ProcessCalled`), and the second
  also that it pauses in sending (`SendingStops`).  The HAL refuses a bounded
  number of starts.
- `BinaryCom!Fairness`: `BIN_COM_Process` is called again and again and returns
  (it reads bytes faster than they arrive), and a transfer under way ends some
  time.  When, and what is handled between its end and the next flush, is left
  open.

## 4. The properties

Integrity (`FragmentLink!Integrity`) is the heart: whatever the radio does, a
delivered message is, byte for byte, one a transmitter accepted.
`SessionMatchesTransfer` says it of a session half way, and that the metadata
check never refuses a fragment of its own transfer.  `SuccessMeansDelivered` and
`OneOutcome` are about what the sending application is told.  `TransferSpec`
puts them together as a refinement of a specification without fragments.
`TxSessionEnds` and `RxSessionEnds` say that the only slot of either side is
not lost, whatever the other side does; `EveryTransferSucceeds` says the timeouts fit together.
`SessionsSound`, `SessionKeepsItsParts` and `NacksHonest` hold of the receiver
even when the headers it is sent contradict each other.

`Resynchronised` and `SentWhole` are what the fragment layer needs of the XBee
frames: a frame is heard as it was written once the parser has had `Horizon`
good bytes, and what a cut call leaves on the line is never taken for a frame
or joined to the next.  `ReadBack`, `DamageNoticed` and `CrcRight` are the same
one level up, for the fields, the NACK's list and the CRC.  `DamageNoticed` is
about up to 16 inverted bits in a row, what a CRC of 16 bits guarantees; damage
of other shapes passes one time in 65 536.

`OneAnswerEach`, `RepliesToAsker`, `PendingKept` and `PendingFlushed` are about
the one-slot queue: nothing is lost uncounted, nothing is answered to the wrong
device, and a response waits for ever only if other messages take the slot
before it for ever.  `ErrorMeansUnchanged` tells a host what an error means, and
`NoPhantomCommand` that a response never runs a command at a device that takes
it for a request.

What the protocol does not promise, and `FragmentTransfer` therefore allows: a
lost DONE makes the transmitter report a failure for a message that was
delivered, since a completed session is forgotten; and late duplicates of a
completed message open a new session and may deliver it, and run its command,
once more.  Nor does the command layer keep two devices that run this library
from answering each other's errors with errors for ever: each is harmless
(`NoPhantomCommand`), and nothing ends the exchange but a lost frame.

## 5. Disagreements between the code and what it says of itself

Three are checked, each by a run whose property is the sentence quoted:

1. `MCLinkWaitingDone`, `fragment_tx.c:299`.  A NACK moves a session that is
   still sending to WAITING_DONE ("All fragments sent, waiting for DONE",
   `fragment_tx.h:26`); the rest of its fragments go out only if the receiver
   asks for each of them, and the transfer can fail for want of NACK rounds.
   What does hold is `WaitingDoneCause`.
2. `MCRebootSplice`, `fragment_tx.c:136`.  After a reboot ids ("unique per
   transfer", `fragment_protocol.h:85`) start at 1 again: the receiver can
   splice an old and a new message of one length.  `MCReboot` checks what is
   left: each part is genuine.
3. `MCUartBlocking`, `uart_queue.c:49`.  The second window above: a blocking
   send waits for ever for a transmission nobody started.

Others were met while modelling and need no model to see:

- any payload size but 30, which `fragment_tx.h:117` offers, makes fragments
  whose place the receiver computes with 30 (`fragment_rx.c:260`); above 30 they
  exceed the frame buffer of `send_fragment` and the receiver refuses them;
- the main loop of `README.md:94` never calls `UART_Queue_Process`, which alone
  starts reception again after an overrun (`RxRecovers` has it as a hypothesis);
- an overrun flagged before reception is enabled makes line 35 of
  `uart_queue.c` wipe the request to start again, in `UART_Queue_Init` as well
  as later, and a blocking send can hang after two refused starts (section 2);
- the address `BIN_COM_SetDestAddress` sets (`binary_com.h:205`) lasts until
  the next message overwrites it (`binary_com.c:1147`);
- a request handled after the DONE and before the flush of the same
  `BIN_COM_Process` takes the transmitter from the response that waits
  (`binary_com.c:302`), and the next one may do so again; the waiting one is
  sent when no more overtake it (`PendingFlushed`);
- a PING with a host time sets the clock and then answers an error when
  `App_Ping` fails (`ErrorMeansUnchanged` excepts it by name).


## 6. What is proved

For any sets of senders, devices and bodies, any lengths, limits, timeouts, ring
sizes and numbers of session slots that the modules' named assumptions admit,
and for a radio that loses, repeats and reorders:

| theorem | statement |
|---|---|
| `FragmentLinkProofs!TypeCorrect` | `Spec => []TypeOK` |
| `FragmentLinkProofs!Invariance` | `Spec => []IndInv` |
| `FragmentLinkProofs!IntegrityHolds` | `Spec => []Integrity` |
| `FragmentLinkProofs!SuccessIsDelivery` | `Spec => []SuccessMeansDelivered` |
| `FragmentLinkProofs!ReportedOnce` | `Spec => []OneOutcome` |
| `FragmentLinkProofs!SessionsMatch` | `Spec => []SessionMatchesTransfer` |
| `FragmentLinkProofs!Refinement` | `Spec => TransferSpec`: the link implements `FragmentTransfer` |
| `FragmentSettingsProofs!PartsAreGenuine`, `RebootSuccessIsDelivery` | `PartsGenuine` and `SuccessMeansDelivered`, whatever transmitters reboot |
| `FragmentSettingsProofs!SlotIsFree` | `PromptSpec => []SlotFreeForNext`: after a transfer the receiver's slot is free |
| `FragmentAloneProofs!TxTypes`, `WaitingDoneHasCause` | `TxTypeOK`, `WaitingDoneCause` of the transmitter, whatever it is answered |
| `FragmentAloneProofs!RxTypes`, `SoundSessions`, `PartsKept`, `HonestReports` | `RxTypeOK`, `SessionsSound`, `SessionKeepsItsParts`, `NacksHonest` of the receiver, whatever it is sent |
| `UartQueueProofs!TypeCorrect`, `ReadInOrder`, `ReceptionRemembered` | `TypeOK`, `ReadsInOrder`, `RxForgottenInWindowOnly`, wherever interrupts fall |
| `UartQueueProofs!TransmittedInOrder`, `NoSecondStart`, `NothingForgotten` | `WireInOrder`, `BusyWhileInFlight`, `TxNotForgotten`, given `~Preemptible` |
| `BinaryComProofs!TypeCorrect`, `EveryRequestCounted`, `RightRecipient`, `BufferHolds`, `ErrorsChangeNothing`, `NoPhantoms`, `QueueKept` | `TypeOK`, `OneAnswerEach`, `RepliesToAsker`, `NoOverrun`, `ErrorMeansUnchanged`, `NoPhantomCommand`, `PendingKept` |
| `XBeeApiProofs!Types`, `Resynchronises`, `SendsWhole` | `TypeOK` (the parser never writes past its buffer), `Resynchronised`, `SentWhole` |
| `FragmentFramesProofs!ReadsBack`, `DamageIsNoticed`, `CrcIsRight` | `ReadBack`, `DamageNoticed` and `CrcRight`, for every message, every NACK and every burst of up to 16 bits |

### From which assumptions

Only the named ones of the modules.  `LimitsAssumption` and `TxAssumption`:
limits are naturals, those of the code that cannot be zero are positive,
`MaxPayload` lies between the clamps.  `AddressAssumption`: the receiver and the
broadcast address are not senders.  `RxAssumption`: there is a slot.
`LinkAssumption`, `TxAloneAssumption`, `RxAloneAssumption` and
`UartAssumption`: the bounds are naturals and the inputs have their types.
`RebootAssumption`: the number of reboots is bounded, by any natural.
`PromptAssumption`: frames are lost only in steps of their own, the receiver
waits at least a tick (`FragTimeout >= 1`), and a session lives through the
sending of the longest message and every NACK round, as with 30000 ms against 137 fragments every 30 ms and 10 rounds of
500 ms (about 9.6 s).
`XBeeAssumption`: a length and a frame id fit their fields, the ring holds a
byte, the application's and the radio's frames are of bytes, and no frame of
the radio is longer than the parser takes.
`ComAssumption`: the transmit buffer is larger than the longest response of
fixed form, and not larger than 65280 bytes; the second is what `NoPhantoms`
needs.  `FramesAssumption`: ids, lengths and indices fit the fields of a frame,
the fragments of the longest message fit the bitmap, and a message consists of
bytes.  `InputAssumption`: the types of the inputs, and that a response fits the
buffer of the device that sent it.  TLC evaluates each on the values of a run.

### The link

None of the properties is inductive by itself.  Two layers make them so.

`TruthInv` is what no reuse of an id can spoil, and is inductive alone:

- `TxMatchesTransfer`, `DefaultPayloadSize`: a session sends an accepted
  message, cut at the size the receiver assumes.
- `FramesTruthful`: a DATA frame in the air is a fragment of an accepted
  message, a DONE is about a delivered one.  It carries the facts from one side
  to the other, however long a frame is on the way.
- `SuccessMeansDelivered`: the last link of that chain.

`IndInv` adds what rests on ids that name one message:

- `IdsUnique`: an id below `next_msg_id` names one accepted message, others
  name none.  This is where `Send` stopping before the wrap is used, and what a
  reboot breaks.
- `TxSlotsDistinct`, `OutcomesFinal`, `OneOutcome`: no two sessions have one
  id, and a reported transfer has no session, so that a late NACK or DONE finds
  nothing.
- `SessionMatchesTransfer`: by the frames' truth and the uniqueness of ids, a
  fragment that is put into a session is of the message the session is for;
  when the last is stored, all parts are right, which is `Integrity`.

`FragmentHandlerProofs` has what every proof about the fragment modules shares:
the type each handler leaves its session in.  `FragmentLinkProofs` lifts that to
the link and goes action by action.  Three lemmas spare each step its cases:
`SessionsOnlyEnd` (a step that only ends sessions keeps all that is said of
them), `SessionsGoOn` (a handler that keeps a session keeps its message) and
`ReceiveDataStores` (what any branch of `process_data_fragment` may put into a
session is the fragment it was handed).  `MCLinkSafety` checks `IndInv` as an
invariant.

The refinement needs only `IndInv`.  A call of `frag_tx_send` that is taken is
the abstract `Accept`; the fragment that completes a session is `Deliver`, of
the accepted message that `SessionMatchesTransfer` says the parts make up; a
DONE, an expired session and an exhausted NACK are `Conclude`, of a transfer
`OutcomesFinal` says is still open.  Every other step leaves the history alone
and is `Invisible`.

### Reboots

`RebootInv` is `TruthInv` and, instead of one message for each session, a
message for each of its parts.  A reboot forgets sessions and ids but not what
was accepted, so that every frame in the air stays true (`RebootTruth`); a
fragment that is stored is then genuine at its index, although the session may
be another message's.  What is lost with `IdsUnique` is only that the parts
belong together, which is what `MCRebootSplice` shows.  `SuccessMeansDelivered`
survives, but the delivered message it promises may be an earlier one of the
same id: a DONE from before the reboot ends a session begun after it.

### One prompt transfer

`SlotFreeForNext` speaks of the moment a transfer is over, and what makes it
true is the timing of everything before: that the transmitter never gives up,
by its age, by its patience or by the count of NACK rounds, while the receiver
still holds a session.  `PromptInv` is `IndInv` and the description of the one
transfer under way, `InFlight(n, t, r, air)`, where `t` is the transmitter's
session, `r` the receiver's, and `air` the frames between them:

- `Sending`: fragments go out a `SendDelay` apart, so that the age of `t` is
  bounded by the number of those sent; `Waiting`: since then, by the NACK rounds
  it served, each no longer than `FragTimeout + 1`.  A
  constant bound on the age would not be inductive; this one grows with what was
  done, and `LivesOn` turns it into `SessionTimeout`.
- `InStep`: the receiver has counted at least the NACK rounds the transmitter
  has, and a session that is still sending has been asked for nothing.
- what is in the air is one of three: fragments the receiver lacks (`D`), one
  NACK for fragments it lacks, or the DONE of a session it has freed.  While
  nothing is, the transmitter has not waited longer than the receiver has, which
  is why `2 * FragTimeout` is enough.  The invariant has to say that all
  fragments of a round reach a session before it completes: one that came after
  the DONE would open a session nobody ends.

The lemmas are about the values (`TickedFlight`, `RxTickedFlight`, `AgedFlight`,
`DroppedFlight`, `StoredFlight`, `LastFlight`, `CompleteFlight`,
`RetriedFlight`), one per thing that can happen to the pair; the steps of the
specification are then reduced to them by `FlightNext`.  That the receiver may
give up in between is part of the invariant: the proof does not use the bound on
the losses, which only the liveness property of the run needs.

### The transmitter and the receiver alone

`WaitingDoneCause` follows from the types and `Paced`: a session never has more
fragments sent than it has, and waits for a DONE only when all are sent or a
NACK came.

`SessionsSound` is inductive once the types hold and what is in the air are
frames.  That a NACK asks for the first missing fragment, and that a search
finds a slot when there is one, rests on `LeastElement`: a set of naturals that
is not empty has a least one.  It is derived from the library's theorem that
the order of the naturals is well founded, which speaks of a relation and not
of a predicate.

### The UART queue

A ring is the sequence of its `Contents` from tail to head, modulo the size;
`PushWhole` and `PopWhole` say that a byte written at the head, and then
published, is appended, and that moving the tail drops the first.  `WireInOrder`
and `ReadsInOrder` are then about sequences.  The flags have an invariant of
their own, `TxSound`: `tx_busy` is set only while a byte is in flight or the
main thread is about to start one, and it starts only what waits in the ring.
It does not need the order of the bytes, which is proved from it.

The three theorems given `~Preemptible` cannot be had without it: each fails in
one of the two windows of `TxWindow`.  `ReadInOrder` and `ReceptionRemembered`
need no such proviso; the second goes through the steps that end a reception
and finds the request to start again in each, but for line 35.

### The command layer

`ComInv` has four parts: the types; `Slots` (as many transfers as slots, at most
one response waiting); `Counted` (responses made and drops counted are as many
as requests handled); `Answers` (every response answers a request that was
handled, goes to the device that sent it, and says of it what happened).
`RunSound` is about the handlers: a call that changes more than the clock is
the last step that can fail, so that an error found by then means nothing
changed.  It is proved of the list of steps of each command.  `NoPhantoms`
rests on `ResponseLengthWrong`: the length of a response, read one byte off, is
256 times the right one and more, and would agree with it modulo 65536 only at
65285 bytes, beyond the buffer.

### The bytes of a frame and the CRC

`FragmentFrames` computes with loops over bytes, and the theorems about
induction and recursive definitions that the library has cannot be used, since
they take a predicate or an operator for a parameter.  Two lemmas about sets and
functions stand in for them: `Induction` (a set that has 0 and with each number
the next has all of them), from `LeastElement`, and `LoopExists` (a loop whose
round is a function has values).  From the second follows that
`crc16_compute`, `Remainder` and `MissingFragments` are what their rounds say
(`ComputeUnfolds`, `RemainderUnfolds`, `MissingFragmentsBegin`).

`CrcIsRight` compares two such loops round by round (`StepRight`).  `TableRight`
says that entry k of the table is the remainder of k times x^16.  The 256
entries are not checked one by one against the division: an entry with an even
index is the shift of the one at half of it, and an odd one differs from the one
before by the generator, and that these 255 relations hold of the numbers of the
source is arithmetic the solver does (`TableRows`).  Everything else is that
multiplication by x and addition of polynomials commute (`TimesXPlus`).

For `DamageIsNoticed`, two frames of a length that are both verified leave
nothing each (`VerifiedIsZero`), so that their difference leaves nothing
(`DifferenceLoop`).  A burst of up to 16 bits lies in three neighbouring bytes;
the remainder of zeroes is nothing and only nothing times x is nothing
(`TimesXZero`), so that the zeroes before and after do not matter
(`ThreeBytes`), and the three bytes are a number below 2^16 times a power of x,
whose remainder is not nothing (`BurstRest`).  The bytes of the CRC need no case
of their own.

`ReadsBack` has the invariant `FramesInv`: a bit of the bitmap is set exactly
when the fragment is stored (`MarkMarks`: setting a bit changes no other), and
the bytes under way are verified and read as what was meant, or damaged and not
verified.  Why each of the frames reads as it was written is `DataReads`,
`NackReads` and `DoneReads`, field by field.

### The XBee frames

The reader's invariant has three cases.  The parser is `InStep` with the frame
that is being written (its state, its data and its sum are those of the bytes
before `pos`), or it waits at a frame's beginning, or it is `Returning`: the
undamaged bytes since the last damage and the bytes it may still swallow
(`Left`, two for each place of the frame it believes in) are together at most
`Horizon`.  Every undamaged byte makes `Left` smaller by one (`Nearer`), so that
after `Horizon` of them it waits; and a parser that waits is not moved by the
rest of a frame, in which a delimiter is always escaped (`KeepsWaiting`).  From
then on it reads each byte where it was written (`ReadsAlong`), and the checksum
is the complement of what it added up.

The writer's invariant is that the XBee `Follows` the frame under way or does
not listen to its rest: a cut frame stays shorter than its length says until the
next delimiter makes the XBee start over.  What an escaped frame is, is said by
position and not by recursion over the body, which is what brings both proofs
within the prover's reach.

## 7. What is model-checked only, and what is not modelled

Model-checked only:

- everything that rests on fairness, which is beyond the prover:
  `EveryTransferSucceeds`, `TxSessionEnds`, `RxSessionEnds`, `TxDrains`,
  `RxRecovers`, `WaitsOnlyForRefused`, `PendingFlushed`.

Every invariant and every action property of a passing run is proved.

TLC's instances of the link have one sender.  More are covered by the proofs,
which are for any number, and at the receiver by `MCRxAlone`.

Not modelled:

- statistics, log callbacks, LEDs, error counters, error texts, the contents of
  strings, and the queries that change nothing (`frag_tx_get_state`,
  `BIN_COM_IsTxBusy`, ...);
- the fields of a parsed XBee frame that nothing in the library reads;
- `BIN_COM_Tick` from a timer interrupt, which its comment (`binary_com.h:200`)
  allows: it would cut into handlers that share the sessions with it.  The
  models call it from the main loop, as the README's example does;
- the `App_*` functions of `device_hal.h`, which the firmware supplies, but for
  their outcomes;
- the composition of the levels in one state space.

## 8. Plan of what is left

1. `BinTick`: `BIN_COM_Tick` from a timer, cutting into `frag_rx_process` and
   `frag_tx_tick`, at the granularity `UartQueue` has.
2. `ComPair`: two `BinaryCom` devices joined by `FragmentTransfer`, with a host
   that repeats a request whose transfer was reported a failure.
3. Runs of the link with more than one session slot on each side, which the
   limits of `fragment_protocol.h` allow for; the build has one, `MCRxAlone` two,
   and the proofs are for any number.
