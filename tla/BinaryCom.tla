----------------------------- MODULE BinaryCom -----------------------------
(* Src/binary_com.c: requests in, one handler per command, one response     *)
(* each, sent through frag_tx or parked in the one-slot pending queue while *)
(* frag_tx is busy.                                                         *)
(*                                                                          *)
(* Addresses, lengths and outcomes are kept, contents and error texts are   *)
(* not.  The App_* functions (Inc/device_hal.h) are external: which of them *)
(* succeed, and how much they return, is chosen freely.  frag_tx is seen as *)
(* its slots: a message occupies one until its transfer ends, for whatever  *)
(* reason (FragmentTx has the reasons).                                     *)
EXTENDS Naturals, Sequences, FiniteSets

CONSTANTS
    Addresses,       \* 64-bit XBee addresses of the devices that ask
    Requests,        \* the requests they send
    PeerResponses,   \* the responses they send: [cmd, status, n], n bytes of payload
    AppAnswers,      \* what the application may answer
    BufferSize,      \* BIN_TX_BUFFER_SIZE = FRAG_MAX_MESSAGE_SIZE (4096)
    PathMax,         \* APP_PATH_MAX_LEN (128)
    ContentMax,      \* APP_CONTENT_MAX_LEN (512)
    MaxMotors,       \* APP_MAX_MOTORS (32)
    MaxFiles,        \* APP_MAX_FILES (64)
    NumTxSessions,   \* FRAG_MAX_TX_SESSIONS (1)
    MaxRequests,     \* BOUND: requests that arrive
    MaxSends         \* BOUND: calls of BIN_COM_Send and BIN_COM_SetDestAddress

ASSUME ComAssumption ==
    /\ BufferSize \in Nat /\ PathMax \in Nat /\ ContentMax \in Nat
    /\ MaxMotors \in Nat /\ MaxFiles \in Nat /\ MaxRequests \in Nat /\ MaxSends \in Nat
    /\ NumTxSessions \in Nat \ {0}
    /\ BufferSize > PathMax + ContentMax + 10 /\ BufferSize > 17 * MaxMotors + 7
    /\ BufferSize > 17 /\ BufferSize <= 65280

ASSUME InputAssumption ==
    /\ Requests \subseteq
          [source : Addresses, target : STRING, cmd : STRING, len : Nat,
           total : Nat, date : BOOLEAN, action : STRING, path : Nat, content : Nat]
    /\ PeerResponses \subseteq [cmd : STRING, status : {0, 1}, n : 1..(BufferSize - 6)]
    /\ AppAnswers \subseteq
          [succeeds : SUBSET STRING, fails : BOOLEAN, count : Nat,
           listing : Nat, bad_entry : BOOLEAN, content : Nat]

VARIABLES
    in_process,           \* BIN_COM_Process is in xbee_process
    current_source_addr,
    sessions,             \* the messages that occupy a slot of frag_tx
    pending,              \* {the response in pending_tx_buffer}, if valid
    tx_busy_drop_count,
    handled,              \* history: handled[n], the n-th request answered
    started,              \* history: the messages frag_tx_send accepted
    sends                 \* counter of the bound

vars == <<in_process, current_source_addr, sessions, pending,
          tx_busy_drop_count, handled, started, sends>>

NoAddress == "none"

Calls == {"SetHostDateTime", "Ping", "GetPingStatus", "Move", "Motion",
          "PowerControl", "GetFile", "SaveFile", "VerifyFile"}

\* The calls that change the device.
Changing == {"SetHostDateTime", "Move", "Motion", "PowerControl", "SaveFile"}

Codes == {"OK", "UNKNOWN", "INVALID_INPUT", "UNKNOWN_CMD", "INVALID_PARAM",
          "FILE_NOT_FOUND", "MOTOR_NOT_FOUND", "RESPONSE_TOO_LARGE"}

\* n = 0: not a response but a message of the application.
Messages == [n : Nat, dest : Addresses, code : Codes, size : 1..BufferSize]

TypeOK ==
    /\ in_process \in BOOLEAN
    /\ current_source_addr \in Addresses \cup {NoAddress}
    /\ sessions \subseteq Messages /\ Cardinality(sessions) <= NumTxSessions
    /\ pending \subseteq Messages /\ Cardinality(pending) <= 1
    /\ tx_busy_drop_count \in Nat
    /\ handled \in Seq([source : Addresses, misread : BOOLEAN,
                        changed : SUBSET Changing, size : Nat])
    /\ started \subseteq Messages

\* BIN_COM_Init
Init ==
    /\ in_process = FALSE
    /\ current_source_addr = NoAddress
    /\ sessions = {} /\ pending = {} /\ tx_busy_drop_count = 0
    /\ handled = <<>> /\ started = {} /\ sends = 0

-----------------------------------------------------------------------------
(* Definitions commented as "Variant" are not used: each is the definition  *)
(* that follows it with a bug a property is there to notice.                *)

(* Handlers.  A handler is a list of things that must succeed in turn, each *)
(* with the error code of its failure: checks of the request, and calls of  *)
(* the application.  reply.changed names the calls that changed the device. *)

ReqHeader == 5    \* BIN_REQ_HEADER_SIZE
RespHeader == 6   \* BIN_RESP_HEADER_SIZE

Reply(payload_len) == [code |-> "OK", size |-> RespHeader + payload_len]

\* SendErrorResponse: CMD_ERROR with the code and, here, no text.
Error(code) == [code |-> code, size |-> RespHeader + 2]

Check(holds, code) == [pass |-> holds, code |-> code, call |-> {}]

Call(app, f, code) == [pass |-> f \in app.succeeds, code |-> code, call |-> {f}]

\* The reply of a handler whose steps are `steps`.
Run(steps, reply) ==
    LET failed == {i \in DOMAIN steps : ~steps[i].pass}
        passed == {i \in DOMAIN steps : \A j \in failed : i < j}
        first  == CHOOSE i \in failed : \A j \in failed : i <= j
    IN  [reply   |-> IF failed = {} THEN reply ELSE Error(steps[first].code),
         changed |-> Changing \cap UNION {steps[i].call : i \in passed}]

\* q.date: ParsePingHostDateTime likes the fields.
HandlePing(q, app) ==
    Run((IF q.len = 0 THEN <<>>
         ELSE <<Check(q.len = 12 /\ q.date, "INVALID_INPUT"),
                Call(app, "SetHostDateTime", "INVALID_PARAM")>>)
        \o <<Call(app, "Ping", "UNKNOWN"), Call(app, "GetPingStatus", "UNKNOWN")>>,
        Reply(11))

HandleMove(q, app) ==
    Run(<<Check(q.len = 3, "INVALID_INPUT"), Call(app, "Move", "MOTOR_NOT_FOUND")>>,
        Reply(2))

HandleMotionCtrl(q, app) ==
    Run(<<Check(q.len >= 1, "INVALID_INPUT"),
          Check(q.action \in {"PLAY", "STOP", "PAUSE", "SEEK"}, "INVALID_PARAM"),
          Check(q.action = "SEEK" => q.len = 5, "INVALID_INPUT"),
          Call(app, "Motion", "UNKNOWN")>>,
        Reply(2))

\* The refusal of App_PowerControl is a byte of the OK response.
HandlePowerCtrl(q, app) ==
    Run(<<Check(q.len = 1, "INVALID_INPUT"),
          Check(q.action \in {"OFF", "ON", "REBOOT"}, "INVALID_PARAM"),
          [Call(app, "PowerControl", "OK") EXCEPT
              !.pass = TRUE, !.call = @ \cap app.succeeds]>>,
        Reply(2))

\* ValidateResponsePayloadLen
Fits(payload_len) == RespHeader + payload_len <= BufferSize

\* app.count < 0 is written app.fails.
HandleGetMotors(q, app) ==
    Run(<<Check(~app.fails, "UNKNOWN"), Check(app.count <= MaxMotors, "INVALID_PARAM"),
          Check(Fits(1 + app.count * 17), "RESPONSE_TOO_LARGE")>>,
        Reply(1 + app.count * 17))

HandleGetMotorState(q, app) ==
    Run(<<Check(~app.fails, "UNKNOWN"), Check(app.count <= MaxMotors, "INVALID_PARAM"),
          Check(Fits(1 + app.count * 6), "RESPONSE_TOO_LARGE")>>,
        Reply(1 + app.count * 6))

\* Variant: the entries are not counted against the buffer.
HandleGetFilesUnchecked(q, app) ==
    Run(<<Check(~app.fails, "UNKNOWN"), Check(app.count <= MaxFiles, "INVALID_PARAM"),
          Check(~app.bad_entry, "INVALID_PARAM")>>,
        Reply(2 + app.listing))

\* app.listing: the bytes of the entries, up to the first whose strings are
\* not terminated, if there is one (app.bad_entry).
HandleGetFiles(q, app) ==
    Run(<<Check(~app.fails, "UNKNOWN"), Check(app.count <= MaxFiles, "INVALID_PARAM"),
          Check(Fits(2 + app.listing), "RESPONSE_TOO_LARGE"),
          Check(~app.bad_entry, "INVALID_PARAM")>>,
        Reply(2 + app.listing))

\* app.content >= ContentMax: App_GetFile left no terminator.
HandleGetFile(q, app) ==
    Run(<<Check(q.len >= 2, "INVALID_INPUT"), Check(2 + q.path = q.len, "INVALID_INPUT"),
          Check(q.path < PathMax, "INVALID_PARAM"),
          Call(app, "GetFile", "FILE_NOT_FOUND"),
          Check(app.content < ContentMax, "INVALID_PARAM"),
          Check(Fits(2 + q.path + 2 + app.content), "RESPONSE_TOO_LARGE")>>,
        Reply(2 + q.path + 2 + app.content))

\* The path and the content of SAVE_FILE and VERIFY_FILE.
FileChecks(q) ==
    <<Check(q.len >= 4, "INVALID_INPUT"), Check(q.path + 4 <= q.len, "INVALID_INPUT"),
      Check(q.path < PathMax, "INVALID_PARAM"),
      Check(2 + q.path + 2 + q.content = q.len, "INVALID_INPUT"),
      Check(q.content < ContentMax, "INVALID_PARAM")>>

\* Variant: the file is saved before its content is checked.
HandleSaveFileEarly(q, app) ==
    Run(<<Call(app, "SaveFile", "FILE_NOT_FOUND")>> \o FileChecks(q), Reply(2 + q.path))

HandleSaveFile(q, app) ==
    Run(FileChecks(q) \o <<Call(app, "SaveFile", "FILE_NOT_FOUND"),
                           Check(Fits(2 + q.path), "RESPONSE_TOO_LARGE")>>,
        Reply(2 + q.path))

HandleVerifyFile(q, app) ==
    Run(FileChecks(q) \o <<Call(app, "VerifyFile", "FILE_NOT_FOUND"),
                           Check(Fits(2 + q.path + 1), "RESPONSE_TOO_LARGE")>>,
        Reply(2 + q.path + 1))

\* The switch of HandleBinaryPacket.
Dispatch(q, app) ==
    CASE q.cmd = "PING"            -> HandlePing(q, app)
      [] q.cmd = "MOVE"            -> HandleMove(q, app)
      [] q.cmd = "MOTION_CTRL"     -> HandleMotionCtrl(q, app)
      [] q.cmd = "POWER_CTRL"      -> HandlePowerCtrl(q, app)
      [] q.cmd = "GET_MOTORS"      -> HandleGetMotors(q, app)
      [] q.cmd = "GET_MOTOR_STATE" -> HandleGetMotorState(q, app)
      [] q.cmd = "GET_FILES"       -> HandleGetFiles(q, app)
      [] q.cmd = "GET_FILE"        -> HandleGetFile(q, app)
      [] q.cmd = "SAVE_FILE"       -> HandleSaveFile(q, app)
      [] q.cmd = "VERIFY_FILE"     -> HandleVerifyFile(q, app)
      [] OTHER                     -> Run(<<Check(FALSE, "UNKNOWN_CMD")>>, Reply(0))

-----------------------------------------------------------------------------
(* Sending. *)

\* Variant: frag_tx is taken to be free.
BusyNever == FALSE

Busy == sessions # {}    \* frag_tx_is_busy

Occupy(message) ==
    /\ sessions' = sessions \cup {message}
    /\ started' = started \cup {message}

SendNow(message) ==
    /\ ~Busy
    /\ Occupy(message)
    /\ UNCHANGED <<pending, tx_busy_drop_count>>

\* Variant: a response that waits is overwritten.
QueueOverwriting(message) ==
    /\ Busy
    /\ pending' = {message}
    /\ UNCHANGED <<sessions, started, tx_busy_drop_count>>

\* QueueResponseFrame
Queue(message) ==
    /\ Busy /\ pending = {}
    /\ pending' = {message}
    /\ UNCHANGED <<sessions, started, tx_busy_drop_count>>

\* RecordTxBusyDrop; SendErrorForStatus adds nothing to it.
Drop(message) ==
    /\ Busy /\ pending # {}
    /\ tx_busy_drop_count' = tx_busy_drop_count + 1
    /\ UNCHANGED <<sessions, started, pending>>

\* SendBinaryResponse and FinalizeBufferedResponse
Send(message) == SendNow(message) \/ Queue(message) \/ Drop(message)

-----------------------------------------------------------------------------
(* BIN_COM_Process, first part: xbee_process, which handles frames until    *)
(* the UART ring is empty.                                                  *)

BeginProcess ==
    /\ ~in_process
    /\ in_process' = TRUE
    /\ UNCHANGED <<current_source_addr, sessions, pending, tx_busy_drop_count,
                   handled, started, sends>>

\* BOUND: q is one of the first MaxRequests.
Arrives == in_process /\ Len(handled) < MaxRequests

ForMe(q) == q.total >= ReqHeader /\ q.target \in {"me", "broadcast"}

\* Too short, or for another device: only the source address is noted.
Ignore(q) ==
    /\ Arrives /\ ~ForMe(q)
    /\ current_source_addr' = q.source
    /\ UNCHANGED <<in_process, sessions, pending, tx_busy_drop_count, handled,
                   started, sends>>

\* Variant: bytes that follow the payload are let pass.
LengthMatchesLoosely(q) == ReqHeader + q.len <= q.total

LengthMatches(q) == ReqHeader + q.len = q.total

\* What the handler of q assembles and does.
ResultOf(q, app) ==
    IF LengthMatches(q) THEN Dispatch(q, app)
    ELSE Run(<<Check(FALSE, "INVALID_INPUT")>>, Reply(0))

\* What is sent of it.
AnswerOf(result) ==
    IF Fits(result.reply.size - RespHeader) THEN result.reply
    ELSE Error("RESPONSE_TOO_LARGE")

\* HandleBinaryPacket; misread: q is a response.
Handle(q, app, misread) ==
    LET result == ResultOf(q, app)
        answer == AnswerOf(result)
    IN  /\ Arrives /\ ForMe(q)
        /\ current_source_addr' = q.source
        /\ handled' = Append(handled, [source |-> q.source, misread |-> misread,
                                       changed |-> result.changed,
                                       size |-> result.reply.size])
        /\ Send([n |-> Len(handled) + 1, dest |-> current_source_addr',
                 code |-> answer.code, size |-> answer.size])
        /\ UNCHANGED <<in_process, sends>>

\* A response is taken for a request with the same command: the length is
\* read where a response has its status and the low byte of its length, and
\* the rest from the payload, here as in some request q.
AsRequest(response, q) ==
    [q EXCEPT !.target = "me", !.cmd = response.cmd,
              !.len = response.status + 256 * (response.n % 256),
              !.total = RespHeader + response.n]

\* DONE, or the NACK that exhausts the rounds, for a message in transfer.
TransferEnds(message) ==
    /\ in_process
    /\ sessions' = sessions \ {message}
    /\ UNCHANGED <<in_process, current_source_addr, pending, tx_busy_drop_count,
                   handled, started, sends>>

-----------------------------------------------------------------------------
(* Second part: frag_tx_tick, in which the transfers `ended` time out, then *)
(* TryFlushPendingResponse.                                                 *)

\* Variant: the response goes to whoever was heard last.
FlushToCurrent(ended) ==
    /\ sessions = ended /\ pending # {}
    /\ \E message \in pending :
          LET sent == [message EXCEPT !.dest = current_source_addr] IN
          sessions' = {sent} /\ started' = started \cup {sent}
    /\ pending' = {}

\* Variant: the response stays in the queue.
FlushKeeping(ended) ==
    /\ sessions = ended /\ pending # {}
    /\ sessions' = pending
    /\ started' = started \cup pending
    /\ UNCHANGED pending

\* Variant: the queue is not flushed.
FlushForgotten(ended) ==
    /\ sessions = ended /\ pending # {}
    /\ sessions' = {}
    /\ UNCHANGED <<started, pending>>

Flush(ended) ==
    /\ sessions = ended /\ pending # {}
    /\ sessions' = pending
    /\ started' = started \cup pending
    /\ pending' = {}

\* Nothing waits, or frag_tx is still busy.
NoFlush(ended) ==
    /\ sessions # ended \/ pending = {}
    /\ sessions' = sessions \ ended
    /\ UNCHANGED <<started, pending>>

EndProcess(ended) ==
    /\ in_process /\ in_process' = FALSE
    /\ Flush(ended) \/ NoFlush(ended)
    /\ UNCHANGED <<current_source_addr, tx_busy_drop_count, handled, sends>>

\* BIN_COM_Tick, from the main loop.
Tick(ended) ==
    /\ ~in_process
    /\ Flush(ended) \/ NoFlush(ended)
    /\ UNCHANGED <<in_process, current_source_addr, tx_busy_drop_count, handled,
                   sends>>

-----------------------------------------------------------------------------
(* The application's own calls. *)

ApplicationCalls == ~in_process /\ sends < MaxSends /\ sends' = sends + 1

\* BIN_COM_Send, where a slot is free.
BIN_COM_Send(dest) ==
    /\ ApplicationCalls
    /\ Cardinality(sessions) < NumTxSessions
    /\ Occupy([n |-> 0, dest |-> dest, code |-> "OK", size |-> 1])
    /\ UNCHANGED <<in_process, current_source_addr, pending, tx_busy_drop_count,
                   handled>>

BIN_COM_SetDestAddress(addr) ==
    /\ ApplicationCalls
    /\ current_source_addr' = addr
    /\ UNCHANGED <<in_process, sessions, pending, tx_busy_drop_count, handled, started>>

\* A step in which some of the requests, responses and answers may occur.
Step(requests, responses, answers) ==
    \/ BeginProcess
    \/ \E q \in requests : Ignore(q)
    \/ \E q \in requests, app \in answers :
          \/ Handle(q, app, FALSE)
          \/ \E response \in responses : Handle(AsRequest(response, q), app, TRUE)
    \/ \E message \in sessions : TransferEnds(message)
    \/ \E ended \in SUBSET sessions : EndProcess(ended) \/ Tick(ended)
    \/ \E addr \in Addresses : BIN_COM_Send(addr) \/ BIN_COM_SetDestAddress(addr)

Next == Step(Requests, PeerResponses, AppAnswers)

Spec == Init /\ [][Next]_vars

\* A transfer ends, while frames are handled or at a tick.
SomeTransferEnds ==
    \/ \E message \in sessions : TransferEnds(message)
    \/ \E ended \in SUBSET sessions \ {{}} : EndProcess(ended) \/ Tick(ended)

\* The main loop comes round, BIN_COM_Process returns, and a transfer under
\* way ends some time (FragmentTxAlone!TxSessionEnds), not at a chosen moment.
Fairness ==
    /\ WF_vars(BeginProcess)
    /\ WF_vars(\E ended \in SUBSET sessions : EndProcess(ended))
    /\ WF_vars(SomeTransferEnds)

-----------------------------------------------------------------------------
Responses == {m \in started : m.n # 0} \cup pending

\* Every request for this device gets one answer, sent or waiting to be sent,
\* or is counted in tx_busy_drop_count: never none, never two.
OneAnswerEach ==
    /\ Cardinality(Responses) + tx_busy_drop_count = Len(handled)
    /\ pending \cap started = {}
    /\ \A r, s \in Responses : r.n = s.n => r = s

\* A response goes to the device that asked, however long it waited and
\* whoever was heard meanwhile (pending_tx_dest_addr).
RepliesToAsker == \A r \in Responses : r.dest = handled[r.n].source

\* What a handler assembles fits tx_buffer (binary_com.h:43).
NoOverrun == \A n \in DOMAIN handled : handled[n].size <= BufferSize

\* A request answered with an error has changed nothing, but for the clock a
\* PING sets before App_Ping fails.
ErrorMeansUnchanged ==
    \A r \in Responses :
        r.code # "OK" => handled[r.n].changed \subseteq {"SetHostDateTime"}

\* A response that reaches another device of this library, which takes it for
\* a request, carries out no command there: the two headers differ by a byte,
\* and the lengths never agree (HandleBinaryPacket).  It is answered with an
\* error, though, which is answered in turn.
NoPhantomCommand ==
    /\ \A n \in DOMAIN handled : handled[n].misread => handled[n].changed = {}
    /\ \A r \in Responses : handled[r.n].misread => r.code = "INVALID_INPUT"

\* A response that waits is not lost or replaced: it leaves the queue only by
\* being started (QueueResponseFrame, TryFlushPendingResponse).  Responses to
\* later requests may be started before it.
PendingKept == [][pending \subseteq pending' \cup started']_vars

\* Another message takes the slot that a response waits for: after a DONE in
\* the same BIN_COM_Process a handler finds frag_tx free, and does not look at
\* pending_tx_valid (line 302), or the application sends.
Overtakes == pending # {} /\ pending' = pending /\ ~(sessions' \subseteq sessions)

\* A response does not wait for ever, unless it is overtaken for ever.
PendingFlushed == (pending # {} ~> pending = {}) \/ []<><<Overtakes>>_vars
=============================================================================
