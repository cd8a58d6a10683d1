---------------------------- MODULE MCBinaryCom ----------------------------
(* BinaryCom for TLC.  A behaviour has one of three workloads: a few        *)
(* requests that meet in the response queue, one request at the limits of   *)
(* the checks, or responses of another device that runs this library.       *)
EXTENDS BinaryCom

\* The fields a handler looks at; total is the length of the message.
Request(source, target, cmd, len, total, date, action, path, content) ==
    [source |-> source, target |-> target, cmd |-> cmd, len |-> len,
     total |-> total, date |-> date, action |-> action, path |-> path,
     content |-> content]

Plain(source, cmd, len) ==
    Request(source, "me", cmd, len, ReqHeader + len, TRUE, "PLAY", 0, 0)

FileRequest(source, cmd, len, path, content) ==
    Request(source, "me", cmd, len, ReqHeader + len, TRUE, "PLAY", path, content)

Answer(succeeds, count, listing, content) ==
    [succeeds |-> succeeds, fails |-> FALSE, count |-> count, listing |-> listing,
     bad_entry |-> FALSE, content |-> content]

-----------------------------------------------------------------------------
\* For the queue: a command that changes the device, a listing, a message
\* for another device and one cut short.
QueueRequests ==
    UNION {{Plain(a, "MOVE", 3), Plain(a, "GET_FILES", 0),
            Request(a, "other", "MOVE", 3, 8, TRUE, "PLAY", 0, 0),
            Request(a, "me", "MOVE", 3, 7, TRUE, "PLAY", 0, 0)} : a \in Addresses}

QueueAnswers == {Answer(Calls, 1, 100, 0), Answer({}, 1, BufferSize, 0)}

-----------------------------------------------------------------------------
\* For the handlers: each length on either side of each limit.
HandlerRequests ==
    UNION {
      {Request(a, t, "PING", len, ReqHeader + len, date, "PLAY", 0, 0) :
          t \in {"me", "broadcast", "other"}, len \in {0, 11, 12}, date \in BOOLEAN}
      \cup {Request(a, "me", "MOVE", len, total, TRUE, "PLAY", 0, 0) :
          len \in {2, 3, 4}, total \in {4, 8}}
      \cup {Request(a, "me", cmd, len, ReqHeader + len, TRUE, action, 0, 0) :
          cmd \in {"MOTION_CTRL", "POWER_CTRL"}, len \in {0, 1, 5},
          action \in {"PLAY", "SEEK", "ON", "bad"}}
      \cup {Plain(a, cmd, 0) : cmd \in {"GET_MOTORS", "GET_MOTOR_STATE", "GET_FILES",
                                        "bad"}}
      \cup {FileRequest(a, cmd, len, path, content) :
          cmd \in {"GET_FILE", "SAVE_FILE", "VERIFY_FILE"},
          path \in {0, PathMax - 1, PathMax}, content \in {0, ContentMax - 1, ContentMax},
          len \in {1, 3, 4, 1 + PathMax, 2 + PathMax + ContentMax,
                   2 + PathMax + 1 + ContentMax, 2 + PathMax + 2 + ContentMax}}
      : a \in {CHOOSE a \in Addresses : TRUE}}

\* An entry takes 10 bytes and its two strings, 63 and 127 bytes at most.
HandlerAnswers ==
    LET answers ==
          [succeeds : {Calls}, fails : BOOLEAN,
           count : {0, MaxMotors, MaxMotors + 1, MaxFiles, MaxFiles + 1},
           listing : {0, BufferSize - 8, BufferSize - 7, 200 * MaxFiles},
           bad_entry : BOOLEAN, content : {0, ContentMax - 1, ContentMax}]
    IN  {app \in answers :
            /\ app.listing <= 200 * app.count
            /\ app.listing >= 10 * app.count \/ app.bad_entry
            /\ app.bad_entry => app.count > 0}
        \cup {Answer(Calls \ fail, 0, 0, 0) :
                fail \in {{f} : f \in Calls} \cup {Calls}}

-----------------------------------------------------------------------------
\* Responses of another device: an OK response of each command, an error with
\* and without a text, and lengths around the multiples of 256.
SomeResponses ==
    [cmd : {"PING", "MOVE", "MOTION_CTRL", "POWER_CTRL", "GET_MOTORS",
            "GET_MOTOR_STATE", "GET_FILES", "GET_FILE", "SAVE_FILE", "VERIFY_FILE"},
     status : {0}, n : {1, 2, 3, 11, 255, 256, 257, 512, BufferSize - RespHeader}]
    \cup [cmd : {"ERROR"}, status : {1}, n : {2, 20, 255, 256, 257}]

PeerRequests == {Plain(a, "MOVE", 3) : a \in Addresses}

-----------------------------------------------------------------------------
VARIABLE workload

AllRequests == QueueRequests \cup HandlerRequests

AllAnswers == QueueAnswers \cup HandlerAnswers

\* The requests of a workload that has n of them.
First(n, requests) == IF Len(handled) < n THEN requests ELSE {}

MCNext ==
    /\ \/ workload = "queue" /\ Step(QueueRequests, {}, QueueAnswers)
       \/ workload = "limits" /\ Step(First(1, HandlerRequests), {}, HandlerAnswers)
       \/ workload = "peer" /\ Step(First(2, PeerRequests), SomeResponses, QueueAnswers)
    /\ UNCHANGED workload

MCInit == Init /\ workload \in {"queue", "limits", "peer"}

MCSpec == MCInit /\ [][MCNext]_<<vars, workload>> /\ Fairness
=============================================================================
