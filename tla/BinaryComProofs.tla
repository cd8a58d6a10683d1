-------------------------- MODULE BinaryComProofs --------------------------
(* What BinaryCom guarantees for any requests, answers of the application   *)
(* and number of them: a response is right and goes where it should, none   *)
(* is lost uncounted, and an error means that nothing happened.             *)
EXTENDS BinaryCom, Integers, FiniteSetTheorems, SequenceTheorems, TLAPS

-----------------------------------------------------------------------------
(* The handlers. *)

\* A non-empty set of step numbers has a first one.
LEMMA FirstExists ==
    ASSUME NEW F, F \subseteq 1..7, F # {}
    PROVE  \E i \in F : \A j \in F : i <= j
<1>1. CASE 1 \in F
  BY <1>1
<1>2. CASE 1 \notin F /\ 2 \in F
  BY <1>2
<1>3. CASE 1 \notin F /\ 2 \notin F /\ 3 \in F
  BY <1>3
<1>4. CASE 1 \notin F /\ 2 \notin F /\ 3 \notin F /\ 4 \in F
  BY <1>4
<1>5. CASE F \subseteq {5, 6, 7} /\ 5 \in F
  BY <1>5
<1>6. CASE F \subseteq {6, 7} /\ 6 \in F
  BY <1>6
<1>7. CASE F = {7}
  BY <1>7
<1>8. 1 \notin F /\ 2 \notin F /\ 3 \notin F /\ 4 \notin F => F \subseteq {5, 6, 7}
  OBVIOUS
<1>9. F \subseteq {5, 6, 7} /\ 5 \notin F => F \subseteq {6, 7}
  OBVIOUS
<1>10. F \subseteq {6, 7} /\ 6 \notin F => F = {7}
  OBVIOUS
<1> QED
  BY <1>1, <1>2, <1>3, <1>4, <1>5, <1>6, <1>7, <1>8, <1>9, <1>10

\* What is true of whatever a handler returns.
Sound(result) ==
    /\ result.reply.code \in Codes
    /\ result.reply.size \in 1..BufferSize
    /\ result.changed \subseteq Changing
    /\ result.reply.code # "OK" => result.changed \subseteq {"SetHostDateTime"}

\* Steps of a handler: a call that changes more than the clock is the last
\* thing that can fail.
WellOrdered(steps, N) ==
    /\ DOMAIN steps = 1..N
    /\ \A i \in 1..N :
          /\ steps[i].code \in Codes
          /\ \/ Changing \cap steps[i].call \subseteq {"SetHostDateTime"}
             \/ (\A j \in 1..i : steps[j].pass) => \A j \in 1..N : steps[j].pass

LEMMA RunSound ==
    ASSUME NEW N \in 1..7, NEW steps, WellOrdered(steps, N), NEW payload,
           (\A i \in 1..N : steps[i].pass) =>
              payload \in Nat /\ RespHeader + payload <= BufferSize
    PROVE  Sound(Run(steps, Reply(payload)))
<1> DEFINE failed == {i \in DOMAIN steps : ~steps[i].pass}
           passed == {i \in DOMAIN steps : \A j \in failed : i < j}
           first == CHOOSE i \in failed : \A j \in failed : i <= j
           changed == Changing \cap UNION {steps[i].call : i \in passed}
           result == Run(steps, Reply(payload))
<1>1. /\ result.reply = IF failed = {} THEN Reply(payload) ELSE Error(steps[first].code)
      /\ result.changed = changed
  BY DEF Run
<1>2. DOMAIN steps = 1..N
  BY DEF WellOrdered
<1>3. changed \subseteq Changing
  OBVIOUS
<1>4. CASE failed = {}
  <2>1. \A i \in 1..N : steps[i].pass
    BY <1>2, <1>4
  <2>2. Reply(payload).code = "OK" /\ Reply(payload).size = RespHeader + payload
    BY DEF Reply
  <2>3. RespHeader + payload \in 1..BufferSize
    BY <2>1, ComAssumption DEF RespHeader
  <2> QED
    BY <1>1, <1>3, <1>4, <2>2, <2>3 DEF Sound, Codes
<1>5. CASE failed # {}
  <2>1. failed \subseteq 1..7
    BY <1>2
  <2>2. first \in failed /\ \A j \in failed : first <= j
    BY <1>5, <2>1, FirstExists
  <2>3. steps[first].code \in Codes
    BY <1>2, <2>2 DEF WellOrdered
  <2>4. /\ Error(steps[first].code).code = steps[first].code
        /\ Error(steps[first].code).size = 8
    BY DEF Error, RespHeader
  <2>5. 8 \in 1..BufferSize
    BY ComAssumption
  <2>6. ASSUME NEW i \in passed
        PROVE  Changing \cap steps[i].call \subseteq {"SetHostDateTime"}
    <3>1. i \in 1..N /\ \A j \in failed : i < j
      BY <1>2
    <3>2. \A j \in 1..i : j \in DOMAIN steps /\ j \notin failed
      BY <1>2, <3>1, <2>1
    <3>3. \A j \in 1..i : steps[j].pass
      BY <3>2
    <3>4. ~ \A j \in 1..N : steps[j].pass
      BY <1>2, <1>5
    <3> QED
      BY <3>1, <3>3, <3>4 DEF WellOrdered
  <2>7. changed \subseteq {"SetHostDateTime"}
    BY <2>6
  <2> HIDE DEF failed, passed, first, changed, result
  <2> QED
    BY <1>1, <1>3, <1>5, <2>3, <2>4, <2>5, <2>7 DEF Sound, result
<1> QED
  BY <1>4, <1>5

LEMMA CheckFacts ==
    ASSUME NEW holds, NEW code
    PROVE  /\ Check(holds, code).code = code
           /\ Check(holds, code).pass = holds
           /\ Changing \cap Check(holds, code).call = {}
BY DEF Check

LEMMA CallFacts ==
    ASSUME NEW app, NEW f, NEW code
    PROVE  /\ Call(app, f, code).code = code
           /\ Call(app, f, code).call = {f}
BY DEF Call

LEMMA MoveSound ==
    ASSUME NEW q, NEW app
    PROVE  Sound(HandleMove(q, app))
<1> DEFINE steps == <<Check(q.len = 3, "INVALID_INPUT"),
                      Call(app, "Move", "MOTOR_NOT_FOUND")>>
<1>1. WellOrdered(steps, 2)
  BY CheckFacts, CallFacts DEF WellOrdered, Codes
<1>2. RespHeader + 2 <= BufferSize
  BY ComAssumption DEF RespHeader
<1> HIDE DEF steps
<1>3. Sound(Run(steps, Reply(2)))
  BY <1>1, <1>2, RunSound
<1> QED
  BY <1>3 DEF HandleMove, steps

LEMMA PowerCtrlSound ==
    ASSUME NEW q, NEW app
    PROVE  Sound(HandlePowerCtrl(q, app))
<1> DEFINE power == [Call(app, "PowerControl", "OK") EXCEPT
                        !.pass = TRUE, !.call = @ \cap app.succeeds]
           steps == <<Check(q.len = 1, "INVALID_INPUT"),
                      Check(q.action \in {"OFF", "ON", "REBOOT"}, "INVALID_PARAM"),
                      power>>
<1>0. power.code = "OK"
  BY DEF Call
<1> HIDE DEF power
<1>1. WellOrdered(steps, 3)
  BY <1>0, CheckFacts DEF WellOrdered, Codes
<1>2. RespHeader + 2 <= BufferSize
  BY ComAssumption DEF RespHeader
<1> HIDE DEF steps
<1>3. Sound(Run(steps, Reply(2)))
  BY <1>1, <1>2, RunSound
<1> QED
  BY <1>3 DEF HandlePowerCtrl, steps, power

LEMMA MotionCtrlSound ==
    ASSUME NEW q, NEW app
    PROVE  Sound(HandleMotionCtrl(q, app))
<1> DEFINE steps == <<Check(q.len >= 1, "INVALID_INPUT"),
                      Check(q.action \in {"PLAY", "STOP", "PAUSE", "SEEK"}, "INVALID_PARAM"),
                      Check(q.action = "SEEK" => q.len = 5, "INVALID_INPUT"),
                      Call(app, "Motion", "UNKNOWN")>>
<1>1. WellOrdered(steps, 4)
  BY CheckFacts, CallFacts DEF WellOrdered, Codes
<1>2. RespHeader + 2 <= BufferSize
  BY ComAssumption DEF RespHeader
<1> HIDE DEF steps
<1>3. Sound(Run(steps, Reply(2)))
  BY <1>1, <1>2, RunSound
<1> QED
  BY <1>3 DEF HandleMotionCtrl, steps

-----------------------------------------------------------------------------
(* The handlers that assemble their payload in tx_buffer. *)

LEMMA GetMotorsSound ==
    ASSUME NEW q, NEW app, app.count \in Nat
    PROVE  Sound(HandleGetMotors(q, app))
<1> DEFINE steps == <<Check(~app.fails, "UNKNOWN"),
                      Check(app.count <= MaxMotors, "INVALID_PARAM"),
                      Check(Fits(1 + app.count * 17), "RESPONSE_TOO_LARGE")>>
<1>1. WellOrdered(steps, 3)
  BY CheckFacts DEF WellOrdered, Codes
<1>2. steps[3].pass => RespHeader + (1 + app.count * 17) <= BufferSize
  BY DEF Check, Fits
<1>3. 1 + app.count * 17 \in Nat
  OBVIOUS
<1> HIDE DEF steps
<1>4. Sound(Run(steps, Reply(1 + app.count * 17)))
  BY <1>1, <1>2, <1>3, RunSound
<1> QED
  BY <1>4 DEF HandleGetMotors, steps

LEMMA GetMotorStateSound ==
    ASSUME NEW q, NEW app, app.count \in Nat
    PROVE  Sound(HandleGetMotorState(q, app))
<1> DEFINE steps == <<Check(~app.fails, "UNKNOWN"),
                      Check(app.count <= MaxMotors, "INVALID_PARAM"),
                      Check(Fits(1 + app.count * 6), "RESPONSE_TOO_LARGE")>>
<1>1. WellOrdered(steps, 3)
  BY CheckFacts DEF WellOrdered, Codes
<1>2. steps[3].pass => RespHeader + (1 + app.count * 6) <= BufferSize
  BY DEF Check, Fits
<1>3. 1 + app.count * 6 \in Nat
  OBVIOUS
<1> HIDE DEF steps
<1>4. Sound(Run(steps, Reply(1 + app.count * 6)))
  BY <1>1, <1>2, <1>3, RunSound
<1> QED
  BY <1>4 DEF HandleGetMotorState, steps

LEMMA GetFilesSound ==
    ASSUME NEW q, NEW app, app.listing \in Nat
    PROVE  Sound(HandleGetFiles(q, app))
<1> DEFINE steps == <<Check(~app.fails, "UNKNOWN"),
                      Check(app.count <= MaxFiles, "INVALID_PARAM"),
                      Check(Fits(2 + app.listing), "RESPONSE_TOO_LARGE"),
                      Check(~app.bad_entry, "INVALID_PARAM")>>
<1>1. WellOrdered(steps, 4)
  BY CheckFacts DEF WellOrdered, Codes
<1>2. steps[3].pass => RespHeader + (2 + app.listing) <= BufferSize
  BY DEF Check, Fits
<1>3. 2 + app.listing \in Nat
  OBVIOUS
<1> HIDE DEF steps
<1>4. Sound(Run(steps, Reply(2 + app.listing)))
  BY <1>1, <1>2, <1>3, RunSound
<1> QED
  BY <1>4 DEF HandleGetFiles, steps

LEMMA GetFileSound ==
    ASSUME NEW q, NEW app, q.path \in Nat, app.content \in Nat
    PROVE  Sound(HandleGetFile(q, app))
<1> DEFINE payload == 2 + q.path + 2 + app.content
           steps == <<Check(q.len >= 2, "INVALID_INPUT"),
                      Check(2 + q.path = q.len, "INVALID_INPUT"),
                      Check(q.path < PathMax, "INVALID_PARAM"),
                      Call(app, "GetFile", "FILE_NOT_FOUND"),
                      Check(app.content < ContentMax, "INVALID_PARAM"),
                      Check(Fits(2 + q.path + 2 + app.content), "RESPONSE_TOO_LARGE")>>
<1>1. WellOrdered(steps, 6)
  BY CheckFacts, CallFacts DEF WellOrdered, Codes, Changing
<1>2. steps[6].pass => RespHeader + payload <= BufferSize
  BY DEF Check, Fits
<1>3. payload \in Nat
  OBVIOUS
<1> HIDE DEF steps
<1>4. Sound(Run(steps, Reply(payload)))
  BY <1>1, <1>2, <1>3, RunSound
<1> QED
  BY <1>4 DEF HandleGetFile, steps

-----------------------------------------------------------------------------
(* The handlers whose steps are put together from two lists. *)

\* The steps of FileChecks are checks, and the third bounds the path.
LEMMA FileChecksFacts ==
    ASSUME NEW q
    PROVE  /\ FileChecks(q) \in Seq({FileChecks(q)[i] : i \in 1..5})
           /\ Len(FileChecks(q)) = 5
           /\ \A i \in 1..5 : /\ FileChecks(q)[i].code \in Codes
                              /\ Changing \cap FileChecks(q)[i].call = {}
           /\ FileChecks(q)[3].pass => q.path < PathMax
<1> DEFINE c == FileChecks(q)
<1>1. c[1].code = "INVALID_INPUT" /\ c[2].code = "INVALID_INPUT"
      /\ c[3].code = "INVALID_PARAM" /\ c[4].code = "INVALID_INPUT"
      /\ c[5].code = "INVALID_PARAM"
  BY DEF FileChecks, Check
<1>2. c[1].call = {} /\ c[2].call = {} /\ c[3].call = {} /\ c[4].call = {} /\ c[5].call = {}
  BY DEF FileChecks, Check
<1>3. Len(c) = 5
  BY DEF FileChecks
<1>4. c[3].pass => q.path < PathMax
  BY DEF FileChecks, Check
<1>5. c \in Seq({c[i] : i \in 1..5})
  BY DEF FileChecks
<1> HIDE DEF c
<1>6. \A i \in 1..5 : c[i].code \in Codes /\ Changing \cap c[i].call = {}
  <2> TAKE i \in 1..5
  <2>1. i = 1 \/ i = 2 \/ i = 3 \/ i = 4 \/ i = 5
    OBVIOUS
  <2> QED
    BY <1>1, <1>2, <2>1 DEF Codes
<1> QED
  BY <1>3, <1>4, <1>5, <1>6 DEF c

\* FileChecks, then two more steps.
FileSteps(q, a, b) == FileChecks(q) \o <<a, b>>

LEMMA AppendedSteps ==
    ASSUME NEW q, NEW a, NEW b
    PROVE  /\ DOMAIN FileSteps(q, a, b) = 1..7
           /\ \A i \in 1..5 : FileSteps(q, a, b)[i] = FileChecks(q)[i]
           /\ FileSteps(q, a, b)[6] = a
           /\ FileSteps(q, a, b)[7] = b
<1> DEFINE c == FileChecks(q)
           R == {c[i] : i \in 1..5}
           S == R \cup {a, b}
           two == <<a, b>>
<1>0. c \in Seq(R) /\ Len(c) = 5
  BY FileChecksFacts
<1>1. c \in Seq(S) /\ Len(c) = 5
  <2>1. R \subseteq S
    OBVIOUS
  <2> HIDE DEF c, R, S
  <2> QED
    BY <1>0, <2>1, SeqMonotonic
<1>2. two \in Seq(S) /\ Len(two) = 2 /\ two[1] = a /\ two[2] = b
  OBVIOUS
<1> HIDE DEF c, S, two
<1>3. /\ c \o two \in Seq(S)
      /\ Len(c \o two) = 7
      /\ \A i \in 1..7 : (c \o two)[i] = IF i <= 5 THEN c[i] ELSE two[i - 5]
  <2>1. /\ c \o two \in Seq(S)
        /\ Len(c \o two) = Len(c) + Len(two)
        /\ \A i \in 1..Len(c) + Len(two) :
              (c \o two)[i] = IF i <= Len(c) THEN c[i] ELSE two[i - Len(c)]
    BY <1>1, <1>2, ConcatProperties
  <2> QED
    BY <1>1, <1>2, <2>1
<1>4. DOMAIN (c \o two) = 1..7
  BY <1>3
<1>5. /\ \A i \in 1..5 : (c \o two)[i] = c[i]
      /\ (c \o two)[6] = two[1]
      /\ (c \o two)[7] = two[2]
  BY <1>3
<1> QED
  BY <1>2, <1>4, <1>5 DEF c, two, FileSteps

LEMMA VerifyFileSound ==
    ASSUME NEW q, NEW app, q.path \in Nat
    PROVE  Sound(HandleVerifyFile(q, app))
<1> DEFINE payload == 2 + q.path + 1
           a == Call(app, "VerifyFile", "FILE_NOT_FOUND")
           b == Check(Fits(payload), "RESPONSE_TOO_LARGE")
<1>1. /\ a.code \in Codes /\ Changing \cap a.call = {}
      /\ b.code \in Codes /\ Changing \cap b.call = {}
  BY CheckFacts, CallFacts DEF Codes, Changing
<1>2. b.pass <=> RespHeader + payload <= BufferSize
  BY DEF Check, Fits
<1>3. payload \in Nat
  OBVIOUS
<1> HIDE DEF a, b, payload
<1> DEFINE steps == FileSteps(q, a, b)
<1>4. /\ DOMAIN steps = 1..7
      /\ \A i \in 1..5 : steps[i] = FileChecks(q)[i]
      /\ steps[6] = a /\ steps[7] = b
  BY AppendedSteps
<1> HIDE DEF steps
<1>5. WellOrdered(steps, 7)
  <2>1. ASSUME NEW i \in 1..7
        PROVE  steps[i].code \in Codes /\ Changing \cap steps[i].call = {}
    <3>1. i \in 1..5 \/ i = 6 \/ i = 7
      OBVIOUS
    <3> QED
      BY <1>4, <1>1, <3>1, FileChecksFacts
  <2> QED
    BY <1>4, <2>1 DEF WellOrdered
<1>6. Sound(Run(steps, Reply(payload)))
  <2>1. (\A i \in 1..7 : steps[i].pass) => steps[7].pass
    OBVIOUS
  <2> QED
    BY <1>4, <1>2, <1>3, <1>5, <2>1, RunSound
<1> QED
  BY <1>6 DEF HandleVerifyFile, FileSteps, steps, a, b, payload

\* The file is saved by the last step that can fail: when the path is short
\* enough for the third check, the response that repeats it fits.
LEMMA SaveFileSound ==
    ASSUME NEW q, NEW app, q.path \in Nat
    PROVE  Sound(HandleSaveFile(q, app))
<1> DEFINE payload == 2 + q.path
           a == Call(app, "SaveFile", "FILE_NOT_FOUND")
           b == Check(Fits(payload), "RESPONSE_TOO_LARGE")
<1>1. /\ a.code \in Codes
      /\ b.code \in Codes /\ Changing \cap b.call = {}
  BY CheckFacts, CallFacts DEF Codes, Changing
<1>2. b.pass <=> RespHeader + payload <= BufferSize
  BY DEF Check, Fits
<1>3. payload \in Nat
  OBVIOUS
<1>4. q.path < PathMax => RespHeader + payload <= BufferSize
  BY ComAssumption DEF RespHeader
<1> HIDE DEF a, b, payload
<1> DEFINE steps == FileSteps(q, a, b)
<1>5. /\ DOMAIN steps = 1..7
      /\ \A i \in 1..5 : steps[i] = FileChecks(q)[i]
      /\ steps[6] = a /\ steps[7] = b
  BY AppendedSteps
<1> HIDE DEF steps
<1>6. steps[3].pass => q.path < PathMax
  <2>1. 3 \in 1..5
    OBVIOUS
  <2>2. steps[3] = FileChecks(q)[3]
    BY <1>5, <2>1
  <2> QED
    BY <2>2, FileChecksFacts, Zenon
<1>7. WellOrdered(steps, 7)
  <2>1. ASSUME NEW i \in 1..5
        PROVE  steps[i].code \in Codes /\ Changing \cap steps[i].call = {}
    BY <1>5, FileChecksFacts
  <2>2. (\A j \in 1..6 : steps[j].pass) => \A j \in 1..7 : steps[j].pass
    <3>1. 3 \in 1..6 /\ \A j \in 1..7 : j \in 1..6 \/ j = 7
      OBVIOUS
    <3>2. (\A j \in 1..6 : steps[j].pass) => steps[7].pass
      BY <1>5, <1>2, <1>4, <1>6, <3>1
    <3> QED
      BY <3>1, <3>2
  <2>3. \A i \in 1..7 : i \in 1..5 \/ i = 6 \/ i = 7
    OBVIOUS
  <2> QED
    BY <1>5, <1>1, <2>1, <2>2, <2>3 DEF WellOrdered
<1>8. Sound(Run(steps, Reply(payload)))
  <2>1. (\A i \in 1..7 : steps[i].pass) => steps[7].pass
    OBVIOUS
  <2> QED
    BY <1>5, <1>2, <1>3, <1>7, <2>1, RunSound
<1> QED
  BY <1>8 DEF HandleSaveFile, FileSteps, steps, a, b, payload

LEMMA PingSound ==
    ASSUME NEW q, NEW app
    PROVE  Sound(HandlePing(q, app))
<1> DEFINE none == <<>>
           date == <<Check(q.len = 12 /\ q.date, "INVALID_INPUT"),
                     Call(app, "SetHostDateTime", "INVALID_PARAM")>>
           ping == <<Call(app, "Ping", "UNKNOWN"), Call(app, "GetPingStatus", "UNKNOWN")>>
           S == {date[1], date[2], ping[1], ping[2]}
           steps == (IF q.len = 0 THEN none ELSE date) \o ping
<1>1. \A s \in S : s.code \in Codes /\ Changing \cap s.call \subseteq {"SetHostDateTime"}
  BY CheckFacts, CallFacts DEF Codes, Changing
<1>2. /\ date \in Seq(S) /\ Len(date) = 2
      /\ ping \in Seq(S) /\ Len(ping) = 2
      /\ none \in Seq(S) /\ Len(none) = 0
  OBVIOUS
<1>3. RespHeader + 11 <= BufferSize
  BY ComAssumption DEF RespHeader
<1> HIDE DEF date, ping, none, S
<1>4. \E N \in 1..7 : steps \in Seq(S) /\ Len(steps) = N
  <2>1. CASE q.len = 0
    <3>1. none \o ping \in Seq(S) /\ Len(none \o ping) = Len(none) + Len(ping)
      BY <1>2, ConcatProperties
    <3>2. steps = none \o ping
      BY <2>1
    <3> QED
      BY <1>2, <3>1, <3>2
  <2>2. CASE q.len # 0
    <3>1. date \o ping \in Seq(S) /\ Len(date \o ping) = Len(date) + Len(ping)
      BY <1>2, ConcatProperties
    <3>2. steps = date \o ping
      BY <2>2
    <3> QED
      BY <1>2, <3>1, <3>2
  <2> QED
    BY <2>1, <2>2
<1> HIDE DEF steps
<1>5. PICK N \in 1..7 : steps \in Seq(S) /\ Len(steps) = N
  BY <1>4
<1>6. DOMAIN steps = 1..N /\ \A i \in 1..N : steps[i] \in S
  BY <1>5
<1>7. WellOrdered(steps, N)
  BY <1>1, <1>6 DEF WellOrdered
<1>8. Sound(Run(steps, Reply(11)))
  BY <1>3, <1>7, RunSound
<1> QED
  BY <1>8 DEF HandlePing, steps, none, date, ping

LEMMA RefusalSound ==
    ASSUME NEW code \in Codes \ {"OK"}
    PROVE  /\ Sound(Run(<<Check(FALSE, code)>>, Reply(0)))
           /\ Run(<<Check(FALSE, code)>>, Reply(0)).reply.code = code
           /\ Run(<<Check(FALSE, code)>>, Reply(0)).changed = {}
<1> DEFINE steps == <<Check(FALSE, code)>>
           failed == {i \in DOMAIN steps : ~steps[i].pass}
           passed == {i \in DOMAIN steps : \A j \in failed : i < j}
           first == CHOOSE i \in failed : \A j \in failed : i <= j
<1>1. DOMAIN steps = {1} /\ steps[1] = Check(FALSE, code)
  OBVIOUS
<1>2. Check(FALSE, code).pass = FALSE /\ Check(FALSE, code).code = code
  BY DEF Check
<1>3. ~Check(FALSE, code).pass
  BY <1>2, Zenon
<1>4. steps[1].code = code /\ ~steps[1].pass
  BY <1>1, <1>2, <1>3, Zenon
<1>5. WellOrdered(steps, 1)
  <2>1. DOMAIN steps = 1..1 /\ \A i \in 1..1 : steps[i] = Check(FALSE, code)
    BY <1>1
  <2> HIDE DEF steps
  <2>2. Check(FALSE, code).code \in Codes /\ Changing \cap Check(FALSE, code).call = {}
    BY CheckFacts
  <2>3. \A i \in 1..1 : steps[i].code \in Codes /\ Changing \cap steps[i].call = {}
    BY <2>1, <2>2, Zenon
  <2>4. DOMAIN steps = 1..1
    BY <2>1, Zenon
  <2> QED
    BY <2>3, <2>4 DEF WellOrdered
<1> HIDE DEF steps
<1>6. failed = {1}
  BY <1>1, <1>4, Zenon
<1>7. passed = {}
  <2> HIDE DEF failed
  <2> QED
    BY <1>1, <1>6
<1>8. first = 1
  <2> HIDE DEF failed
  <2> QED
    BY <1>6
<1>9. Sound(Run(steps, Reply(0)))
  BY <1>4, <1>5, RunSound
<1>10. Run(steps, Reply(0)).reply = Error(steps[first].code)
  BY <1>6 DEF Run
<1>11. Run(steps, Reply(0)).changed = Changing \cap UNION {steps[i].call : i \in passed}
  BY DEF Run
<1> HIDE DEF failed, passed, first
<1>12. UNION {steps[i].call : i \in passed} = {}
  BY <1>7
<1> QED
  <2>1. Run(steps, Reply(0)).reply.code = code
    <3>1. steps[first].code = code
      BY <1>4, <1>8, Zenon
    <3> QED
      BY <1>10, <3>1 DEF Error
  <2>2. Run(steps, Reply(0)).changed = {}
    BY <1>11, <1>12
  <2> QED
    BY <1>9, <2>1, <2>2 DEF steps

LEMMA DispatchSound ==
    ASSUME NEW q, q.path \in Nat, NEW app \in AppAnswers
    PROVE  Sound(Dispatch(q, app))
<1>1. app.count \in Nat /\ app.listing \in Nat /\ app.content \in Nat
  BY InputAssumption
<1>2. Sound(Run(<<Check(FALSE, "UNKNOWN_CMD")>>, Reply(0)))
  BY RefusalSound DEF Codes
<1> QED
  BY <1>1, <1>2, PingSound, MoveSound, MotionCtrlSound, PowerCtrlSound,
     GetMotorsSound, GetMotorStateSound, GetFilesSound, GetFileSound,
     SaveFileSound, VerifyFileSound
  DEF Dispatch

LEMMA ResultSound ==
    ASSUME NEW q, q.path \in Nat, NEW app \in AppAnswers
    PROVE  Sound(ResultOf(q, app))
<1>1. CASE LengthMatches(q)
  BY <1>1, DispatchSound DEF ResultOf
<1>2. CASE ~LengthMatches(q)
  <2>1. Sound(Run(<<Check(FALSE, "INVALID_INPUT")>>, Reply(0)))
    BY RefusalSound DEF Codes
  <2> QED
    BY <1>2, <2>1 DEF ResultOf
<1> QED
  BY <1>1, <1>2

\* What a handler assembles is what is sent.
LEMMA AnswerIsReply ==
    ASSUME NEW result, Sound(result)
    PROVE  AnswerOf(result) = result.reply
<1>1. result.reply.size \in 1..BufferSize
  BY DEF Sound
<1>2. Fits(result.reply.size - RespHeader)
  BY <1>1, ComAssumption DEF Fits, RespHeader
<1> QED
  BY <1>2 DEF AnswerOf

\* The two headers differ by a byte, and a status is 0 or 1: 5 + (the length
\* as read) is never 6 + (the length).
LEMMA ResponseLengthWrong ==
    ASSUME NEW response \in PeerResponses, NEW q \in Requests
    PROVE  /\ ~LengthMatches(AsRequest(response, q))
           /\ AsRequest(response, q).source = q.source
           /\ AsRequest(response, q).path = q.path
<1> DEFINE status == response.status
           n == response.n
           low == n % 256
           r == AsRequest(response, q)
<1>1. (status = 0 \/ status = 1) /\ n \in Nat /\ n >= 1 /\ n <= BufferSize - 6
  BY InputAssumption, ComAssumption
<1>2. low \in Nat /\ low <= 255 /\ (n <= 255 => low = n)
  BY <1>1
<1>3. /\ r.len = status + 256 * low
      /\ r.total = 6 + n
      /\ r.source = q.source
      /\ r.path = q.path
  BY InputAssumption DEF AsRequest, RespHeader
<1>4. 5 + (status + 256 * low) # 6 + n
  <2> DEFINE k == n \div 256
  <2>1. k \in Nat /\ n = 256 * k + low
    BY <1>1
  <2> HIDE DEF k, low, status, n
  <2> QED
    BY <1>1, <1>2, <2>1, ComAssumption
<1> HIDE DEF low, status, n, r
<1> QED
  BY <1>3, <1>4 DEF LengthMatches, ReqHeader, r

-----------------------------------------------------------------------------
(* The invariant: what OneAnswerEach counts is finite, every response that  *)
(* was made answers a request that was handled, and does so faithfully.     *)

Records == [source : Addresses, misread : BOOLEAN, changed : SUBSET Changing, size : Nat]

Faithful(r, record) ==
    /\ r.dest = record.source
    /\ r.code # "OK" => record.changed \subseteq {"SetHostDateTime"}
    /\ record.misread => r.code = "INVALID_INPUT"

Harmless(record) ==
    /\ record.size <= BufferSize
    /\ record.misread => record.changed = {}

Types ==
    /\ in_process \in BOOLEAN
    /\ current_source_addr \in Addresses \cup {NoAddress}
    /\ sessions \subseteq Messages /\ pending \subseteq Messages /\ started \subseteq Messages
    /\ tx_busy_drop_count \in Nat
    /\ handled \in Seq(Records)

Slots ==
    /\ IsFiniteSet(sessions) /\ Cardinality(sessions) <= NumTxSessions
    /\ IsFiniteSet(pending) /\ Cardinality(pending) <= 1

Counted ==
    /\ IsFiniteSet(Responses)
    /\ Cardinality(Responses) + tx_busy_drop_count = Len(handled)

Answers ==
    /\ \A r \in pending : r.n # 0
    /\ pending \cap started = {}
    /\ \A r, s \in Responses : r.n = s.n => r = s
    /\ \A r \in Responses : r.n \in 1..Len(handled) /\ Faithful(r, handled[r.n])
    /\ \A n \in 1..Len(handled) : Harmless(handled[n])

ComInv == Types /\ Slots /\ Counted /\ Answers

LEMMA InitInv == Init => ComInv
<1> SUFFICES ASSUME Init PROVE ComInv
  OBVIOUS
<1> USE DEF Init
<1>1. Types
  <2>1. <<>> \in Seq(Records)
    OBVIOUS
  <2> QED
    BY <2>1 DEF Types
<1>2. Slots
  BY FS_EmptySet, ComAssumption DEF Slots
<1>3. Responses = {}
  BY DEF Responses
<1>4. Counted
  BY <1>3, FS_EmptySet DEF Counted
<1>5. Answers
  BY <1>3 DEF Answers
<1> QED
  BY <1>1, <1>2, <1>4, <1>5 DEF ComInv

\* A step that neither answers nor forgets an answer.
LEMMA SameResponses ==
    ASSUME ComInv, Responses' = Responses, pending' \subseteq pending,
           pending' \cap started' = {},
           UNCHANGED <<handled, tx_busy_drop_count>>
    PROVE  Counted' /\ Answers'
<1>1. Counted'
  BY DEF ComInv, Counted
<1>2. Answers'
  BY DEF ComInv, Answers
<1> QED
  BY <1>1, <1>2

\* What Handle does, without the handlers.
LEMMA HandleStep ==
    ASSUME ComInv, NEW q, q.source \in Addresses, q.path \in Nat,
           NEW app \in AppAnswers, NEW misread \in BOOLEAN,
           misread => ~LengthMatches(q), Handle(q, app, misread)
    PROVE  \E record \in Records, m \in Messages :
              /\ handled' = Append(handled, record)
              /\ Send(m)
              /\ m.n = Len(handled) + 1
              /\ Faithful(m, record)
              /\ Harmless(record)
<1> DEFINE result == ResultOf(q, app)
           answer == AnswerOf(result)
           record == [source |-> q.source, misread |-> misread,
                      changed |-> result.changed, size |-> result.reply.size]
           m == [n |-> Len(handled) + 1, dest |-> q.source,
                 code |-> answer.code, size |-> answer.size]
<1>1. Sound(result)
  BY ResultSound
<1>2. answer = result.reply
  BY <1>1, AnswerIsReply
<1>3. misread => result.reply.code = "INVALID_INPUT" /\ result.changed = {}
  BY RefusalSound DEF ResultOf, Codes
<1>4. handled' = Append(handled, record) /\ Send(m)
  BY DEF Handle
<1>5. Len(handled) \in Nat
  BY DEF ComInv, Types
<1> HIDE DEF result, answer
<1>6. record \in Records /\ Harmless(record)
  BY <1>1, <1>3, ComAssumption DEF Sound, Records, Harmless
<1>7. m \in Messages /\ m.n = Len(handled) + 1
  BY <1>1, <1>2, <1>5 DEF Sound, Messages
<1>8. Faithful(m, record)
  BY <1>1, <1>2, <1>3 DEF Sound, Faithful
<1> HIDE DEF record, m
<1> QED
  BY <1>4, <1>6, <1>7, <1>8

\* One answer, whichever of the three ways it goes.
LEMMA AnswerInv ==
    ASSUME ComInv, NEW record \in Records, NEW m \in Messages,
           handled' = Append(handled, record), Send(m), m.n = Len(handled) + 1,
           Faithful(m, record), Harmless(record),
           in_process' = in_process, current_source_addr' \in Addresses
    PROVE  ComInv'
<1> DEFINE H == Len(handled)
<1>0. /\ Types /\ Slots /\ Counted /\ Answers
  BY DEF ComInv
<1>1. /\ H \in Nat
      /\ handled \in Seq(Records)
  BY <1>0 DEF Types
<1>2. /\ handled' \in Seq(Records)
      /\ Len(handled') = H + 1
      /\ \A n \in 1..H : handled'[n] = handled[n]
      /\ handled'[H + 1] = record
  BY <1>1
<1> HIDE DEF H
<1>3. \A n \in 1..(H + 1) : n \in 1..H \/ n = H + 1
  BY <1>1
<1>4. \A n \in 1..Len(handled') : Harmless(handled'[n])
  <2>1. \A n \in 1..H : Harmless(handled[n])
    BY <1>0 DEF Answers, H
  <2> QED
    BY <1>2, <1>3, <2>1
<1>5. \A r \in Responses : r.n \in 1..H /\ Faithful(r, handled[r.n])
  BY <1>0 DEF Answers, H
<1>6. \A r \in Responses : r.n \in 1..(H + 1) /\ r.n # H + 1 /\ Faithful(r, handled'[r.n])
  <2> TAKE r \in Responses
  <2>1. r.n \in 1..H /\ Faithful(r, handled[r.n])
    BY <1>5
  <2> QED
    BY <1>1, <1>2, <2>1
<1>7. m.n = H + 1 /\ m.n # 0 /\ m.n \in 1..(H + 1) /\ Faithful(m, handled'[m.n])
  BY <1>1, <1>2 DEF H
<1>8. m \notin Responses
  BY <1>6, <1>7
<1>9. IsFiniteSet(Responses) /\ Cardinality(Responses) \in Nat
  BY <1>0, FS_CardinalityType DEF Counted
<1>10. CASE SendNow(m) \/ Queue(m)
  <2>1. /\ Responses' = Responses \cup {m}
        /\ tx_busy_drop_count' = tx_busy_drop_count
    <3>1. CASE SendNow(m)
      BY <1>7, <3>1 DEF SendNow, Occupy, Responses
    <3>2. CASE Queue(m)
      BY <3>2 DEF Queue, Responses
    <3> QED
      BY <1>10, <3>1, <3>2
  <2>2. Counted'
    <3>1. IsFiniteSet(Responses \cup {m})
          /\ Cardinality(Responses \cup {m}) = Cardinality(Responses) + 1
      BY <1>8, <1>9, FS_AddElement
    <3>2. tx_busy_drop_count \in Nat
      BY <1>0 DEF Types
    <3> QED
      BY <1>0, <1>1, <1>2, <1>9, <2>1, <3>1, <3>2 DEF Counted, H
  <2>3. /\ \A r \in Responses' : r.n \in 1..Len(handled') /\ Faithful(r, handled'[r.n])
        /\ \A r, s \in Responses' : r.n = s.n => r = s
    <3>1. \A r, s \in Responses : r.n = s.n => r = s
      BY <1>0 DEF Answers
    <3> QED
      BY <1>2, <1>6, <1>7, <2>1, <3>1
  <2>4. m \notin pending /\ m \notin started
    BY <1>7, <1>8 DEF Responses
  <2>5. /\ \A r \in pending' : r.n # 0
        /\ pending' \cap started' = {}
    <3>1. (\A r \in pending : r.n # 0) /\ pending \cap started = {}
      BY <1>0 DEF Answers
    <3>2. CASE SendNow(m)
      BY <2>4, <3>1, <3>2 DEF SendNow, Occupy
    <3>3. CASE Queue(m)
      BY <1>7, <2>4, <3>1, <3>3 DEF Queue
    <3> QED
      BY <1>10, <3>2, <3>3
  <2>6. Answers'
    BY <1>4, <2>3, <2>5 DEF Answers
  <2>7. Slots'
    <3>1. IsFiniteSet({m}) /\ Cardinality({m}) = 1
      BY FS_Singleton
    <3>2. CASE SendNow(m)
      <4>1. sessions' = {m} /\ pending' = pending
        BY <3>2 DEF SendNow, Occupy, Busy
      <4> QED
        BY <1>0, <3>1, <4>1, ComAssumption DEF Slots
    <3>3. CASE Queue(m)
      <4>1. sessions' = sessions /\ pending' = {m}
        BY <3>3 DEF Queue
      <4> QED
        BY <1>0, <3>1, <4>1 DEF Slots
    <3> QED
      BY <1>10, <3>2, <3>3
  <2>8. Types'
    BY <1>0, <1>2, <1>10 DEF Types, SendNow, Occupy, Queue
  <2> QED
    BY <2>2, <2>6, <2>7, <2>8 DEF ComInv
<1>11. CASE Drop(m)
  <2>1. /\ UNCHANGED <<sessions, started, pending>>
        /\ tx_busy_drop_count' = tx_busy_drop_count + 1
        /\ Responses' = Responses
    BY <1>11 DEF Drop, Responses
  <2>2. Counted'
    <3>1. tx_busy_drop_count \in Nat
      BY <1>0 DEF Types
    <3> QED
      BY <1>0, <1>1, <1>2, <1>9, <2>1, <3>1 DEF Counted, H
  <2>3. Answers'
    BY <1>0, <1>2, <1>4, <1>6, <2>1 DEF Answers
  <2>4. Slots' /\ Types'
    BY <1>0, <1>2, <2>1 DEF Slots, Types
  <2> QED
    BY <2>2, <2>3, <2>4 DEF ComInv
<1> QED
  BY <1>10, <1>11 DEF Send

LEMMA FlushInv ==
    ASSUME ComInv, NEW ended \in SUBSET sessions, Flush(ended) \/ NoFlush(ended),
           in_process' \in BOOLEAN,
           UNCHANGED <<current_source_addr, tx_busy_drop_count, handled>>
    PROVE  ComInv'
<1>0. /\ Types /\ Slots /\ Counted /\ Answers
  BY DEF ComInv
<1>1. (\A r \in pending : r.n # 0) /\ pending \cap started = {}
  BY <1>0 DEF Answers
<1>2. CASE Flush(ended)
  <2>1. sessions' = pending /\ started' = started \cup pending /\ pending' = {}
    BY <1>2 DEF Flush
  <2>2. Responses' = Responses
    BY <1>1, <2>1 DEF Responses
  <2>3. Counted' /\ Answers'
    BY <2>1, <2>2, SameResponses
  <2>4. IsFiniteSet({}) /\ Cardinality({}) = 0
    BY FS_EmptySet
  <2>5. Slots'
    BY <1>0, <2>1, <2>4, ComAssumption, FS_CardinalityType DEF Slots
  <2>6. Types'
    BY <1>0, <2>1 DEF Types
  <2> QED
    BY <2>3, <2>5, <2>6 DEF ComInv
<1>3. CASE NoFlush(ended)
  <2>1. sessions' = sessions \ ended /\ started' = started /\ pending' = pending
    BY <1>3 DEF NoFlush
  <2>2. Responses' = Responses
    BY <2>1 DEF Responses
  <2>3. Counted' /\ Answers'
    BY <1>1, <2>1, <2>2, SameResponses
  <2>4. IsFiniteSet(sessions') /\ Cardinality(sessions') <= Cardinality(sessions)
    BY <1>0, <2>1, FS_Subset DEF Slots
  <2>5. Cardinality(sessions) \in Nat /\ Cardinality(sessions') \in Nat
    BY <1>0, <2>4, FS_CardinalityType DEF Slots
  <2>6. Slots'
    BY <1>0, <2>1, <2>4, <2>5, ComAssumption DEF Slots
  <2>7. Types'
    BY <1>0, <2>1 DEF Types
  <2> QED
    BY <2>3, <2>6, <2>7 DEF ComInv
<1> QED
  BY <1>2, <1>3

LEMMA SendInv ==
    ASSUME ComInv, NEW dest \in Addresses, BIN_COM_Send(dest)
    PROVE  ComInv'
<1> DEFINE m == [n |-> 0, dest |-> dest, code |-> "OK", size |-> 1]
<1>0. /\ Types /\ Slots /\ Counted /\ Answers
  BY DEF ComInv
<1>1. /\ Cardinality(sessions) < NumTxSessions
      /\ sessions' = sessions \cup {m} /\ started' = started \cup {m}
      /\ UNCHANGED <<in_process, current_source_addr, pending, tx_busy_drop_count, handled>>
  BY DEF BIN_COM_Send, Occupy
<1>2. m \in Messages /\ m.n = 0
  BY ComAssumption DEF Messages, Codes
<1> HIDE DEF m
<1>3. Responses' = Responses
  BY <1>1, <1>2 DEF Responses
<1>4. pending' \cap started' = {}
  BY <1>0, <1>1, <1>2 DEF Answers
<1>5. Counted' /\ Answers'
  BY <1>1, <1>3, <1>4, SameResponses
<1>6. IsFiniteSet(sessions') /\ Cardinality(sessions') <= NumTxSessions
  <2>1. IsFiniteSet(sessions) /\ Cardinality(sessions) \in Nat
    BY <1>0, FS_CardinalityType DEF Slots
  <2>2. /\ IsFiniteSet(sessions \cup {m})
        /\ \/ Cardinality(sessions \cup {m}) = Cardinality(sessions)
           \/ Cardinality(sessions \cup {m}) = Cardinality(sessions) + 1
    BY <2>1, FS_AddElement
  <2> QED
    BY <1>1, <2>1, <2>2, ComAssumption
<1>7. Slots'
  BY <1>0, <1>1, <1>6 DEF Slots
<1>8. Types'
  BY <1>0, <1>1, <1>2 DEF Types
<1> QED
  BY <1>5, <1>7, <1>8 DEF ComInv

LEMMA TransferEndsInv ==
    ASSUME ComInv, NEW m \in sessions, TransferEnds(m)
    PROVE  ComInv'
<1>0. /\ Types /\ Slots /\ Counted /\ Answers
  BY DEF ComInv
<1>1. /\ sessions' = sessions \ {m}
      /\ UNCHANGED <<in_process, current_source_addr, pending, tx_busy_drop_count,
                     handled, started>>
  BY DEF TransferEnds
<1>2. IsFiniteSet(sessions') /\ Cardinality(sessions') <= Cardinality(sessions)
  BY <1>0, <1>1, FS_Subset DEF Slots
<1>3. Cardinality(sessions) \in Nat /\ Cardinality(sessions') \in Nat
  BY <1>0, <1>2, FS_CardinalityType DEF Slots
<1>4. Slots'
  BY <1>0, <1>1, <1>2, <1>3, ComAssumption DEF Slots
<1>5. Types'
  BY <1>0, <1>1 DEF Types
<1>6. Counted' /\ Answers'
  BY <1>0, <1>1, SameResponses DEF Responses, Answers
<1> QED
  BY <1>4, <1>5, <1>6 DEF ComInv

\* A step that leaves everything but the address and the process flag.
LEMMA QuietInv ==
    ASSUME ComInv, in_process' \in BOOLEAN,
           current_source_addr' \in Addresses \cup {NoAddress},
           UNCHANGED <<sessions, pending, tx_busy_drop_count, handled, started>>
    PROVE  ComInv'
BY DEF ComInv, Types, Slots, Counted, Answers, Responses

LEMMA NextInv == ComInv /\ [Next]_vars => ComInv'
<1> SUFFICES ASSUME ComInv, [Next]_vars PROVE ComInv'
  OBVIOUS
<1>0. Types
  BY DEF ComInv
<1>1. CASE BeginProcess
  BY <1>0, <1>1, QuietInv DEF BeginProcess, Types
<1>2. ASSUME NEW q \in Requests, Ignore(q)
      PROVE  ComInv'
  <2>1. q.source \in Addresses
    BY InputAssumption
  <2> QED
    BY <1>0, <1>2, <2>1, QuietInv DEF Ignore, Types
<1>3. ASSUME NEW q, q.source \in Addresses, q.path \in Nat, NEW app \in AppAnswers,
             NEW misread \in BOOLEAN, misread => ~LengthMatches(q), Handle(q, app, misread)
      PROVE  ComInv'
  <2>1. PICK record \in Records, m \in Messages :
              /\ handled' = Append(handled, record)
              /\ Send(m)
              /\ m.n = Len(handled) + 1
              /\ Faithful(m, record)
              /\ Harmless(record)
    BY <1>3, HandleStep
  <2>2. in_process' = in_process /\ current_source_addr' \in Addresses
    BY <1>3 DEF Handle
  <2> QED
    BY <2>1, <2>2, AnswerInv
<1>4. ASSUME NEW q \in Requests, NEW app \in AppAnswers, Handle(q, app, FALSE)
      PROVE  ComInv'
  <2>1. q.source \in Addresses /\ q.path \in Nat
    BY InputAssumption
  <2> QED
    BY <1>3, <1>4, <2>1
<1>5. ASSUME NEW q \in Requests, NEW app \in AppAnswers, NEW response \in PeerResponses,
             Handle(AsRequest(response, q), app, TRUE)
      PROVE  ComInv'
  <2> DEFINE r == AsRequest(response, q)
  <2>1. q.source \in Addresses /\ q.path \in Nat
    BY InputAssumption
  <2>2. ~LengthMatches(r) /\ r.source = q.source /\ r.path = q.path
    BY ResponseLengthWrong
  <2> HIDE DEF r
  <2>3. Handle(r, app, TRUE)
    BY <1>5 DEF r
  <2> QED
    BY <1>3, <2>1, <2>2, <2>3
<1>6. ASSUME NEW m \in sessions, TransferEnds(m)
      PROVE  ComInv'
  BY <1>6, TransferEndsInv
<1>7. ASSUME NEW ended \in SUBSET sessions, EndProcess(ended) \/ Tick(ended)
      PROVE  ComInv'
  BY <1>0, <1>7, FlushInv DEF EndProcess, Tick, Types
<1>8. ASSUME NEW addr \in Addresses, BIN_COM_Send(addr) \/ BIN_COM_SetDestAddress(addr)
      PROVE  ComInv'
  <2>1. CASE BIN_COM_Send(addr)
    BY <2>1, SendInv
  <2>2. CASE BIN_COM_SetDestAddress(addr)
    BY <1>0, <2>2, QuietInv DEF BIN_COM_SetDestAddress, Types
  <2> QED
    BY <1>8, <2>1, <2>2
<1>9. CASE UNCHANGED vars
  BY <1>0, <1>9, QuietInv DEF vars, Types
<1> QED
  BY <1>1, <1>2, <1>4, <1>5, <1>6, <1>7, <1>8, <1>9 DEF Next, Step

-----------------------------------------------------------------------------
(* The theorems. *)

\* ComInv is an invariant.
THEOREM ComInvariance == Spec => []ComInv
BY InitInv, NextInv, PTL DEF Spec

\* The state keeps its types, and the slots and the queue their sizes: the
\* pending response takes one slot, and no handler picks an unknown code.
THEOREM TypeCorrect == Spec => []TypeOK
<1>1. ComInv => TypeOK
  BY DEF ComInv, Types, Slots, TypeOK, Records
<1> QED
  BY <1>1, ComInvariance, PTL

\* However the sends, the queue and the drops interleave (SendBinaryResponse,
\* QueueResponseFrame, TryFlushPendingResponse), the requests handled are the
\* responses made plus the drops counted, and no request has two responses.
THEOREM EveryRequestCounted == Spec => []OneAnswerEach
<1>1. ComInv => OneAnswerEach
  BY DEF ComInv, Counted, Answers, OneAnswerEach
<1> QED
  BY <1>1, ComInvariance, PTL

\* A response is sent to the source of the request it answers: requests and
\* BIN_COM_SetDestAddress move current_source_addr, but not the address that
\* QueueResponseFrame kept.
THEOREM RightRecipient == Spec => []RepliesToAsker
<1>1. ComInv => RepliesToAsker
  BY DEF ComInv, Answers, Faithful, RepliesToAsker
<1> QED
  BY <1>1, ComInvariance, PTL

\* No handler writes past tx_buffer, whatever the request says and the
\* application returns.
THEOREM BufferHolds == Spec => []NoOverrun
<1>1. ComInv => NoOverrun
  <2>1. ComInv => DOMAIN handled = 1..Len(handled)
    BY DEF ComInv, Types
  <2> QED
    BY <2>1 DEF ComInv, Answers, Harmless, NoOverrun
<1> QED
  BY <1>1, ComInvariance, PTL

\* An error response means that nothing but the clock has changed: for
\* SAVE_FILE because the size check that follows the save cannot fail when
\* the path is short enough to have been saved.
THEOREM ErrorsChangeNothing == Spec => []ErrorMeansUnchanged
<1>1. ComInv => ErrorMeansUnchanged
  BY DEF ComInv, Answers, Faithful, ErrorMeansUnchanged
<1> QED
  BY <1>1, ComInvariance, PTL

\* A response read as a request is refused, for every length it can have: the
\* two lengths first agree at 65285 bytes, more than BIN_TX_BUFFER_SIZE allows.
THEOREM NoPhantoms == Spec => []NoPhantomCommand
<1>1. ComInv => NoPhantomCommand
  <2>1. ComInv => DOMAIN handled = 1..Len(handled)
    BY DEF ComInv, Types
  <2> QED
    BY <2>1 DEF ComInv, Answers, Harmless, Faithful, NoPhantomCommand
<1> QED
  BY <1>1, ComInvariance, PTL

\* The pending response is neither overwritten nor dropped: the step that
\* takes it out of the queue starts its transfer.
THEOREM QueueKept == Spec => PendingKept
<1>1. Next => pending \subseteq pending' \cup started'
  <2> SUFFICES ASSUME Next PROVE pending \subseteq pending' \cup started'
    OBVIOUS
  <2>1. ASSUME NEW q, NEW app, NEW misread, Handle(q, app, misread)
        PROVE  pending \subseteq pending'
    <3>1. PICK m : Send(m)
      BY <2>1 DEF Handle
    <3> QED
      BY <3>1 DEF Send, SendNow, Queue, Drop
  <2>2. ASSUME NEW ended, EndProcess(ended) \/ Tick(ended)
        PROVE  pending \subseteq pending' \cup started'
    BY <2>2 DEF EndProcess, Tick, Flush, NoFlush
  <2> QED
    BY <2>1, <2>2 DEF Next, Step, BeginProcess, Ignore, TransferEnds, BIN_COM_Send,
                      BIN_COM_SetDestAddress
<1>2. [Next]_vars => [pending \subseteq pending' \cup started']_vars
  BY <1>1
<1> QED
  BY <1>2, PTL DEF Spec, PendingKept
=============================================================================
