----------------------------- MODULE MCXBeeApi -----------------------------
(* XBeeApi for TLC.  The two directions share nothing a step of theirs      *)
(* changes, so that a run looks at one of them at a time.                   *)
EXTENDS XBeeApi

\* Bytes that need escaping are everywhere: in the address, in the data and,
\* where a body adds up to 129, in the checksum (the third command under
\* frame id 1, the AT response).
SomeDests == {<<0, 19, 162, 0, 65, 126, 125, 17>>}
SomeRfData == {<<>>, <<126>>, <<0, 0, 0>>}
SomeCommands == {<<78, 74>>, <<73, 68, 125>>, <<78, 74, 224>>}

SomeBodies == {<<138, 6>>,                                      \* modem status
               <<136, 126, 68, 66, 0, 243>>,                    \* AT response
               <<139, 1, 255, 254, 0, 126>>,                    \* too short a TX status
               <<144, 0, 19, 162, 0, 0, 0, 125, 126, 255, 254, 1, 94, 4, 5, 6>>}

Words == {StartDelimiter, EscapeChar, 0, 3}

MCNext == (frames = 0 /\ WriterNext) \/ (calls = 0 /\ ReaderNext)

MCSpec == Init /\ [][MCNext]_vars
=============================================================================
