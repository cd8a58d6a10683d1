-------------------------- MODULE MCFragmentFrames --------------------------
(* FragmentFrames for TLC.  A device that sends fragments and one that      *)
(* reports what is missing are looked at one at a time.                     *)
EXTENDS FragmentFrames

\* One bit, two next to each other, two 16 apart, all sixteen, and the
\* generator without its leading term.
SomeBursts == {32768, 49152, 32769, 65535, 4129}

\* Messages of one byte throughout, and one of different bytes.
SomeMessages ==
    {[j \in 0..(MaxMessageSize - 1) |-> b] : b \in Byte}
        \cup {[j \in 0..(MaxMessageSize - 1) |-> (j * 7) % 256]}

\* Every byte in the shortest fragment, so that the whole CRC table is used.
Short == sent'.total_len = 1 /\ sent'.msg_id = 1

Long == sent'.total_len > 1 /\ (Len(sent'.payload) > 1 => sent'.payload[1] # sent'.payload[2])

Chosen == Short \/ Long

\* A fragment leaves nothing behind: one is enough.
MCNext ==
    \/ sent = Nothing /\ session = Nothing /\ SenderNext /\ Chosen
    \/ sent.type # "DATA" /\ ReceiverNext
    \/ RadioNext

MCSpec == Init /\ [][MCNext]_vars
=============================================================================
