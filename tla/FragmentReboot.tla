--------------------------- MODULE FragmentReboot ---------------------------
(* FragmentLink with transmitters that reboot: BIN_COM_Init calls           *)
(* frag_tx_init, which forgets the sessions and starts the message ids at 1 *)
(* again, while the receiver keeps its sessions.                            *)
EXTENDS FragmentLink

CONSTANT MaxReboots    \* BOUND: reboots of the transmitters

ASSUME RebootAssumption == MaxReboots \in Nat

VARIABLE reboots

rebootVars == <<vars, reboots>>

RebootTx(n) ==
    /\ reboots < MaxReboots
    /\ reboots' = reboots + 1
    /\ tx' = [tx EXCEPT ![n] = [s \in TxSlots |-> NoSession]]
    /\ next_msg_id' = [next_msg_id EXCEPT ![n] = 1]
    /\ payload_size' = [payload_size EXCEPT ![n] = MaxPayload]
    /\ UNCHANGED <<net, accepted, outcome, rxVars>>

RebootInit == Init /\ reboots = 0

RebootNext ==
    \/ Next /\ UNCHANGED reboots
    \/ \E n \in Senders : RebootTx(n)

RebootSpec == RebootInit /\ [][RebootNext]_rebootVars

-----------------------------------------------------------------------------
\* A part is what that device sent at index i of some message it accepted
\* with that id and length.
GenuinePart(part, source, msg_id, len, i) ==
    \E a \in accepted :
        /\ a.source = source /\ a.msg_id = msg_id /\ a.len = len
        /\ part = Slice(a.data, a.len, MaxPayload, i)

\* What is left of Integrity across reboots: every part of a message handed
\* to on_message was sent by that device under that id, at that index, in a
\* message of that length; the parts need not be of one message.
PartsGenuine ==
    \A d \in delivered : \A i \in 0..(CeilDiv(d.len, MaxPayload) - 1) :
        GenuinePart(d.buffer[i], d.source, d.msg_id, d.len, i)

-----------------------------------------------------------------------------
(* The inductive invariant behind it: TruthInv, which asks for no unique    *)
(* ids, and sessions whose parts are genuine one by one.                    *)

SessionPartsGenuine ==
    \A s \in RxActive :
        /\ rx[s].frag_cnt = CeilDiv(rx[s].total_len, MaxPayload)
        /\ \A i \in rx[s].received :
              GenuinePart(rx[s].buffer[i], rx[s].source, rx[s].msg_id,
                          rx[s].total_len, i)

RebootInv ==
    /\ TruthInv
    /\ reboots \in 0..MaxReboots
    /\ SessionPartsGenuine
    /\ PartsGenuine
=============================================================================
