-------------------------- MODULE FragmentTransfer --------------------------
(* What the fragment protocol promises the applications on both sides,      *)
(* without fragments, sessions, retransmissions or time: a message that     *)
(* frag_tx_send accepted may be delivered, whole and unchanged, and a       *)
(* transfer is concluded at most once, with success only after delivery.    *)
(* It may also be concluded as failed although it was delivered, and be     *)
(* delivered again: neither is excluded by the protocol.                    *)
EXTENDS Naturals

CONSTANTS Senders, Destinations, MsgIds, Bodies, Lengths

VARIABLES
    accepted,    \* the messages accepted for transfer
    delivered,   \* the messages the receiving application was given
    outcome      \* the results the sending applications were given

vars == <<accepted, delivered, outcome>>

Init == accepted = {} /\ delivered = {} /\ outcome = {}

Same(x, y) == x.source = y.source /\ x.msg_id = y.msg_id

Accept ==
    \E n \in Senders, id \in MsgIds, dest \in Destinations,
       body \in Bodies, len \in Lengths :
        LET a == [source |-> n, msg_id |-> id, dest |-> dest,
                  data |-> body, len |-> len]
        IN  /\ \A b \in accepted : ~Same(a, b)
            /\ accepted' = accepted \cup {a}
            /\ UNCHANGED <<delivered, outcome>>

Deliver ==
    \E a \in accepted :
        /\ delivered' = delivered \cup
              {[source |-> a.source, msg_id |-> a.msg_id,
                data |-> a.data, len |-> a.len]}
        /\ UNCHANGED <<accepted, outcome>>

\* All the transfers that end at one moment.
Conclude ==
    \E ended \in SUBSET (accepted \X BOOLEAN) :
        LET results == {[source |-> p[1].source, msg_id |-> p[1].msg_id,
                         success |-> p[2]] : p \in ended}
        IN  /\ \A r1, r2 \in results : Same(r1, r2) => r1 = r2
            /\ \A r \in results :
                  /\ \A o \in outcome : ~Same(o, r)
                  /\ r.success => \E d \in delivered : Same(d, r)
            /\ outcome' = outcome \cup results
            /\ UNCHANGED <<accepted, delivered>>

Next == Accept \/ Deliver \/ Conclude

Spec == Init /\ [][Next]_vars
=============================================================================
