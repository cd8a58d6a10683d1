--------------------------- MODULE FragmentRxAlone ---------------------------
(* The receiver by itself, sent any DATA frame whose CRC is right: headers  *)
(* that contradict themselves, each other or the sessions under way.        *)
EXTENDS FragmentRx

CONSTANTS
    MsgIds, TotalLens, Counts, PayloadLens,    \* header fields of the frames sent
    MaxDeliveries    \* BOUND: deliveries after which no more frames come

ASSUME RxAloneAssumption ==
    /\ MsgIds \subseteq Nat /\ TotalLens \subseteq Nat /\ Counts \subseteq Nat
    /\ PayloadLens \subseteq Nat /\ MaxDeliveries \in Nat
    /\ Senders \subseteq Data

rxAloneVars == <<rxVars, net>>

RxAloneInit == net = {} /\ RxInit

\* A payload tells who sent it.  BOUND: an index is at most one past the
\* largest message's.
AnyFrame ==
    {DataFrame(source, msg_id, len, idx, cnt, [data |-> source, off |-> 0, len |-> plen]) :
        source \in Senders, msg_id \in MsgIds, len \in TotalLens,
        idx \in 0..MaxFragments, cnt \in Counts, plen \in PayloadLens}

Arrive ==
    /\ Cardinality(delivered) < MaxDeliveries
    /\ \E f \in AnyFrame : RxData(f)

\* The frames in the air reach whoever listens.
RxHeard == net # {} /\ net' = {} /\ UNCHANGED rxVars

RxClock == RxAge /\ UNCHANGED <<net, delivered>>

RxAloneNext ==
    InQuiet(Arrive) \/ InQuiet(RxTick) \/ InQuiet(RxClear) \/ InQuiet(RxClock) \/ RxHeard

RxAloneSpec ==
    /\ RxAloneInit /\ [][RxAloneNext]_rxAloneVars
    /\ WF_rxAloneVars(RxHeard)
    /\ SF_rxAloneVars(InQuiet(RxClock))
    /\ SF_rxAloneVars(InQuiet(RxTick))

-----------------------------------------------------------------------------
\* No sequence of frames leaves a session that is complete and not
\* delivered, two sessions for one transfer, a payload of another device, or
\* one outside the part of the buffer the session's own header declared
\* (process_data_fragment).
SessionsSound ==
    /\ \A s \in RxActive :
          /\ ~IsComplete(rx[s])
          /\ \A i \in rx[s].received :
                /\ i < rx[s].frag_cnt
                /\ rx[s].buffer[i].data = rx[s].source
                /\ i * MaxPayload + rx[s].buffer[i].len <= rx[s].total_len
          /\ \A i \in Indices \ rx[s].received : rx[s].buffer[i] = Blank
    /\ \A s, t \in RxActive :
          rx[s].source = rx[t].source /\ rx[s].msg_id = rx[t].msg_id => s = t

\* A session belongs to one transfer until its slot is freed: what it has
\* received is never taken back, overwritten or given to another transfer.
SessionKeepsItsParts ==
    [][\A s \in RxSlots : rx[s].active /\ rx'[s].active =>
          /\ rx'[s].source = rx[s].source /\ rx'[s].msg_id = rx[s].msg_id
          /\ rx[s].received \subseteq rx'[s].received
          /\ \A i \in rx[s].received : rx'[s].buffer[i] = rx[s].buffer[i]
      ]_rxAloneVars

\* A NACK asks the sender of a session for fragments that session lacks, the
\* first it lacks among them, and for no more than a NACK frame holds.
NacksHonest ==
    [][\A f \in net' \ net : f.type = "NACK" =>
          /\ Cardinality(f.missing) \in 1..MaxNackIndices
          /\ \E s \in RxSlots :
                /\ rx'[s].active
                /\ rx'[s].source = f.dest /\ rx'[s].msg_id = f.msg_id
                /\ f.missing \subseteq Missing(rx'[s])
                /\ \A i \in Missing(rx'[s]) : \E j \in f.missing : j <= i
      ]_rxAloneVars

\* A session's slot is freed in the end, however many fragments keep coming:
\* its age alone ends it (frag_rx_tick).
RxSessionEnds == \A s \in RxSlots : rx[s].active ~> ~rx[s].active
=============================================================================
