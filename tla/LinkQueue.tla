------------------------------ MODULE LinkQueue ------------------------------
(***************************************************************************)
(* The packet queue of the data link layer, g_aDllQueue.                   *)
(*                                                                         *)
(* Packets come from the network layer: the device's own, queued by the    *)
(* main loop, and those it forwards, queued by the interrupt that received *)
(* them.  Deleting a packet only marks it; the marked ones are taken out   *)
(* at the start of the next slot (DLL_Configure), where the slot's link is *)
(* given the best packet, which is composed into the radio's buffer and    *)
(* remembered by its place in the queue (g_sDllSlot.m_pQueue).  The radio  *)
(* then reports the transmission and the acknowledgement, still within the *)
(* slot.  A packet also goes when its retries or its time are used up,     *)
(* when its neighbour disconnects, or when the device itself leaves the    *)
(* network, which it does in the stages of g_ucDllDisconnect.              *)
(*                                                                         *)
(* Each handler is a step: the slot timer and the radio run at interrupt   *)
(* level, the main loop shuts them out while it changes the queue.         *)
(* What the packets say is left out, and so are the frames that the data   *)
(* link layer makes itself (they are not in the queue).                    *)
(***************************************************************************)
EXTENDS Naturals, Sequences, FiniteSets

CONSTANTS
    Packets,      \* the packets: which one a buffer holds, a set of numbers
    Handle,       \* the one that answers the command to leave (g_unDiscPktHandle)
    Neighbors,    \* neighbours with a link of their own
    InGraph,      \* the neighbours that the graph leads to
    Priorities,   \* the priorities in use, from ALARM to COMMAND
    Threshold,    \* g_ucDllPriorityThreshold
    MaxBuffers,   \* DLL_MAX_PACKET_BUFFERS
    MaxRetries,   \* DLL_MAX_RETRIES
    MaxAge,       \* g_stProv.ulMaxPacketAge, in slots
    AlarmBound,   \* bound of the model: what g_ucDllAlarmsCounter is counted up to
    None

ALARM   == 0
NORMAL  == 1
DATA    == 2
COMMAND == 3

ASSUME PacketAssumption   == Packets \subseteq Nat /\ IsFiniteSet(Packets)
ASSUME PriorityAssumption == Priorities \subseteq ALARM .. COMMAND
ASSUME LimitAssumption    ==
    MaxBuffers \in Nat \ {0} /\ MaxRetries \in Nat \ {0}
    /\ MaxAge \in Nat /\ AlarmBound \in Nat
ASSUME NoneAssumption == None \notin Packets

VARIABLES
    queue,     \* g_aDllQueue, as long as g_ucDllAllQueueSize
    crt,       \* g_ucDllCrtQueueSize
    modified,  \* g_sDllFlags.m_ucQueue
    slot,      \* m_pQueue of g_sDllSlot, 0 for none, and m_ucNeedACK
    buffer,    \* the packet of the queue in g_aucDllBuffer
    xvr,       \* g_ucDllXVRStatus
    alarms,    \* g_ucDllAlarmsCounter
    leaving,   \* the neighbours with m_bDisconnected
    left,      \* g_sDllFlags.m_ucDisconnect
    disc,      \* g_ucDllDisconnect
    acked      \* packets in the queue that their receiver has acknowledged

vars == <<queue, crt, modified, slot, buffer, xvr, alarms, leaving, left, disc,
          acked>>

-----------------------------------------------------------------------------
(* Packets.  A destination is a neighbour, the graph, or the superframe on  *)
(* whose broadcast links the packet goes.                                   *)

Destinations == Neighbors \union {"graph", "superframe"}
TxLinks      == Neighbors \union {"superframe"}

\* age counts down the slots that are left of MaxAge.
Packet == [id : Packets, prio : Priorities, dest : Destinations,
           retries : 0 .. MaxRetries, age : 0 .. MaxAge, marked : BOOLEAN]

Queued == {queue[i].id : i \in DOMAIN queue}

\* The packets that DLL_Configure keeps of the first n.
Kept(q) ==
    LET kept[n \in 0 .. Len(q)] ==
            IF n = 0 THEN <<>>
            ELSE IF q[n].marked THEN kept[n - 1]
            ELSE Append(kept[n - 1], q[n])
    IN  kept

NotMarked(q) == Kept(q)[Len(q)]

Init ==
    /\ queue = <<>> /\ crt = 0 /\ modified = FALSE
    /\ slot = [q |-> 0, ack |-> FALSE] /\ buffer = None /\ xvr = "idle"
    /\ alarms = 0 /\ leaving = {} /\ left = FALSE
    /\ disc = "inactive" /\ acked = {}

-----------------------------------------------------------------------------
(* Adding: DLL_TX_Request and the limits its two callers put first.         *)

Retries(dest) == IF dest = "superframe" THEN 1 ELSE MaxRetries

\* Mutant: the marked packets give their room to the new one.
AddCompacts(p, prio, dest, age) ==
    /\ p \notin Queued /\ p # buffer
    /\ disc = "inactive" \/ p = Handle
    /\ prio = ALARM => alarms < AlarmBound
    /\ Len(NotMarked(queue)) < MaxBuffers
    /\ queue' = Append(NotMarked(queue),
                    [id |-> p, prio |-> prio, dest |-> dest,
                     retries |-> Retries(dest), age |-> age, marked |-> FALSE])
    /\ alarms' = IF prio = ALARM THEN alarms + 1 ELSE alarms
    /\ modified' = TRUE
    /\ UNCHANGED <<crt, slot, buffer, leaving, left, disc, acked>>

Add(p, prio, dest, age) ==
    /\ p \notin Queued /\ p # buffer
    /\ IF disc = "inactive" THEN \A r \in Packets \ Queued : r = buffer \/ p <= r
                            ELSE p = Handle
    /\ prio = ALARM => alarms < AlarmBound
    /\ Len(queue) < MaxBuffers
    /\ queue' = Append(queue, [id |-> p, prio |-> prio, dest |-> dest,
                               retries |-> Retries(dest), age |-> age,
                               marked |-> FALSE])
    /\ alarms' = IF prio = ALARM THEN alarms + 1 ELSE alarms
    /\ modified' = TRUE
    /\ UNCHANGED <<crt, slot, buffer, leaving, left, disc, acked>>

\* Mutant: only the alarms are limited.
OneLimit(prio) == IF prio = ALARM THEN MaxBuffers \div 4 ELSE MaxBuffers

OwnLimit(prio) ==
    IF prio = ALARM THEN MaxBuffers \div 4
    ELSE IF prio < COMMAND THEN MaxBuffers - 1
    ELSE MaxBuffers

OwnPacket(p, prio, dest) ==
    /\ Len(queue) < OwnLimit(prio)
    /\ Add(p, prio, dest, MaxAge)
    /\ UNCHANGED xvr

Accepts(prio) ==
    CASE prio = ALARM   -> alarms = 0 /\ Len(queue) < MaxBuffers - 1
      [] prio = NORMAL  -> prio >= Threshold /\ Len(queue) < MaxBuffers \div 2
      [] prio = DATA    -> prio >= Threshold /\ Len(queue) < (MaxBuffers * 3) \div 4
      [] prio = COMMAND -> Len(queue) < MaxBuffers

\* A packet to be forwarded is received: one refused changes nothing here.
Forward(p, prio, dest, age) ==
    /\ xvr = "rx" /\ disc = "inactive"
    /\ Accepts(prio)
    /\ Add(p, prio, dest, age)
    /\ xvr' = "idle"

-----------------------------------------------------------------------------
(* The start of a slot.                                                     *)

\* The packets for neighbours that have disconnected are marked.
Disconnected(q) ==
    [i \in DOMAIN q |->
        IF left /\ q[i].dest \in leaving THEN [q[i] EXCEPT !.marked = TRUE] ELSE q[i]]

Aged(q) ==
    [i \in DOMAIN q |-> [q[i] EXCEPT !.age = IF @ = 0 THEN 0 ELSE @ - 1]]

SomeLeaving == left /\ \E i \in DOMAIN queue : queue[i].dest \in leaving

\* DLL_Configure: the queue it leaves, and the size it commits then.
Configured(q) == IF modified \/ SomeLeaving THEN NotMarked(q) ELSE q
Committed(q)  == IF modified \/ SomeLeaving THEN Len(q) ELSE crt

\* The table of neighbours may keep an entry that has disconnected, if it is
\* rebuilt when another one goes as well.
NeighborsLeave ==
    /\ left' = FALSE
    /\ IF left THEN leaving' \in SUBSET leaving ELSE UNCHANGED leaving

Matches(e, link) ==
    \/ e.dest = link
    \/ e.dest = "graph" /\ link \in InGraph

\* DLL_HoldThisPacket: the higher priority, then the older packet.
Better(a, b) ==
    \/ a.prio > b.prio
    \/ a.prio = b.prio /\ a.age < b.age

\* DLL_ReqCrtPktFromQueue: the first of the best packets, if there is one.
Best(q, size, link) ==
    LET fit == {i \in 1 .. size : Matches(q[i], link) /\ q[i].retries > 0}
    IN  {i \in fit : \A j \in fit : /\ ~Better(q[j], q[i])
                                    /\ Better(q[i], q[j]) \/ i <= j}

\* Mutant: packets do not get too old.
WithoutRetries(e) == e.retries = 0

\* DLL_CheckOtherTimeouts.
Expired(e) == e.retries = 0 \/ e.age = 0
Timeouts(q, size) ==
    LET gone == {i \in 1 .. size : Expired(q[i])}
        k    == Cardinality({i \in gone : q[i].prio = ALARM})
    IN  /\ queue' = [i \in DOMAIN q |->
                        IF i \in gone THEN [q[i] EXCEPT !.marked = TRUE] ELSE q[i]]
        /\ alarms' = IF alarms > k THEN alarms - k ELSE 0
        /\ modified' = (gone # {})

\* DLL_Schedule_Link clears the slot; without a packet the link is one to
\* receive on, one for a frame of the data link layer itself, or none.
\* A packet whose turn comes too late in the slot is not put on the air.
Scheduled(q, size, link, inTime) ==
    \/ \E i \in Best(q, size, link) :
        /\ slot' = [q |-> i, ack |-> q[i].dest # "superframe"]
        /\ buffer' = q[i].id
        /\ xvr' = IF inTime THEN "tx" ELSE "idle"
        /\ Timeouts(IF inTime THEN [q EXCEPT ![i].retries = @ - 1] ELSE q, size)
    \/ /\ Best(q, size, link) = {}
       /\ slot' = [q |-> 0, ack |-> FALSE]
       /\ buffer' = None
       /\ xvr' \in {"idle", "rx"}
       /\ Timeouts(q, size)

\* DLL_Timeslot_Start, when it does not keep the radio asleep.
Slot(link, inTime) ==
    \E q \in {Configured(Disconnected(Aged(queue)))} :
        /\ disc # "reset"
        /\ crt' = Committed(q)
        /\ Scheduled(q, crt', link, inTime)
        /\ NeighborsLeave
        /\ acked' = acked \intersect {q[i].id : i \in DOMAIN q}
        /\ UNCHANGED disc

\* DLL_Timeslot_Start, when the next link with something to do is slots away.
AsleepSlot ==
    LET old == Disconnected(Aged(queue))
    IN  /\ disc # "reset"
        /\ queue' = Configured(old)
        /\ crt' = Committed(queue')
        /\ modified' = FALSE
        /\ xvr' = "idle"
        /\ buffer' = None
        /\ NeighborsLeave
        /\ acked' = acked \intersect {queue'[i].id : i \in DOMAIN queue'}
        /\ UNCHANGED <<slot, alarms, disc>>

-----------------------------------------------------------------------------
(* What the radio reports within the slot.                                  *)

\* Mutant: without COMMIT_MODIFY_DLL_QUEUE.
RemWithoutCommit ==
    /\ queue' = IF slot.q \in DOMAIN queue
                THEN [queue EXCEPT ![slot.q].marked = TRUE] ELSE queue
    /\ UNCHANGED <<alarms, modified>>
    /\ slot' = [slot EXCEPT !.q = 0]

RemCrtPktFromQueue ==
    /\ queue' = IF slot.q \in DOMAIN queue
                THEN [queue EXCEPT ![slot.q].marked = TRUE] ELSE queue
    /\ alarms' = IF /\ slot.q \in DOMAIN queue
                    /\ queue[slot.q].prio = ALARM /\ alarms > 0
                 THEN alarms - 1 ELSE alarms
    /\ modified' = TRUE
    /\ slot' = [slot EXCEPT !.q = 0]

\* PHY_DataConfirm: sent, and not to be acknowledged; or sent and now waiting
\* for the acknowledgement; or not sent.
Sent ==
    /\ xvr = "tx" /\ ~slot.ack
    /\ xvr' = "idle"
    /\ RemCrtPktFromQueue
    /\ buffer' = None
    /\ UNCHANGED <<crt, leaving, left, disc, acked>>

SentWaitAck ==
    /\ xvr = "tx" /\ slot.ack
    /\ xvr' = "rx_ack"
    /\ UNCHANGED <<queue, crt, modified, slot, buffer, alarms, leaving, left, disc, acked>>

NotSent ==
    /\ xvr = "tx"
    /\ xvr' = "idle"
    /\ UNCHANGED <<queue, crt, modified, slot, buffer, alarms, leaving, left, disc, acked>>

\* PHY_DataIndicate with an acknowledgement: a success takes the packet out.
Ack ==
    /\ xvr = "rx_ack" /\ slot.q # 0
    /\ xvr' = "idle"
    /\ RemCrtPktFromQueue
    /\ acked' = acked \union ({buffer} \intersect Queued)
    /\ buffer' = None
    /\ UNCHANGED <<crt, leaving, left, disc>>

NegativeAck ==
    /\ xvr = "rx_ack"
    /\ xvr' = "idle"
    /\ UNCHANGED <<queue, crt, modified, slot, buffer, alarms, leaving, left, disc, acked>>

\* PHY_DataIndicate with a disconnect packet of a neighbour.
NeighborDisconnects(n) ==
    /\ xvr = "rx"
    /\ xvr' = "idle"
    /\ leaving' = leaving \union {n}
    /\ left' = TRUE
    /\ UNCHANGED <<queue, crt, modified, slot, buffer, alarms, disc, acked>>

-----------------------------------------------------------------------------
(* disconnectTask, in the main loop, and the command to leave.              *)

\* Command 960, 972, 42 or 771: the queue is to be sent first.
Leave ==
    /\ disc = "inactive"
    /\ disc' = "queue"
    /\ UNCHANGED <<queue, crt, modified, slot, buffer, xvr, alarms, leaving, left, acked>>

Cleared ==
    /\ queue' = <<>> /\ crt' = 0 /\ acked' = {}
    /\ UNCHANGED <<modified, slot, buffer, xvr, alarms, leaving, left>>

\* A reset for a reason that only announces the leaving.
LeaveNow ==
    /\ disc = "inactive"
    /\ disc' = "packets"
    /\ Cleared

\* A reset for a reason that does not even do that.
LeaveAtOnce ==
    /\ disc = "inactive"
    /\ disc' = "reset"
    /\ UNCHANGED <<queue, crt, modified, slot, buffer, xvr, alarms, leaving, left, acked>>

\* Mutant: without a time limit.
QueueEmpty ==
    /\ disc = "queue" /\ queue = <<>>
    /\ disc' = "packets"
    /\ Cleared

\* The queue is empty, or its time is up.
QueueSent ==
    /\ disc = "queue"
    /\ disc' = "packets"
    /\ Cleared

\* DISCONNECT_INTERVAL is over.
PacketsSent ==
    /\ disc = "packets"
    /\ disc' = "reset"
    /\ UNCHANGED <<queue, crt, modified, slot, buffer, xvr, alarms, leaving, left, acked>>

Restart ==
    /\ disc = "reset"
    /\ queue' = <<>> /\ crt' = 0 /\ modified' = FALSE
    /\ slot' = [q |-> 0, ack |-> FALSE] /\ buffer' = None /\ xvr' = "idle"
    /\ alarms' = 0 /\ leaving' = {} /\ left' = FALSE
    /\ disc' = "inactive" /\ acked' = {}

-----------------------------------------------------------------------------
AnySlot == \E link \in TxLinks, inTime \in BOOLEAN : Slot(link, inTime)

Next ==
    \/ \E p \in Packets, prio \in Priorities, dest \in Destinations :
        \/ OwnPacket(p, prio, dest)
        \/ \E age \in 0 .. MaxAge : Forward(p, prio, dest, age)
    \/ AnySlot \/ AsleepSlot
    \/ Sent \/ SentWaitAck \/ NotSent \/ Ack \/ NegativeAck
    \/ \E n \in Neighbors : NeighborDisconnects(n)
    \/ Leave \/ LeaveNow \/ LeaveAtOnce \/ QueueSent \/ PacketsSent \/ Restart

Spec == Init /\ [][Next]_vars

\* The slots go on while the device is in the network, and those it sleeps
\* through are counted; the main loop calls disconnectTask every 250 ms.
FairSpec ==
    Spec /\ WF_vars(AnySlot) /\ WF_vars(QueueSent) /\ WF_vars(PacketsSent)
         /\ WF_vars(Restart)

-----------------------------------------------------------------------------
(* Properties.                                                              *)

\* Type invariant.
TypeOK ==
    /\ queue \in Seq(Packet) /\ Len(queue) <= MaxBuffers
    /\ crt \in 0 .. MaxBuffers
    /\ modified \in BOOLEAN
    /\ slot \in [q : 0 .. MaxBuffers, ack : BOOLEAN]
    /\ buffer \in Packets \union {None}
    /\ xvr \in {"idle", "rx", "tx", "rx_ack"}
    /\ alarms \in 0 .. AlarmBound
    /\ leaving \subseteq Neighbors
    /\ left \in BOOLEAN
    /\ disc \in {"inactive", "queue", "packets", "reset"}
    /\ acked \subseteq Packets

\* While a packet is on the air or waits for its acknowledgement, m_pQueue is
\* where that very packet is, whatever is queued, marked or received meanwhile:
\* the acknowledgement takes the right packet out.  (Once the device has
\* emptied the queue to leave, the place is not the packet's any more.)
InFlight ==
    xvr \in {"tx", "rx_ack"} /\ disc \in {"inactive", "queue"} =>
        slot.q \in DOMAIN queue /\ queue[slot.q].id = buffer

\* A packet whose receiver has acknowledged it is not put on the air again: it
\* is out of the queue before the next link is served.
NotResent == xvr = "tx" => buffer \notin acked

\* One buffer is left for a command, whoever queues the other packets
\* (network_layer.c: "at least one buffer should be reserved for Command packets").
CommandRoom ==
    Cardinality({i \in DOMAIN queue : queue[i].prio < COMMAND}) < MaxBuffers

\* A packet does not stay in the queue, even if its link never comes.
PacketsLeave == \A p \in Packets : p \in Queued ~> p \notin Queued

\* A device that has started to leave does restart.
LeavingEnds == disc # "inactive" ~> disc = "inactive"

\* The comment in NET_TransmitIndicate on the alarms it refuses: "the single buffer
\* reserved for that class is busy -> discard".  While a device that
\* stays in the network counts alarms, one is in its queue.  This does not hold: the
\* packets of a neighbour that disconnects are not counted down (NeighborsLeave).
AlarmBuffered ==
    disc = "inactive" /\ alarms > 0 => \E i \in DOMAIN queue : queue[i].prio = ALARM
=============================================================================
