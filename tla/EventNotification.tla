--------------------------- MODULE EventNotification ---------------------------
(***************************************************************************)
(* Event notification: how a change of the device's status reaches the     *)
(* gateway.                                                                *)
(*                                                                         *)
(* APP_TriggerEvents scans the device status and the data of command 48.   *)
(* A bit that was different in the oldest of four scans in a row is an     *)
(* event, and is put in g_stEventQueue with the status of the last scan.   *)
(* APP_BurstModeAndEventNotificationTask publishes the first event of the  *)
(* queue again and again, as a response to command 119, until the gateway  *)
(* has acknowledged it with a command 119 of its own; it then takes the    *)
(* event out.  Both uses of command 119 are carried out by the same        *)
(* function, which g_ucIsEventAck tells which one it is.                   *)
(*                                                                         *)
(* All of it runs in the main loop: one step each.  Timers are left out:   *)
(* when they run out is open.  A byte has one bit.  There is one event     *)
(* pipe (MAX_EVENTS_NO); it is active when it is switched on and has a     *)
(* service (module ManagerRequests).                                       *)
(***************************************************************************)
EXTENDS Naturals, FiniteSets

CONSTANTS
    Bytes,       \* the bytes of the device status and of the data of command 48
    Changes,     \* those that change at once: sets of bytes
    Masks,       \* the masks that command 116 may write, sets of bytes
    Provisioned, \* the one in the flash at first
    MaxPending,  \* MAX_PENDING_EVENTS
    MaxStamp     \* bound of the model: scans that find an event

ASSUME BytesAssumption   == IsFiniteSet(Bytes)
ASSUME PendingAssumption == MaxPending \in Nat \ {0}
ASSUME StampAssumption   == MaxStamp \in Nat
ASSUME ChangeAssumption  == Changes \subseteq SUBSET Bytes
ASSUME MaskAssumption    == Masks \subseteq SUBSET Bytes /\ Provisioned \subseteq Bytes

VARIABLES
    status,    \* the bytes whose bit is set
    mask,      \* m_aucEventMasks of the pipe, in the flash
    sized,     \* m_ucMaskSize is not 0
    active,    \* the pipe is switched on and has a service
    operating, \* the join is over and NormalOperationCommencing is set
    scans,     \* g_aAllDeviceStatus
    last,      \* g_ucLastScanIndex
    queue,     \* g_stEventQueue
    size,      \* g_pEventQueueEnd - g_stEventQueue
    isAck,     \* g_ucIsEventAck
    stamps,    \* scans that have found an event; an event is identified by its number
    sent,      \* the events that the gateway has seen published
    acks,      \* history: the events that the gateway has acknowledged
    own,       \* history: the events acknowledged by their own publication
    told,      \* history: the status in the newest event
    watched    \* history: the bytes in the mask ever since that event

pipe    == <<mask, sized, active, operating>>
scanned == <<scans, last>>
queued  == <<queue, size>>
gateway == <<sent, acks, own>>
history == <<stamps, told, watched>>
vars    == <<status, pipe, scanned, queued, isAck, gateway, history>>

Places == 1 .. MaxPending

\* EVENT_PENDING_T: time stamp and configuration change counter, data, m_ucAckReceived.
Event == [stamp : 0 .. MaxStamp, data : SUBSET Bytes, acked : BOOLEAN]

Cleared == [stamp |-> 0, data |-> {}, acked |-> FALSE]

\* APP_InitEventScanTable: the status starts as it is scanned first.  A bit and its
\* negation are alike for all that follows, so that it may start with none set.
Init ==
    /\ status = {}
    /\ mask = Provisioned /\ sized = TRUE
    /\ active = FALSE /\ operating = FALSE
    /\ scans = [i \in 0 .. 2 |-> status] /\ last = 0
    /\ queue = [i \in Places |-> Cleared] /\ size = 0
    /\ isAck = FALSE
    /\ stamps = 0
    /\ sent = {} /\ acks = {} /\ own = {}
    /\ told = status /\ watched = Provisioned

-----------------------------------------------------------------------------
(* APP_TriggerEvents, every 250 ms.                                         *)

\* c_aScanIndexTable: the scans from the oldest to the last.
Oldest == (last + 1) % 3
Middle == (last + 2) % 3

\* Mutant: the scan before the last is taken for the oldest.
TriggeredTooLate ==
    {b \in mask : /\ (b \in scans[Middle]) # (b \in scans[last])
                  /\ (b \in scans[Middle]) # (b \in scans[Oldest])
                  /\ (b \in scans[Middle]) # (b \in status)}

\* The bytes with a bit that has changed after the oldest scan and has stayed.
Triggered ==
    {b \in mask : /\ (b \in scans[Oldest]) # (b \in scans[Middle])
                  /\ (b \in scans[Oldest]) # (b \in scans[last])
                  /\ (b \in scans[Oldest]) # (b \in status)}

\* An event for each of n bytes, all with the same contents; when the queue is
\* full the last one is overwritten.
NewSize(n) == IF size + n > MaxPending THEN MaxPending ELSE size + n

FirstNew == IF size = MaxPending THEN MaxPending ELSE size + 1

\* Mutant: the acknowledgement of the event that was there before is kept.
NewEventKeepsAck ==
    [stamp |-> stamps + 1, data |-> status, acked |-> queue[FirstNew].acked]

NewEvent == [stamp |-> stamps + 1, data |-> status, acked |-> FALSE]

Stored(n) ==
    [i \in Places |-> IF i \in FirstNew .. NewSize(n) THEN NewEvent ELSE queue[i]]

Scan ==
    /\ active
    /\ scans' = [scans EXCEPT ![Oldest] = status]
    /\ last' = Oldest
    /\ IF Triggered = {}
       THEN UNCHANGED <<queued, history>>
       ELSE /\ stamps < MaxStamp
            /\ stamps' = stamps + 1
            /\ queue' = Stored(Cardinality(Triggered))
            /\ size' = NewSize(Cardinality(Triggered))
            /\ told' = status /\ watched' = mask
    /\ UNCHANGED <<status, pipe, isAck, gateway>>

\* The pipe is off or has no service.
ClearQueue ==
    /\ ~active /\ size > 0
    /\ queue' = [i \in Places |-> Cleared] /\ size' = 0
    /\ UNCHANGED <<status, pipe, scanned, isAck, gateway, history>>

-----------------------------------------------------------------------------
(* Command 119.                                                             *)

\* Mutant: compared with the last event.
MatchesLast(req) == sized /\ size > 0 /\ req # 0 /\ req = queue[size].stamp

\* Execute_C119 for the request of the gateway (g_ucIsEventAck is set): the first
\* place is acknowledged by a request with its contents; 0 is one that has the contents
\* of no event.  With a mask of size 0 the contents are compared over a length of -1,
\* and differ.
Matches(req) == sized /\ req # 0 /\ req = queue[1].stamp

\* The gateway acknowledges an event that it has seen, or only asks.
AcknowledgeEvent(req) ==
    /\ req \in sent \union {0}
    /\ IF Matches(req)
       THEN /\ queue' = [queue EXCEPT ![1].acked = TRUE]
            /\ acks' = acks \union {req}
            /\ sent' = sent
       ELSE /\ sent' = IF size = 0 THEN sent ELSE sent \union {queue[1].stamp}
            /\ UNCHANGED <<queue, acks>>
    /\ isAck' = FALSE
    /\ UNCHANGED <<status, pipe, scanned, size, own, history>>

\* A request that is not carried out: no such event, or no room for the response.
SkippedRequest ==
    /\ isAck' = TRUE
    /\ UNCHANGED <<status, pipe, scanned, queued, gateway, history>>

-----------------------------------------------------------------------------
(* APP_BurstModeAndEventNotificationTask, every 10 ms.                      *)

\* The retry timer has run out: the first event is published, and the message
\* arrives or does not.  After a skipped request it takes its own contents for
\* the acknowledgement.
Publish(arrives) ==
    /\ operating /\ size > 0 /\ ~queue[1].acked
    /\ queue' = [queue EXCEPT ![1].acked = isAck]
    /\ own' = IF isAck THEN own \union {queue[1].stamp} ELSE own
    /\ isAck' = FALSE
    /\ sent' = IF arrives THEN sent \union {queue[1].stamp} ELSE sent
    /\ UNCHANGED <<status, pipe, scanned, size, acks, history>>

\* memmove over the first one.
Shifted == [i \in Places |-> IF i < size THEN queue[i + 1] ELSE queue[i]]

RemoveAcknowledged ==
    /\ operating /\ size > 0 /\ queue[1].acked
    /\ queue' = Shifted
    /\ size' = size - 1
    /\ UNCHANGED <<status, pipe, scanned, isAck, gateway, history>>

\* The update timer has run out with no event in the queue.  What is sent is not the
\* request that has been prepared, but what is left in the first place.
PublishUpdate ==
    /\ operating /\ active /\ size = 0
    /\ sent' = IF isAck \/ queue[1].stamp = 0 THEN sent ELSE sent \union {queue[1].stamp}
    /\ isAck' = FALSE
    /\ UNCHANGED <<status, pipe, scanned, queued, acks, own, history>>

-----------------------------------------------------------------------------
(* The surroundings.                                                        *)

StatusChanges(bs) ==
    /\ status' = (status \ bs) \union (bs \ status)
    /\ UNCHANGED <<pipe, scanned, queued, isAck, gateway, history>>

\* Command 116; the mask may be cut off, which its size tells only together with
\* another value.
WriteMask(m, cut) ==
    /\ m # mask
    /\ mask' = m
    /\ sized' = (m # {} \/ ~cut)
    /\ watched' = watched \intersect m
    /\ UNCHANGED <<status, active, operating, scanned, queued, isAck, gateway,
                   stamps, told>>

\* Command 118, and a service that is granted or deleted.
Switch ==
    /\ active' = ~active
    /\ UNCHANGED <<status, mask, sized, operating, scanned, queued, isAck, gateway, history>>

\* APP_SrvcTask: the services have been asked for.
Commence ==
    /\ ~operating
    /\ operating' = TRUE
    /\ UNCHANGED <<status, mask, sized, active, scanned, queued, isAck, gateway, history>>

Restart ==
    /\ active' = FALSE /\ operating' = FALSE
    /\ scans' = [i \in 0 .. 2 |-> status] /\ last' = 0
    /\ queue' = [i \in Places |-> Cleared] /\ size' = 0
    /\ isAck' = FALSE
    /\ told' = status /\ watched' = mask
    /\ UNCHANGED <<status, mask, sized, gateway, stamps>>

Next ==
    \/ Scan \/ ClearQueue
    \/ \E req \in 0 .. MaxStamp : AcknowledgeEvent(req)
    \/ SkippedRequest
    \/ \E arrives \in BOOLEAN : Publish(arrives)
    \/ RemoveAcknowledged \/ PublishUpdate
    \/ \E bs \in Changes : StatusChanges(bs)
    \/ \E m \in Masks, cut \in BOOLEAN : WriteMask(m, cut)
    \/ Switch \/ Commence \/ Restart

Spec == Init /\ [][Next]_vars

\* The task goes on, a publication is not lost for ever, and the gateway acknowledges
\* the event that it has been sent.
AcknowledgeFirst == size > 0 /\ AcknowledgeEvent(queue[1].stamp)

FairSpec ==
    /\ Spec
    /\ WF_vars(Commence) /\ WF_vars(RemoveAcknowledged)
    /\ WF_vars(Publish(TRUE))
    /\ WF_vars(AcknowledgeFirst)

-----------------------------------------------------------------------------
(* Properties.                                                              *)

\* Type invariant.
TypeOK ==
    /\ status \in SUBSET Bytes
    /\ mask \in SUBSET Bytes /\ sized \in BOOLEAN
    /\ active \in BOOLEAN /\ operating \in BOOLEAN
    /\ scans \in [0 .. 2 -> SUBSET Bytes] /\ last \in 0 .. 2
    /\ queue \in [Places -> Event] /\ size \in 0 .. MaxPending
    /\ isAck \in BOOLEAN
    /\ stamps \in 0 .. MaxStamp
    /\ sent \in SUBSET (1 .. MaxStamp)
    /\ acks \in SUBSET (1 .. MaxStamp) /\ own \in SUBSET (1 .. MaxStamp)
    /\ told \in SUBSET Bytes /\ watched \in SUBSET Bytes

\* No change is missed, although an event is triggered by one scan only: a byte that
\* has been in the mask since the newest event, and on which the scans agree, is as
\* that event says; and the newest event is the last one in the queue, whatever was
\* overwritten in it (APP_TriggerEvents).
NewestTold ==
    /\ \A b \in watched :
        (\A i, j \in 0 .. 2 : b \in scans[i] <=> b \in scans[j]) =>
            (b \in scans[0] <=> b \in told)
    /\ size > 0 => queue[size].data = told

\* The event in place i is still in the queue after the step, or was overwritten in
\* the last place of a full queue, or went with the pipe.
StaysOrGiven(i) ==
    \/ \E j \in 1 .. size' : queue'[j].stamp = queue[i].stamp
    \/ i = MaxPending \/ ~active \/ ~active'

\* "publish the Cmd119 response, until the ACK(Cmd119 request) is received": an event
\* leaves the queue only after the gateway has acknowledged this one
\* (APP_BurstModeAndEventNotificationTask).
EventKept ==
    [][\A i \in 1 .. size : StaysOrGiven(i) \/ queue[i].stamp \in acks]_vars

\* There is one way only to lose an event that the gateway has not acknowledged: its
\* own publication was the first to be composed after a request of the gateway that
\* was not carried out.  Late and repeated acknowledgements, which meet other events
\* in the first place, and places that are used again take out no other event.
LeavesWithCause ==
    [][\A i \in 1 .. size : StaysOrGiven(i) \/ queue[i].stamp \in acks \union own]_vars

\* The queue runs empty under a gateway that acknowledges what it is sent, whatever
\* late acknowledgements do.  A mask of size 0 is excepted: Matches is then FALSE for
\* every acknowledgement, and the first event stays in the queue for ever
\* (Execute_C119).
EventsAcked == (size > 0) ~> (size = 0 \/ ~sized)
=============================================================================
