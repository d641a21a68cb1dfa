---------------------------- MODULE ManagerRequests ----------------------------
(***************************************************************************)
(* The requests a field device sends to the network manager: services      *)
(* asked for with command 799 and given back with command 801.             *)
(*                                                                         *)
(* A request is an element of g_aReqNMQueue.  It is put there by the       *)
(* service task, by commands 117 and 118 or by the user board; REQNM_Task  *)
(* sends one request at a time, and APP_TransmitConfirm, which the         *)
(* transport layer calls with the answer or without one, retries it, gives *)
(* it up or carries it out in the table of services.  A requester that has *)
(* to wait owns the delayed-response buffer g_stDRSlaveBuf, which the      *)
(* element points to.  All of it runs in the main loop: one step each.     *)
(*                                                                         *)
(* A response is known by the number of the request alone, and the element *)
(* by the handle in the transport entry: neither the entry's m_bActive nor *)
(* the element's m_ucStatus is looked at.  A late or a repeated response   *)
(* therefore meets whatever the element has become.                        *)
(*                                                                         *)
(* Periods are left out (whether a request changes one is a choice of the  *)
(* environment), and so are the bytes of the responses.                    *)
(***************************************************************************)
EXTENDS Naturals, FiniteSets

CONSTANTS
    QueueSize,    \* REQNM_QUEUE_SIZE
    MaxRetries,   \* MAX_REQNM_RETRY_CNT
    Bursts,       \* the service ids of the burst messages
    Events,       \* the service ids of the events
    ManagerIds,   \* service ids the manager creates by itself, 0x80 and more
    BoardCommands, \* the commands the user board asks a service for, 103 and 109
    SourceFlag,   \* the first byte of a command 799, ServiceRequestFlagsMask_Source
    MaxServices,  \* MAX_SERVICES_NO
    MaxAsked      \* bound of the model: how often others than the service task put
                  \* a request in the queue, or the manager deletes a service

ASSUME QueueAssumption == QueueSize \in Nat \ {0} /\ MaxRetries \in Nat \ {0}
ASSUME CountAssumption == MaxServices \in Nat /\ MaxAsked \in Nat

Slots    == 0 .. QueueSize - 1
Own      == Bursts \union Events
Services == Own \union ManagerIds

VARIABLES
    queue,     \* g_aReqNMQueue
    crt,       \* ucCrtIdx of REQNM_Task
    dr,        \* g_stDRSlaveBuf: its status and its command
    services,  \* the ids in g_aServicesTable
    enabled,   \* the events whose m_ucEventControlCode is on
    served,    \* the events whose m_ucServiceId in g_stEventsTable is set
    srvcTask,  \* g_ucSrvcTaskFlag; once reset, NormalOperationCommencing is set
    tl,        \* the master entry of the manager's session in g_aTransportTable
    asked      \* how often they have done so

vars == <<queue, crt, dr, services, enabled, served, srvcTask, tl, asked>>

-----------------------------------------------------------------------------
(* Elements of the queue.                                                  *)

Statuses == {"inactive", "send", "wait", "abort"}
Commands == {"none", "request", "delete"}    \* memset to 0, 799, 801

\* due: a request to be sent is older than REQNM_SEND_DELAY, one that has been
\* sent is older than REQNM_MAX_MSG_AGE.
Element == [status : Statuses, cmd : Commands, service : Services \union {0},
            dr : BOOLEAN, retries : 0 .. MaxRetries, due : BOOLEAN]

\* memset( pQueue, 0, sizeof(REQNM_QEUE_T) )
Cleared == [status |-> "inactive", cmd |-> "none", service |-> 0,
            dr |-> FALSE, retries |-> 0, due |-> TRUE]

\* What REQNM_GetQueueEntry and its caller write: a new request waits no delay.
NewRequest(cmd, service, ownsDr) ==
    [status |-> "send", cmd |-> cmd, service |-> service,
     dr |-> ownsDr, retries |-> MaxRetries, due |-> TRUE]

FreeSlots == {i \in Slots : queue[i].status = "inactive"}

\* REQNM_GetQueueEntry takes the first free element.
GetQueueEntry(i) == i \in FreeSlots /\ \A j \in FreeSlots : i <= j

\* Mutant: a request that has been sent is not seen.
FindUnsent(service) ==
    {i \in Slots : queue[i].status = "send" /\ queue[i].service = service}

\* REQNM_FindSrvcCmdPending
FindSrvcCmdPending(service) ==
    {i \in Slots : /\ queue[i].status \in {"send", "wait"}
                   /\ queue[i].cmd \in {"request", "delete"}
                   /\ queue[i].service = service}

DrStatuses == {"inactive", "start", "running", "end", "dead", "conflict"}
DrCommands == {"none", "C117", "C118"} \union BoardCommands

NoDr == [status |-> "inactive", cmd |-> "none"]

\* findDRBufByCmdId
FindDr(cmd) == dr.status # "inactive" /\ dr.cmd = cmd

\* DRM_GetInactiveDRBuf
DrFree == dr.status = "inactive"

-----------------------------------------------------------------------------
(* The transport layer's master entry of the session with the manager.     *)

\* What the entry's number stands for: the request that was sent with it.
Requests == [cmd : Commands, service : Own \union {0}]
NoRequest == [cmd |-> "unused", service |-> 0]

NoHandle == QueueSize

\* What the manager answers to a request: "retry" is an error code that asks for
\* it (0x05, 0x20), or a success with too few bytes.  An element cleared and
\* revived asks with command number 0, whose response nobody reads.
RepliesTo(cmd) ==
    CASE cmd = "request" -> {"retry", "dead", "conflict", "delayed", "denied", "success"}
      [] cmd = "delete"  -> {"retry", "denied", "success"}
      [] cmd = "none"    -> {"unread"}
      [] OTHER           -> {}

Replies == {"retry", "dead", "conflict", "delayed", "denied", "success", "unread"}

\* handle: the element m_hTPDUHandle names; active: m_bActive; request: the one
\* that holds the entry's number; reply: the manager's answer to it once it has
\* come, kept because the manager repeats the same one for every copy.
UnusedEntry == [handle |-> NoHandle, active |-> FALSE, request |-> NoRequest,
                reply |-> "none"]

Init == /\ queue = [i \in Slots |-> Cleared]
        /\ crt = 0
        /\ dr = NoDr
        /\ services = {}
        /\ enabled \in SUBSET Events
        /\ served = {}
        /\ srvcTask = TRUE
        /\ tl = UnusedEntry
        /\ asked = 0

-----------------------------------------------------------------------------
(* Putting requests in the queue.                                          *)

Put(cmd, service, ownsDr) ==
    \E i \in Slots :
      /\ GetQueueEntry(i)
      /\ queue' = [queue EXCEPT ![i] = NewRequest(cmd, service, ownsDr)]

\* A request of somebody else than the service task.
Ask(cmd, service, ownsDr) ==
    /\ asked < MaxAsked
    /\ Put(cmd, service, ownsDr)
    /\ asked' = asked + 1

Unserved == enabled \ served

\* APP_SrvcTask of the operational device: a request for one event without a
\* service.
SrvcTaskAsks ==
    /\ srvcTask
    /\ \E event \in Unserved :
         /\ \A f \in Unserved : event <= f
         /\ FindSrvcCmdPending(event) = {}
         /\ Put("request", event, FALSE)
    /\ UNCHANGED <<crt, dr, services, enabled, served, srvcTask, tl, asked>>

\* APP_SrvcTask when each enabled event has its service.
SrvcTaskEnds ==
    /\ srvcTask
    /\ Unserved = {}
    /\ srvcTask' = FALSE
    /\ UNCHANGED <<queue, crt, dr, services, enabled, served, tl, asked>>

\* What APP_ProcessCmdBuf does after the executor of a wireless or wired command
\* returned RCS_N256_ReturnWithDR: no delayed response when the queue of
\* commands is full, although the element in the queue already points to it.
ClaimDr(cmd, outcome) ==
    dr' = CASE outcome = "queueFull" -> dr
            [] outcome = "wireless"  -> [status |-> "start", cmd |-> cmd]
            [] outcome = "wired"     -> [status |-> "running", cmd |-> cmd]

Outcomes == {"queueFull", "wireless", "wired"}

\* Execute_C117: another period for the service of an event.
C117(event, grows, outcome) ==
    /\ ~ FindDr("C117")
    /\ FindSrvcCmdPending(event) = {}
    /\ event \in services
    /\ ~ srvcTask
    /\ grows => DrFree
    /\ Ask("request", event, grows)
    /\ IF grows THEN ClaimDr("C117", outcome) ELSE UNCHANGED dr
    /\ UNCHANGED <<crt, services, enabled, served, srvcTask, tl>>

\* Execute_C118 with the code that enables the event.
C118On(event, outcome) ==
    /\ ~ FindDr("C118")
    /\ FindSrvcCmdPending(event) = {}
    /\ event \notin enabled
    /\ ~ srvcTask
    /\ DrFree
    /\ Ask("request", event, TRUE)
    /\ ClaimDr("C118", outcome)
    /\ UNCHANGED <<crt, services, enabled, served, srvcTask, tl>>

\* Execute_C118 with the code that disables the event: the service is given back
\* if there is one, and the event forgets it at once.
C118Off(event) ==
    /\ ~ FindDr("C118")
    /\ FindSrvcCmdPending(event) = {}
    /\ event \in enabled
    /\ IF ~ srvcTask /\ event \in services
         THEN Ask("delete", event, FALSE)
         ELSE UNCHANGED <<queue, asked>>
    /\ enabled' = enabled \ {event}
    /\ served' = served \ {event}
    /\ UNCHANGED <<crt, dr, services, srvcTask, tl>>

\* Process_SrvcReq without a delayed response of the command: the user board asks
\* for a burst's service.  Command 0x1F ("none") waits for nothing.
SrvcReq(cmd, burst) ==
    /\ ~ FindDr(cmd)
    /\ cmd # "none" => DrFree
    /\ FindSrvcCmdPending(burst) = {}
    /\ Ask("request", burst, cmd # "none")
    /\ dr' = IF cmd # "none" THEN [status |-> "running", cmd |-> cmd] ELSE dr
    /\ UNCHANGED <<crt, services, enabled, served, srvcTask, tl>>

\* Process_SrvcDel asks for the deletion whatever is pending.
SrvcDel(burst) ==
    /\ Ask("delete", burst, FALSE)
    /\ UNCHANGED <<crt, dr, services, enabled, served, srvcTask, tl>>

-----------------------------------------------------------------------------
(* The delayed-response buffer.                                            *)

\* A requester repeats its request (APP_ProcessCmdBuf, Process_SrvcReq) and is
\* told how far it is.  Process_SrvcReq leaves a dead response in the buffer.
RepeatRequest(cmd) ==
    /\ FindDr(cmd)
    /\ dr' = CASE dr.status \in {"start", "running"} -> [dr EXCEPT !.status = "running"]
               [] dr.status = "end" ->
                    IF cmd \in BoardCommands THEN [dr EXCEPT !.status = "inactive"]
                                                ELSE NoDr
               [] dr.status = "dead" -> IF cmd \in BoardCommands THEN dr ELSE NoDr
               [] dr.status = "conflict" -> NoDr
    /\ UNCHANGED <<queue, crt, services, enabled, served, srvcTask, tl, asked>>

\* Execute_C106_FlushDelayedResponses keeps a response that is running and does
\* not look for the request that points to the buffer.
C106 ==
    /\ dr.status # "running"
    /\ dr' = [dr EXCEPT !.status = "inactive"]
    /\ UNCHANGED <<queue, crt, services, enabled, served, srvcTask, tl, asked>>

-----------------------------------------------------------------------------
(* REQNM_Task.                                                             *)

\* The k-th element it looks at.
Visited(k) == (crt + k) % QueueSize

\* Mutant: a request without a retry left is forgotten.
OldOnly(e) == e.status = "wait" /\ e.due

Outstanding(e) == e.status = "wait" /\ ~ e.due
GivenUp(e)     == e.status = "abort" \/ (e.status = "wait" /\ e.due)

\* The positions of requests to be sent; it takes the first.
Sendable == {k \in Slots : queue[Visited(k)].status = "send"}
IsFirst(k) == k \in Sendable /\ \A m \in Sendable : k <= m

\* Mutant: the loop goes on when it meets a request that waits for its answer.
StopsAtDelay(k) == IsFirst(k) /\ ~ queue[Visited(k)].due

\* The positions at which it returns from the loop.
Stops(k) ==
    \/ Outstanding(queue[Visited(k)])
    \/ IsFirst(k) /\ ~ queue[Visited(k)].due

\* Reached(k): the loop gets to position k.
Reached(k) == \A m \in 0 .. k - 1 : ~ Stops(m)

\* The elements it clears: requests without a retry left or without an answer
\* for an hour.  The delayed response that one of them owns is written, but the
\* status of the buffer stays as it is.
Dropped == {i \in Slots : \E k \in Slots :
              i = Visited(k) /\ Reached(k) /\ ~ Stops(k) /\ GivenUp(queue[i])}

\* The request that it sends: no position of the loop stops it.
Sent == {i \in Slots : \E k \in Slots :
           i = Visited(k) /\ IsFirst(k) /\ \A m \in Slots : ~ Stops(m)}

\* Mutant: the task remembers the element after the one it sends.
IndexAfter ==
    LET found == {k \in Slots : IsFirst(k) /\ Reached(k)} IN
    IF found # {} THEN {Visited(k) + 1 : k \in found} ELSE {crt}

NewIndex ==
    LET found == {k \in Slots : IsFirst(k) /\ Reached(k)} IN
    CASE found # {} -> {Visited(k) : k \in found}
      [] found = {} /\ (\A m \in Slots : ~ Stops(m)) -> {0}
      [] OTHER -> {crt}

\* What TL_TransmitRequest answers: "taken"; "busy", without a session or with a
\* request of its own under way; or "refused" by the network layer, when the
\* entry keeps the handle of the request and gets the number before it back.
TlResults == {"taken", "busy", "refused"}

REQNM_Task(result) ==
    /\ Sent # {} /\ result # "busy" => ~ tl.active
    /\ queue' = [i \in Slots |->
                   IF i \in Dropped THEN Cleared
                   ELSE IF i \in Sent /\ result = "taken"
                          THEN [queue[i] EXCEPT !.status = "wait", !.due = FALSE]
                          ELSE queue[i]]
    /\ crt' \in NewIndex
    /\ IF Sent = {} \/ result = "busy"
         THEN tl' = tl
         ELSE \E i \in Sent :
                tl' = IF result = "refused"
                        THEN [tl EXCEPT !.handle = i]
                        ELSE [handle |-> i, active |-> TRUE,
                              request |-> [cmd |-> queue[i].cmd, service |-> queue[i].service],
                              reply |-> "none"]
    /\ UNCHANGED <<dr, services, enabled, served, srvcTask, asked>>

\* Time passes: a request is old enough to be sent, or to be given up.  The
\* transport layer ends a request in minutes, long before it is an hour old.
Ripen(i) ==
    /\ queue[i].status \in {"send", "wait"}
    /\ ~ queue[i].due
    /\ ~ (queue[i].status = "wait" /\ tl.active /\ tl.handle = i)
    /\ queue' = [queue EXCEPT ![i].due = TRUE]
    /\ UNCHANGED <<crt, dr, services, enabled, served, srvcTask, tl, asked>>

\* Command 963 writes the session into a free entry, whose transport entries are
\* marked unused whatever they hold (NET_ExecuteCmd).
SessionWritten ==
    /\ tl' = UnusedEntry
    /\ UNCHANGED <<queue, crt, dr, services, enabled, served, srvcTask, asked>>

-----------------------------------------------------------------------------
(* APP_TransmitConfirm.                                                    *)

\* DRSLAVE_END, DEAD or CONFLICT for the requester of element i.
TellRequester(i, status) ==
    dr' = IF queue[i].dr THEN [dr EXCEPT !.status = status] ELSE dr

\* The end of the function for ucRetFlag = 1 and 2, with the number of retries it
\* leaves.  Whatever the element was, it is to be sent again or given up.
SendAgain(i, retries) ==
    queue' = [queue EXCEPT ![i].status = IF retries > 0 THEN "send" ELSE "abort",
                           ![i].retries = retries,
                           ![i].due = IF retries > 0 THEN FALSE ELSE @]

\* ucRetFlag = 1 with response code rc.
RetryRequest(i, rc) ==
    CASE rc = "dead"     -> SendAgain(i, 0) /\ TellRequester(i, "dead")
      [] rc = "conflict" -> SendAgain(i, 0) /\ TellRequester(i, "conflict")
      [] OTHER -> /\ SendAgain(i, IF queue[i].retries > 0 THEN queue[i].retries - 1 ELSE 0)
                  /\ UNCHANGED dr

RetryCodes == {"retry", "dead", "conflict"}

\* TL_doRetry ends the request without an answer: ucRC is tested although nothing
\* was read into it.
ConfirmFailed(i, rc) ==
    /\ tl.active /\ tl.handle = i
    /\ tl' = [tl EXCEPT !.active = FALSE]
    /\ RetryRequest(i, rc)
    /\ UNCHANGED <<crt, services, enabled, served, srvcTask, asked>>

\* A response with the number of the entry, the first one or a copy of it, goes
\* to the element that the entry names.
Responds(i, reply) ==
    /\ tl.handle = i
    /\ reply \in RepliesTo(tl.request.cmd)
    /\ tl.reply \in {"none", reply}
    /\ tl' = [tl EXCEPT !.active = FALSE, !.reply = reply]

\* The response to a command 0 is for nobody (default: return).
ConfirmUnread(i) ==
    /\ Responds(i, "unread")
    /\ UNCHANGED <<queue, crt, dr, services, enabled, served, srvcTask, asked>>

\* The manager refuses with a code that asks for a retry.  Only command 799 is
\* asked again for an error; any error code of command 801 ends it.
ConfirmBusy(i, rc) ==
    /\ Responds(i, rc)
    /\ RetryRequest(i, rc)
    /\ UNCHANGED <<crt, services, enabled, served, srvcTask, asked>>

\* The manager prepares its answer: the request is repeated for ever.
ConfirmDelayed(i) ==
    /\ Responds(i, "delayed")
    /\ SendAgain(i, MaxRetries)
    /\ UNCHANGED <<crt, dr, services, enabled, served, srvcTask, asked>>

Finish(i) ==
    /\ TellRequester(i, "end")
    /\ queue' = [queue EXCEPT ![i] = Cleared]

\* The manager denies the request.
ConfirmDenied(i) ==
    /\ Responds(i, "denied")
    /\ Finish(i)
    /\ UNCHANGED <<crt, services, enabled, served, srvcTask, asked>>

\* The manager grants a service.  It is put in the table under the id in the
\* response, without a look at the number of entries; a granted request of command
\* 118 enables the event.
ConfirmGranted(i) ==
    LET service == tl.request.service IN
    /\ tl.request.cmd = "request"
    /\ Responds(i, "success")
    /\ services' = services \union {service}
    /\ served' = IF service \in Events THEN served \union {service} ELSE served
    /\ enabled' = IF service \in Events /\ queue[i].dr /\ dr.cmd = "C118"
                    THEN enabled \union {service} ELSE enabled
    /\ Finish(i)
    /\ UNCHANGED <<crt, srvcTask, asked>>

\* m_stC801Req.m_ucServiceId of element i, which is the first byte of the union.
DeletedService(i) == IF queue[i].cmd = "request" THEN SourceFlag ELSE queue[i].service

\* Mutant: the event keeps the service that has been deleted.
KeepServed(service) == served

\* What becomes of the events when a service is deleted.
ServedWithout(service) == served \ {service}

\* The manager deletes the service.
ConfirmDeleted(i) ==
    LET service == tl.request.service IN
    /\ tl.request.cmd = "delete"
    /\ Responds(i, "success")
    /\ IF service = DeletedService(i)
         THEN /\ services' = services \ {service}
              /\ served' = ServedWithout(service)
              /\ Finish(i)
         ELSE /\ RetryRequest(i, "success")
              /\ UNCHANGED <<services, served>>
    /\ UNCHANGED <<crt, enabled, srvcTask, asked>>

-----------------------------------------------------------------------------
(* Commands of the network manager.                                        *)

\* Execute_C973_WriteService with NET_Request: the manager writes a service, of
\* its own range or one that exists; a request for it must not be under way.
C973(service) ==
    /\ \/ service \in ManagerIds
       \/ /\ service \in services
          /\ \A i \in Slots : ~ (queue[i].cmd = "request" /\ queue[i].service = service)
    /\ service \in services \/ Cardinality(services) < MaxServices
    /\ services' = services \union {service}
    /\ UNCHANGED <<queue, crt, dr, enabled, served, srvcTask, tl, asked>>

\* Execute_C801_DeleteService, for a reason other than a request of the peer.
C801(service) ==
    /\ asked < MaxAsked
    /\ service \in services
    /\ services' = services \ {service}
    /\ served' = ServedWithout(service)
    /\ asked' = asked + 1
    /\ UNCHANGED <<queue, crt, dr, enabled, srvcTask, tl>>

-----------------------------------------------------------------------------
SrvcTask == SrvcTaskAsks \/ SrvcTaskEnds

Confirm(i) ==
    \/ \E rc \in RetryCodes : ConfirmFailed(i, rc) \/ ConfirmBusy(i, rc)
    \/ ConfirmUnread(i)
    \/ ConfirmDelayed(i)
    \/ ConfirmDenied(i)
    \/ ConfirmGranted(i)
    \/ ConfirmDeleted(i)

Commands117And118 ==
    \E event \in Events :
      \/ \E grows \in BOOLEAN, outcome \in Outcomes : C117(event, grows, outcome)
      \/ \E outcome \in Outcomes : C118On(event, outcome)
      \/ C118Off(event)

UserBoard ==
    \E burst \in Bursts :
      \/ \E cmd \in {"none"} \union BoardCommands : SrvcReq(cmd, burst)
      \/ SrvcDel(burst)

Next == \/ SrvcTask
        \/ \E result \in TlResults : REQNM_Task(result)
        \/ \E i \in Slots : Ripen(i) \/ Confirm(i)
        \/ SessionWritten
        \/ Commands117And118
        \/ UserBoard
        \/ \E cmd \in DrCommands \ {"none"} : RepeatRequest(cmd)
        \/ C106
        \/ \E service \in Services : C973(service) \/ C801(service)

Spec == Init /\ [][Next]_vars

\* The manager grants what element i has asked for.
Granted(i) ==
    /\ tl.request = [cmd |-> queue[i].cmd, service |-> queue[i].service]
    /\ ConfirmGranted(i) \/ ConfirmDeleted(i)

\* The main loop calls the tasks and the sweep of the transport layer every 250 ms
\* and time goes on.  The transport layer refuses only while the session is busy,
\* and the manager neither postpones nor denies a request for ever.
Fairness ==
    /\ WF_vars(SrvcTask)
    /\ WF_vars(\E result \in TlResults : REQNM_Task(result))
    /\ SF_vars(REQNM_Task("taken") /\ Sent # {})
    /\ WF_vars(\E i \in Slots, rc \in RetryCodes : ConfirmFailed(i, rc))
    /\ \A i \in Slots : WF_vars(Ripen(i)) /\ SF_vars(Granted(i))

FairSpec == Spec /\ Fairness

-----------------------------------------------------------------------------
(* Properties.                                                             *)

TypeOK ==
    /\ queue \in [Slots -> Element]
    /\ crt \in Slots
    /\ dr \in [status : DrStatuses, cmd : DrCommands]
    /\ services \subseteq Services
    /\ enabled \subseteq Events
    /\ served \subseteq Events
    /\ srvcTask \in BOOLEAN
    /\ tl \in [handle : Slots \union {NoHandle}, active : BOOLEAN,
               request : Requests \union {NoRequest}, reply : Replies \union {"none"}]
    /\ asked \in 0 .. MaxAsked

\* The manager is asked one thing at a time: REQNM_Task sends nothing while a
\* request waits for its answer, whatever was retried, given up or added since.
OneOutstanding ==
    \A i, j \in Slots : queue[i].status = "wait" /\ queue[j].status = "wait" => i = j

IsLive(e, service) ==
    /\ e.status \in {"send", "wait"}
    /\ e.cmd = "request" /\ e.service = service

SecondIsRevived ==
    \A i, j \in Slots, service \in Own :
      /\ i # j
      /\ ~ IsLive(queue[i], service) /\ IsLive(queue'[i], service)
      /\ IsLive(queue'[j], service)
      => queue[i].status = "abort" /\ tl.handle = i /\ ~ tl.active

\* Nobody asks for a service while a request for it is live: whoever puts one in
\* the queue, and every retry, finds no other.  The one way to a second request is
\* a late response that revives a request that has been given up.
SecondOnlyRevived == [][SecondIsRevived]_vars

\* An event that has a service id publishes under a service of the table: no order
\* of grants, deletions by either side and late answers leaves an id behind.
ServedIsInTable == served \subseteq services

\* Every request leaves the queue: no order of refusals, retries, late answers and
\* new requests of others keeps one in it for ever, provided that the transport
\* layer accepts and the manager grants what is asked again and again.
RequestsEnd == \A i \in Slots : queue[i].status # "inactive" ~> queue[i].status = "inactive"
=============================================================================
