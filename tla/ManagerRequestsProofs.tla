------------------------- MODULE ManagerRequestsProofs -------------------------
(***************************************************************************)
(* The queue of requests to the network manager for every size of the      *)
(* queue, every number of retries and every set of services.               *)
(*                                                                         *)
(* OneOutstanding rests on the loop of REQNM_Task: it sends only when it   *)
(* has looked at every element without a reason to return, and by then it  *)
(* has cleared each element that waited too long.  SecondOnlyRevived needs *)
(* that the entry of the transport layer is active only while its element  *)
(* waits, and that a cleared element names no request.                     *)
(***************************************************************************)
EXTENDS ManagerRequests, Integers, TLAPS

\* An element asks for a service of the device, or for nothing after it has been
\* cleared.
RequestsSound ==
    \A i \in Slots :
      /\ IF queue[i].cmd = "none" THEN queue[i].service = 0 ELSE queue[i].service \in Own
      /\ queue[i].status = "inactive" => queue[i].cmd = "none"

\* A request that the transport layer has in hand waits, and is not old.
ActiveWaits ==
    tl.active => /\ tl.handle \in Slots
                 /\ queue[tl.handle].status = "wait" /\ ~ queue[tl.handle].due

\* The request that holds the entry's number is for a service of the device.
AskedSound == tl.request.cmd = "request" => tl.request.service \in Own

EntryType == [handle : Slots \union {NoHandle}, active : BOOLEAN,
              request : Requests \union {NoRequest}, reply : Replies \union {"none"}]

IInv == /\ TypeOK /\ RequestsSound /\ OneOutstanding /\ ServedIsInTable
        /\ ActiveWaits /\ AskedSound

\* What IInv says of the queue, and of everything else.
QueueInv == /\ queue \in [Slots -> Element]
            /\ RequestsSound /\ OneOutstanding /\ ActiveWaits

TablesInv == /\ crt \in Slots
             /\ dr \in [status : DrStatuses, cmd : DrCommands]
             /\ services \subseteq Services
             /\ enabled \subseteq Events
             /\ served \subseteq Events
             /\ srvcTask \in BOOLEAN
             /\ tl \in EntryType
             /\ asked \in 0 .. MaxAsked
             /\ ServedIsInTable /\ AskedSound

\* What a step does to the queue.
QueueStep == QueueInv' /\ SecondIsRevived

USE DEF Slots

-----------------------------------------------------------------------------
(* The loop of REQNM_Task.                                                 *)

\* Positions are mapped onto elements, each element at some position.
LEMMA VisitedLemma ==
    ASSUME crt \in Slots
    PROVE  /\ \A k \in Slots : Visited(k) \in Slots
           /\ \A i \in Slots : \E k \in Slots : Visited(k) = i
<1>1. \A m \in Int, n \in Int : n > 0 /\ 0 <= m /\ m < n => m % n = m /\ (m + n) % n = m
  OBVIOUS
<1>2. ASSUME NEW k \in Slots
      PROVE  Visited(k) = IF crt + k < QueueSize THEN crt + k ELSE crt + k - QueueSize
  <2>1. CASE crt + k < QueueSize
    BY <1>1, <2>1, QueueAssumption DEF Visited
  <2>2. CASE crt + k >= QueueSize
    <3>1. /\ crt + k - QueueSize \in Int /\ 0 <= crt + k - QueueSize
          /\ crt + k - QueueSize < QueueSize /\ QueueSize > 0 /\ QueueSize \in Int
      BY <2>2, QueueAssumption
    <3>2. ((crt + k - QueueSize) + QueueSize) % QueueSize = crt + k - QueueSize
      BY <1>1, <3>1
    <3>3. (crt + k - QueueSize) + QueueSize = crt + k
      BY QueueAssumption
    <3> QED BY <2>2, <3>2, <3>3, QueueAssumption DEF Visited
  <2> QED BY <2>1, <2>2, QueueAssumption
<1>3. ASSUME NEW k \in Slots PROVE Visited(k) \in Slots
  BY <1>2, QueueAssumption
<1>4. ASSUME NEW i \in Slots PROVE \E k \in Slots : Visited(k) = i
  <2>1. CASE i >= crt
    <3>1. i - crt \in Slots /\ Visited(i - crt) = i
      BY <1>2, <2>1, QueueAssumption
    <3> QED BY <3>1
  <2>2. CASE i < crt
    <3>1. i - crt + QueueSize \in Slots /\ Visited(i - crt + QueueSize) = i
      BY <1>2, <2>2, QueueAssumption
    <3> QED BY <3>1
  <2> QED BY <2>1, <2>2, QueueAssumption
<1> QED BY <1>3, <1>4

\* The task sends at most one request, and only after it has cleared every element
\* that was waiting.
LEMMA SentLemma ==
    ASSUME IInv
    PROVE  /\ \A i \in Sent : queue[i].status = "send" /\ i \in Slots
           /\ \A i, j \in Sent : i = j
           /\ Sent # {} => \A i \in Slots : queue[i].status = "wait" => i \in Dropped
<1> USE DEF IInv
<1>0. crt \in Slots /\ queue \in [Slots -> Element]
  BY DEF TypeOK
<1>1. \A k \in Slots : IsFirst(k) => queue[Visited(k)].status = "send"
  BY DEF IsFirst, Sendable
<1>2. \A i \in Sent : queue[i].status = "send" /\ i \in Slots
  BY <1>1 DEF Sent
<1>3. \A k, m \in Slots : IsFirst(k) /\ IsFirst(m) => k = m
  BY QueueAssumption DEF IsFirst
<1>4. \A i, j \in Sent : i = j
  BY <1>3 DEF Sent
<1>5. ASSUME Sent # {}, NEW i \in Slots, queue[i].status = "wait" PROVE i \in Dropped
  <2>1. \A m \in Slots : ~ Stops(m)
    BY <1>5 DEF Sent
  <2>2. PICK k \in Slots : Visited(k) = i
    BY <1>0, VisitedLemma
  <2>3. ~ Stops(k) /\ Reached(k)
    BY <2>1, QueueAssumption DEF Reached
  <2>4. queue[i].due \in BOOLEAN
    BY <1>0 DEF Element
  <2>5. GivenUp(queue[i])
    BY <1>5, <2>2, <2>3, <2>4 DEF Stops, Outstanding, GivenUp
  <2> QED BY <2>2, <2>3, <2>5 DEF Dropped
<1> QED BY <1>2, <1>4, <1>5

-----------------------------------------------------------------------------
(* What the handlers do to the queue.                                      *)

LEMMA SplitLemma == IInv <=> QueueInv /\ TablesInv
BY DEF IInv, TypeOK, QueueInv, TablesInv, EntryType

LEMMA SplitPrimeLemma == IInv' /\ SecondIsRevived <=> QueueStep /\ TablesInv'
BY DEF IInv, TypeOK, QueueInv, TablesInv, EntryType, QueueStep

LEMMA UnchangedQueue ==
    ASSUME QueueInv, UNCHANGED queue, UNCHANGED tl \/ ~ tl'.active PROVE QueueStep
<1>1. ActiveWaits'
  BY DEF QueueInv, ActiveWaits
<1>2. SecondIsRevived
  BY DEF SecondIsRevived
<1> QED BY <1>1, <1>2 DEF QueueStep, QueueInv, RequestsSound, OneOutstanding

LEMMA ClearedLemma ==
    Cleared \in Element /\ Cleared.status = "inactive" /\ Cleared.cmd = "none"
      /\ Cleared.service = 0
BY QueueAssumption DEF Cleared, Element, Statuses, Commands

\* A new request breaks nothing, provided that whoever asks for a service has
\* found no request for it.
LEMMA PutLemma ==
    ASSUME QueueInv, NEW cmd \in {"request", "delete"}, NEW service \in Own,
           NEW ownsDr \in BOOLEAN,
           cmd = "request" => FindSrvcCmdPending(service) = {},
           Put(cmd, service, ownsDr), UNCHANGED tl
    PROVE  QueueStep
<1> USE DEF QueueInv
<1>1. PICK i \in Slots : /\ queue[i].status = "inactive"
                         /\ queue' = [queue EXCEPT ![i] = NewRequest(cmd, service, ownsDr)]
  BY DEF Put, GetQueueEntry, FreeSlots
<1>2. NewRequest(cmd, service, ownsDr) \in Element
  BY QueueAssumption DEF NewRequest, Element, Statuses, Commands, Services
<1>3. queue' \in [Slots -> Element]
  BY <1>1, <1>2
<1>4. /\ queue'[i].status = "send" /\ queue'[i].cmd = cmd /\ queue'[i].service = service
      /\ \A j \in Slots : j # i => queue'[j] = queue[j]
  BY <1>1 DEF NewRequest
<1>5. RequestsSound'
  BY <1>4 DEF RequestsSound
<1>6. OneOutstanding'
  BY <1>4 DEF OneOutstanding
<1>7. cmd = "request" => \A j \in Slots : ~ IsLive(queue[j], service)
  BY DEF FindSrvcCmdPending, IsLive
<1>8. SecondIsRevived
  BY <1>4, <1>7 DEF SecondIsRevived, IsLive
<1>9. ActiveWaits'
  BY <1>1, <1>4 DEF ActiveWaits
<1> QED BY <1>3, <1>5, <1>6, <1>8, <1>9 DEF QueueStep

\* The element that the entry names is sent again or given up, whatever it was.
LEMMA SendAgainLemma ==
    ASSUME QueueInv, NEW i \in Slots, tl.handle = i, ~ tl'.active,
           NEW r \in 0 .. MaxRetries, SendAgain(i, r)
    PROVE  QueueStep
<1> USE DEF QueueInv
<1>1. /\ queue'[i].status \in {"send", "abort"}
      /\ queue'[i].cmd = queue[i].cmd /\ queue'[i].service = queue[i].service
      /\ \A j \in Slots : j # i => queue'[j] = queue[j]
  BY DEF SendAgain, Element
<1>2. queue' \in [Slots -> Element]
  <2> DEFINE s == IF r > 0 THEN "send" ELSE "abort"
             d == IF r > 0 THEN FALSE ELSE queue[i].due
             e == [[[queue[i] EXCEPT !.status = s] EXCEPT !.retries = r] EXCEPT !.due = d]
  <2>1. s \in Statuses /\ queue[i] \in Element
    BY DEF Statuses
  <2>2. d \in BOOLEAN
    BY <2>1 DEF Element
  <2>3. queue' = [queue EXCEPT ![i] = e]
    BY <2>1 DEF SendAgain, Element
  <2> HIDE DEF s, d
  <2>4. e \in Element
    BY <2>1, <2>2 DEF Element
  <2> QED BY <2>3, <2>4
<1>3. RequestsSound'
  BY <1>1 DEF RequestsSound
<1>4. OneOutstanding'
  BY <1>1 DEF OneOutstanding
<1>5. ActiveWaits'
  BY DEF ActiveWaits
<1>6. SecondIsRevived
  <2>1. SUFFICES ASSUME NEW service \in Own, ~ IsLive(queue[i], service),
                        IsLive(queue'[i], service)
                 PROVE  queue[i].status = "abort" /\ ~ tl.active
    BY <1>1 DEF SecondIsRevived
  <2>2. queue[i].cmd = "request" /\ queue[i].service = service
    BY <1>1, <2>1 DEF IsLive
  <2>3. queue[i].status \notin {"send", "wait", "inactive"}
    BY <2>1, <2>2 DEF IsLive, RequestsSound
  <2>4. queue[i].status = "abort"
    BY <2>3 DEF Element, Statuses
  <2> QED BY <2>4 DEF ActiveWaits
<1> QED BY <1>2, <1>3, <1>4, <1>5, <1>6 DEF QueueStep

LEMMA ClearLemma ==
    ASSUME QueueInv, NEW i \in Slots, ~ tl'.active, queue' = [queue EXCEPT ![i] = Cleared]
    PROVE  QueueStep
<1> USE DEF QueueInv
<1>1. queue' \in [Slots -> Element]
  BY ClearedLemma
<1>2. /\ queue'[i] = Cleared
      /\ \A j \in Slots : j # i => queue'[j] = queue[j]
  OBVIOUS
<1>3. RequestsSound'
  BY <1>2, ClearedLemma DEF RequestsSound
<1>4. OneOutstanding'
  BY <1>2, ClearedLemma DEF OneOutstanding
<1>5. SecondIsRevived
  BY <1>2, ClearedLemma DEF SecondIsRevived, IsLive
<1> QED BY <1>1, <1>3, <1>4, <1>5 DEF QueueStep, ActiveWaits

LEMMA RipenLemma == ASSUME QueueInv, NEW i \in Slots, Ripen(i) PROVE QueueStep
<1>0. queue \in [Slots -> Element] /\ RequestsSound /\ OneOutstanding /\ ActiveWaits
  BY DEF QueueInv
<1>1. queue' = [queue EXCEPT ![i].due = TRUE] /\ UNCHANGED tl
  BY DEF Ripen
<1>2. queue' \in [Slots -> Element]
  BY <1>0, <1>1 DEF Element
<1>3. \A j \in Slots : /\ queue'[j].status = queue[j].status
                        /\ queue'[j].cmd = queue[j].cmd
                        /\ queue'[j].service = queue[j].service
  BY <1>0, <1>1 DEF Element
<1>4. RequestsSound'
  BY <1>0, <1>3, Zenon DEF RequestsSound
<1>5. OneOutstanding'
  BY <1>0, <1>3, Zenon DEF OneOutstanding
<1>6. \A j \in Slots, service \in Own : IsLive(queue'[j], service) => IsLive(queue[j], service)
  BY <1>3, Zenon DEF IsLive
<1>7. SecondIsRevived
  BY <1>6, Zenon DEF SecondIsRevived
<1>8. ActiveWaits'
  <2>1. \A j \in Slots : j # i => queue'[j] = queue[j]
    BY <1>0, <1>1
  <2> QED BY <1>0, <1>1, <1>3, <2>1 DEF ActiveWaits, Ripen
<1> QED BY <1>2, <1>4, <1>5, <1>7, <1>8 DEF QueueStep, QueueInv

\* REQNM_Task clears elements, and sends at most one when nothing is outstanding.
LEMMA TaskLemma ==
    ASSUME IInv, NEW result \in TlResults, REQNM_Task(result)
    PROVE  QueueStep
<1> DEFINE sent(i) == i \in Sent /\ i \notin Dropped /\ result = "taken"
<1>1. queue \in [Slots -> Element]
  BY SplitLemma DEF QueueInv
<1>2. ASSUME NEW i \in Slots
      PROVE  \/ i \in Dropped /\ queue'[i] = Cleared
             \/ sent(i) /\ queue'[i] = [queue[i] EXCEPT !.status = "wait", !.due = FALSE]
             \/ i \notin Dropped /\ ~ sent(i) /\ queue'[i] = queue[i]
  <2>1. queue'[i] = IF i \in Dropped THEN Cleared
                    ELSE IF i \in Sent /\ result = "taken"
                           THEN [queue[i] EXCEPT !.status = "wait", !.due = FALSE]
                           ELSE queue[i]
    BY DEF REQNM_Task
  <2>2. CASE i \in Dropped
    BY <2>1, <2>2
  <2>3. CASE i \notin Dropped /\ sent(i)
    BY <2>1, <2>3
  <2>4. CASE i \notin Dropped /\ ~ sent(i)
    BY <2>1, <2>4
  <2> QED BY <2>2, <2>3, <2>4
<1>3. ASSUME NEW i \in Slots
      PROVE  /\ queue'[i] \in Element
             /\ \/ queue'[i] = Cleared
                \/ /\ sent(i) \/ queue'[i] = queue[i]
                   /\ queue'[i].cmd = queue[i].cmd /\ queue'[i].service = queue[i].service
                   /\ sent(i) => queue'[i].status = "wait" /\ ~ queue'[i].due
  <2> HIDE DEF sent
  <2>1. CASE i \in Dropped /\ queue'[i] = Cleared
    BY <2>1, ClearedLemma
  <2>2. CASE sent(i) /\ queue'[i] = [queue[i] EXCEPT !.status = "wait", !.due = FALSE]
    <3> DEFINE e == queue[i]
    <3>1. e \in Element
      BY <1>1
    <3>2. queue'[i] = [e EXCEPT !.status = "wait", !.due = FALSE]
      BY <2>2
    <3> HIDE DEF e
    <3>3. /\ queue'[i] \in Element /\ queue'[i].cmd = e.cmd /\ queue'[i].service = e.service
          /\ queue'[i].status = "wait" /\ ~ queue'[i].due
      BY <3>1, <3>2 DEF Element, Statuses
    <3> QED BY <2>2, <3>3 DEF e
  <2>3. CASE i \notin Dropped /\ ~ sent(i) /\ queue'[i] = queue[i]
    BY <1>1, <2>3
  <2> QED BY <1>2, <2>1, <2>2, <2>3
<1>4. DOMAIN queue' = Slots /\ queue' = [i \in Slots |-> queue'[i]]
  BY DEF REQNM_Task
<1>5. queue' \in [Slots -> Element]
  BY <1>3, <1>4
<1>6. \A i \in Slots : sent(i) => queue[i].status = "send"
  BY SentLemma
<1>7. RequestsSound'
  <2>1. RequestsSound
    BY DEF IInv
  <2>2. SUFFICES ASSUME NEW i \in Slots
                 PROVE  /\ IF queue'[i].cmd = "none" THEN queue'[i].service = 0
                                                     ELSE queue'[i].service \in Own
                        /\ queue'[i].status = "inactive" => queue'[i].cmd = "none"
    BY DEF RequestsSound
  <2>3. CASE queue'[i] = Cleared
    BY <2>3, ClearedLemma
  <2>4. CASE queue'[i] = queue[i]
    BY <2>1, <2>4 DEF RequestsSound
  <2>5. CASE sent(i) /\ queue'[i] # Cleared
    <3>1. queue'[i].cmd = queue[i].cmd /\ queue'[i].service = queue[i].service
      BY <1>3, <2>5
    <3>2. queue'[i].status = "wait"
      BY <1>3, <2>5
    <3> QED BY <2>1, <3>1, <3>2 DEF RequestsSound
  <2> QED BY <1>3, <2>3, <2>4, <2>5
<1>8. OneOutstanding'
  <2>1. SUFFICES ASSUME NEW i \in Slots, NEW j \in Slots,
                        queue'[i].status = "wait", queue'[j].status = "wait"
                 PROVE  i = j
    BY DEF OneOutstanding
  <2>2. \A k \in {i, j} : sent(k) \/ (queue[k].status = "wait" /\ k \notin Dropped)
    BY <1>2, <2>1, ClearedLemma
  <2>3. CASE Sent # {}
    BY <2>2, <2>3, SentLemma
  <2>4. CASE Sent = {}
    BY <2>2, <2>4 DEF IInv, OneOutstanding
  <2> QED BY <2>3, <2>4
<1>9. SecondIsRevived
  <2>1. ASSUME NEW i \in Slots, NEW service \in Own, IsLive(queue'[i], service)
        PROVE  IsLive(queue[i], service)
    <3>1. queue'[i] # Cleared
      BY <2>1, ClearedLemma DEF IsLive
    <3>2. CASE queue'[i] = queue[i]
      BY <2>1, <3>2
    <3>3. CASE sent(i)
      <4>1. queue'[i].cmd = queue[i].cmd /\ queue'[i].service = queue[i].service
        BY <1>3, <3>1
      <4>2. queue[i].status = "send"
        BY <1>6, <3>3
      <4> QED BY <2>1, <4>1, <4>2 DEF IsLive
    <3> QED BY <1>3, <3>1, <3>2, <3>3
  <2> QED BY <2>1 DEF SecondIsRevived
<1>10. ActiveWaits'
  <2>1. CASE Sent # {} /\ result = "taken"
    <3>0. PICK i \in Sent :
            tl' = [handle |-> i, active |-> TRUE,
                   request |-> [cmd |-> queue[i].cmd, service |-> queue[i].service],
                   reply |-> "none"]
      BY <2>1 DEF REQNM_Task
    <3>1. tl'.handle = i
      BY <3>0
    <3>2. i \in Slots /\ queue[i].status = "send"
      BY SentLemma
    <3>3. i \notin Dropped
      BY <3>2 DEF Dropped, GivenUp
    <3>4. sent(i)
      BY <2>1, <3>3
    <3>5. queue'[i] = [queue[i] EXCEPT !.status = "wait", !.due = FALSE]
      BY <1>2, <3>2, <3>3, <3>4
    <3>6. queue[i] \in Element
      BY <1>1, <3>2
    <3>7. queue'[i].status = "wait" /\ ~ queue'[i].due
      BY <3>5, <3>6 DEF Element
    <3> QED BY <3>1, <3>2, <3>7 DEF ActiveWaits
  <2>2. CASE Sent # {} /\ result = "refused"
    <3>1. ~ tl.active /\ tl \in EntryType
      BY <2>2 DEF REQNM_Task, IInv, TypeOK, EntryType
    <3>2. PICK i \in Sent : tl' = [tl EXCEPT !.handle = i]
      BY <2>2 DEF REQNM_Task
    <3>3. ~ tl'.active
      BY <3>1, <3>2 DEF EntryType
    <3> QED BY <3>3 DEF ActiveWaits
  <2>3. CASE Sent = {} \/ result = "busy"
    <3>1. tl' = tl /\ ActiveWaits
      BY <2>3 DEF REQNM_Task, IInv
    <3>2. SUFFICES ASSUME tl.active
                   PROVE  queue'[tl.handle].status = "wait" /\ ~ queue'[tl.handle].due
      BY <3>1 DEF ActiveWaits
    <3> DEFINE i == tl.handle
    <3>3. i \in Slots /\ queue[i].status = "wait" /\ ~ queue[i].due
      BY <3>1, <3>2 DEF ActiveWaits
    <3>4. i \notin Dropped
      BY <3>3 DEF Dropped, GivenUp
    <3>5. ~ sent(i)
      BY <2>3
    <3>6. queue'[i] = queue[i]
      BY <1>2, <3>3, <3>4, <3>5
    <3> QED BY <3>3, <3>6
  <2> QED BY <2>1, <2>2, <2>3 DEF TlResults
<1> QED BY <1>5, <1>7, <1>8, <1>9, <1>10 DEF QueueStep, QueueInv

-----------------------------------------------------------------------------
(* What the handlers do to everything else.                                *)

\* The delayed-response buffer keeps its type.
LEMMA TellLemma ==
    ASSUME TablesInv, NEW i \in Slots, NEW status \in DrStatuses, TellRequester(i, status)
    PROVE  (dr \in [status : DrStatuses, cmd : DrCommands])'
BY DEF TablesInv, TellRequester

\* A retry sends the request again, or gives it up and tells the requester.
LEMMA RetryLemma ==
    ASSUME IInv, NEW i \in Slots, tl.handle = i, ~ tl'.active, NEW rc, RetryRequest(i, rc)
    PROVE  QueueStep /\ (dr \in [status : DrStatuses, cmd : DrCommands])'
<1>1. QueueInv /\ TablesInv
  BY SplitLemma
<1>2. queue[i].retries \in 0 .. MaxRetries /\ 0 \in 0 .. MaxRetries
  BY <1>1, QueueAssumption DEF QueueInv, Element
<1>3. CASE rc = "dead"
  <2>1. SendAgain(i, 0) /\ TellRequester(i, "dead")
    BY <1>3 DEF RetryRequest
  <2> QED BY <1>1, <1>2, <2>1, SendAgainLemma, TellLemma DEF DrStatuses
<1>4. CASE rc = "conflict"
  <2>1. SendAgain(i, 0) /\ TellRequester(i, "conflict")
    BY <1>4 DEF RetryRequest
  <2> QED BY <1>1, <1>2, <2>1, SendAgainLemma, TellLemma DEF DrStatuses
<1>5. CASE rc # "dead" /\ rc # "conflict"
  <2> DEFINE r == IF queue[i].retries > 0 THEN queue[i].retries - 1 ELSE 0
  <2>1. SendAgain(i, r) /\ UNCHANGED dr
    BY <1>5 DEF RetryRequest
  <2>2. r \in 0 .. MaxRetries
    BY <1>2, QueueAssumption
  <2> HIDE DEF r
  <2> QED BY <1>1, <2>1, <2>2, SendAgainLemma DEF TablesInv
<1> QED BY <1>3, <1>4, <1>5

\* What a response does to the entry.
LEMMA RespondsLemma ==
    ASSUME IInv, NEW i \in Slots, NEW reply \in Replies, Responds(i, reply)
    PROVE  /\ tl.handle = i /\ ~ tl'.active /\ tl'.request = tl.request
           /\ tl' \in EntryType /\ AskedSound'
<1>1. tl \in EntryType /\ AskedSound
  BY DEF IInv, TypeOK, EntryType
<1>2. tl.handle = i /\ tl' = [tl EXCEPT !.active = FALSE, !.reply = reply]
  BY DEF Responds
<1>3. ~ tl'.active /\ tl'.request = tl.request /\ tl' \in EntryType
  BY <1>1, <1>2 DEF EntryType
<1> QED BY <1>1, <1>2, <1>3 DEF AskedSound

-----------------------------------------------------------------------------
(* One lemma for each group of actions.                                    *)

LEMMA SrvcTaskLemma == ASSUME IInv, SrvcTask PROVE IInv' /\ SecondIsRevived
<1>1. QueueInv /\ TablesInv
  BY SplitLemma
<1>2. CASE SrvcTaskAsks
  <2>1. PICK event \in Events : FindSrvcCmdPending(event) = {} /\ Put("request", event, FALSE)
                              /\ UNCHANGED tl
    BY <1>1, <1>2 DEF SrvcTaskAsks, Unserved, TablesInv
  <2>2. QueueStep
    BY <1>1, <2>1, PutLemma DEF Own
  <2>3. TablesInv'
    BY <1>1, <1>2 DEF SrvcTaskAsks, TablesInv, ServedIsInTable, AskedSound
  <2> QED BY <2>2, <2>3, SplitPrimeLemma
<1>3. CASE SrvcTaskEnds
  <2>1. QueueStep /\ TablesInv'
    BY <1>1, <1>3, UnchangedQueue DEF SrvcTaskEnds, TablesInv, ServedIsInTable, AskedSound
  <2> QED BY <2>1, SplitPrimeLemma
<1> QED BY <1>2, <1>3 DEF SrvcTask

LEMMA ReqnmTaskLemma ==
    ASSUME IInv, NEW result \in TlResults, REQNM_Task(result) PROVE IInv' /\ SecondIsRevived
<1>1. TablesInv
  BY SplitLemma
<1>2. crt' \in Slots
  <2>1. \A k \in Slots : Visited(k) \in Slots
    BY <1>1, VisitedLemma DEF TablesInv
  <2>2. 0 \in Slots /\ crt \in Slots
    BY <1>1, QueueAssumption DEF TablesInv
  <2>3. NewIndex \subseteq Slots
    BY <2>1, <2>2 DEF NewIndex
  <2> QED BY <2>3 DEF REQNM_Task
<1>3. tl' \in EntryType /\ AskedSound'
  <2>1. tl \in EntryType /\ AskedSound /\ RequestsSound /\ queue \in [Slots -> Element]
    BY DEF IInv, TypeOK, EntryType
  <2>2. CASE Sent = {} \/ result = "busy"
    <3>1. tl' = tl
      BY <2>2 DEF REQNM_Task
    <3> QED BY <2>1, <3>1 DEF AskedSound
  <2>3. CASE Sent # {} /\ result = "refused"
    <3>1. PICK i \in Sent : tl' = [tl EXCEPT !.handle = i]
      BY <2>3 DEF REQNM_Task
    <3>2. i \in Slots
      BY SentLemma
    <3> QED BY <2>1, <3>1, <3>2 DEF EntryType, AskedSound
  <2>4. CASE Sent # {} /\ result = "taken"
    <3>1. PICK i \in Sent :
            tl' = [handle |-> i, active |-> TRUE,
                   request |-> [cmd |-> queue[i].cmd, service |-> queue[i].service],
                   reply |-> "none"]
      BY <2>4 DEF REQNM_Task
    <3>2. i \in Slots
      BY SentLemma
    <3> DEFINE c == queue[i].cmd
               n == queue[i].service
    <3>3. c \in Commands
      BY <2>1, <3>2 DEF Element
    <3>4. n \in Own \union {0} /\ (c = "request" => n \in Own)
      BY <2>1, <3>2 DEF RequestsSound
    <3>5. tl' = [handle |-> i, active |-> TRUE, request |-> [cmd |-> c, service |-> n],
                 reply |-> "none"]
      BY <3>1
    <3> HIDE DEF c, n
    <3> QED BY <3>2, <3>3, <3>4, <3>5 DEF EntryType, AskedSound, Requests
  <2> QED BY <2>2, <2>3, <2>4 DEF TlResults
<1>4. TablesInv'
  BY <1>1, <1>2, <1>3 DEF REQNM_Task, TablesInv, ServedIsInTable
<1> QED BY <1>4, TaskLemma, SplitPrimeLemma

LEMMA SessionWrittenLemma == ASSUME IInv, SessionWritten PROVE IInv' /\ SecondIsRevived
<1>1. QueueInv /\ TablesInv
  BY SplitLemma
<1>2. tl' = UnusedEntry
  BY DEF SessionWritten
<1>3. ~ tl'.active /\ tl'.request.cmd = "unused" /\ tl' \in EntryType
  BY <1>2 DEF UnusedEntry, EntryType, NoRequest
<1>4. QueueStep
  BY <1>1, <1>3, UnchangedQueue DEF SessionWritten
<1>5. TablesInv'
  BY <1>1, <1>3 DEF SessionWritten, TablesInv, ServedIsInTable, AskedSound
<1> QED BY <1>4, <1>5, SplitPrimeLemma

LEMMA ConfirmLemma == ASSUME IInv, NEW i \in Slots, Confirm(i) PROVE IInv' /\ SecondIsRevived
<1>1. QueueInv /\ TablesInv
  BY SplitLemma
<1>2. ASSUME NEW rc \in RetryCodes, ConfirmFailed(i, rc) PROVE IInv' /\ SecondIsRevived
  <2>1. /\ RetryRequest(i, rc) /\ tl.handle = i
        /\ tl' = [tl EXCEPT !.active = FALSE]
    BY <1>2 DEF ConfirmFailed
  <2>2. tl' \in EntryType /\ ~ tl'.active /\ tl'.request = tl.request
    BY <1>1, <2>1 DEF TablesInv, EntryType
  <2>3. QueueStep /\ (dr \in [status : DrStatuses, cmd : DrCommands])'
    BY <2>1, <2>2, RetryLemma
  <2>4. TablesInv'
    BY <1>1, <1>2, <2>2, <2>3 DEF ConfirmFailed, TablesInv, ServedIsInTable, AskedSound
  <2> QED BY <2>3, <2>4, SplitPrimeLemma
<1>3. ASSUME NEW reply \in Replies, Responds(i, reply),
             UNCHANGED <<crt, srvcTask, asked>>,
             services' \subseteq Services, enabled' \subseteq Events,
             served' \subseteq Events, ServedIsInTable',
             dr' \in [status : DrStatuses, cmd : DrCommands], QueueStep
      PROVE  IInv' /\ SecondIsRevived
  <2>1. tl' \in EntryType /\ AskedSound'
    BY <1>3, RespondsLemma
  <2>2. TablesInv'
    BY <1>1, <1>3, <2>1 DEF TablesInv
  <2> QED BY <1>3, <2>2, SplitPrimeLemma
<1>4. CASE ConfirmUnread(i)
  <2>1. Responds(i, "unread") /\ UNCHANGED queue
        /\ UNCHANGED <<crt, dr, services, enabled, served, srvcTask, asked>>
    BY <1>4 DEF ConfirmUnread
  <2>2. "unread" \in Replies
    BY DEF Replies
  <2>3. QueueStep
    BY <1>1, <2>1, <2>2, RespondsLemma, UnchangedQueue
  <2> QED BY <1>1, <1>3, <2>1, <2>2, <2>3 DEF TablesInv, ServedIsInTable
<1>5. ASSUME NEW rc \in RetryCodes, ConfirmBusy(i, rc) PROVE IInv' /\ SecondIsRevived
  <2>1. Responds(i, rc) /\ RetryRequest(i, rc)
        /\ UNCHANGED <<crt, services, enabled, served, srvcTask, asked>>
    BY <1>5 DEF ConfirmBusy
  <2>2. rc \in Replies
    BY DEF RetryCodes, Replies
  <2>3. QueueStep /\ (dr \in [status : DrStatuses, cmd : DrCommands])'
    BY <2>1, <2>2, RespondsLemma, RetryLemma
  <2> QED BY <1>1, <1>3, <2>1, <2>2, <2>3 DEF TablesInv, ServedIsInTable
<1>6. CASE ConfirmDelayed(i)
  <2>1. Responds(i, "delayed") /\ SendAgain(i, MaxRetries)
        /\ UNCHANGED <<crt, dr, services, enabled, served, srvcTask, asked>>
    BY <1>6 DEF ConfirmDelayed
  <2>2. "delayed" \in Replies /\ MaxRetries \in 0 .. MaxRetries
    BY QueueAssumption DEF Replies
  <2>3. QueueStep
    BY <1>1, <2>1, <2>2, RespondsLemma, SendAgainLemma
  <2> QED BY <1>1, <1>3, <2>1, <2>2, <2>3 DEF TablesInv, ServedIsInTable
<1>7. ASSUME Finish(i), ~ tl'.active
      PROVE  QueueStep /\ (dr \in [status : DrStatuses, cmd : DrCommands])'
  <2>1. TellRequester(i, "end") /\ queue' = [queue EXCEPT ![i] = Cleared]
    BY <1>7 DEF Finish
  <2> QED BY <1>1, <1>7, <2>1, ClearLemma, TellLemma DEF DrStatuses
<1>8. CASE ConfirmDenied(i)
  <2>1. Responds(i, "denied") /\ Finish(i)
        /\ UNCHANGED <<crt, services, enabled, served, srvcTask, asked>>
    BY <1>8 DEF ConfirmDenied
  <2>2. "denied" \in Replies
    BY DEF Replies
  <2>3. QueueStep /\ (dr \in [status : DrStatuses, cmd : DrCommands])'
    BY <1>7, <2>1, <2>2, RespondsLemma
  <2> QED BY <1>1, <1>3, <2>1, <2>2, <2>3 DEF TablesInv, ServedIsInTable
<1>9. CASE ConfirmGranted(i)
  <2> DEFINE service == tl.request.service
  <2>1. /\ tl.request.cmd = "request" /\ Responds(i, "success") /\ Finish(i)
        /\ services' = services \union {service}
        /\ UNCHANGED <<crt, srvcTask, asked>>
    BY <1>9 DEF ConfirmGranted
  <2>2. "success" \in Replies
    BY DEF Replies
  <2>3. QueueStep /\ (dr \in [status : DrStatuses, cmd : DrCommands])'
    BY <1>7, <2>1, <2>2, RespondsLemma
  <2>4. service \in Own
    BY <1>1, <2>1 DEF TablesInv, AskedSound
  <2>5. /\ served' \subseteq served \union {service} /\ served' \subseteq Events
        /\ enabled' \subseteq Events
    BY <1>1, <1>9 DEF ConfirmGranted, TablesInv
  <2> HIDE DEF service
  <2>6. services' \subseteq Services /\ ServedIsInTable'
    BY <1>1, <2>1, <2>4, <2>5 DEF TablesInv, ServedIsInTable, Services
  <2> QED BY <1>3, <2>1, <2>2, <2>3, <2>5, <2>6
<1>10. CASE ConfirmDeleted(i)
  <2> DEFINE service == tl.request.service
  <2>1. /\ Responds(i, "success")
        /\ \/ /\ Finish(i)
              /\ services' = services \ {service} /\ served' = served \ {service}
           \/ RetryRequest(i, "success") /\ UNCHANGED <<services, served>>
        /\ UNCHANGED <<crt, enabled, srvcTask, asked>>
    BY <1>10 DEF ConfirmDeleted, ServedWithout
  <2>2. "success" \in Replies
    BY DEF Replies
  <2>3. QueueStep /\ (dr \in [status : DrStatuses, cmd : DrCommands])'
    BY <1>7, <2>1, <2>2, RespondsLemma, RetryLemma
  <2> HIDE DEF service
  <2>4. services' \subseteq Services /\ served' \subseteq Events /\ ServedIsInTable'
    BY <1>1, <2>1 DEF TablesInv, ServedIsInTable
  <2> QED BY <1>1, <1>3, <2>1, <2>2, <2>3, <2>4 DEF TablesInv
<1> QED BY <1>2, <1>4, <1>5, <1>6, <1>8, <1>9, <1>10 DEF Confirm

LEMMA CommandsLemma == ASSUME IInv, Commands117And118 PROVE IInv' /\ SecondIsRevived
<1>1. QueueInv /\ TablesInv
  BY SplitLemma
<1>2. \A cmd \in {"C117", "C118"}, outcome \in Outcomes : ClaimDr(cmd, outcome) =>
        (dr \in [status : DrStatuses, cmd : DrCommands])'
  BY <1>1 DEF TablesInv, ClaimDr, Outcomes, DrStatuses, DrCommands
<1>3. ASSUME NEW event \in Events, NEW grows \in BOOLEAN, NEW outcome \in Outcomes,
             C117(event, grows, outcome)
      PROVE  IInv' /\ SecondIsRevived
  <2>1. Put("request", event, grows) /\ FindSrvcCmdPending(event) = {} /\ UNCHANGED tl
    BY <1>3 DEF C117, Ask
  <2>2. QueueStep
    BY <1>1, <2>1, PutLemma DEF Own
  <2>3. (dr \in [status : DrStatuses, cmd : DrCommands])'
    BY <1>1, <1>2, <1>3 DEF C117, TablesInv
  <2>4. asked' \in 0 .. MaxAsked
    BY <1>1, <1>3, CountAssumption DEF C117, Ask, TablesInv
  <2>5. TablesInv'
    BY <1>1, <1>3, <2>3, <2>4 DEF C117, TablesInv, ServedIsInTable, AskedSound
  <2> QED BY <2>2, <2>5, SplitPrimeLemma
<1>4. ASSUME NEW event \in Events, NEW outcome \in Outcomes, C118On(event, outcome)
      PROVE  IInv' /\ SecondIsRevived
  <2>1. Put("request", event, TRUE) /\ FindSrvcCmdPending(event) = {} /\ UNCHANGED tl
    BY <1>4 DEF C118On, Ask
  <2>2. QueueStep
    BY <1>1, <2>1, PutLemma DEF Own
  <2>3. (dr \in [status : DrStatuses, cmd : DrCommands])'
    BY <1>2, <1>4 DEF C118On
  <2>4. asked' \in 0 .. MaxAsked
    BY <1>1, <1>4, CountAssumption DEF C118On, Ask, TablesInv
  <2>5. TablesInv'
    BY <1>1, <1>4, <2>3, <2>4 DEF C118On, TablesInv, ServedIsInTable, AskedSound
  <2> QED BY <2>2, <2>5, SplitPrimeLemma
<1>5. ASSUME NEW event \in Events, C118Off(event) PROVE IInv' /\ SecondIsRevived
  <2>1. /\ \/ Put("delete", event, FALSE) /\ asked < MaxAsked /\ asked' = asked + 1
           \/ UNCHANGED <<queue, asked>>
        /\ UNCHANGED tl
    BY <1>5 DEF C118Off, Ask
  <2>2. QueueStep
    BY <1>1, <2>1, PutLemma, UnchangedQueue DEF Own
  <2>3. asked' \in 0 .. MaxAsked
    <3>1. (asked < MaxAsked /\ asked' = asked + 1) \/ asked' = asked
      BY <2>1
    <3>2. asked \in 0 .. MaxAsked
      BY <1>1 DEF TablesInv
    <3> QED BY <3>1, <3>2, CountAssumption
  <2>4. TablesInv'
    BY <1>1, <1>5, <2>3 DEF C118Off, TablesInv, ServedIsInTable, AskedSound
  <2> QED BY <2>2, <2>4, SplitPrimeLemma
<1> QED BY <1>3, <1>4, <1>5 DEF Commands117And118

LEMMA UserBoardLemma == ASSUME IInv, UserBoard PROVE IInv' /\ SecondIsRevived
<1>1. QueueInv /\ TablesInv
  BY SplitLemma
<1>2. ASSUME NEW burst \in Bursts, NEW cmd \in {"none"} \union BoardCommands,
             SrvcReq(cmd, burst)
      PROVE  IInv' /\ SecondIsRevived
  <2>1. Put("request", burst, cmd # "none") /\ FindSrvcCmdPending(burst) = {}
        /\ UNCHANGED tl
    BY <1>2 DEF SrvcReq, Ask
  <2>2. QueueStep
    BY <1>1, <2>1, PutLemma DEF Own
  <2>3. (dr \in [status : DrStatuses, cmd : DrCommands])'
    BY <1>1, <1>2 DEF SrvcReq, TablesInv, DrStatuses, DrCommands
  <2>4. asked' \in 0 .. MaxAsked
    BY <1>1, <1>2, CountAssumption DEF SrvcReq, Ask, TablesInv
  <2>5. TablesInv'
    BY <1>1, <1>2, <2>3, <2>4 DEF SrvcReq, TablesInv, ServedIsInTable, AskedSound
  <2> QED BY <2>2, <2>5, SplitPrimeLemma
<1>3. ASSUME NEW burst \in Bursts, SrvcDel(burst) PROVE IInv' /\ SecondIsRevived
  <2>1. Put("delete", burst, FALSE) /\ UNCHANGED tl
    BY <1>3 DEF SrvcDel, Ask
  <2>2. QueueStep
    BY <1>1, <2>1, PutLemma DEF Own
  <2>3. asked' \in 0 .. MaxAsked
    BY <1>1, <1>3, CountAssumption DEF SrvcDel, Ask, TablesInv
  <2>4. TablesInv'
    BY <1>1, <1>3, <2>3 DEF SrvcDel, TablesInv, ServedIsInTable, AskedSound
  <2> QED BY <2>2, <2>4, SplitPrimeLemma
<1> QED BY <1>2, <1>3 DEF UserBoard

LEMMA DrLemma ==
    ASSUME IInv, C106 \/ \E cmd \in DrCommands \ {"none"} : RepeatRequest(cmd)
    PROVE  IInv' /\ SecondIsRevived
<1>1. QueueInv /\ TablesInv
  BY SplitLemma
<1>2. UNCHANGED <<queue, crt, services, enabled, served, srvcTask, tl, asked>>
  BY DEF C106, RepeatRequest
<1>3. (dr \in [status : DrStatuses, cmd : DrCommands])'
  <2>1. CASE C106
    BY <1>1, <2>1 DEF C106, TablesInv, DrStatuses
  <2>2. ASSUME NEW cmd \in DrCommands, RepeatRequest(cmd)
        PROVE  dr' \in [status : DrStatuses, cmd : DrCommands]
    BY <1>1, <2>2 DEF RepeatRequest, FindDr, TablesInv, DrStatuses, DrCommands, NoDr
  <2> QED BY <2>1, <2>2
<1>4. QueueStep /\ TablesInv'
  BY <1>1, <1>2, <1>3, UnchangedQueue DEF TablesInv, ServedIsInTable, AskedSound
<1> QED BY <1>4, SplitPrimeLemma

LEMMA ManagerLemma ==
    ASSUME IInv, NEW service \in Services, C973(service) \/ C801(service)
    PROVE  IInv' /\ SecondIsRevived
<1>1. QueueInv /\ TablesInv
  BY SplitLemma
<1>2. CASE C973(service)
  <2>1. QueueStep /\ TablesInv'
    BY <1>1, <1>2, UnchangedQueue DEF C973, TablesInv, ServedIsInTable, AskedSound
  <2> QED BY <2>1, SplitPrimeLemma
<1>3. CASE C801(service)
  <2>1. asked' \in 0 .. MaxAsked
    BY <1>1, <1>3, CountAssumption DEF C801, TablesInv
  <2>2. QueueStep /\ TablesInv'
    BY <1>1, <1>3, <2>1, UnchangedQueue DEF C801, TablesInv, ServedIsInTable, AskedSound, ServedWithout
  <2> QED BY <2>2, SplitPrimeLemma
<1> QED BY <1>2, <1>3

-----------------------------------------------------------------------------
(* The invariant, and what follows from it.                                *)

LEMMA InitLemma == Init => IInv
<1>1. SUFFICES ASSUME Init PROVE IInv
  OBVIOUS
<1>2. 0 \in Slots /\ 0 \in 0 .. MaxAsked
  BY QueueAssumption, CountAssumption
<1>3. tl \in EntryType /\ ~ tl.active /\ tl.request.cmd = "unused"
  BY <1>1 DEF Init, UnusedEntry, EntryType, NoRequest
<1>4. TypeOK
  BY <1>1, <1>2, <1>3, ClearedLemma DEF Init, TypeOK, NoDr, DrStatuses, DrCommands, EntryType
<1>5. \A i \in Slots : queue[i] = Cleared
  BY <1>1 DEF Init
<1>6. RequestsSound /\ OneOutstanding /\ ServedIsInTable /\ ActiveWaits /\ AskedSound
  BY <1>1, <1>3, <1>5, ClearedLemma
     DEF Init, RequestsSound, OneOutstanding, ServedIsInTable, ActiveWaits, AskedSound
<1> QED BY <1>4, <1>6 DEF IInv

LEMMA StepLemma == IInv /\ [Next]_vars => IInv' /\ SecondIsRevived
<1>1. SUFFICES ASSUME IInv, [Next]_vars PROVE IInv' /\ SecondIsRevived
  OBVIOUS
<1>2. QueueInv /\ TablesInv
  BY <1>1, SplitLemma
<1>3. CASE SrvcTask
  BY <1>1, <1>3, SrvcTaskLemma
<1>4. ASSUME NEW result \in TlResults, REQNM_Task(result) PROVE IInv' /\ SecondIsRevived
  BY <1>1, <1>4, ReqnmTaskLemma
<1>5. ASSUME NEW i \in Slots, Ripen(i) PROVE IInv' /\ SecondIsRevived
  <2>1. QueueStep
    BY <1>2, <1>5, RipenLemma
  <2>2. TablesInv'
    BY <1>2, <1>5 DEF Ripen, TablesInv, ServedIsInTable, AskedSound
  <2> QED BY <2>1, <2>2, SplitPrimeLemma
<1>6. ASSUME NEW i \in Slots, Confirm(i) PROVE IInv' /\ SecondIsRevived
  BY <1>1, <1>6, ConfirmLemma
<1>7. CASE Commands117And118
  BY <1>1, <1>7, CommandsLemma
<1>8. CASE UserBoard
  BY <1>1, <1>8, UserBoardLemma
<1>9. CASE C106 \/ \E cmd \in DrCommands \ {"none"} : RepeatRequest(cmd)
  BY <1>1, <1>9, DrLemma
<1>10. CASE \E service \in Services : C973(service) \/ C801(service)
  BY <1>1, <1>10, ManagerLemma
<1>11. CASE UNCHANGED vars
  <2>1. QueueStep /\ TablesInv'
    BY <1>2, <1>11, UnchangedQueue DEF vars, TablesInv, ServedIsInTable, AskedSound
  <2> QED BY <2>1, SplitPrimeLemma
<1>12. CASE SessionWritten
  BY <1>1, <1>12, SessionWrittenLemma
<1> QED BY <1>1, <1>3, <1>4, <1>5, <1>6, <1>7, <1>8, <1>9, <1>10, <1>11, <1>12 DEF Next

\* The strengthened invariant holds in every state.
THEOREM Invariance == Spec => []IInv
BY InitLemma, StepLemma, PTL DEF Spec

\* The types of the queue, the buffer and the tables of app_cmdreq.c.
THEOREM TypeCorrect == Spec => []TypeOK
<1>1. IInv => TypeOK
  BY DEF IInv
<1> QED BY <1>1, Invariance, PTL

\* REQNM_Task sends nothing while a request waits for its answer, for every size
\* of the queue and every number of retries.
THEOREM OneOutstandingAlways == Spec => []OneOutstanding
<1>1. IInv => OneOutstanding
  BY DEF IInv
<1> QED BY <1>1, Invariance, PTL

\* A second live request for one service comes about only when a late response
\* revives a request that has been given up, whoever asks: REQNM_FindSrvcCmdPending,
\* the retries and the slots that are used again keep requests apart otherwise.
THEOREM SecondOnlyRevivedAlways == Spec => SecondOnlyRevived
<1>1. IInv /\ [Next]_vars => [SecondIsRevived]_vars
  BY StepLemma
<1> QED BY <1>1, Invariance, PTL DEF Spec, SecondOnlyRevived

\* An event never publishes under a service id that is not in g_aServicesTable.
THEOREM ServedIsInTableAlways == Spec => []ServedIsInTable
<1>1. IInv => ServedIsInTable
  BY DEF IInv
<1> QED BY <1>1, Invariance, PTL
=============================================================================
