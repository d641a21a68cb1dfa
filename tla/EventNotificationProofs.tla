------------------------ MODULE EventNotificationProofs ------------------------
(***************************************************************************)
(* Theorems about event notification: no change is missed, and an event    *)
(* leaves the queue only for one of the reasons that LeavesWithCause       *)
(* names.                                                                  *)
(***************************************************************************)
EXTENDS EventNotification, FiniteSetTheorems, TLAPS

\* What the properties need in every state: the bytes watched since the newest event
\* are in the mask still, every place in the queue holds an event, and one that is
\* marked as acknowledged has been acknowledged.
WatchedInMask == watched \subseteq mask
EventsStamped == \A i \in 1 .. size : queue[i].stamp # 0
AckedSound    == \A i \in 1 .. size : queue[i].acked => queue[i].stamp \in acks \union own

\* The inductive invariant.
IInv == TypeOK /\ NewestTold /\ WatchedInMask /\ EventsStamped /\ AckedSound

USE PendingAssumption, StampAssumption, MaskAssumption, ChangeAssumption, BytesAssumption

-----------------------------------------------------------------------------
(* Lemmas.                                                                  *)

\* The three scans: the one that is replaced and the two that stay.
LEMMA ScanOrder ==
    ASSUME last \in 0 .. 2
    PROVE  /\ Oldest \in 0 .. 2 /\ Middle \in 0 .. 2
           /\ Oldest # Middle /\ Oldest # last /\ Middle # last
           /\ 0 .. 2 = {Oldest, Middle, last}
<1>1. CASE last = 0
  BY <1>1 DEF Oldest, Middle
<1>2. CASE last = 1
  BY <1>2 DEF Oldest, Middle
<1>3. CASE last = 2
  BY <1>3 DEF Oldest, Middle
<1> QED BY <1>1, <1>2, <1>3

\* A scan triggers a natural number of events, none only if no byte has triggered.
LEMMA TriggeredCount ==
    ASSUME TypeOK, Triggered # {}
    PROVE  Cardinality(Triggered) \in Nat \ {0}
<1>1. Triggered \subseteq Bytes
  BY DEF TypeOK, Triggered
<1>2. IsFiniteSet(Triggered)
  BY <1>1, FS_Subset
<1>3. Cardinality(Triggered) \in Nat
  BY <1>2, FS_CardinalityType
<1>4. Cardinality(Triggered) # 0
  BY <1>2, FS_EmptySet
<1> QED BY <1>3, <1>4

\* Where the new events are stored.
LEMMA StoredPlaces ==
    ASSUME size \in 0 .. MaxPending, NEW n \in Nat \ {0}
    PROVE  /\ FirstNew \in Places /\ NewSize(n) \in Places
           /\ FirstNew <= NewSize(n) /\ size <= NewSize(n)
           /\ \A i \in 1 .. NewSize(n) :
                i < FirstNew \/ i \in FirstNew .. NewSize(n)
           /\ \A i \in 1 .. size : i < FirstNew \/ i = MaxPending
           /\ FirstNew <= size + 1
  BY DEF FirstNew, NewSize, Places

-----------------------------------------------------------------------------
(* The initial states, and the steps.                                       *)

THEOREM InitInv == Init => IInv
<1> SUFFICES ASSUME Init PROVE IInv
  OBVIOUS
<1>1. TypeOK
  <2>1. Cleared \in Event
    BY DEF Cleared, Event
  <2>2. queue \in [Places -> Event]
    BY <2>1 DEF Init
  <2>3. scans \in [0 .. 2 -> SUBSET Bytes] /\ last \in 0 .. 2
    BY DEF Init
  <2>4. size \in 0 .. MaxPending /\ stamps \in 0 .. MaxStamp
    BY DEF Init
  <2>5. /\ status \in SUBSET Bytes /\ told \in SUBSET Bytes
        /\ mask \in SUBSET Bytes /\ watched \in SUBSET Bytes
        /\ sent \in SUBSET (1 .. MaxStamp) /\ acks \in SUBSET (1 .. MaxStamp)
        /\ own \in SUBSET (1 .. MaxStamp)
        /\ sized \in BOOLEAN /\ active \in BOOLEAN /\ operating \in BOOLEAN
        /\ isAck \in BOOLEAN
    BY DEF Init
  <2> QED BY <2>2, <2>3, <2>4, <2>5 DEF TypeOK
<1>2. NewestTold
  BY DEF Init, NewestTold
<1> QED BY <1>1, <1>2 DEF Init, IInv, WatchedInMask, EventsStamped, AckedSound

\* A scan that triggers nothing.
LEMMA QuietScan ==
    ASSUME IInv, Scan, Triggered = {}
    PROVE  IInv'
<1> USE DEF IInv
<1>1. UNCHANGED <<queued, history, status, pipe, isAck, gateway>>
  BY DEF Scan
<1> USE <1>1 DEF queued, history, pipe, gateway
<1>2. /\ scans' = [scans EXCEPT ![Oldest] = status] /\ last' = Oldest
  BY DEF Scan
<1>3. TypeOK'
  BY <1>2, ScanOrder DEF TypeOK
<1>4. NewestTold'
  <2> SUFFICES ASSUME NEW b \in watched,
                      \A i, j \in 0 .. 2 : b \in scans'[i] <=> b \in scans'[j]
               PROVE  b \in scans'[0] <=> b \in told
    BY DEF NewestTold
  <2>1. /\ scans'[Oldest] = status /\ scans'[Middle] = scans[Middle]
        /\ scans'[last] = scans[last]
    BY <1>2, ScanOrder DEF TypeOK
  <2>2. b \in mask /\ b \notin Triggered
    BY DEF WatchedInMask
  <2>3. (b \in status <=> b \in scans[Middle]) /\ (b \in status <=> b \in scans[last])
    BY <2>1, ScanOrder DEF TypeOK
  <2>4. b \in status <=> b \in scans[Oldest]
    BY <2>2, <2>3 DEF Triggered
  <2>5. \A i, j \in 0 .. 2 : b \in scans[i] <=> b \in scans[j]
    BY <2>3, <2>4, ScanOrder DEF TypeOK
  <2>6. b \in scans[0] <=> b \in told
    BY <2>5 DEF NewestTold
  <2>7. b \in scans'[0] <=> b \in status
    BY <2>1, ScanOrder DEF TypeOK
  <2>8. b \in scans[0] <=> b \in status
    BY <2>4, <2>5, ScanOrder DEF TypeOK
  <2> QED BY <2>6, <2>7, <2>8
<1>5. (WatchedInMask /\ EventsStamped /\ AckedSound)'
  BY DEF WatchedInMask, EventsStamped, AckedSound
<1> QED BY <1>3, <1>4, <1>5

\* A scan that finds events.
LEMMA EventfulScan ==
    ASSUME IInv, Scan, Triggered # {}
    PROVE  IInv'
<1> USE DEF IInv
<1> DEFINE n == Cardinality(Triggered)
<1>1. /\ UNCHANGED <<status, pipe, isAck, gateway>>
      /\ stamps < MaxStamp /\ stamps' = stamps + 1
      /\ queue' = Stored(n) /\ size' = NewSize(n)
      /\ told' = status /\ watched' = mask
  BY DEF Scan
<1>2. /\ scans' = [scans EXCEPT ![Oldest] = status] /\ last' = Oldest
  BY DEF Scan
<1>3. n \in Nat \ {0}
  BY TriggeredCount
<1> HIDE DEF n
<1>4. size \in 0 .. MaxPending /\ NewEvent \in Event
  BY <1>1 DEF TypeOK, NewEvent, Event
<1>5. \A i \in Places : queue'[i] = IF i \in FirstNew .. size' THEN NewEvent ELSE queue[i]
  BY <1>1 DEF Stored
<1>6. /\ size' \in Places /\ FirstNew \in Places /\ FirstNew <= size'
      /\ FirstNew <= size + 1
  BY <1>1, <1>3, <1>4, StoredPlaces
<1>7. TypeOK'
  <2>1. queue' \in [Places -> Event]
    BY <1>1, <1>4 DEF TypeOK, Stored
  <2>2. scans' \in [0 .. 2 -> SUBSET Bytes] /\ last' \in 0 .. 2
    BY <1>2, ScanOrder DEF TypeOK
  <2>3. size' \in 0 .. MaxPending
    BY <1>6 DEF Places
  <2>4. stamps' \in 0 .. MaxStamp
    BY <1>1 DEF TypeOK
  <2> QED BY <1>1, <2>1, <2>2, <2>3, <2>4 DEF TypeOK, pipe, gateway
<1>8. NewestTold'
  <2>1. \A b \in watched' :
            (\A i, j \in 0 .. 2 : b \in scans'[i] <=> b \in scans'[j]) =>
                (b \in scans'[0] <=> b \in told')
    <3>1. scans'[Oldest] = status
      BY <1>2, ScanOrder DEF TypeOK
    <3> QED BY <1>1, <3>1, ScanOrder DEF TypeOK
  <2>2. queue'[size'] = NewEvent
    BY <1>5, <1>6 DEF Places
  <2>3. queue'[size'].data = told'
    BY <1>1, <2>2 DEF NewEvent
  <2> QED BY <2>1, <2>3 DEF NewestTold
<1>9. ASSUME NEW i \in 1 .. size'
      PROVE  /\ queue'[i].stamp # 0
             /\ queue'[i].acked => queue'[i].stamp \in acks' \union own'
  <2>1. i \in Places
    BY <1>6 DEF Places
  <2>2. CASE i \in FirstNew .. size'
    <3>1. queue'[i] = NewEvent
      BY <1>5, <2>1, <2>2
    <3> QED BY <3>1 DEF NewEvent, TypeOK
  <2>3. CASE i \notin FirstNew .. size'
    <3>1. queue'[i] = queue[i]
      BY <1>5, <2>1, <2>3
    <3>2. i \in 1 .. size
      BY <1>4, <1>6, <2>3 DEF Places
    <3> QED BY <1>1, <3>1, <3>2 DEF EventsStamped, AckedSound, gateway
  <2> QED BY <2>2, <2>3
<1>10. WatchedInMask'
  BY <1>1 DEF WatchedInMask, pipe
<1> QED BY <1>7, <1>8, <1>9, <1>10 DEF EventsStamped, AckedSound

\* The queue is emptied: by ClearQueue, or with the scans set anew by Restart.
LEMMA EmptyingStep ==
    ASSUME IInv, ClearQueue \/ Restart
    PROVE  IInv'
<1> USE DEF IInv
<1>1. size' = 0 /\ queue' = [i \in Places |-> Cleared]
  BY DEF ClearQueue, Restart
<1>2. queue' \in [Places -> Event]
  BY <1>1 DEF Cleared, Event
<1>3. CASE ClearQueue
  <2>1. TypeOK'
    BY <1>1, <1>2, <1>3 DEF ClearQueue, TypeOK, pipe, scanned, gateway, history
  <2>2. NewestTold'
    BY <1>1, <1>3 DEF ClearQueue, NewestTold, scanned, history
  <2> QED BY <1>1, <1>3, <2>1, <2>2
          DEF ClearQueue, WatchedInMask, EventsStamped, AckedSound, pipe, history
<1>4. CASE Restart
  <2>1. TypeOK'
    <3>1. scans' \in [0 .. 2 -> SUBSET Bytes]
      BY <1>4 DEF Restart, TypeOK
    <3>2. size' \in 0 .. MaxPending /\ last' \in 0 .. 2
      BY <1>4 DEF Restart
    <3>3. UNCHANGED <<status, mask, sized, sent, acks, own, stamps>>
      BY <1>4 DEF Restart, gateway
    <3>4. told' = status /\ watched' = mask
      BY <1>4 DEF Restart
    <3>5. isAck' \in BOOLEAN /\ active' \in BOOLEAN /\ operating' \in BOOLEAN
      BY <1>4 DEF Restart
    <3> QED BY <1>2, <3>1, <3>2, <3>3, <3>4, <3>5 DEF TypeOK
  <2>2. NewestTold'
    BY <1>1, <1>4 DEF Restart, NewestTold
  <2> QED BY <1>1, <1>4, <2>1, <2>2
          DEF Restart, WatchedInMask, EventsStamped, AckedSound
<1> QED BY <1>3, <1>4

\* The first event is marked as acknowledged, or only its contents are sent.
LEMMA FirstStep ==
    ASSUME IInv, NEW req \in 0 .. MaxStamp, NEW arrives \in BOOLEAN,
           AcknowledgeEvent(req) \/ Publish(arrives) \/ PublishUpdate
    PROVE  /\ IInv' /\ size' = size
           /\ \A i \in Places : queue'[i].stamp = queue[i].stamp
<1> USE DEF IInv
<1>1. UNCHANGED <<status, pipe, scanned, size, history>> /\ isAck' \in BOOLEAN
  BY DEF AcknowledgeEvent, Publish, PublishUpdate, queued
<1>2. 1 \in Places
  BY DEF Places
<1>3. \/ queue' = queue /\ acks' = acks /\ own' = own
      \/ \E a \in BOOLEAN :
           /\ queue' = [queue EXCEPT ![1].acked = a]
           /\ acks' \in {acks, acks \union {queue[1].stamp}}
           /\ own' \in {own, own \union {queue[1].stamp}}
           /\ a => queue[1].stamp \in acks' \union own'
           /\ queue[1].stamp # 0
  <2>1. CASE AcknowledgeEvent(req)
    <3>1. CASE Matches(req)
      <4>1. /\ queue' = [queue EXCEPT ![1].acked = TRUE] /\ acks' = acks \union {req}
            /\ req = queue[1].stamp /\ req # 0 /\ own' = own
        BY <2>1, <3>1 DEF AcknowledgeEvent, Matches
      <4> QED BY <4>1
    <3>2. CASE ~Matches(req)
      BY <2>1, <3>2 DEF AcknowledgeEvent
    <3> QED BY <3>1, <3>2
  <2>2. CASE Publish(arrives)
    <3>1. queue[1].stamp # 0
      BY <2>2 DEF Publish, EventsStamped, TypeOK
    <3>2. /\ queue' = [queue EXCEPT ![1].acked = isAck] /\ acks' = acks
          /\ own' = IF isAck THEN own \union {queue[1].stamp} ELSE own
      BY <2>2 DEF Publish
    <3>3. isAck \in BOOLEAN
      BY DEF TypeOK
    <3> QED BY <3>1, <3>2, <3>3
  <2>3. CASE PublishUpdate
    BY <2>3 DEF PublishUpdate, queued
  <2> QED BY <2>1, <2>2, <2>3
<1>4. queue[1] \in Event /\ \A i \in Places : queue[i] \in Event
  BY <1>2 DEF TypeOK
<1>5. sent' \subseteq sent \union {queue[1].stamp} /\ (queue[1].stamp = 0 => sent' = sent)
  <2>1. CASE AcknowledgeEvent(req)
    BY <2>1, <1>4 DEF AcknowledgeEvent, EventsStamped, TypeOK
  <2>2. CASE Publish(arrives)
    BY <2>2, <1>4 DEF Publish, EventsStamped, TypeOK
  <2>3. CASE PublishUpdate
    BY <2>3 DEF PublishUpdate
  <2> QED BY <2>1, <2>2, <2>3
<1>6. /\ queue' \in [Places -> Event]
      /\ acks' \in SUBSET (1 .. MaxStamp) /\ own' \in SUBSET (1 .. MaxStamp)
      /\ acks \subseteq acks' /\ own \subseteq own'
      /\ \A i \in Places : queue'[i].stamp = queue[i].stamp /\ queue'[i].data = queue[i].data
      /\ \A i \in Places : queue'[i].acked =>
            queue[i].acked \/ queue[i].stamp \in acks' \union own'
  <2>1. CASE queue' = queue /\ acks' = acks /\ own' = own
    BY <2>1 DEF TypeOK
  <2>2. ASSUME NEW a \in BOOLEAN,
               queue' = [queue EXCEPT ![1].acked = a],
               acks' \in {acks, acks \union {queue[1].stamp}},
               own' \in {own, own \union {queue[1].stamp}},
               a => queue[1].stamp \in acks' \union own',
               queue[1].stamp # 0
        PROVE  <1>6
    <3>1. queue' = [queue EXCEPT ![1] = [queue[1] EXCEPT !.acked = a]]
      BY <2>2
    <3>2. [queue[1] EXCEPT !.acked = a] \in Event
      BY <1>4 DEF Event
    <3>3. queue' \in [Places -> Event]
      BY <3>1, <3>2 DEF TypeOK
    <3>4. /\ acks' \in SUBSET (1 .. MaxStamp) /\ own' \in SUBSET (1 .. MaxStamp)
          /\ acks \subseteq acks' /\ own \subseteq own'
      <4>1. queue[1].stamp \in 1 .. MaxStamp
        BY <1>4, <2>2 DEF Event
      <4> QED BY <2>2, <4>1 DEF TypeOK
    <3>5. \A i \in Places : i # 1 => queue'[i] = queue[i]
      BY <3>1 DEF TypeOK
    <3>6. queue'[1] = [queue[1] EXCEPT !.acked = a]
      BY <3>1, <1>2 DEF TypeOK
    <3>7. /\ queue'[1].stamp = queue[1].stamp /\ queue'[1].data = queue[1].data
          /\ queue'[1].acked = a
      BY <3>6, <1>4 DEF Event
    <3>8. a => queue[1].stamp \in acks' \union own'
      BY <2>2
    <3> QED BY <3>3, <3>4, <3>5, <3>7, <3>8
  <2> QED BY <1>3, <2>1, <2>2
<1>7. TypeOK'
  <2>1. queue[1].stamp \in 0 .. MaxStamp
    BY <1>4 DEF Event
  <2>2. sent' \in SUBSET (1 .. MaxStamp)
    BY <1>5, <2>1 DEF TypeOK
  <2> QED BY <1>1, <1>6, <2>2 DEF TypeOK, pipe, scanned, history
<1>8. NewestTold'
  BY <1>1, <1>6 DEF NewestTold, TypeOK, Places, scanned, history
<1>9. (EventsStamped /\ AckedSound)'
  <2>1. size' = size
    BY <1>1
  <2>2. ASSUME NEW i \in 1 .. size
        PROVE  /\ queue'[i].stamp # 0
               /\ queue'[i].acked => queue'[i].stamp \in acks' \union own'
    <3>1. i \in Places
      BY DEF TypeOK, Places
    <3>2. queue[i].stamp # 0 /\ (queue[i].acked => queue[i].stamp \in acks \union own)
      BY DEF EventsStamped, AckedSound
    <3>3. queue'[i].stamp = queue[i].stamp
      BY <1>6, <3>1
    <3>4. queue'[i].acked => queue[i].acked \/ queue[i].stamp \in acks' \union own'
      BY <1>6, <3>1
    <3> QED BY <1>6, <3>2, <3>3, <3>4
  <2> QED BY <2>1, <2>2 DEF EventsStamped, AckedSound
<1>10. WatchedInMask'
  BY <1>1 DEF WatchedInMask, pipe, history
<1> QED BY <1>1, <1>6, <1>7, <1>8, <1>9, <1>10

\* The first event is taken out.
LEMMA RemovalStep ==
    ASSUME IInv, RemoveAcknowledged
    PROVE  IInv'
<1> USE DEF IInv
<1>1. /\ size > 0 /\ size' = size - 1 /\ queue' = Shifted
      /\ UNCHANGED <<status, pipe, scanned, isAck, gateway, history>>
  BY DEF RemoveAcknowledged
<1>2. size \in 1 .. MaxPending
  BY <1>1 DEF TypeOK
<1>3. \A i \in Places : queue'[i] = IF i < size THEN queue[i + 1] ELSE queue[i]
  BY <1>1 DEF Shifted
<1>4. queue' \in [Places -> Event]
  BY <1>1, <1>2 DEF Shifted, TypeOK, Places
<1>5. TypeOK'
  BY <1>1, <1>2, <1>4 DEF TypeOK, pipe, scanned, gateway, history
<1>6. \A i \in 1 .. size' : i \in Places /\ i + 1 \in 1 .. size /\ queue'[i] = queue[i + 1]
  BY <1>1, <1>2, <1>3 DEF Places
<1>7. NewestTold'
  <2>1. size' > 0 => queue'[size'] = queue[size]
    BY <1>1, <1>2, <1>6
  <2> QED BY <1>1, <1>2, <2>1 DEF NewestTold, scanned, history
<1>8. (EventsStamped /\ AckedSound)'
  BY <1>1, <1>6 DEF EventsStamped, AckedSound, gateway
<1>9. WatchedInMask'
  BY <1>1 DEF WatchedInMask, pipe, history
<1> QED BY <1>5, <1>7, <1>8, <1>9

\* A step that leaves the queue and the scans as they are.
LEMMA QuietStep ==
    ASSUME IInv, UNCHANGED <<scanned, queued, gateway, told, stamps>>,
           status' \in SUBSET Bytes, mask' \in SUBSET Bytes, sized' \in BOOLEAN,
           active' \in BOOLEAN, operating' \in BOOLEAN, isAck' \in BOOLEAN,
           watched' \subseteq watched \intersect mask'
    PROVE  IInv'
<1> USE DEF IInv, scanned, queued, gateway
<1>1. TypeOK'
  BY DEF TypeOK
<1>2. NewestTold'
  BY DEF NewestTold
<1> QED BY <1>1, <1>2 DEF WatchedInMask, EventsStamped, AckedSound

THEOREM StepInv == IInv /\ [Next]_vars => IInv'
<1> SUFFICES ASSUME IInv, [Next]_vars PROVE IInv'
  OBVIOUS
<1> USE DEF pipe, history
<1>0. TypeOK /\ WatchedInMask
  BY DEF IInv
<1>1. CASE Scan
  BY <1>1, QuietScan, EventfulScan
<1>2. CASE ClearQueue \/ Restart
  BY <1>2, EmptyingStep
<1>3. ASSUME NEW req \in 0 .. MaxStamp, AcknowledgeEvent(req)
      PROVE  IInv'
  BY <1>3, FirstStep
<1>4. ASSUME NEW arrives \in BOOLEAN, Publish(arrives)
      PROVE  IInv'
  <2>1. 0 \in 0 .. MaxStamp
    OBVIOUS
  <2> QED BY <1>4, <2>1, FirstStep
<1>5. CASE PublishUpdate
  <2>1. 0 \in 0 .. MaxStamp
    OBVIOUS
  <2> QED BY <1>5, <2>1, FirstStep
<1>6. CASE RemoveAcknowledged
  BY <1>6, RemovalStep
<1>7. CASE SkippedRequest
  BY <1>0, <1>7, QuietStep DEF SkippedRequest, TypeOK, WatchedInMask
<1>8. ASSUME NEW bs \in Changes, StatusChanges(bs)
      PROVE  IInv'
  BY <1>0, <1>8, QuietStep DEF StatusChanges, TypeOK, WatchedInMask
<1>9. ASSUME NEW m \in Masks, NEW cut \in BOOLEAN, WriteMask(m, cut)
      PROVE  IInv'
  BY <1>0, <1>9, QuietStep DEF WriteMask, TypeOK
<1>10. CASE Switch \/ Commence
  BY <1>0, <1>10, QuietStep DEF Switch, Commence, TypeOK, WatchedInMask
<1>11. CASE UNCHANGED vars
  BY <1>0, <1>11, QuietStep DEF vars, TypeOK, WatchedInMask
<1> QED BY <1>1, <1>2, <1>3, <1>4, <1>5, <1>6, <1>7, <1>8, <1>9, <1>10, <1>11 DEF Next

-----------------------------------------------------------------------------
(* The theorems.                                                            *)

\* The inductive invariant holds in every reachable state.
THEOREM Invariance == Spec => []IInv
  BY InitInv, StepInv, PTL DEF Spec

\* Every variable keeps its type.
THEOREM TypeCorrect == Spec => []TypeOK
<1>1. IInv => TypeOK
  BY DEF IInv
<1> QED BY <1>1, Invariance, PTL

\* APP_TriggerEvents misses no change of a watched byte that lasts three scans,
\* although a change triggers in a single one of them.
THEOREM NewestToldAlways == Spec => []NewestTold
<1>1. IInv => NewestTold
  BY DEF IInv
<1> QED BY <1>1, Invariance, PTL

\* What LeavesWithCause says of one event in one step.
LEMMA KeptStep ==
    ASSUME IInv, [Next]_vars, NEW i \in 1 .. size
    PROVE  \/ \E j \in 1 .. size' : queue'[j].stamp = queue[i].stamp
           \/ queue[i].stamp \in acks \union own
           \/ i = MaxPending \/ ~active \/ ~active'
<1> USE DEF IInv
<1>1. size \in 0 .. MaxPending /\ i \in Places
  BY DEF TypeOK, Places
<1>2. ASSUME size' = size, queue'[i].stamp = queue[i].stamp
      PROVE  \E j \in 1 .. size' : queue'[j].stamp = queue[i].stamp
  BY <1>2
<1>3. CASE Scan
  <2>1. CASE Triggered = {}
    BY <1>2, <1>3, <2>1 DEF Scan, queued
  <2>2. CASE Triggered # {} /\ i # MaxPending
    <3> DEFINE n == Cardinality(Triggered)
    <3>1. n \in Nat \ {0}
      BY <2>2, TriggeredCount
    <3>2. queue' = Stored(n) /\ size' = NewSize(n)
      BY <1>3, <2>2 DEF Scan
    <3> HIDE DEF n
    <3>3. i < FirstNew /\ i \in 1 .. size'
      BY <1>1, <2>2, <3>1, <3>2, StoredPlaces DEF Places
    <3>4. queue'[i] = queue[i]
      BY <1>1, <3>1, <3>2, <3>3, StoredPlaces DEF Stored, Places
    <3> QED BY <3>3, <3>4
  <2> QED BY <2>1, <2>2
<1>4. CASE ClearQueue \/ Restart
  BY <1>4 DEF ClearQueue, Restart
<1>5. ASSUME NEW req \in 0 .. MaxStamp, NEW arrives \in BOOLEAN,
             AcknowledgeEvent(req) \/ Publish(arrives) \/ PublishUpdate
      PROVE  \E j \in 1 .. size' : queue'[j].stamp = queue[i].stamp
  BY <1>1, <1>2, <1>5, FirstStep
<1>6. CASE RemoveAcknowledged
  <2>1. /\ size > 0 /\ size' = size - 1 /\ queue' = Shifted /\ queue[1].acked
    BY <1>6 DEF RemoveAcknowledged
  <2>2. CASE i = 1
    BY <2>1, <2>2 DEF AckedSound
  <2>3. CASE i # 1
    <3>1. i - 1 \in 1 .. size' /\ i - 1 \in Places /\ i - 1 < size
      BY <1>1, <2>1, <2>3 DEF Places
    <3>2. queue'[i - 1] = queue[i]
      BY <2>1, <3>1 DEF Shifted
    <3> QED BY <3>1, <3>2
  <2> QED BY <2>2, <2>3
<1>7. CASE UNCHANGED queued
  BY <1>2, <1>7 DEF queued
<1>8. SkippedRequest \/ Switch \/ Commence => UNCHANGED queued
  BY DEF SkippedRequest, Switch, Commence
<1>9. (\E bs \in Changes : StatusChanges(bs)) => UNCHANGED queued
  BY DEF StatusChanges
<1>10. (\E m \in Masks, cut \in BOOLEAN : WriteMask(m, cut)) => UNCHANGED queued
  BY DEF WriteMask
<1>11. UNCHANGED vars => UNCHANGED queued
  BY DEF vars
<1>12. 0 \in 0 .. MaxStamp /\ TRUE \in BOOLEAN
  OBVIOUS
<1> QED BY <1>3, <1>4, <1>5, <1>6, <1>7, <1>8, <1>9, <1>10, <1>11, <1>12 DEF Next

\* An event leaves the queue only after the gateway's acknowledgement or after its
\* own publication, composed after a request that was skipped, took itself for one;
\* overwritten in the last place of a full queue; or with the pipe.
THEOREM LeavesWithCauseAlways == Spec => LeavesWithCause
<1>1. IInv /\ [Next]_vars =>
        [\A i \in 1 .. size : StaysOrGiven(i) \/ queue[i].stamp \in acks \union own]_vars
  BY KeptStep DEF StaysOrGiven
<1> QED BY <1>1, Invariance, PTL DEF Spec, LeavesWithCause
=============================================================================
