--------------------------- MODULE PendingSessions ---------------------------
(***************************************************************************)
(* Session writes that wait for their execution time: command 963 of the   *)
(* network manager (Execute_C963_WriteSession) either writes a session at  *)
(* once or queues the write in g_sPendingCmdsData, and                     *)
(* DLL_CheckCmdExecTime executes the queued writes whose time has come.    *)
(*                                                                         *)
(* The queue is the array m_aC963_Data, of which the first m_ucNoOfSessions *)
(* elements count, and m_aC963_Idx, an order on them.  Both functions run  *)
(* in the main loop, so each is one step.                                  *)
(***************************************************************************)
EXTENDS Naturals, FiniteSets, Sequences

CONSTANTS
    Names,          \* sessions, each a type and a peer
    Join,           \* the session that NET_Init opens
    MaxSessions,    \* MAX_SESSIONS_NO, which is MAX_PENDING_C963_NO as well
    MaxTime         \* bound of the model: the last ASN

VARIABLES
    asn,    \* g_sDllASN
    table,  \* the used entries of g_aSessionsTable
    data,   \* m_aC963_Data, what is behind the counted elements included
    idx     \* m_aC963_Idx, its first m_ucNoOfSessions elements

pendingVars == <<asn, table, data, idx>>

Slots == 0 .. MaxSessions - 1

Write == [name : Names, time : 0 .. MaxTime, creates : BOOLEAN]

\* The content of an array element that has never been written.
Nothing == [name |-> Join, time |-> 0, creates |-> FALSE]

PendingInit == /\ asn = 0
               /\ table = {Join}
               /\ data = [k \in Slots |-> Nothing]
               /\ idx = <<>>

Count   == Len(idx)     \* m_ucNoOfSessions
Counted == 0 .. Count - 1

NewIndex == Count

Queued(name) == {k \in Counted : data[k].name = name}

\* The sessions there will be once every queued creation is executed.
Claimed == Cardinality(table) + Cardinality({k \in Counted : data[k].creates})

-----------------------------------------------------------------------------
(* Command 963.                                                            *)

\* m_aC963_Idx is sorted by comparing the m_tExecutionTime of two elements.  They
\* are arrays, so the comparison is one of addresses: greater indices come first.
\* All indices but the new one are in this order already.
SortedIdx(s, new) ==
    LET before == Cardinality({i \in DOMAIN s : s[i] >= new})
    IN  [i \in 1 .. Len(s) + 1 |->
            IF i <= before THEN s[i] ELSE IF i = before + 1 THEN new ELSE s[i - 1]]

\* A second write of a session that is queued replaces the first, which keeps its
\* mark of a creation; the indices stay in order.
RequeueWrite(name, time) ==
    /\ Queued(name) # {}
    /\ LET k == CHOOSE k \in Queued(name) : \A m \in Queued(name) : m <= k IN
       data' = [data EXCEPT ![k].time = time]
    /\ UNCHANGED <<asn, table, idx>>

QueueWrite(name, time) ==
    /\ Queued(name) = {}
    /\ Claimed < MaxSessions
    /\ Count < MaxSessions      \* bound of the model: the code writes behind the array
    /\ data' = [data EXCEPT ![Count] =
                   [name |-> name, time |-> time, creates |-> name \notin table]]
    /\ idx' = SortedIdx(idx, NewIndex)
    /\ UNCHANGED <<asn, table>>

WriteNow(name) ==
    /\ name \in table \/ Claimed < MaxSessions
    /\ table' = table \cup {name}
    /\ UNCHANGED <<asn, data, idx>>

-----------------------------------------------------------------------------
(* Command 964.                                                            *)

DeleteSession(name) ==
    /\ name \in table
    /\ table' = table \ {name}
    /\ UNCHANGED <<asn, data, idx>>

-----------------------------------------------------------------------------
(* DLL_CheckCmdExecTime.                                                   *)

\* The elements behind k move down by one; m_aC963_Idx does not follow them.
CloseGap(d, k, n) == [m \in Slots |-> IF m \in k .. n - 1 THEN d[m + 1] ELSE d[m]]

\* The write at the end of m_aC963_Idx, unless it is in the future.
ExecuteLast(q) ==
    LET last == Len(q.idx)
        k    == q.idx[last]
    IN  IF last = 0 \/ q.data[k].time > asn THEN q
        ELSE [table |-> q.table \cup {q.data[k].name},
              data  |-> CloseGap(q.data, k, last - 1),
              idx   |-> SubSeq(q.idx, 1, last - 1)]

\* The queue after n writes, or at the first that is in the future.
ExecuteDue ==
    LET after[n \in 0 .. Count] ==
            IF n = 0 THEN [table |-> table, data |-> data, idx |-> idx]
            ELSE ExecuteLast(after[n - 1])
    IN  after

CheckCmdExecTime ==
    LET q == ExecuteDue[Count] IN
    /\ idx # <<>>
    /\ table' = q.table /\ data' = q.data /\ idx' = q.idx
    /\ UNCHANGED asn

Tick == /\ asn < MaxTime
        /\ asn' = asn + 1
        /\ UNCHANGED <<table, data, idx>>

-----------------------------------------------------------------------------
PendingNext == \/ Tick
               \/ CheckCmdExecTime
               \/ \E name \in Names :
                     \/ WriteNow(name)
                     \/ DeleteSession(name)
                     \/ \E time \in 1 .. MaxTime :
                           /\ time >= asn
                           /\ RequeueWrite(name, time) \/ QueueWrite(name, time)

PendingSpec == PendingInit /\ [][PendingNext]_pendingVars

-----------------------------------------------------------------------------
\* NET_Request(NL_WRITE_SESSION_KEY) looks for a free entry of the session table and
\* does not check that there is one: "RCM_E65_NoMoreEntriesAvailable aldready
\* handled".  It is handled when a write is queued, for the table of that time; a
\* queued write of a session that was deleted since then opens it again.
TableFits == Cardinality(table) <= MaxSessions
=============================================================================
