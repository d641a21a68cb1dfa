--------------------------- MODULE TransportLayer ---------------------------
(***************************************************************************)
(* The WirelessHART transport layer of the field device                    *)
(* (WirelessHart/transport_layer.c) over its two tables: the sessions      *)
(* (g_aSessionsTable) and the transport entries (g_aTransportTable).       *)
(* Session i owns entry 2i, where the device is master of a request, and   *)
(* entry 2i+1, where it is slave of a request of the peer.                 *)
(*                                                                         *)
(* The layer runs in the main loop only, so every function is one step.    *)
(* Its calls into the application are the pending upcalls "calls": while   *)
(* one is pending nothing of this layer runs but the functions the         *)
(* application calls from inside the upcall.  "sent" holds the NPDUs that  *)
(* the last step put on the data-link queue through NET_TransmitRequest,   *)
(* whose result is an argument of the step that calls it.                  *)
(***************************************************************************)
EXTENDS Integers

CONSTANTS
    SessionCount,   \* MAX_SESSIONS_NO
    SeqMod,         \* 2^5: the sequence number has five bits
    MaxRetries,     \* g_ucMaxRetries
    ReplyTime,      \* TL_MAX_REPLY_TIME, in steps of 250 ms
    Peers,          \* nicknames a session is opened with
    NM,             \* NM_NICKNAME, the network manager
    OpenTypes,      \* session types the network manager writes and deletes
    AppHandles,     \* HANDLE values the application puts on its requests
    PacketHandles,  \* g_ucPacketForMeHandle values, put on received packets
    Outgoing,       \* transport types the application sends requests with
    Incoming,       \* transport types of the packets that arrive
    NoHandle,       \* TRANSPORT_TABLE_INVALID_HANDLER
    Data,           \* application payloads
    NoData          \* an empty payload

ASSUME SessionsAssumption == SessionCount \in Nat /\ SessionCount >= 2
ASSUME SeqAssumption      == SeqMod \in Nat /\ SeqMod >= 2
ASSUME TimersAssumption   == /\ MaxRetries \in Nat
                             /\ ReplyTime \in Nat /\ ReplyTime < 65535
ASSUME ValuesAssumption   == /\ NM \in Peers
                             /\ AppHandles \cap PacketHandles = {}
                             /\ NoHandle \notin AppHandles \cup PacketHandles
                             /\ NoData \notin Data
ASSUME TypesAssumption   == /\ OpenTypes \subseteq {"Unicast", "Broadcast", "Join"}
                            /\ Outgoing \subseteq 0 .. 8
                            /\ Incoming \subseteq 0 .. 7

VARIABLES
    joined,     \* g_unNickname # 0xFFFF
    session,    \* g_aSessionsTable
    transport,  \* g_aTransportTable
    calls,      \* upcalls into the application that have not returned
    sent        \* NPDUs the last step put on the data-link queue

tables == <<session, transport>>
vars   == <<joined, session, transport, calls, sent>>

-----------------------------------------------------------------------------
(* Transport types, and what the three flags of a transport byte say.      *)

REQ_UNICAST       == 2
RESP_UNICAST      == 3
SEARCH_BROADCAST  == 4
PUBLISH_BROADCAST == 5
REQ_BROADCAST     == 6
RESP_BROADCAST    == 7
PUBLISH_NOTIFY    == 8

TransportTypes == 0 .. 8

IsAckTT(tt)       == tt \in {2, 3, 6, 7}
IsRespTT(tt)      == tt \in {1, 3, 5, 7, 8}
IsBroadcastTT(tt) == tt \in 4 .. 7

\* The type a receiver reads off the transport byte: PUBLISH_NOTIFY is sent as
\* BLOCK_DATA_TRANSFER_RESP and BLOCK_DATA_TRANSFER_RESP is read as PUBLISH_NOTIFY.
OnTheWire(tt) == IF tt = 1 THEN PUBLISH_NOTIFY ELSE tt

Sessions == 0 .. SessionCount - 1
Entries  == 0 .. 2 * SessionCount - 1
Seqs     == 0 .. SeqMod - 1

Master(i) == 2 * i
Slave(i)  == 2 * i + 1

\* Mutants: the number is not cut to five bits, or not moved at all.
Unmasked(n) == n + 1
Unmoved(n)  == n

NextSeq(n) == (n + 1) % SeqMod
PrevSeq(n) == (n + SeqMod - 1) % SeqMod

TLRetryMark == 65535    \* m_unResponseTimer of a response the layer has to send again
Timers == 0 .. ReplyTime \cup {TLRetryMark}

Handles == AppHandles \cup PacketHandles

Tpdu == [tt : TransportTypes, seq : Seqs, data : Data \cup {NoData}]

Entry == [used : BOOLEAN, active : BOOLEAN, master : BOOLEAN, bcast : BOOLEAN,
          seq : Seqs, retry : 0 .. MaxRetries, timer : Timers,
          handle : Handles \cup {NoHandle},
          buffered : BOOLEAN,       \* m_ucLastPayloadSize # 0
          tpdu : Tpdu]

SessionTypes == {"Unicast", "Broadcast", "Join"}
Session == [used : BOOLEAN, type : SessionTypes, peer : Peers, counter : Seqs]

Npdu == [session : Sessions, tpdu : Tpdu]

Statuses == {"SUCCESS", "INVALID_SEQUENCE_NUMBER", "MAX_RETRIES_EXCEEDED"}
Upcall == [op : {"APP_TransmitIndicate"}, handle : PacketHandles, session : Sessions,
           tpdu : Tpdu]
          \cup
          [op : {"APP_TransmitConfirm"}, handle : Handles \cup {NoHandle},
           status : Statuses, data : Data \cup {NoData}]

NLResults == {"SUCCESS", "DLL_OUT_OF_MEMORY", "NO_ROUTE"}

-----------------------------------------------------------------------------
(* Start-up and restart: TL_Init clears the transport table, NET_Init      *)
(* opens the join session with the network manager in slot 0 and marks     *)
(* every other session and every transport entry unused.                   *)

InitialEntry == [used |-> FALSE, active |-> FALSE, master |-> FALSE, bcast |-> FALSE,
                 seq |-> 0, retry |-> 0, timer |-> 0, handle |-> NoHandle,
                 buffered |-> FALSE, tpdu |-> [tt |-> 0, seq |-> 0, data |-> NoData]]

InitialSession(i) == [used |-> i = 0, type |-> "Join", peer |-> NM,
                      counter |-> SeqMod - 1]

Init == /\ joined = FALSE
        /\ session = [i \in Sessions |-> InitialSession(i)]
        /\ transport = [j \in Entries |-> InitialEntry]
        /\ calls = {}
        /\ sent = {}

Restart == /\ calls = {}
           /\ joined' = FALSE
           /\ session' = [i \in Sessions |-> InitialSession(i)]
           /\ transport' = [j \in Entries |-> InitialEntry]
           /\ sent' = {}
           /\ UNCHANGED calls

-----------------------------------------------------------------------------
(* The session table, as the commands of the network manager change it.    *)

IsSession(i, type, peer) ==
    /\ session[i].used
    /\ session[i].type = type
    /\ session[i].peer = peer

FindSessionByType(i, type, peer) ==
    /\ IsSession(i, type, peer)
    /\ \A j \in Sessions : j < i => ~IsSession(j, type, peer)

\* A session with a new peer takes the first free slot, and its two transport
\* entries are marked unused whatever they hold.
WriteSession(i, type, peer) ==
    /\ \A j \in Sessions : ~IsSession(j, type, peer)
    /\ ~session[i].used
    /\ \A j \in Sessions : j < i => session[j].used
    /\ session' = [session EXCEPT ![i] =
            [used |-> TRUE, type |-> type, peer |-> peer, counter |-> 0]]
    /\ transport' = [transport EXCEPT
            ![Master(i)].used = FALSE, ![Master(i)].retry = 0,
            ![Slave(i)].used = FALSE, ![Slave(i)].retry = 0]
    /\ sent' = {}
    /\ UNCHANGED <<joined, calls>>

DeleteSession(i, type, peer) ==
    /\ FindSessionByType(i, type, peer)
    /\ session' = [session EXCEPT ![i].used = FALSE]
    /\ sent' = {}
    /\ UNCHANGED <<joined, transport, calls>>

\* Command 962 gives the device its nickname.
WriteNickname ==
    /\ ~joined
    /\ joined' = TRUE
    /\ sent' = {}
    /\ UNCHANGED <<tables, calls>>

-----------------------------------------------------------------------------
(* Master side.                                                            *)

SessionTypeFor(tt) ==
    IF IsBroadcastTT(tt) THEN "Broadcast"
    ELSE IF joined THEN "Unicast" ELSE "Join"

\* A request that is acknowledged: one at a time for each session.  A first
\* transmission that the network layer refuses gives its sequence number back.
TL_TransmitRequest(i, h, tt, d, rc) ==
    LET e   == transport[Master(i)]
        seq == NextSeq(IF e.used THEN e.seq ELSE SeqMod - 1)
        pdu == [tt |-> tt, seq |-> seq, data |-> d]
    IN  /\ IsAckTT(tt)
        /\ FindSessionByType(i, SessionTypeFor(tt), session[i].peer)
        /\ ~(e.used /\ e.active)
        /\ transport' = [transport EXCEPT ![Master(i)] =
               [used |-> TRUE, active |-> rc = "SUCCESS", master |-> TRUE,
                bcast |-> IsBroadcastTT(tt),
                seq |-> IF rc = "SUCCESS" THEN seq ELSE PrevSeq(seq),
                retry |-> 0, timer |-> ReplyTime, handle |-> h,
                buffered |-> TRUE, tpdu |-> pdu]]
        /\ sent' = IF rc = "SUCCESS" THEN {[session |-> i, tpdu |-> pdu]} ELSE {}
        /\ UNCHANGED <<joined, session, calls>>

\* A request without acknowledgement takes its number from the session's packet
\* counter and leaves no trace in the transport table.
TL_TransmitPublish(i, tt, d, rc) ==
    LET seq == NextSeq(session[i].counter)
        pdu == [tt |-> tt, seq |-> seq, data |-> d]
    IN  /\ ~IsAckTT(tt)
        /\ FindSessionByType(i, SessionTypeFor(tt), session[i].peer)
        /\ session' = [session EXCEPT ![i].counter = seq]
        /\ sent' = IF rc = "SUCCESS" THEN {[session |-> i, tpdu |-> pdu]} ELSE {}
        /\ UNCHANGED <<joined, transport, calls>>

\* Mutant: any response is taken for the awaited one.
AnyResponse(e, p) == TRUE

Answers(e, p) == p.seq = e.seq

\* A response on session i: it confirms the request whose number it carries,
\* and any other number is reported under the handle of the packet itself.
TL_ResponseIndicate(i, h, p) ==
    LET e == transport[Master(i)] IN
    /\ IsRespTT(p.tt)
    /\ e.used
    /\ IsBroadcastTT(p.tt) = e.bcast
    /\ IF Answers(e, p)
       THEN /\ calls' = calls \cup
                 {[op |-> "APP_TransmitConfirm", handle |-> e.handle,
                   status |-> "SUCCESS", data |-> p.data]}
            /\ transport' = [transport EXCEPT ![Master(i)].active = FALSE]
       ELSE /\ calls' = calls \cup
                 {[op |-> "APP_TransmitConfirm", handle |-> h,
                   status |-> "INVALID_SEQUENCE_NUMBER", data |-> NoData]}
            /\ UNCHANGED transport
    /\ sent' = {}
    /\ UNCHANGED <<joined, session>>

-----------------------------------------------------------------------------
(* Slave side: a request of the peer on session i.                         *)

IsTracked(tt) == ~IsRespTT(tt) /\ (IsAckTT(tt) \/ tt = SEARCH_BROADCAST)

\* A request that is not tracked goes straight to the application.
TL_PlainIndicate(i, h, p) ==
    /\ ~IsRespTT(p.tt)
    /\ ~IsTracked(p.tt)
    /\ calls' = calls \cup {[op |-> "APP_TransmitIndicate", handle |-> h,
                             session |-> i, tpdu |-> p]}
    /\ sent' = {}
    /\ UNCHANGED <<joined, tables>>

\* Mutants: a request is taken whatever its number, and its own number is stored.
AnyNumber(e, p) == TRUE
OwnNumber(p)    == p.seq

InSequence(e, p) == e.used => e.seq = PrevSeq(p.seq)
StoredNumber(p)  == PrevSeq(p.seq)

\* The next request in sequence, or the first one ever: it is stored with the
\* number of its predecessor until the response is produced.
TL_RequestIndicate(i, h, p) ==
    LET e == transport[Slave(i)] IN
    /\ IsTracked(p.tt)
    /\ InSequence(e, p)
    /\ transport' = [transport EXCEPT ![Slave(i)] =
           [used |-> TRUE, active |-> e.used => e.active,
            master |-> e.used /\ e.master,
            bcast |-> IsBroadcastTT(p.tt), seq |-> StoredNumber(p),
            retry |-> 0, timer |-> 0, handle |-> h,
            buffered |-> FALSE, tpdu |-> p]]
    /\ calls' = calls \cup {[op |-> "APP_TransmitIndicate", handle |-> h,
                             session |-> i, tpdu |-> p]}
    /\ sent' = {}
    /\ UNCHANGED <<joined, session>>

\* The session whose slave entry buffers the response to a request of type tt
\* received on session i: a join response is acknowledged on the next session,
\* a broadcast request is answered on the previous one.
ToUnicast(i)   == IF i = 0 THEN 1 ELSE i
ResponseHome(i, tt) ==
    IF tt \in {SEARCH_BROADCAST, PUBLISH_BROADCAST, REQ_BROADCAST}
    THEN ToUnicast(i) - 1 ELSE ToUnicast(i)

\* Where a repeated request looks for the buffered response: only a search
\* broadcast is redirected, a broadcast request is not.
RetryHome(i, tt) ==
    IF tt = SEARCH_BROADCAST THEN ToUnicast(i) - 1 ELSE ToUnicast(i)

\* A repeated request: the buffered response, if there is one, goes out again.
TL_RetryIndicate(i, p, rc) ==
    LET k == RetryHome(i, p.tt)
        r == transport[Slave(k)]
    IN  /\ IsTracked(p.tt)
        /\ transport[Slave(i)].used
        /\ transport[Slave(i)].seq = p.seq
        /\ sent' = IF r.buffered /\ rc = "SUCCESS"
                   THEN {[session |-> k, tpdu |-> r.tpdu]} ELSE {}
        /\ UNCHANGED <<joined, tables, calls>>

FindTransportEntryByHandle(j, h) ==
    /\ transport[j].used /\ transport[j].active /\ transport[j].handle = h
    /\ \A k \in Entries : k < j =>
           ~(transport[k].used /\ transport[k].active /\ transport[k].handle = h)

ResponseType(tt) ==
    IF tt = REQ_UNICAST THEN RESP_UNICAST
    ELSE IF tt \in {SEARCH_BROADCAST, PUBLISH_BROADCAST, REQ_BROADCAST}
         THEN RESP_BROADCAST ELSE tt

\* The application answers the request it was given as handle h and number seq;
\* NoData is the answer of a device that a search broadcast does not mean.  A
\* response that finds the data-link queue full is marked for TL_doRetry.
TL_TransmitRsp(j, h, seq, d, rc) ==
    LET i   == j \div 2
        tt  == transport[j].tpdu.tt
        k   == ResponseHome(i, tt)
        pdu == [tt |-> ResponseType(tt), seq |-> seq, data |-> d]
        \* the entries whose handle the function invalidates on its way
        dropped == {j, Slave(ToUnicast(i)), Slave(k)}
        reply(e) == IF d = NoData THEN [e EXCEPT !.buffered = FALSE]
                    ELSE [e EXCEPT !.buffered = TRUE, !.tpdu = pdu,
                             !.timer = IF rc = "DLL_OUT_OF_MEMORY"
                                       THEN TLRetryMark ELSE e.timer]
        \* the entry the response is for advances to its number
        advance(x, e) == IF x = j THEN [e EXCEPT !.seq = seq] ELSE e
        forget(x, e)  == IF x \in dropped THEN [e EXCEPT !.handle = NoHandle] ELSE e
        store(x, e)   == IF x = Slave(k) THEN reply(e) ELSE e
    IN  /\ FindTransportEntryByHandle(j, h)
        /\ transport[j].seq = PrevSeq(seq)
        /\ transport' = [x \in Entries |->
                            store(x, forget(x, advance(x, transport[x])))]
        /\ sent' = IF d # NoData /\ rc = "SUCCESS"
                   THEN {[session |-> k, tpdu |-> pdu]} ELSE {}
        /\ UNCHANGED <<joined, session>>

\* No entry holds the handle any more, or it holds it for another number:
\* INVALID_HANDLER or INVALID_SEQUENCE_NUMBER, and nothing changes.
TL_TransmitRspRefused(h, seq) ==
    /\ \A j \in Entries : FindTransportEntryByHandle(j, h)
                              => transport[j].seq # PrevSeq(seq)
    /\ sent' = {}
    /\ UNCHANGED <<joined, tables>>

-----------------------------------------------------------------------------
(* TL_doRetry: one sweep over the whole table, every 250 ms.  The network  *)
(* layer takes the packets of the entries "taken", and refuses the others. *)

Waiting(e)   == e.used /\ e.active /\ e.master
TimedOut(e)  == Waiting(e) /\ e.timer = 0
Resends(e)   == TimedOut(e) /\ e.retry < MaxRetries
GivesUp(e)   == TimedOut(e) /\ e.retry >= MaxRetries
Marked(e)    == e.used /\ e.active /\ ~e.master /\ e.timer = TLRetryMark

Swept(e, ok) ==
    IF Resends(e) THEN [e EXCEPT !.timer = ReplyTime, !.retry = e.retry + 1]
    ELSE IF GivesUp(e) THEN [e EXCEPT !.active = FALSE]
    ELSE IF Waiting(e) THEN [e EXCEPT !.timer = e.timer - 1]
    ELSE IF Marked(e) /\ ok THEN [e EXCEPT !.timer = 0]
    ELSE e

\* What goes out for an entry: its bytes, or a TPDU of no bytes at all when the
\* response it was marked for has been withdrawn since.
Buffer(e) == IF e.buffered THEN e.tpdu ELSE [e.tpdu EXCEPT !.data = NoData]

\* Mutant: the application is not told of the requests that are given up.
NoEntry(table) == {}

Abandoned(table) == {x \in Entries : GivesUp(table[x])}

TL_doRetry(taken) ==
    /\ transport' = [j \in Entries |-> Swept(transport[j], j \in taken)]
    /\ sent' = {[session |-> j \div 2, tpdu |-> Buffer(transport[j])] : j \in
                   {x \in taken : Resends(transport[x]) \/ Marked(transport[x])}}
    /\ calls' = calls \cup
                {[op |-> "APP_TransmitConfirm", handle |-> transport[j].handle,
                  status |-> "MAX_RETRIES_EXCEEDED", data |-> NoData] :
                    j \in Abandoned(transport)}
    /\ UNCHANGED <<joined, session>>

-----------------------------------------------------------------------------
(* The layer in an environment that may do anything the interfaces allow.  *)

MainLoopStep ==
    /\ calls = {}
    /\ \/ Restart
       \/ \E taken \in SUBSET Entries : TL_doRetry(taken)
       \/ \E i \in Sessions, h \in AppHandles, tt \in Outgoing, d \in Data,
             rc \in NLResults :
             \/ TL_TransmitRequest(i, h, tt, d, rc)
             \/ TL_TransmitPublish(i, tt, d, rc)
       \/ \E i \in Sessions, h \in PacketHandles, rc \in NLResults :
             \E tt \in Incoming, seq \in Seqs, d \in Data :
                LET p == [tt |-> OnTheWire(tt), seq |-> seq, data |-> d] IN
                /\ session[i].used
                /\ \/ TL_ResponseIndicate(i, h, p)
                   \/ TL_PlainIndicate(i, h, p)
                   \/ TL_RequestIndicate(i, h, p)
                   \/ TL_RetryIndicate(i, p, rc)

\* What the application does from its own tasks or from inside an indication.
ApplicationStep ==
    /\ \A c \in calls : c.op = "APP_TransmitIndicate"
    /\ \/ \E j \in Entries, h \in PacketHandles, seq \in Seqs,
             d \in Data \cup {NoData}, rc \in NLResults :
             TL_TransmitRsp(j, h, seq, d, rc) /\ UNCHANGED calls
       \/ \E i \in Sessions, type \in OpenTypes, peer \in Peers :
             WriteSession(i, type, peer) \/ DeleteSession(i, type, peer)
       \/ WriteNickname

UpcallReturns ==
    /\ \E c \in calls : calls' = calls \ {c}
    /\ sent' = {}
    /\ UNCHANGED <<joined, tables>>

Next == MainLoopStep \/ ApplicationStep \/ UpcallReturns

Spec == Init /\ [][Next]_vars

-----------------------------------------------------------------------------
TypeOK == /\ joined \in BOOLEAN
          /\ session \in [Sessions -> Session]
          /\ transport \in [Entries -> Entry]
          /\ calls \subseteq Upcall
          /\ sent \subseteq Npdu

\* A slave entry that still holds the handle of a request holds that request,
\* unanswered and next in sequence: no response for another session (a join
\* response is acknowledged, a broadcast request answered, on a neighbour entry)
\* has been written over a request the application can still answer.
PendingRequestIntact ==
    \A i \in Sessions :
        LET e == transport[Slave(i)] IN
        e.used /\ e.handle # NoHandle =>
            /\ ~e.buffered
            /\ e.timer # TLRetryMark
            /\ e.tpdu.seq = NextSeq(e.seq)

\* A request the layer has accepted never vanishes: it stays outstanding, with
\* its handle and its bytes, until the application hears of its outcome or a new
\* session (or a restart) takes its entry away.
RequestKept(i) ==
    LET old == transport[Master(i)]
        new == transport'[Master(i)]
    IN Waiting(old) =>
         \/ Waiting(new) /\ new.handle = old.handle /\ new.tpdu = old.tpdu
         \/ \E c \in calls' : c.op = "APP_TransmitConfirm" /\ c.handle = old.handle
         \/ ~new.used

RequestOutcome == [][\A i \in Sessions : RequestKept(i)]_vars

\* Numbers are spent one by one and only on requests that are on their way: what
\* the network layer refuses costs no number, else the peer would see a gap and
\* discard every later request.
MasterNumberKept(i) ==
    LET old == transport[Master(i)]
        new == transport'[Master(i)]
    IN old.used /\ new.used /\ new.seq # old.seq =>
         /\ new.seq = NextSeq(old.seq)
         /\ Waiting(new)
         /\ [session |-> i, tpdu |-> new.tpdu] \in sent'

MasterNumberMoves == [][\A i \in Sessions : MasterNumberKept(i)]_vars

\* The slave side accepts a number only by answering the request it is holding
\* for that number.
SlaveNumberKept(i) ==
    LET old == transport[Slave(i)]
        new == transport'[Slave(i)]
    IN old.used /\ new.used /\ new.seq # old.seq =>
         /\ old.handle # NoHandle
         /\ new.seq = old.tpdu.seq
         /\ new.handle = NoHandle

SlaveNumberMoves == [][\A i \in Sessions : SlaveNumberKept(i)]_vars
=============================================================================
