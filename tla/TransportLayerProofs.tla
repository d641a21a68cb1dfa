------------------------ MODULE TransportLayerProofs ------------------------
(***************************************************************************)
(* The transport layer for every number of sessions, every width of the    *)
(* sequence number, every retry limit and every handle set.                *)
(*                                                                         *)
(* PendingRequestIntact is not inductive: that TL_doRetry leaves a pending *)
(* request alone holds because a slave entry never has the master flag,    *)
(* and that an answer never hits a master entry because the handles of the *)
(* application and those of received packets are told apart.  IInv adds    *)
(* these facts.                                                            *)
(***************************************************************************)
EXTENDS TransportLayer, TLAPS

MasterOK(e) == /\ e.timer # TLRetryMark
               /\ e.handle \in AppHandles \cup {NoHandle}

SlaveOK(e) == /\ ~e.master
              /\ e.handle \in PacketHandles \cup {NoHandle}
              /\ e.used /\ e.handle # NoHandle =>
                    /\ ~e.buffered
                    /\ e.timer # TLRetryMark
                    /\ e.tpdu.seq = NextSeq(e.seq)

EntriesSound == \A i \in Sessions : /\ MasterOK(transport[Master(i)])
                                    /\ SlaveOK(transport[Slave(i)])

IInv == TypeOK /\ EntriesSound

-----------------------------------------------------------------------------
(* Sequence numbers and the numbering of the entries.                      *)

\* The successor and the predecessor of a five-bit number undo each other.
LEMMA SeqLemma ==
    ASSUME NEW n \in Seqs
    PROVE  /\ NextSeq(n) \in Seqs
           /\ PrevSeq(n) \in Seqs
           /\ NextSeq(PrevSeq(n)) = n
           /\ PrevSeq(NextSeq(n)) = n
<1>1. \A m \in Int, k \in Int : k > 0 /\ 0 <= m /\ m < k => m % k = m /\ (m + k) % k = m
  OBVIOUS
<1>2. \A k \in Nat : k > 0 => k % k = 0
  OBVIOUS
<1>3. NextSeq(n) = IF n = SeqMod - 1 THEN 0 ELSE n + 1
  BY <1>1, <1>2, SeqAssumption DEF Seqs, NextSeq
<1>4. PrevSeq(n) = IF n = 0 THEN SeqMod - 1 ELSE n - 1
  BY <1>1, SeqAssumption DEF Seqs, PrevSeq
<1>5. NextSeq(n) \in Seqs /\ PrevSeq(n) \in Seqs
  BY <1>3, <1>4, SeqAssumption DEF Seqs
<1>6. NextSeq(PrevSeq(n)) = n
  BY <1>1, <1>2, <1>4, SeqAssumption DEF Seqs, NextSeq
<1>7. PrevSeq(NextSeq(n)) = n
  BY <1>1, <1>2, <1>3, SeqAssumption DEF Seqs, PrevSeq
<1> QED BY <1>5, <1>6, <1>7

LEMMA LastSeq == SeqMod - 1 \in Seqs /\ 0 \in Seqs
BY SeqAssumption DEF Seqs

\* The values the handlers write into the counters and timers of an entry.
LEMMA TimerLemma ==
    /\ 0 \in 0 .. MaxRetries
    /\ 0 \in Timers
    /\ ReplyTime \in Timers
    /\ TLRetryMark \in Timers
    /\ 0 # TLRetryMark
    /\ ReplyTime # TLRetryMark
    /\ \A t \in Timers : t # TLRetryMark /\ t # 0 => t - 1 \in Timers /\ t - 1 # TLRetryMark
    /\ \A r \in 0 .. MaxRetries : r < MaxRetries => r + 1 \in 0 .. MaxRetries
<1>1. MaxRetries \in Nat /\ ReplyTime \in Nat /\ ReplyTime < TLRetryMark /\ TLRetryMark \in Nat
  BY TimersAssumption DEF TLRetryMark
<1>2. /\ 0 \in Timers /\ ReplyTime \in Timers /\ TLRetryMark \in Timers
      /\ 0 # TLRetryMark /\ ReplyTime # TLRetryMark
  BY <1>1 DEF Timers
<1>3. \A t \in Timers : t # TLRetryMark /\ t # 0 => t - 1 \in Timers /\ t - 1 # TLRetryMark
  BY <1>1 DEF Timers
<1>4. /\ 0 \in 0 .. MaxRetries
      /\ \A r \in 0 .. MaxRetries : r < MaxRetries => r + 1 \in 0 .. MaxRetries
  BY <1>1
<1> QED BY <1>2, <1>3, <1>4

\* Session i owns entries 2i and 2i+1, and every entry has one owner.
LEMMA EntryLemma ==
    /\ \A i \in Sessions : /\ Master(i) \in Entries
                           /\ Slave(i) \in Entries
                           /\ Master(i) \div 2 = i
                           /\ Slave(i) \div 2 = i
    /\ \A i, k \in Sessions : /\ Master(i) # Slave(k)
                              /\ Master(i) = Master(k) => i = k
                              /\ Slave(i) = Slave(k) => i = k
    /\ \A j \in Entries : /\ j \div 2 \in Sessions
                          /\ j = Master(j \div 2) \/ j = Slave(j \div 2)
BY SessionsAssumption DEF Sessions, Entries, Master, Slave

\* The responses of session i are buffered on i or on a neighbour.
LEMMA HomeLemma ==
    ASSUME NEW i \in Sessions, NEW tt
    PROVE  /\ ToUnicast(i) \in Sessions
           /\ ResponseHome(i, tt) \in Sessions
           /\ RetryHome(i, tt) \in Sessions
BY SessionsAssumption DEF Sessions, ToUnicast, ResponseHome, RetryHome

\* What is read off the transport byte is a transport type.
LEMMA WireLemma ==
    ASSUME NEW tt \in Incoming PROVE OnTheWire(tt) \in TransportTypes
BY TypesAssumption DEF OnTheWire, TransportTypes, PUBLISH_NOTIFY

\* A set of entries that satisfy IInv one by one satisfies it together.
LEMMA EntrywiseLemma ==
    ASSUME transport' \in [Entries -> Entry],
           joined' \in BOOLEAN, session' \in [Sessions -> Session],
           calls' \subseteq Upcall, sent' \subseteq Npdu,
           \A i \in Sessions : MasterOK(transport'[Master(i)]),
           \A i \in Sessions : SlaveOK(transport'[Slave(i)])
    PROVE  IInv'
BY DEF IInv, TypeOK, EntriesSound, MasterOK, SlaveOK

-----------------------------------------------------------------------------
LEMMA InitialTypes ==
    /\ InitialEntry \in Entry
    /\ MasterOK(InitialEntry)
    /\ SlaveOK(InitialEntry)
    /\ \A i \in Sessions : InitialSession(i) \in Session
<1>1. InitialEntry \in Entry
  BY LastSeq, TimerLemma, ValuesAssumption
     DEF InitialEntry, Entry, Tpdu, Timers, TransportTypes
<1>2. MasterOK(InitialEntry) /\ SlaveOK(InitialEntry)
  BY DEF InitialEntry, MasterOK, SlaveOK, TLRetryMark
<1>3. \A i \in Sessions : InitialSession(i) \in Session
  BY LastSeq, ValuesAssumption DEF InitialSession, Session, SessionTypes
<1> QED BY <1>1, <1>2, <1>3

LEMMA InitIInv == Init => IInv
<1> SUFFICES ASSUME Init PROVE IInv
  OBVIOUS
<1>1. transport \in [Entries -> Entry] /\ session \in [Sessions -> Session]
  BY InitialTypes DEF Init
<1>2. TypeOK
  BY <1>1 DEF Init, TypeOK
<1>3. ASSUME NEW i \in Sessions
      PROVE  transport[Master(i)] = InitialEntry /\ transport[Slave(i)] = InitialEntry
  <2>1. Master(i) \in Entries /\ Slave(i) \in Entries
    BY EntryLemma
  <2> QED BY <2>1 DEF Init
<1>4. EntriesSound
  BY <1>3, InitialTypes DEF EntriesSound
<1> QED BY <1>2, <1>4 DEF IInv

LEMMA RestartIInv == ASSUME IInv, Restart PROVE IInv'
<1>1. transport' \in [Entries -> Entry] /\ session' \in [Sessions -> Session]
  BY InitialTypes DEF Restart
<1>2. \A i \in Sessions : MasterOK(transport'[Master(i)]) /\ SlaveOK(transport'[Slave(i)])
  BY InitialTypes, EntryLemma DEF Restart
<1> QED BY <1>1, <1>2, EntrywiseLemma DEF Restart, IInv, TypeOK

LEMMA SessionCommandsIInv ==
    ASSUME IInv, NEW i \in Sessions, NEW type \in OpenTypes, NEW peer \in Peers,
           WriteSession(i, type, peer) \/ DeleteSession(i, type, peer)
    PROVE  IInv'
<1> USE DEF IInv, TypeOK, EntriesSound
<1>1. CASE WriteSession(i, type, peer)
  <2>1. session' \in [Sessions -> Session]
    BY <1>1, LastSeq, TypesAssumption DEF WriteSession, Session, SessionTypes
  <2> DEFINE freed(e) == [e EXCEPT !.used = FALSE, !.retry = 0]
  <2>2. \A j \in Entries : transport'[j] \in {transport[j], freed(transport[j])}
    BY <1>1, EntryLemma DEF WriteSession
  <2>3. \A e \in Entry : /\ freed(e) \in Entry
                         /\ MasterOK(e) => MasterOK(freed(e))
                         /\ SlaveOK(e) => SlaveOK(freed(e))
    <3>1. TAKE e \in Entry
    <3>2. freed(e) \in Entry
      BY TimerLemma DEF Entry
    <3>3. (MasterOK(e) => MasterOK(freed(e))) /\ (SlaveOK(e) => SlaveOK(freed(e)))
      BY DEF Entry, MasterOK, SlaveOK
    <3> QED BY <3>2, <3>3
  <2>4. transport' = [j \in Entries |-> transport'[j]]
    BY <1>1 DEF WriteSession
  <2> HIDE DEF freed
  <2>5. transport' \in [Entries -> Entry]
    BY <2>2, <2>3, <2>4
  <2>6. \A k \in Sessions : MasterOK(transport'[Master(k)]) /\ SlaveOK(transport'[Slave(k)])
    BY <2>2, <2>3, EntryLemma
  <2> QED BY <1>1, <2>1, <2>5, <2>6, EntrywiseLemma DEF WriteSession
<1>2. CASE DeleteSession(i, type, peer)
  <2>1. session' \in [Sessions -> Session]
    BY <1>2 DEF DeleteSession, Session
  <2> QED BY <1>2, <2>1, EntrywiseLemma DEF DeleteSession
<1> QED BY <1>1, <1>2

\* Requests: a new number goes with the entry that carries it, and a refused
\* transmission leaves the entry with the number it had.
LEMMA RequestIInv ==
    ASSUME IInv, NEW i \in Sessions, NEW h \in AppHandles, NEW tt \in Outgoing,
           NEW d \in Data, NEW rc \in NLResults, TL_TransmitRequest(i, h, tt, d, rc)
    PROVE  IInv'
<1> DEFINE e   == transport[Master(i)]
           old == IF e.used THEN e.seq ELSE SeqMod - 1
           seq == NextSeq(old)
           pdu == [tt |-> tt, seq |-> seq, data |-> d]
           new == [used |-> TRUE, active |-> rc = "SUCCESS", master |-> TRUE,
                   bcast |-> IsBroadcastTT(tt),
                   seq |-> IF rc = "SUCCESS" THEN seq ELSE PrevSeq(seq),
                   retry |-> 0, timer |-> ReplyTime, handle |-> h,
                   buffered |-> TRUE, tpdu |-> pdu]
<1>1. e \in Entry
  BY EntryLemma DEF IInv, TypeOK
<1>2. seq \in Seqs /\ PrevSeq(seq) \in Seqs
  <2>1. old \in Seqs
    BY <1>1, LastSeq DEF Entry
  <2> QED BY <2>1, SeqLemma
<1>3. pdu \in Tpdu
  BY <1>2, TypesAssumption DEF Tpdu, TransportTypes
<1>4. new \in Entry
  <2> HIDE DEF pdu, seq
  <2> QED BY <1>2, <1>3, TimerLemma DEF Entry, Handles, IsBroadcastTT
<1>5. MasterOK(new)
  BY TimerLemma DEF MasterOK
<1>6. transport' = [transport EXCEPT ![Master(i)] = new]
  BY DEF TL_TransmitRequest
<1>7. sent' \subseteq Npdu
  BY <1>3 DEF TL_TransmitRequest, Npdu
<1> HIDE DEF new
<1>8. transport' \in [Entries -> Entry]
  BY <1>4, <1>6 DEF IInv, TypeOK
<1>9. \A k \in Sessions : MasterOK(transport'[Master(k)]) /\ SlaveOK(transport'[Slave(k)])
  BY <1>5, <1>6, EntryLemma DEF IInv, TypeOK, EntriesSound
<1> QED BY <1>7, <1>8, <1>9, EntrywiseLemma DEF TL_TransmitRequest, IInv, TypeOK

LEMMA PublishIInv ==
    ASSUME IInv, NEW i \in Sessions, NEW tt \in Outgoing,
           NEW d \in Data, NEW rc \in NLResults, TL_TransmitPublish(i, tt, d, rc)
    PROVE  IInv'
<1> DEFINE seq == NextSeq(session[i].counter)
<1>1. seq \in Seqs
  BY SeqLemma DEF IInv, TypeOK, Session
<1>2. session' \in [Sessions -> Session]
  BY <1>1 DEF TL_TransmitPublish, IInv, TypeOK, Session
<1>3. [tt |-> tt, seq |-> seq, data |-> d] \in Tpdu
  BY <1>1, TypesAssumption DEF Tpdu, TransportTypes
<1>4. sent' \subseteq Npdu
  BY <1>3 DEF TL_TransmitPublish, Npdu
<1> QED BY <1>2, <1>4, EntrywiseLemma DEF TL_TransmitPublish, IInv, TypeOK, EntriesSound

\* Packets that arrive carry a transport type, a number and a payload.
Arrived == [tt : TransportTypes, seq : Seqs, data : Data]

LEMMA ResponseIInv ==
    ASSUME IInv, NEW i \in Sessions, NEW h \in PacketHandles, NEW p \in Arrived,
           TL_ResponseIndicate(i, h, p)
    PROVE  IInv'
<1> DEFINE e == transport[Master(i)]
           off == [e EXCEPT !.active = FALSE]
<1>1. e \in Entry /\ MasterOK(e)
  BY EntryLemma DEF IInv, TypeOK, EntriesSound
<1>2. off \in Entry /\ MasterOK(off)
  BY <1>1 DEF Entry, MasterOK
<1>3. transport' = transport \/ transport' = [transport EXCEPT ![Master(i)] = off]
  BY DEF TL_ResponseIndicate, Answers
<1>4. calls' \subseteq Upcall
  <2>1. e.handle \in Handles \cup {NoHandle} /\ h \in Handles
    BY <1>1 DEF Entry, Handles
  <2>2. p.data \in Data \cup {NoData}
    BY DEF Arrived
  <2> QED BY <2>1, <2>2 DEF TL_ResponseIndicate, Answers, IInv, TypeOK, Upcall, Statuses
<1> HIDE DEF off
<1>5. transport' \in [Entries -> Entry]
  BY <1>2, <1>3 DEF IInv, TypeOK
<1>6. \A k \in Sessions : MasterOK(transport'[Master(k)]) /\ SlaveOK(transport'[Slave(k)])
  BY <1>2, <1>3, EntryLemma DEF IInv, TypeOK, EntriesSound
<1> QED BY <1>4, <1>5, <1>6, EntrywiseLemma DEF TL_ResponseIndicate, Answers, IInv, TypeOK

LEMMA PlainIInv ==
    ASSUME IInv, NEW i \in Sessions, NEW h \in PacketHandles, NEW p \in Arrived,
           TL_PlainIndicate(i, h, p)
    PROVE  IInv'
<1>1. calls' \subseteq Upcall
  BY DEF TL_PlainIndicate, IInv, TypeOK, Upcall, Arrived, Tpdu
<1> QED BY <1>1, EntrywiseLemma DEF TL_PlainIndicate, tables, IInv, TypeOK, EntriesSound

LEMMA IndicateIInv ==
    ASSUME IInv, NEW i \in Sessions, NEW h \in PacketHandles, NEW p \in Arrived,
           TL_RequestIndicate(i, h, p)
    PROVE  IInv'
<1> DEFINE e   == transport[Slave(i)]
           new == [used |-> TRUE, active |-> e.used => e.active,
                   master |-> e.used /\ e.master,
                   bcast |-> IsBroadcastTT(p.tt), seq |-> PrevSeq(p.seq),
                   retry |-> 0, timer |-> 0, handle |-> h,
                   buffered |-> FALSE, tpdu |-> p]
<1>1. e \in Entry /\ SlaveOK(e)
  BY EntryLemma DEF IInv, TypeOK, EntriesSound
<1>2. /\ p \in Tpdu
      /\ PrevSeq(p.seq) \in Seqs
      /\ NextSeq(PrevSeq(p.seq)) = p.seq
  BY SeqLemma DEF Arrived, Tpdu
<1>3. new \in Entry
  BY <1>2, TimerLemma DEF Entry, Handles, IsBroadcastTT
<1>4. SlaveOK(new)
  BY <1>1, <1>2, TimerLemma DEF SlaveOK
<1>5. transport' = [transport EXCEPT ![Slave(i)] = new]
  BY DEF TL_RequestIndicate, InSequence, StoredNumber
<1>6. calls' \subseteq Upcall
  BY <1>2 DEF TL_RequestIndicate, InSequence, StoredNumber, IInv, TypeOK, Upcall
<1> HIDE DEF new
<1>7. transport' \in [Entries -> Entry]
  BY <1>3, <1>5 DEF IInv, TypeOK
<1>8. \A k \in Sessions : MasterOK(transport'[Master(k)]) /\ SlaveOK(transport'[Slave(k)])
  BY <1>4, <1>5, EntryLemma DEF IInv, TypeOK, EntriesSound
<1> QED BY <1>6, <1>7, <1>8, EntrywiseLemma DEF TL_RequestIndicate, InSequence, StoredNumber, IInv, TypeOK

LEMMA RepeatIInv ==
    ASSUME IInv, NEW i \in Sessions, NEW p \in Arrived, NEW rc \in NLResults,
           TL_RetryIndicate(i, p, rc)
    PROVE  IInv'
<1>1. Slave(RetryHome(i, p.tt)) \in Entries /\ RetryHome(i, p.tt) \in Sessions
  BY EntryLemma, HomeLemma
<1>2. transport[Slave(RetryHome(i, p.tt))].tpdu \in Tpdu
  BY <1>1 DEF IInv, TypeOK, Entry
<1>3. sent' \subseteq Npdu
  BY <1>1, <1>2 DEF TL_RetryIndicate, Npdu
<1> QED BY <1>3, EntrywiseLemma DEF TL_RetryIndicate, tables, IInv, TypeOK, EntriesSound

\* The entry an answer is for is a slave entry that holds its request.
LEMMA AnsweredEntry ==
    ASSUME IInv, NEW j \in Entries, NEW h \in PacketHandles,
           FindTransportEntryByHandle(j, h)
    PROVE  /\ j = Slave(j \div 2)
           /\ j \div 2 \in Sessions
           /\ transport[j] \in Entry
           /\ SlaveOK(transport[j])
<1>1. j \div 2 \in Sessions
  BY EntryLemma
<1>2. j # Master(j \div 2)
  BY <1>1, EntryLemma, ValuesAssumption
     DEF FindTransportEntryByHandle, IInv, EntriesSound, MasterOK
<1> QED BY <1>1, <1>2, EntryLemma DEF IInv, TypeOK, EntriesSound

\* The response an answer produces.
Response(j, seq, d) == [tt |-> ResponseType(transport[j].tpdu.tt), seq |-> seq, data |-> d]

LEMMA ResponseTyped ==
    ASSUME IInv, NEW j \in Entries, NEW seq \in Seqs, NEW d \in Data \cup {NoData}
    PROVE  Response(j, seq, d) \in Tpdu
<1>1. transport[j].tpdu.tt \in TransportTypes
  BY DEF IInv, TypeOK, Entry, Tpdu
<1>2. ResponseType(transport[j].tpdu.tt) \in TransportTypes
  BY <1>1 DEF ResponseType, TransportTypes, RESP_UNICAST, RESP_BROADCAST
<1> QED BY <1>2 DEF Response, Tpdu

\* An answer leaves the master entries alone, and every slave entry it does
\* touch has lost its handle.
LEMMA AnswerEffect ==
    ASSUME IInv, NEW j \in Entries, NEW h \in PacketHandles, NEW seq \in Seqs,
           NEW d \in Data \cup {NoData}, NEW rc \in NLResults,
           TL_TransmitRsp(j, h, seq, d, rc)
    PROVE  /\ transport' = [x \in Entries |-> transport'[x]]
           /\ \A x \in Entries :
                \/ transport'[x] = transport[x]
                \/ /\ \E m \in Sessions : x = Slave(m)
                   /\ transport'[x] \in Entry
                   /\ transport'[x].handle = NoHandle
                   /\ transport'[x].master = transport[x].master
                   /\ transport'[x].seq = IF x = j THEN seq ELSE transport[x].seq
<1> DEFINE i   == j \div 2
           k   == ResponseHome(i, transport[j].tpdu.tt)
           pdu == Response(j, seq, d)
           dropped == {j, Slave(ToUnicast(i)), Slave(k)}
           reply(e) == IF d = NoData THEN [e EXCEPT !.buffered = FALSE]
                       ELSE [e EXCEPT !.buffered = TRUE, !.tpdu = pdu,
                                !.timer = IF rc = "DLL_OUT_OF_MEMORY"
                                          THEN TLRetryMark ELSE e.timer]
           advance(x, e) == IF x = j THEN [e EXCEPT !.seq = seq] ELSE e
           forget(x, e)  == IF x \in dropped THEN [e EXCEPT !.handle = NoHandle] ELSE e
           store(x, e)   == IF x = Slave(k) THEN reply(e) ELSE e
<1>1. transport' = [x \in Entries |-> store(x, forget(x, advance(x, transport[x])))]
  BY DEF TL_TransmitRsp, Response
<1>2. /\ i \in Sessions /\ k \in Sessions /\ ToUnicast(i) \in Sessions
      /\ j = Slave(i)
  BY AnsweredEntry, HomeLemma DEF TL_TransmitRsp
<1>3. pdu \in Tpdu
  BY ResponseTyped
<1>4. ASSUME NEW x \in Entries, x \notin dropped
      PROVE  store(x, forget(x, advance(x, transport[x]))) = transport[x]
  BY <1>4
<1>5. ASSUME NEW x \in dropped
      PROVE  \E m \in Sessions : x = Slave(m)
  BY <1>2, <1>5
<1>6. ASSUME NEW x \in dropped, x \in Entries
      PROVE  LET e == transport[x]
                 f == store(x, forget(x, advance(x, e)))
             IN  /\ f \in Entry
                 /\ f.handle = NoHandle
                 /\ f.master = e.master
                 /\ f.seq = IF x = j THEN seq ELSE e.seq
  <2> DEFINE e == transport[x]
             a == advance(x, e)
             b == [a EXCEPT !.handle = NoHandle]
             c == reply(b)
  <2>1. e \in Entry
    BY <1>6 DEF IInv, TypeOK
  <2>2. a \in Entry /\ a.master = e.master /\ a.seq = IF x = j THEN seq ELSE e.seq
    BY <2>1 DEF Entry
  <2>3. b \in Entry /\ b.handle = NoHandle /\ b.master = e.master /\ b.seq = a.seq
    <3> HIDE DEF a
    <3> QED BY <2>2 DEF Entry
  <2>4. c \in Entry /\ c.handle = NoHandle /\ c.master = e.master /\ c.seq = b.seq
    <3> HIDE DEF b, pdu
    <3> QED BY <2>3, <1>3, TimerLemma DEF Entry
  <2>5. store(x, forget(x, advance(x, e))) = IF x = Slave(k) THEN c ELSE b
    BY <1>6
  <2> HIDE DEF c, b, a, store, forget, advance
  <2> QED BY <2>2, <2>3, <2>4, <2>5
<1> HIDE DEF store, dropped
<1>7. \A x \in Entries : transport'[x] = store(x, forget(x, advance(x, transport[x])))
  BY <1>1
<1> HIDE DEF forget, advance, k, pdu, i
<1>8. transport' = [x \in Entries |-> transport'[x]]
  BY <1>1
<1> QED
  <2> SUFFICES ASSUME NEW x \in Entries
      PROVE  \/ transport'[x] = transport[x]
             \/ /\ \E m \in Sessions : x = Slave(m)
                /\ transport'[x] \in Entry
                /\ transport'[x].handle = NoHandle
                /\ transport'[x].master = transport[x].master
                /\ transport'[x].seq = IF x = j THEN seq ELSE transport[x].seq
    BY <1>8
  <2>1. CASE x \in dropped
    BY <2>1, <1>5, <1>6, <1>7
  <2>2. CASE x \notin dropped
    BY <2>2, <1>4, <1>7
  <2> QED BY <2>1, <2>2

LEMMA AnswerIInv ==
    ASSUME IInv, NEW j \in Entries, NEW h \in PacketHandles, NEW seq \in Seqs,
           NEW d \in Data \cup {NoData}, NEW rc \in NLResults,
           TL_TransmitRsp(j, h, seq, d, rc), UNCHANGED calls
    PROVE  IInv'
<1>1. transport' \in [Entries -> Entry]
  BY AnswerEffect DEF IInv, TypeOK
<1>2. \A m \in Sessions : MasterOK(transport'[Master(m)])
  BY AnswerEffect, EntryLemma DEF IInv, EntriesSound
<1>3. \A m \in Sessions : SlaveOK(transport'[Slave(m)])
  BY AnswerEffect, EntryLemma DEF IInv, EntriesSound, SlaveOK
<1>4. sent' \subseteq Npdu
  <2>1. ResponseHome(j \div 2, transport[j].tpdu.tt) \in Sessions
    BY EntryLemma, HomeLemma
  <2>2. sent' \subseteq {[session |-> ResponseHome(j \div 2, transport[j].tpdu.tt),
                         tpdu |-> Response(j, seq, d)]}
    BY DEF TL_TransmitRsp, Response
  <2> QED BY <2>1, <2>2, ResponseTyped DEF Npdu
<1> QED BY <1>1, <1>2, <1>3, <1>4, EntrywiseLemma DEF TL_TransmitRsp, IInv, TypeOK

\* The sweep changes an entry as its flags say and never gives a slave entry a
\* turn as master.
LEMMA SweptLemma ==
    ASSUME NEW e \in Entry, NEW ok \in BOOLEAN, MasterOK(e) \/ SlaveOK(e)
    PROVE  /\ Swept(e, ok) \in Entry
           /\ MasterOK(e) => MasterOK(Swept(e, ok))
           /\ SlaveOK(e) => SlaveOK(Swept(e, ok))
           /\ Swept(e, ok).seq = e.seq
<1> DEFINE again == [e EXCEPT !.timer = ReplyTime, !.retry = e.retry + 1]
           off   == [e EXCEPT !.active = FALSE]
           tick  == [e EXCEPT !.timer = e.timer - 1]
           clear == [e EXCEPT !.timer = 0]
<1>1. CASE Resends(e)
  <2>1. ~SlaveOK(e) /\ e.retry \in 0 .. MaxRetries /\ e.retry < MaxRetries
    BY <1>1 DEF Resends, TimedOut, Waiting, SlaveOK, Entry
  <2>2. e.retry + 1 \in 0 .. MaxRetries
    BY <2>1, TimersAssumption
  <2>3. again \in Entry
    BY <2>2, TimerLemma DEF Entry
  <2>4. MasterOK(e)
    BY <2>1
  <2>5. MasterOK(again) /\ again.seq = e.seq
    BY <2>4, TimerLemma DEF Entry, MasterOK
  <2> HIDE DEF again
  <2>6. Swept(e, ok) = again
    BY <1>1 DEF Swept, again
  <2> QED BY <2>1, <2>3, <2>5, <2>6
<1>2. CASE GivesUp(e)
  <2>0. e.retry \in 0 .. MaxRetries /\ MaxRetries \in Nat
    BY TimersAssumption DEF Entry
  <2>1. ~Resends(e)
    BY <1>2, <2>0 DEF Resends, GivesUp
  <2>2. off \in Entry /\ off.seq = e.seq /\ (MasterOK(e) => MasterOK(off))
    BY DEF Entry, MasterOK
  <2>3. ~SlaveOK(e)
    BY <1>2 DEF GivesUp, TimedOut, Waiting, SlaveOK
  <2> QED BY <1>2, <2>1, <2>2, <2>3 DEF Swept
<1>3. CASE ~Resends(e) /\ ~GivesUp(e) /\ Waiting(e)
  <2>1. ~SlaveOK(e)
    BY <1>3 DEF Waiting, SlaveOK
  <2>0. e.retry \in 0 .. MaxRetries /\ MaxRetries \in Nat
    BY TimersAssumption DEF Entry
  <2>2. e.timer # 0
    BY <1>3, <2>0 DEF Resends, GivesUp, TimedOut
  <2>3. e.timer - 1 \in Timers /\ e.timer - 1 # TLRetryMark
    BY <2>1, <2>2, TimerLemma DEF MasterOK, Entry
  <2>4. tick \in Entry /\ MasterOK(tick) /\ tick.seq = e.seq
    BY <2>1, <2>3 DEF Entry, MasterOK
  <2> QED BY <1>3, <2>1, <2>4 DEF Swept
<1>4. CASE ~Resends(e) /\ ~GivesUp(e) /\ ~Waiting(e)
  <2>1. clear \in Entry /\ clear.seq = e.seq /\ (MasterOK(e) => MasterOK(clear))
    BY TimerLemma DEF Entry, MasterOK
  <2>2. SlaveOK(e) => SlaveOK(clear)
    BY TimerLemma DEF Entry, SlaveOK
  <2>3. Swept(e, ok) = e \/ Swept(e, ok) = clear
    BY <1>4 DEF Swept
  <2> HIDE DEF clear
  <2> QED BY <2>1, <2>2, <2>3
<1> QED BY <1>1, <1>2, <1>3, <1>4

\* The sweep reaches every entry, and what it resends or reports is typed.
LEMMA SweepIInv ==
    ASSUME IInv, NEW taken \in SUBSET Entries, TL_doRetry(taken)
    PROVE  IInv'
<1> DEFINE s(j) == Swept(transport[j], j \in taken)
<1>1. ASSUME NEW j \in Entries
      PROVE  /\ s(j) \in Entry
             /\ MasterOK(transport[j]) => MasterOK(s(j))
             /\ SlaveOK(transport[j]) => SlaveOK(s(j))
  <2>1. transport[j] \in Entry /\ (MasterOK(transport[j]) \/ SlaveOK(transport[j]))
    BY EntryLemma DEF IInv, TypeOK, EntriesSound
  <2>2. (j \in taken) \in BOOLEAN
    OBVIOUS
  <2> QED BY <2>1, <2>2, SweptLemma
<1>2. transport' = [j \in Entries |-> s(j)]
  BY DEF TL_doRetry, Abandoned
<1>3. calls' \subseteq Upcall
  <2>1. \A j \in Entries : transport[j].handle \in Handles \cup {NoHandle}
    BY DEF IInv, TypeOK, Entry
  <2> QED BY <2>1 DEF TL_doRetry, Abandoned, IInv, TypeOK, Upcall, Statuses
<1>4. sent' \subseteq Npdu
  <2>1. \A j \in Entries : j \div 2 \in Sessions /\ transport[j].tpdu \in Tpdu
    BY EntryLemma DEF IInv, TypeOK, Entry
  <2>2. \A j \in Entries : Buffer(transport[j]) \in Tpdu
    BY <2>1 DEF Buffer, Tpdu
  <2> QED BY <2>1, <2>2 DEF TL_doRetry, Abandoned, Npdu
<1> HIDE DEF s
<1>5. transport' \in [Entries -> Entry]
  BY <1>1, <1>2
<1>6. \A i \in Sessions : MasterOK(transport'[Master(i)]) /\ SlaveOK(transport'[Slave(i)])
  BY <1>1, <1>2, EntryLemma DEF IInv, EntriesSound
<1> QED BY <1>3, <1>4, <1>5, <1>6, EntrywiseLemma DEF TL_doRetry, Abandoned, IInv, TypeOK

-----------------------------------------------------------------------------
(* The steps of the layer, as a reader of Next finds them.                 *)

LEMMA MainLoopCases ==
    ASSUME MainLoopStep
    PROVE  \/ Restart
           \/ \E taken \in SUBSET Entries : TL_doRetry(taken)
           \/ \E i \in Sessions, h \in AppHandles, tt \in Outgoing, d \in Data, rc \in NLResults :
                 TL_TransmitRequest(i, h, tt, d, rc) \/ TL_TransmitPublish(i, tt, d, rc)
           \/ \E i \in Sessions, h \in PacketHandles, rc \in NLResults, p \in Arrived :
                 \/ TL_ResponseIndicate(i, h, p)
                 \/ TL_PlainIndicate(i, h, p)
                 \/ TL_RequestIndicate(i, h, p)
                 \/ TL_RetryIndicate(i, p, rc)
<1>1. ASSUME NEW i \in Sessions, NEW h \in PacketHandles, NEW rc \in NLResults,
             NEW tt \in Incoming, NEW seq \in Seqs, NEW d \in Data, NEW p,
             p = [tt |-> OnTheWire(tt), seq |-> seq, data |-> d],
             \/ TL_ResponseIndicate(i, h, p)
             \/ TL_PlainIndicate(i, h, p)
             \/ TL_RequestIndicate(i, h, p)
             \/ TL_RetryIndicate(i, p, rc)
      PROVE  \E j \in Sessions, g \in PacketHandles, r \in NLResults, q \in Arrived :
                 \/ TL_ResponseIndicate(j, g, q)
                 \/ TL_PlainIndicate(j, g, q)
                 \/ TL_RequestIndicate(j, g, q)
                 \/ TL_RetryIndicate(j, q, r)
  <2>1. p \in Arrived
    BY <1>1, WireLemma DEF Arrived
  <2> QED BY <1>1, <2>1, Zenon
<1>2. CASE Restart \/ \E taken \in SUBSET Entries : TL_doRetry(taken)
  BY <1>2
<1>3. CASE \E i \in Sessions, h \in AppHandles, tt \in Outgoing, d \in Data, rc \in NLResults :
               TL_TransmitRequest(i, h, tt, d, rc) \/ TL_TransmitPublish(i, tt, d, rc)
  BY <1>3
<1>4. CASE \E i \in Sessions, h \in PacketHandles, rc \in NLResults :
               \E tt \in Incoming, seq \in Seqs, d \in Data :
                  LET p == [tt |-> OnTheWire(tt), seq |-> seq, data |-> d] IN
                  /\ session[i].used
                  /\ \/ TL_ResponseIndicate(i, h, p)
                     \/ TL_PlainIndicate(i, h, p)
                     \/ TL_RequestIndicate(i, h, p)
                     \/ TL_RetryIndicate(i, p, rc)
  <2>1. PICK i \in Sessions, h \in PacketHandles, rc \in NLResults :
             \E tt \in Incoming, seq \in Seqs, d \in Data :
                LET p == [tt |-> OnTheWire(tt), seq |-> seq, data |-> d] IN
                /\ session[i].used
                /\ \/ TL_ResponseIndicate(i, h, p)
                   \/ TL_PlainIndicate(i, h, p)
                   \/ TL_RequestIndicate(i, h, p)
                   \/ TL_RetryIndicate(i, p, rc)
    BY <1>4, Zenon
  <2>2. PICK tt \in Incoming, seq \in Seqs, d \in Data :
                LET p == [tt |-> OnTheWire(tt), seq |-> seq, data |-> d] IN
                \/ TL_ResponseIndicate(i, h, p)
                \/ TL_PlainIndicate(i, h, p)
                \/ TL_RequestIndicate(i, h, p)
                \/ TL_RetryIndicate(i, p, rc)
    BY <2>1, Zenon
  <2> QED BY <1>1, <2>2, Zenon
<1> QED BY <1>2, <1>3, <1>4, Zenon DEF MainLoopStep

LEMMA MainLoopIInv == ASSUME IInv, MainLoopStep PROVE IInv'
<1>1. CASE Restart
  BY <1>1, RestartIInv
<1>2. CASE \E taken \in SUBSET Entries : TL_doRetry(taken)
  BY <1>2, SweepIInv
<1>3. ASSUME NEW i \in Sessions, NEW h \in AppHandles, NEW tt \in Outgoing,
             NEW d \in Data, NEW rc \in NLResults,
             TL_TransmitRequest(i, h, tt, d, rc) \/ TL_TransmitPublish(i, tt, d, rc)
      PROVE  IInv'
  BY <1>3, RequestIInv, PublishIInv
<1>4. ASSUME NEW i \in Sessions, NEW h \in PacketHandles, NEW rc \in NLResults,
             NEW p \in Arrived,
             \/ TL_ResponseIndicate(i, h, p)
             \/ TL_PlainIndicate(i, h, p)
             \/ TL_RequestIndicate(i, h, p)
             \/ TL_RetryIndicate(i, p, rc)
      PROVE  IInv'
  BY <1>4, ResponseIInv, PlainIInv, IndicateIInv, RepeatIInv
<1> QED BY <1>1, <1>2, <1>3, <1>4, MainLoopCases, Zenon

LEMMA NextIInv == ASSUME IInv, [Next]_vars PROVE IInv'
<1>1. CASE MainLoopStep
  BY <1>1, MainLoopIInv
<1>2. CASE ApplicationStep
  <2>1. CASE \E j \in Entries, h \in PacketHandles, seq \in Seqs,
                d \in Data \cup {NoData}, rc \in NLResults :
                TL_TransmitRsp(j, h, seq, d, rc) /\ UNCHANGED calls
    BY <2>1, AnswerIInv
  <2>2. CASE \E i \in Sessions, type \in OpenTypes, peer \in Peers :
                WriteSession(i, type, peer) \/ DeleteSession(i, type, peer)
    BY <2>2, SessionCommandsIInv
  <2>3. CASE WriteNickname
    BY <2>3, EntrywiseLemma DEF WriteNickname, tables, IInv, TypeOK, EntriesSound
  <2> QED BY <1>2, <2>1, <2>2, <2>3 DEF ApplicationStep
<1>3. CASE UpcallReturns
  BY <1>3, EntrywiseLemma DEF UpcallReturns, tables, IInv, TypeOK, EntriesSound
<1>4. CASE UNCHANGED vars
  BY <1>4, EntrywiseLemma DEF vars, IInv, TypeOK, EntriesSound
<1> QED BY <1>1, <1>2, <1>3, <1>4 DEF Next

LEMMA Invariance == Spec => []IInv
<1>1. IInv /\ [Next]_vars => IInv'
  BY NextIInv
<1> QED BY InitIInv, <1>1, PTL DEF Spec

\* Whatever packets, requests, answers and session commands come, the two tables
\* and the upcalls keep their types: no counter leaves its field.
THEOREM TypeCorrect == Spec => []TypeOK
<1>1. IInv => TypeOK
  BY DEF IInv
<1> QED BY Invariance, <1>1, PTL

\* An answerable request is never overwritten: every slave entry that still holds
\* a handle holds that request, unanswered and next in sequence.
THEOREM PendingIntact == Spec => []PendingRequestIntact
<1>1. IInv => PendingRequestIntact
  BY DEF IInv, EntriesSound, SlaveOK, PendingRequestIntact
<1> QED BY Invariance, <1>1, PTL

-----------------------------------------------------------------------------
(* What a step may do to the entries of one session.                       *)

Kept(i) == RequestKept(i) /\ MasterNumberKept(i) /\ SlaveNumberKept(i)

\* Nothing is owed for a session whose two entries stay as they are.
LEMMA UntouchedKept ==
    ASSUME NEW i \in Sessions,
           transport'[Master(i)] = transport[Master(i)],
           transport'[Slave(i)] = transport[Slave(i)]
    PROVE  Kept(i)
BY DEF Kept, RequestKept, MasterNumberKept, SlaveNumberKept, Waiting

LEMMA RestartKept ==
    ASSUME NEW i \in Sessions, Restart PROVE Kept(i)
<1>1. ~transport'[Master(i)].used /\ ~transport'[Slave(i)].used
  BY EntryLemma DEF Restart, InitialEntry
<1> QED BY <1>1 DEF Kept, RequestKept, MasterNumberKept, SlaveNumberKept

LEMMA SessionCommandsKept ==
    ASSUME IInv, NEW i \in Sessions, NEW k \in Sessions, NEW type \in OpenTypes,
           NEW peer \in Peers, WriteSession(k, type, peer) \/ DeleteSession(k, type, peer)
    PROVE  Kept(i)
<1>1. CASE WriteSession(k, type, peer)
  <2>1. CASE i = k
    <3>1. /\ transport[Master(i)] \in Entry /\ transport[Slave(i)] \in Entry
          /\ transport'[Master(i)] = [transport[Master(i)] EXCEPT !.used = FALSE, !.retry = 0]
          /\ transport'[Slave(i)] = [transport[Slave(i)] EXCEPT !.used = FALSE, !.retry = 0]
      BY <1>1, <2>1, EntryLemma DEF WriteSession, IInv, TypeOK
    <3>2. ~transport'[Master(i)].used /\ ~transport'[Slave(i)].used
      BY <3>1 DEF Entry
    <3> QED BY <3>2 DEF Kept, RequestKept, MasterNumberKept, SlaveNumberKept
  <2>2. CASE i # k
    <3>1. /\ transport'[Master(i)] = transport[Master(i)]
          /\ transport'[Slave(i)] = transport[Slave(i)]
      BY <1>1, <2>2, EntryLemma DEF WriteSession, IInv, TypeOK
    <3> QED BY <3>1, UntouchedKept
  <2> QED BY <2>1, <2>2
<1>2. CASE DeleteSession(k, type, peer)
  BY <1>2, UntouchedKept DEF DeleteSession
<1> QED BY <1>1, <1>2

LEMMA RequestsKept ==
    ASSUME IInv, NEW i \in Sessions, NEW k \in Sessions, NEW h \in AppHandles,
           NEW tt \in Outgoing, NEW d \in Data, NEW rc \in NLResults,
           TL_TransmitRequest(k, h, tt, d, rc)
    PROVE  Kept(i)
<1> DEFINE e   == transport[Master(k)]
           seq == NextSeq(IF e.used THEN e.seq ELSE SeqMod - 1)
           pdu == [tt |-> tt, seq |-> seq, data |-> d]
           new == [used |-> TRUE, active |-> rc = "SUCCESS", master |-> TRUE,
                   bcast |-> IsBroadcastTT(tt),
                   seq |-> IF rc = "SUCCESS" THEN seq ELSE PrevSeq(seq),
                   retry |-> 0, timer |-> ReplyTime, handle |-> h,
                   buffered |-> TRUE, tpdu |-> pdu]
<1>1. /\ e \in Entry
      /\ transport' = [transport EXCEPT ![Master(k)] = new]
      /\ ~(e.used /\ e.active)
      /\ rc = "SUCCESS" => sent' = {[session |-> k, tpdu |-> pdu]}
  BY EntryLemma DEF TL_TransmitRequest, IInv, TypeOK
<1>2. CASE i # k
  <2>1. /\ transport'[Master(i)] = transport[Master(i)]
        /\ transport'[Slave(i)] = transport[Slave(i)]
    BY <1>1, <1>2, EntryLemma DEF IInv, TypeOK
  <2> QED BY <2>1, UntouchedKept
<1>3. CASE i = k
  <2>1. /\ transport'[Master(i)] = new
        /\ transport'[Slave(i)] = transport[Slave(i)]
    BY <1>1, <1>3, EntryLemma DEF IInv, TypeOK
  <2>2. e.used => PrevSeq(seq) = e.seq
    BY <1>1, SeqLemma DEF Entry
  <2>3. RequestKept(i) /\ SlaveNumberKept(i)
    BY <1>1, <1>3, <2>1 DEF RequestKept, SlaveNumberKept, Waiting
  <2>4. CASE rc = "SUCCESS"
    <3>1. e.used => new.seq = NextSeq(e.seq)
      BY <2>4
    <3>2. Waiting(new) /\ new.tpdu = pdu
      BY <2>4 DEF Waiting
    <3> HIDE DEF pdu, new
    <3> QED BY <1>1, <1>3, <2>1, <2>3, <2>4, <3>1, <3>2 DEF Kept, MasterNumberKept
  <2>5. CASE rc # "SUCCESS"
    <3>1. e.used => new.seq = e.seq
      BY <2>2, <2>5
    <3> HIDE DEF new
    <3> QED BY <1>3, <2>1, <2>3, <3>1 DEF Kept, MasterNumberKept
  <2> QED BY <2>4, <2>5
<1> QED BY <1>2, <1>3

\* A confirmation ends the wait and reaches the application with the handle.
LEMMA ResponsesKept ==
    ASSUME IInv, NEW i \in Sessions, NEW k \in Sessions, NEW h \in PacketHandles,
           NEW p \in Arrived, TL_ResponseIndicate(k, h, p)
    PROVE  Kept(i)
<1> DEFINE e == transport[Master(k)]
<1>1. CASE transport' = transport
  BY <1>1, UntouchedKept
<1>2. CASE transport' # transport
  <2>1. /\ transport' = [transport EXCEPT ![Master(k)].active = FALSE]
        /\ [op |-> "APP_TransmitConfirm", handle |-> e.handle,
            status |-> "SUCCESS", data |-> p.data] \in calls'
    BY <1>2 DEF TL_ResponseIndicate, Answers
  <2>2. CASE i # k
    <3>1. /\ transport'[Master(i)] = transport[Master(i)]
          /\ transport'[Slave(i)] = transport[Slave(i)]
      BY <2>1, <2>2, EntryLemma DEF IInv, TypeOK
    <3> QED BY <3>1, UntouchedKept
  <2>3. CASE i = k
    <3>1. /\ transport'[Master(i)] = [e EXCEPT !.active = FALSE]
          /\ transport'[Slave(i)] = transport[Slave(i)]
          /\ e \in Entry
      BY <2>1, <2>3, EntryLemma DEF IInv, TypeOK
    <3>2. transport'[Master(i)].seq = e.seq
      BY <3>1 DEF Entry
    <3>3. \E c \in calls' : c.op = "APP_TransmitConfirm" /\ c.handle = e.handle
      BY <2>1
    <3> QED BY <2>3, <3>1, <3>2, <3>3
            DEF Kept, RequestKept, MasterNumberKept, SlaveNumberKept
  <2> QED BY <2>2, <2>3
<1> QED BY <1>1, <1>2

LEMMA IndicationsKept ==
    ASSUME IInv, NEW i \in Sessions, NEW k \in Sessions, NEW h \in PacketHandles,
           NEW p \in Arrived, TL_RequestIndicate(k, h, p)
    PROVE  Kept(i)
<1> DEFINE e == transport[Slave(k)]
<1>1. CASE i # k
  <2>1. /\ transport'[Master(i)] = transport[Master(i)]
        /\ transport'[Slave(i)] = transport[Slave(i)]
    BY <1>1, EntryLemma DEF TL_RequestIndicate, InSequence, StoredNumber, IInv, TypeOK
  <2> QED BY <2>1, UntouchedKept
<1>2. CASE i = k
  <2>1. /\ transport'[Master(i)] = transport[Master(i)]
        /\ transport'[Slave(i)].seq = PrevSeq(p.seq)
        /\ e.used => e.seq = PrevSeq(p.seq)
    BY <1>2, EntryLemma DEF TL_RequestIndicate, InSequence, StoredNumber, IInv, TypeOK
  <2> QED BY <1>2, <2>1
          DEF Kept, RequestKept, MasterNumberKept, SlaveNumberKept, Waiting
<1> QED BY <1>1, <1>2

\* An answer accepts the number of the request whose handle it came with.
LEMMA AnswersKept ==
    ASSUME IInv, NEW i \in Sessions, NEW j \in Entries, NEW h \in PacketHandles,
           NEW seq \in Seqs, NEW d \in Data \cup {NoData}, NEW rc \in NLResults,
           TL_TransmitRsp(j, h, seq, d, rc)
    PROVE  Kept(i)
<1>1. transport'[Master(i)] = transport[Master(i)]
  BY AnswerEffect, EntryLemma
<1>2. \/ transport'[Slave(i)] = transport[Slave(i)]
      \/ /\ transport'[Slave(i)].handle = NoHandle
         /\ transport'[Slave(i)].seq = IF Slave(i) = j THEN seq
                                       ELSE transport[Slave(i)].seq
  BY AnswerEffect, EntryLemma
<1>3. /\ transport[j].handle = h /\ transport[j].used
      /\ transport[j].seq = PrevSeq(seq)
      /\ h # NoHandle
  BY ValuesAssumption DEF TL_TransmitRsp, FindTransportEntryByHandle
<1>4. transport[j].tpdu.seq = seq
  BY <1>3, AnsweredEntry, SeqLemma DEF TL_TransmitRsp, SlaveOK
<1>5. SlaveNumberKept(i)
  BY <1>2, <1>3, <1>4 DEF SlaveNumberKept
<1> QED BY <1>1, <1>5 DEF Kept, RequestKept, MasterNumberKept, Waiting

\* The sweep changes no number; a request it gives up is reported.
LEMMA SweepKept ==
    ASSUME IInv, NEW i \in Sessions, NEW taken \in SUBSET Entries, TL_doRetry(taken)
    PROVE  Kept(i)
<1> DEFINE e == transport[Master(i)]
           f == transport[Slave(i)]
<1>1. /\ transport'[Master(i)] = Swept(e, Master(i) \in taken)
      /\ transport'[Slave(i)] = Swept(f, Slave(i) \in taken)
      /\ e \in Entry /\ MasterOK(e) /\ f \in Entry /\ SlaveOK(f)
      /\ Master(i) \in Entries
  BY EntryLemma DEF TL_doRetry, Abandoned, IInv, TypeOK, EntriesSound
<1>2. transport'[Master(i)].seq = e.seq /\ transport'[Slave(i)].seq = f.seq
  <2>1. (Master(i) \in taken) \in BOOLEAN /\ (Slave(i) \in taken) \in BOOLEAN
    OBVIOUS
  <2>2. /\ Swept(e, Master(i) \in taken).seq = e.seq
        /\ Swept(f, Slave(i) \in taken).seq = f.seq
    BY <1>1, <2>1, SweptLemma
  <2> QED BY <1>1, <2>2
<1>3. CASE GivesUp(e)
  <2>1. Master(i) \in {x \in Entries : GivesUp(transport[x])}
    BY <1>1, <1>3
  <2>2. [op |-> "APP_TransmitConfirm", handle |-> e.handle,
         status |-> "MAX_RETRIES_EXCEEDED", data |-> NoData] \in calls'
    BY <2>1 DEF TL_doRetry, Abandoned
  <2>3. \E c \in calls' : c.op = "APP_TransmitConfirm" /\ c.handle = e.handle
    BY <2>2
  <2> QED BY <1>2, <2>3 DEF Kept, RequestKept, MasterNumberKept, SlaveNumberKept
<1>4. CASE ~GivesUp(e)
  <2>1. Waiting(e) => /\ Waiting(transport'[Master(i)])
                      /\ transport'[Master(i)].handle = e.handle
                      /\ transport'[Master(i)].tpdu = e.tpdu
    BY <1>1, <1>4 DEF Swept, Waiting, Entry
  <2> QED BY <1>2, <2>1 DEF Kept, RequestKept, MasterNumberKept, SlaveNumberKept
<1> QED BY <1>3, <1>4

LEMMA NextKept ==
    ASSUME IInv, [Next]_vars, NEW i \in Sessions
    PROVE  Kept(i)
<1>1. CASE UNCHANGED transport
  BY <1>1, UntouchedKept
<1>2. CASE Restart
  BY <1>2, RestartKept
<1>3. CASE \E taken \in SUBSET Entries : TL_doRetry(taken)
  BY <1>3, SweepKept
<1>4. ASSUME NEW k \in Sessions, NEW h \in AppHandles, NEW tt \in Outgoing,
             NEW d \in Data, NEW rc \in NLResults,
             TL_TransmitRequest(k, h, tt, d, rc) \/ TL_TransmitPublish(k, tt, d, rc)
      PROVE  Kept(i)
  BY <1>4, RequestsKept, UntouchedKept DEF TL_TransmitPublish
<1>5. ASSUME NEW k \in Sessions, NEW h \in PacketHandles, NEW rc \in NLResults,
             NEW p \in Arrived,
             \/ TL_ResponseIndicate(k, h, p)
             \/ TL_PlainIndicate(k, h, p)
             \/ TL_RequestIndicate(k, h, p)
             \/ TL_RetryIndicate(k, p, rc)
      PROVE  Kept(i)
  BY <1>5, ResponsesKept, IndicationsKept, UntouchedKept
     DEF TL_PlainIndicate, TL_RetryIndicate, tables
<1>7. CASE MainLoopStep
  BY <1>2, <1>3, <1>4, <1>5, <1>7, MainLoopCases, Zenon
<1>8. CASE ApplicationStep
  BY <1>8, AnswersKept, SessionCommandsKept, UntouchedKept
     DEF ApplicationStep, WriteNickname, tables
<1>9. CASE UpcallReturns \/ UNCHANGED vars
  BY <1>9, <1>1 DEF UpcallReturns, tables, vars
<1> QED BY <1>7, <1>8, <1>9 DEF Next

\* An accepted request stays outstanding with its bytes until the application is
\* told its outcome, or its session is taken away.
THEOREM RequestsAnswered == Spec => RequestOutcome
<1>1. IInv /\ [Next]_vars => [\A i \in Sessions : RequestKept(i)]_vars
  BY NextKept DEF Kept
<1> QED BY Invariance, <1>1, PTL DEF Spec, RequestOutcome

\* Request numbers grow by one with each request handed to the network layer, and
\* no number is lost on a refused one.
THEOREM MasterNumbersMove == Spec => MasterNumberMoves
<1>1. IInv /\ [Next]_vars => [\A i \in Sessions : MasterNumberKept(i)]_vars
  BY NextKept DEF Kept
<1> QED BY Invariance, <1>1, PTL DEF Spec, MasterNumberMoves

\* The slave side moves to a number only by answering the request of that number.
THEOREM SlaveNumbersMove == Spec => SlaveNumberMoves
<1>1. IInv /\ [Next]_vars => [\A i \in Sessions : SlaveNumberKept(i)]_vars
  BY NextKept DEF Kept
<1> QED BY Invariance, <1>1, PTL DEF Spec, SlaveNumberMoves
=============================================================================
