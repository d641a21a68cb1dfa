---------------------------- MODULE Conversation ----------------------------
(***************************************************************************)
(* Two transport layers on one unicast session: end A sends acknowledged   *)
(* requests, end B executes them and answers.  Both run the code of        *)
(* transport_layer.c (the field device is A for its own requests to the    *)
(* network manager and B for the commands of the manager).                 *)
(*                                                                         *)
(* The network delays, reorders and loses packets: a packet stays in "net" *)
(* until it is delivered, and one that is never delivered is lost.  Every  *)
(* copy is delivered at most once, since the session's nonce counters      *)
(* reject the second one, and the network layer discards a packet that is  *)
(* too old: here, one that was sent MaxAge requests ago.                   *)
(*                                                                         *)
(* Requests that A's network layer takes are numbered; those it refuses    *)
(* leave nothing behind but their handle and their bytes in A's entry, and *)
(* share one handle here.                                                  *)
(***************************************************************************)
EXTENDS Naturals, FiniteSets, Bags

CONSTANTS
    MaxRequests,    \* bound of the model: A submits requests 1 .. MaxRequests
    RefusedHandle,  \* handle and data of the requests that A's network layer refuses
    SeqMod,         \* 2^5: the sequence number has five bits
    MaxRetries,     \* g_ucMaxRetries
    ReplyTime,      \* TL_MAX_REPLY_TIME, in steps of 250 ms
    MaxAge,         \* g_stProv.ulMaxPacketAge, in requests of A
    MaxLost,        \* bound of the model: requests of A that fail in a row
    PacketHandles,  \* g_ucPacketForMeHandle values of B
    ARefusals,      \* what A's network layer may return besides SUCCESS
    BRefusals,      \* what B's network layer may return besides SUCCESS
    Peer,           \* the nickname at the other end
    NoHandle, NoData

\* Fewer requests fail in a row than there are numbers, and a response is too young
\* to meet a later request with its number: it is at most MaxAge younger than its
\* request, or than the next one that B takes, and lives for MaxAge.
ASSUME AgeAssumption ==
    /\ MaxAge \in Nat \ {0} /\ MaxLost \in Nat \ {0} /\ MaxRequests \in Nat
    /\ MaxLost < SeqMod
    /\ MaxLost + MaxAge <= SeqMod \/ 2 * MaxAge <= SeqMod
ASSUME NumbersAssumption ==
    /\ SeqMod \in Nat /\ SeqMod >= 2
    /\ MaxRetries \in Nat /\ ReplyTime \in Nat /\ ReplyTime < 65535
ASSUME ValuesAssumption ==
    /\ PacketHandles \cap (1 .. MaxRequests) = {}
    /\ RefusedHandle \notin PacketHandles \cup (1 .. MaxRequests)
    /\ NoHandle \notin PacketHandles \cup (1 .. MaxRequests) \cup {RefusedHandle}
    /\ NoData \notin (1 .. MaxRequests) \cup {RefusedHandle}

ASSUME RefusalsAssumption == "SUCCESS" \notin ARefusals

VARIABLES
    joined, session,    \* the session of both ends: opened before, and kept
    aTable, aCalls,     \* g_aTransportTable of A, and its pending upcalls
    bTable, bCalls,     \* the same of B
    sent,               \* NPDUs of the last step of either end
    net,                \* packets on their way, a bag
    submitted,          \* requests of A that its network layer has taken
    executed,           \* for each request, how often B has executed it
    outcome             \* what A's application was told of each request

ends == <<aTable, aCalls, bTable, bCalls>>
fixed == <<joined, session>>
vars == <<fixed, ends, sent, net, submitted, executed, outcome>>

Requests == 1 .. MaxRequests

\* The handles of A's application: it is told of refused requests as of any other.
Told == Requests \cup {RefusedHandle}

\* Both ends have one unicast session, in slot 1 behind the join session.
OneSession == [i \in 0 .. 1 |-> [used |-> i = 1, type |-> "Unicast", peer |-> Peer,
                                 counter |-> 0]]
Slot == 1

A == INSTANCE TransportLayer WITH
        SessionCount <- 2, Peers <- {Peer}, NM <- Peer, OpenTypes <- {},
        AppHandles <- Told, Outgoing <- {2}, Incoming <- {3}, Data <- Told,
        transport <- aTable, calls <- aCalls

B == INSTANCE TransportLayer WITH
        SessionCount <- 2, Peers <- {Peer}, NM <- Peer, OpenTypes <- {},
        AppHandles <- {}, Outgoing <- {}, Incoming <- {2}, Data <- Requests,
        transport <- bTable, calls <- bCalls

a == aTable[A!Master(Slot)]
b == bTable[B!Slave(Slot)]

Init == /\ joined = TRUE
        /\ session = OneSession
        /\ aTable = [j \in A!Entries |-> A!InitialEntry]
        /\ bTable = [j \in B!Entries |-> B!InitialEntry]
        /\ aCalls = {} /\ bCalls = {}
        /\ sent = {}
        /\ net = EmptyBag
        /\ submitted = 0
        /\ executed = [k \in Requests |-> 0]
        /\ outcome = [k \in Told |-> "none"]

-----------------------------------------------------------------------------
(* The network.                                                            *)

Packets(to) == {[to |-> to, tpdu |-> n.tpdu, born |-> submitted'] : n \in sent'}

\* NET_CheckPacketAge keeps the packets that are young enough.
Young(bag) == [m \in {x \in DOMAIN bag : x.born + MaxAge > submitted'} |-> bag[m]]

Carry(bag, to) == net' = Young(bag) (+) SetToBag(Packets(to))

InFlight(to) == {m \in BagToSet(net) : m.to = to}

-----------------------------------------------------------------------------
(* End A.                                                                  *)

\* The requests that failed since the last one that was answered.
Lost == Cardinality({k \in 1 .. submitted :
                        \A j \in k .. submitted : outcome[j] # "answered"})

A_Request ==
    /\ aCalls = {} /\ bCalls = {}
    /\ submitted < MaxRequests
    /\ Lost < MaxLost
    /\ A!TL_TransmitRequest(Slot, submitted + 1, A!REQ_UNICAST, submitted + 1, "SUCCESS")
    /\ submitted' = submitted + 1
    /\ UNCHANGED <<bTable, bCalls, executed, outcome>>
    /\ Carry(net, "B")

\* The network layer refuses: the application has the failure as the return value.
A_Refused ==
    /\ aCalls = {}
    /\ \E rc \in ARefusals :
          A!TL_TransmitRequest(Slot, RefusedHandle, A!REQ_UNICAST, RefusedHandle, rc)
    /\ outcome' = [outcome EXCEPT ![RefusedHandle] = "failed"]
    /\ UNCHANGED <<bTable, bCalls, submitted, executed>>
    /\ Carry(net, "B")

A_doRetry ==
    /\ aCalls = {}
    /\ \E taken \in SUBSET {A!Master(Slot)} : A!TL_doRetry(taken)
    /\ UNCHANGED <<bTable, bCalls, submitted, executed, outcome>>
    /\ Carry(net, "B")

A_Receive ==
    /\ aCalls = {}
    /\ \E m \in InFlight("A"), h \in PacketHandles :
          /\ A!TL_ResponseIndicate(Slot, h, m.tpdu)
          /\ UNCHANGED <<bTable, bCalls, submitted, executed, outcome>>
          /\ Carry(net (-) SetToBag({m}), "B")

\* APP_TransmitConfirm: the status of a request is known by its handle, and a
\* packet's own handle names no request.
A_Confirm ==
    /\ \E c \in aCalls :
          /\ outcome' = IF c.handle \in Told
                        THEN [outcome EXCEPT ![c.handle] =
                                IF c.status = "SUCCESS" THEN "answered" ELSE "failed"]
                        ELSE outcome
          /\ aCalls' = aCalls \ {c}
    /\ sent' = {}
    /\ UNCHANGED <<fixed, aTable, bTable, bCalls, net, submitted, executed>>

-----------------------------------------------------------------------------
(* End B.                                                                  *)

B_Receive ==
    /\ bCalls = {}
    /\ \E m \in InFlight("B") :
          /\ \/ \E h \in PacketHandles : B!TL_RequestIndicate(Slot, h, m.tpdu)
             \/ \E rc \in {"SUCCESS"} \cup BRefusals : B!TL_RetryIndicate(Slot, m.tpdu, rc)
          /\ UNCHANGED <<aTable, aCalls, submitted, executed, outcome>>
          /\ Carry(net (-) SetToBag({m}), "A")

\* APP_TransmitIndicate for a command the device executes itself: the answer is
\* given from inside the upcall.
B_Execute ==
    /\ \E c \in bCalls, j \in B!Entries, rc \in {"SUCCESS"} \cup BRefusals :
          /\ B!TL_TransmitRsp(j, c.handle, c.tpdu.seq, c.tpdu.data, rc)
          /\ executed' = [executed EXCEPT ![c.tpdu.data] = @ + 1]
          /\ bCalls' = bCalls \ {c}
    /\ UNCHANGED <<aTable, aCalls, submitted, outcome>>
    /\ Carry(net, "A")

B_doRetry ==
    /\ bCalls = {}
    /\ \E taken \in SUBSET {B!Slave(Slot)} : B!TL_doRetry(taken)
    /\ UNCHANGED <<aTable, aCalls, submitted, executed, outcome>>
    /\ Carry(net, "A")

Next == \/ A_Request \/ A_Refused \/ A_doRetry \/ A_Receive \/ A_Confirm
        \/ B_Receive \/ B_Execute \/ B_doRetry

\* The main loop of A calls TL_doRetry every 250 ms, and an upcall returns.
Fairness == WF_vars(A_doRetry) /\ WF_vars(A_Confirm)

Spec == Init /\ [][Next]_vars /\ Fairness

-----------------------------------------------------------------------------
TypeOK == /\ aTable \in [A!Entries -> A!Entry] /\ aCalls \subseteq A!Upcall
          /\ bTable \in [B!Entries -> B!Entry] /\ bCalls \subseteq B!Upcall
          /\ IsABag(net)
          /\ submitted \in 0 .. MaxRequests
          /\ executed \in [Requests -> Nat]
          /\ outcome \in [Told -> {"none", "answered", "failed"}]

\* The two ends implement the abstract exchange of the requests that A's network
\* layer took: whatever is refused, lost, late or repeated, no request is executed
\* twice, and a confirmation of success under a request's handle is of a request
\* that B has executed (the sequence checks and the buffered response of
\* TL_TransmitIndicate).
Exchange == INSTANCE RequestResponse WITH outcome <- [k \in Requests |-> outcome[k]]

RequestResponseHolds == Exchange!Spec

\* The numbers of the two ends stay in step as long as A has given up nothing,
\* however often its network layer refuses: B is at A's number or at the one before,
\* so that it takes A's next request (the number that TL_TransmitRequest spends, or
\* gives back, and TL_TransmitRsp accepts).
GivenUp == \/ \E k \in Requests : outcome[k] = "failed"
           \/ \E c \in aCalls : c.status = "MAX_RETRIES_EXCEEDED"

InStep == ~GivenUp /\ a.used /\ b.used => b.seq \in {a.seq, B!PrevSeq(a.seq)}

\* Every request on its way ends: A's application hears of the answer or of the
\* end of the retries (TL_doRetry counts the retries of every entry it finds).
RequestTerminates ==
    \A k \in Requests : (submitted = k /\ a.active) ~> (outcome[k] # "none")

\* APP_TransmitConfirm is the result of the request whose handle it carries: a
\* request reported as a success has been executed by the peer, and none is that
\* was refused.
AnsweredWasExecuted ==
    /\ \A k \in Requests : outcome[k] = "answered" => executed[k] > 0
    /\ outcome[RefusedHandle] # "answered"
=============================================================================
