-------------------------- MODULE ConversationProofs --------------------------
(***************************************************************************)
(* Theorems about Conversation, for any number of requests, of sequence    *)
(* numbers and of retries: whatever the network layers refuse, two         *)
(* transport layers over a network that loses, delays and reorders         *)
(* implement the exchange of RequestResponse.  The invariant follows the   *)
(* last request that B has executed.                                       *)
(***************************************************************************)
EXTENDS Conversation, FiniteSetTheorems, TLAPS

-----------------------------------------------------------------------------
(* The invariant.                                                          *)

\* The five-bit number of request k: the first one has number 0.
Number(k) == (k + SeqMod - 1) % SeqMod

Request(k)  == [tt |-> A!REQ_UNICAST, seq |-> Number(k), data |-> k]
Response(k) == [tt |-> A!RESP_UNICAST, seq |-> Number(k), data |-> k]

OthersUnused ==
    /\ \A j \in A!Entries : j # A!Master(Slot) => ~aTable[j].used
    /\ \A j \in B!Entries : j # B!Slave(Slot) => ~bTable[j].used

\* The entry of A has the number of the last request that was submitted; its handle
\* may be that of a request that was refused since then.
MasterSound ==
    /\ submitted > 0 => a.used
    /\ a.used => /\ a.master /\ ~a.bcast /\ a.buffered
                 /\ a.seq = Number(submitted) /\ a.timer \in 0 .. ReplyTime
                 /\ \/ submitted > 0 /\ a.handle = submitted
                    \/ a.handle = RefusedHandle
    /\ a.active => /\ a.used /\ submitted > 0 /\ a.handle = submitted
                   /\ a.tpdu = Request(submitted) /\ outcome[submitted] = "none"

\* What A's application is being told is of the last request, or a late answer that
\* goes to a refused one, or has the handle of a packet and tells it nothing.
ConfirmsSound ==
    \A c \in aCalls :
        /\ aCalls = {c}
        /\ \/ c.handle \in PacketHandles \cup {RefusedHandle}
           \/ /\ c.handle = submitted /\ submitted > 0
              /\ ~a.active
              /\ \/ c.status = "SUCCESS" /\ executed[submitted] = 1
                 \/ c.status = "MAX_RETRIES_EXCEEDED" /\ outcome[submitted] = "none"

\* Every request but the last has an outcome, and the last one will get it.
OutcomesSound ==
    /\ \A k \in Requests : k < submitted => outcome[k] # "none"
    /\ \A k \in Requests : k > submitted => outcome[k] = "none"
    /\ \A k \in Requests : outcome[k] = "answered" => executed[k] = 1
    /\ submitted > 0 /\ outcome[submitted] = "none" =>
           a.active \/ \E c \in aCalls : c.handle = submitted

\* e is the last request that B has executed, 0 if there is none.  While it has a
\* request in hand, that is the next one, or the first one that reached B at all.
InHand(e, c) ==
    \E k \in 1 .. submitted :
        /\ e = 0 \/ k = e + 1
        /\ submitted < k + MaxAge
        /\ c.tpdu = Request(k) /\ b.tpdu = Request(k)
        /\ b.used /\ b.seq = B!PrevSeq(Number(k))

SlaveSound(e) ==
    /\ b.used => b.active /\ ~b.master
    /\ \A c \in bCalls : bCalls = {c} /\ InHand(e, c)
    /\ bCalls = {} => /\ b.used <=> e > 0
                      /\ b.used => b.seq = Number(e) /\ b.buffered /\ b.tpdu = Response(e)

ExecutedSound(e) ==
    /\ executed \in [Requests -> {0, 1}]
    /\ \A k \in Requests : k > e => executed[k] = 0
    /\ e > 0 => executed[e] = 1
    /\ submitted <= e + MaxLost

\* A request in the network was sent when it was the last one; a response was sent
\* before B was too far ahead, or too far behind.
PacketSound(e, m) ==
    /\ m.born \in 0 .. submitted /\ submitted < m.born + MaxAge
    /\ \/ m.to = "B" /\ m.born > 0 /\ m.tpdu = Request(m.born)
       \/ m.to = "A" /\ \E n \in 1 .. e :
             /\ m.tpdu = Response(n) /\ executed[n] = 1
             /\ m.born <= n + MaxLost
             /\ n < e => m.born <= n + MaxAge

NetSound(e) == \A m \in DOMAIN net : PacketSound(e, m)

Upto(e) == SlaveSound(e) /\ ExecutedSound(e) /\ NetSound(e)

IInv == /\ TypeOK /\ OthersUnused /\ joined /\ session = OneSession
        /\ MasterSound /\ ConfirmsSound /\ OutcomesSound
        /\ \E e \in 0 .. submitted : Upto(e)

\* What the assumptions say of the numbers.
LEMMA ConstantFacts ==
    /\ MaxRequests \in Nat /\ MaxAge \in Nat /\ MaxAge > 0
    /\ MaxLost \in Nat /\ MaxLost > 0 /\ MaxLost < SeqMod
    /\ SeqMod \in Nat /\ SeqMod >= 2
    /\ MaxLost + MaxAge <= SeqMod \/ 2 * MaxAge <= SeqMod
    /\ MaxRetries \in Nat /\ ReplyTime \in Nat /\ ReplyTime < 65535
<1>1. MaxRequests \in Nat /\ MaxAge \in Nat \ {0} /\ MaxLost \in Nat \ {0}
  BY AgeAssumption
<1>2. MaxLost < SeqMod /\ (MaxLost + MaxAge <= SeqMod \/ 2 * MaxAge <= SeqMod)
  BY AgeAssumption
<1>3. /\ SeqMod \in Nat /\ SeqMod >= 2
      /\ MaxRetries \in Nat /\ ReplyTime \in Nat /\ ReplyTime < 65535
  BY NumbersAssumption
<1>4. MaxAge > 0 /\ MaxLost > 0
  BY <1>1
<1> QED BY <1>1, <1>2, <1>3, <1>4

LEMMA TypesHold ==
    ASSUME IInv
    PROVE  TypeOK
BY DEF IInv

-----------------------------------------------------------------------------
(* Numbers.                                                                *)

LEMMA Division ==
    ASSUME NEW m \in Nat \ {0}, NEW n \in Nat
    PROVE  /\ n % m \in 0 .. m - 1
           /\ n \div m \in Nat
           /\ n = ((n \div m) * m) + (n % m)
BY SMT

LEMMA SmallMultiple ==
    ASSUME NEW m \in Nat \ {0}, NEW k \in Int, - m < k * m, k * m < m
    PROVE  k = 0
<1>1. CASE k >= 1
  BY <1>1, k * m >= m
<1>2. CASE k <= -1
  BY <1>2, k * m <= - m
<1> QED BY <1>1, <1>2

\* Two numbers with the same remainder are a multiple apart.
LEMMA SameRemainder ==
    ASSUME NEW m \in Nat \ {0}, NEW i \in Nat, NEW j \in Nat, i % m = j % m,
           i - j < m, j - i < m
    PROVE  i = j
<1> DEFINE p == i \div m
           q == j \div m
<1>1. /\ p \in Nat /\ q \in Nat /\ i % m \in 0 .. m - 1
      /\ i = (p * m) + (i % m) /\ j = (q * m) + (j % m)
  BY Division
<1> HIDE DEF p, q
<1>2. (p - q) * m = i - j
  BY <1>1, (p - q) * m = (p * m) - (q * m)
<1>3. p - q = 0
  BY <1>1, <1>2, SmallMultiple
<1> QED BY <1>2, <1>3

LEMMA Remainder ==
    ASSUME NEW m \in Nat \ {0}, NEW q \in Nat, NEW r \in 0 .. m - 1
    PROVE  ((q * m) + r) % m = r
<1> DEFINE n == (q * m) + r
           p == n \div m
<1>1. n \in Nat
  BY q * m \in Nat
<1>2. p \in Nat /\ n % m \in 0 .. m - 1 /\ n = (p * m) + (n % m)
  BY <1>1, Division
<1>3. (p - q) * m = r - (n % m)
  <2>1. (p - q) * m = (p * m) - (q * m)
    BY <1>2
  <2>2. q * m \in Nat /\ p * m \in Nat
    BY <1>2
  <2> QED BY <1>2, <2>1, <2>2
<1>4. p - q = 0
  BY <1>2, <1>3, SmallMultiple
<1> QED BY <1>2, <1>3, <1>4

\* The numbers of two requests next to each other are next to each other.
LEMMA NumberLemma ==
    ASSUME NEW k \in Nat
    PROVE  /\ Number(k) \in 0 .. SeqMod - 1
           /\ A!NextSeq(Number(k)) = Number(k + 1)
           /\ A!PrevSeq(Number(k + 1)) = Number(k)
           /\ B!PrevSeq(Number(k + 1)) = Number(k)
<1> DEFINE n == k + SeqMod - 1
           q == n \div SeqMod
           r == n % SeqMod
           s == q * SeqMod
<1>1. SeqMod \in Nat \ {0} /\ SeqMod >= 2
  BY NumbersAssumption
<1>2. n \in Nat /\ r \in 0 .. SeqMod - 1 /\ q \in Nat /\ n = s + r
  <2>1. n \in Nat
    BY <1>1
  <2> HIDE DEF n
  <2> QED BY <1>1, <2>1, Division
<1>3. s \in Nat /\ Number(k) = r
  <2>1. q \in Nat => q * SeqMod \in Nat
    <3> HIDE DEF q
    <3> QED BY <1>1
  <2> QED BY <1>2, <2>1 DEF Number
<1>4. Number(k + 1) = (n + 1) % SeqMod
  BY <1>1, <1>2 DEF Number
<1> HIDE DEF n, q, r
<1>5. CASE r < SeqMod - 1
  <2>1. ((q * SeqMod) + (r + 1)) % SeqMod = r + 1
    BY <1>1, <1>2, <1>5, Remainder
  <2>2. Number(k + 1) = r + 1
    BY <1>2, <1>3, <1>4, <2>1
  <2>3. /\ ((0 * SeqMod) + (r + 1)) % SeqMod = r + 1
        /\ ((1 * SeqMod) + r) % SeqMod = r
    BY <1>1, <1>2, <1>5, Remainder
  <2> QED BY <1>1, <1>2, <1>3, <2>2, <2>3 DEF A!NextSeq, A!PrevSeq, B!PrevSeq
<1>6. CASE r = SeqMod - 1
  <2>1. /\ (((q + 1) * SeqMod) + 0) % SeqMod = 0
        /\ (q + 1) * SeqMod = s + SeqMod
    BY <1>1, <1>2, Remainder
  <2>2. Number(k + 1) = 0
    BY <1>1, <1>2, <1>3, <1>4, <1>6, <2>1
  <2>3. /\ ((1 * SeqMod) + 0) % SeqMod = 0
        /\ ((0 * SeqMod) + (SeqMod - 1)) % SeqMod = SeqMod - 1
    BY <1>1, Remainder
  <2> QED BY <1>1, <1>3, <1>6, <2>2, <2>3 DEF A!NextSeq, A!PrevSeq, B!PrevSeq
<1> QED BY <1>1, <1>2, <1>5, <1>6

\* Two requests that are less than SeqMod apart have different numbers.
LEMMA SameNumber ==
    ASSUME NEW i \in Nat, NEW j \in Nat, Number(i) = Number(j),
           i - j < SeqMod, j - i < SeqMod
    PROVE  i = j
<1>1. SeqMod \in Nat \ {0} /\ SeqMod >= 2
  BY NumbersAssumption
<1> DEFINE m == i + SeqMod - 1
           n == j + SeqMod - 1
<1>2. /\ m \in Nat /\ n \in Nat /\ m % SeqMod = n % SeqMod
      /\ m - n < SeqMod /\ n - m < SeqMod
  BY <1>1 DEF Number
<1>3. m = n
  BY <1>1, <1>2, SameRemainder
<1> QED BY <1>1, <1>3

-----------------------------------------------------------------------------
(* The two entries, the packets, and what each step changes.               *)

LEMMA Layout ==
    /\ A!Master(Slot) = 2 /\ A!Entries = 0 .. 3 /\ A!Sessions = 0 .. 1
    /\ B!Slave(Slot) = 3 /\ B!Entries = 0 .. 3 /\ B!Sessions = 0 .. 1
BY DEF Slot, A!Master, A!Entries, A!Sessions, B!Slave, B!Entries, B!Sessions

LEMMA RequestsAreTpdus ==
    ASSUME NEW k \in Requests
    PROVE  /\ Request(k) \in A!Tpdu /\ Response(k) \in A!Tpdu
           /\ Request(k) \in B!Tpdu /\ Response(k) \in B!Tpdu
           /\ k # NoData /\ k # RefusedHandle /\ k \in Nat /\ k > 0
<1>1. Number(k) \in 0 .. SeqMod - 1
  BY NumberLemma DEF Requests
<1> QED
  BY <1>1, NumbersAssumption, ValuesAssumption, AgeAssumption
  DEF Requests, Told, Request, Response, A!Tpdu, B!Tpdu, A!TransportTypes,
      B!TransportTypes, A!Seqs, B!Seqs, A!REQ_UNICAST, A!RESP_UNICAST

\* What is on its way after a step was on its way before it, and is young enough,
\* or is a packet of this step.
LEMMA CarryLemma ==
    ASSUME NEW to, NEW bag, IsABag(bag), Carry(bag, to)
    PROVE  /\ IsABag(net')
           /\ \A m \in DOMAIN net' :
                 \/ m \in DOMAIN bag /\ submitted' < m.born + MaxAge
                 \/ \E n \in sent' : m = [to |-> to, tpdu |-> n.tpdu, born |-> submitted']
<1> DEFINE kept == {x \in DOMAIN bag : x.born + MaxAge > submitted'}
           new == Packets(to)
<1>1. net' = [m \in kept \cup new |->
                (IF m \in kept THEN bag[m] ELSE 0) + (IF m \in new THEN 1 ELSE 0)]
  BY DEF Carry, Young, (+), SetToBag
<1>2. \A m \in kept : bag[m] \in Nat /\ bag[m] > 0
  BY DEF IsABag
<1>3. IsABag(net')
  <2> HIDE DEF kept, new
  <2>1. \A m \in kept \cup new : net'[m] \in {n \in Nat : n > 0}
    BY <1>1, <1>2
  <2>2. DOMAIN net' = kept \cup new
    BY <1>1
  <2>3. net' \in [kept \cup new -> {n \in Nat : n > 0}]
    BY <1>1, <2>1
  <2> QED BY <2>2, <2>3 DEF IsABag
<1>4. \A m \in kept : submitted' < m.born + MaxAge
  BY SMT
<1> QED BY <1>1, <1>3, <1>4 DEF Packets

LEMMA TakenLemma ==
    ASSUME IsABag(net), NEW m
    PROVE  /\ IsABag(net (-) SetToBag({m}))
           /\ DOMAIN (net (-) SetToBag({m})) \subseteq DOMAIN net
<1> DEFINE left == [e \in DOMAIN net |-> IF e \in {m} THEN net[e] - 1 ELSE net[e]]
<1>1. net (-) SetToBag({m}) = [e \in {d \in DOMAIN net : left[d] > 0} |-> left[e]]
  BY DEF (-), SetToBag
<1>2. \A e \in DOMAIN net : net[e] \in Nat /\ net[e] > 0
  BY DEF IsABag
<1>3. \A e \in DOMAIN net : left[e] > 0 => left[e] \in Nat
  BY <1>2
<1> QED BY <1>1, <1>3 DEF IsABag

-----------------------------------------------------------------------------
(* End A.                                                                  *)

\* No request was answered since the last one that B executed, so that A may have
\* one more that fails.
LEMMA LostLemma ==
    ASSUME IInv, NEW e \in 0 .. submitted, Upto(e), Lost < MaxLost
    PROVE  submitted < e + MaxLost
<1> DEFINE Unanswered == {k \in 1 .. submitted :
                             \A j \in k .. submitted : outcome[j] # "answered"}
<1>1. submitted \in 0 .. MaxRequests /\ MaxRequests \in Nat /\ MaxLost \in Nat
  BY AgeAssumption DEF IInv, TypeOK
<1>2. \A j \in e + 1 .. submitted : outcome[j] # "answered"
  BY <1>1 DEF IInv, OutcomesSound, Upto, ExecutedSound, Requests
<1>3. e + 1 .. submitted \subseteq Unanswered
  BY <1>1, <1>2
<1>4. IsFiniteSet(1 .. submitted) /\ Unanswered \subseteq 1 .. submitted
  BY <1>1, FS_Interval
<1>5. Cardinality(e + 1 .. submitted) <= Cardinality(Unanswered)
  BY <1>3, <1>4, FS_Subset
<1>6. Cardinality(e + 1 .. submitted) = submitted - e
  <2>1. CASE e = submitted
    BY <1>1, <2>1, FS_Interval
  <2>2. CASE e < submitted
    BY <1>1, <2>2, FS_Interval
  <2> QED BY <1>1, <2>1, <2>2
<1>7. Cardinality(Unanswered) < MaxLost /\ Cardinality(Unanswered) \in Nat
  BY <1>4, FS_Subset, FS_CardinalityType DEF Lost
<1> HIDE DEF Unanswered
<1> QED BY <1>1, <1>5, <1>6, <1>7

\* The number that a new request is given, after a refusal as well.
LEMMA NextNumber ==
    ASSUME IInv
    PROVE  A!NextSeq(IF a.used THEN a.seq ELSE SeqMod - 1) = Number(submitted + 1)
<1>1. submitted \in Nat /\ SeqMod \in Nat /\ SeqMod >= 2
  <2>1. submitted \in 0 .. MaxRequests
    BY TypesHold DEF TypeOK
  <2> QED BY <2>1, ConstantFacts
<1>2. A!NextSeq(Number(submitted)) = Number(submitted + 1)
  BY <1>1, NumberLemma
<1>3. Number(0) = SeqMod - 1
  BY <1>1 DEF Number
<1>4. a.used => a.seq = Number(submitted)
  BY DEF IInv, MasterSound
<1>5. ~a.used => submitted = 0
  BY <1>1 DEF IInv, MasterSound
<1> QED BY <1>2, <1>3, <1>4, <1>5

LEMMA NewRequest ==
    ASSUME IInv, A_Request
    PROVE  LET k == submitted + 1 IN
           /\ k \in Requests /\ submitted' = k /\ sent' = {[session |-> 1, tpdu |-> Request(k)]}
           /\ aTable' = [aTable EXCEPT ![2] =
                  [used |-> TRUE, active |-> TRUE, master |-> TRUE, bcast |-> FALSE,
                   seq |-> Number(k), retry |-> 0, timer |-> ReplyTime, handle |-> k,
                   buffered |-> TRUE, tpdu |-> Request(k)]]
           /\ ~(a.used /\ a.active)
<1> DEFINE k == submitted + 1
<1>1. submitted \in 0 .. MaxRequests /\ MaxRequests \in Nat /\ SeqMod \in Nat /\ SeqMod >= 2
  <2>1. submitted \in 0 .. MaxRequests
    BY TypesHold DEF TypeOK
  <2> QED BY <2>1, ConstantFacts
<1>2. k \in Requests /\ submitted' = k
  BY <1>1 DEF A_Request, Requests
<1>3. A!TL_TransmitRequest(Slot, submitted + 1, A!REQ_UNICAST, submitted + 1, "SUCCESS")
  BY DEF A_Request
<1>5. A!NextSeq(IF a.used THEN a.seq ELSE SeqMod - 1) = Number(k)
  BY NextNumber
<1>6. A!REQ_UNICAST = 2 /\ ~A!IsBroadcastTT(2) /\ Slot = 1
  BY DEF A!REQ_UNICAST, A!IsBroadcastTT, Slot
<1>7. /\ sent' = {[session |-> 1, tpdu |-> Request(k)]}
      /\ aTable' = [aTable EXCEPT ![2] =
                  [used |-> TRUE, active |-> TRUE, master |-> TRUE, bcast |-> FALSE,
                   seq |-> Number(k), retry |-> 0, timer |-> ReplyTime, handle |-> k,
                   buffered |-> TRUE, tpdu |-> Request(k)]]
      /\ ~(a.used /\ a.active)
  <2>1. submitted + 1 = k /\ A!Master(Slot) = 2 /\ a = aTable[2]
    BY Layout DEF a
  <2> HIDE DEF k
  <2>2. /\ ~(a.used /\ a.active)
        /\ sent' = {[session |-> 1, tpdu |-> Request(k)]}
    BY <1>3, <1>5, <1>6, <2>1 DEF A!TL_TransmitRequest, Request
  <2>3. aTable' = [aTable EXCEPT ![2] =
                  [used |-> TRUE, active |-> TRUE, master |-> TRUE, bcast |-> A!IsBroadcastTT(2),
                   seq |-> Number(k), retry |-> 0, timer |-> ReplyTime, handle |-> k,
                   buffered |-> TRUE, tpdu |-> Request(k)]]
    BY <1>3, <1>5, <1>6, <2>1 DEF A!TL_TransmitRequest, Request
  <2>4. A!IsBroadcastTT(2) = FALSE
    BY DEF A!IsBroadcastTT
  <2> QED BY <2>2, <2>3, <2>4
<1> QED BY <1>2, <1>7

\* What the steps of A leave alone.
LEMMA InvFacts ==
    ASSUME IInv
    PROVE  /\ submitted \in 0 .. MaxRequests /\ submitted \in Nat
           /\ MaxRequests \in Nat /\ MaxAge \in Nat /\ MaxAge > 0
           /\ MaxLost \in Nat /\ MaxLost > 0 /\ MaxLost < SeqMod
           /\ SeqMod \in Nat /\ SeqMod >= 2
           /\ MaxLost + MaxAge <= SeqMod \/ 2 * MaxAge <= SeqMod
           /\ aTable \in [0 .. 3 -> A!Entry] /\ bTable \in [0 .. 3 -> B!Entry]
           /\ a = aTable[2] /\ b = bTable[3]
           /\ a \in A!Entry /\ b \in B!Entry
<1>1. TypeOK
  BY TypesHold
<1>2. /\ submitted \in 0 .. MaxRequests
      /\ aTable \in [A!Entries -> A!Entry] /\ bTable \in [B!Entries -> B!Entry]
  BY <1>1 DEF TypeOK
<1>3. MaxRequests \in Nat /\ submitted \in Nat
  BY <1>2, ConstantFacts
<1>4. /\ aTable \in [0 .. 3 -> A!Entry] /\ bTable \in [0 .. 3 -> B!Entry]
      /\ a = aTable[2] /\ b = bTable[3]
  BY <1>2, Layout DEF a, b
<1>5. a \in A!Entry /\ b \in B!Entry
  BY <1>4
<1> QED BY <1>2, <1>3, <1>4, <1>5, ConstantFacts

\* A step that leaves the requests alone keeps what is true of the packets, if the
\* packets it sends are as they should be.
LEMMA NetKept ==
    ASSUME NEW e, NetSound(e), NEW to, NEW bag, IsABag(bag),
           DOMAIN bag \subseteq DOMAIN net, Carry(bag, to),
           submitted' = submitted, executed' = executed,
           \A n \in sent' : PacketSound(e, [to |-> to, tpdu |-> n.tpdu, born |-> submitted])
    PROVE  IsABag(net') /\ NetSound(e)'
<1>1. /\ IsABag(net')
      /\ \A m \in DOMAIN net' :
            \/ m \in DOMAIN bag
            \/ \E n \in sent' : m = [to |-> to, tpdu |-> n.tpdu, born |-> submitted]
  BY CarryLemma
<1>2. \A m \in DOMAIN net' : PacketSound(e, m)
  BY <1>1 DEF NetSound
<1>3. ASSUME NEW m, PacketSound(e, m) PROVE PacketSound(e, m)'
  BY <1>3 DEF PacketSound
<1> QED BY <1>1, <1>2, <1>3 DEF NetSound

LEMMA A_RequestKeeps ==
    ASSUME IInv, A_Request
    PROVE  IInv'
<1> DEFINE k == submitted + 1
           new == [used |-> TRUE, active |-> TRUE, master |-> TRUE, bcast |-> FALSE,
                   seq |-> Number(k), retry |-> 0, timer |-> ReplyTime, handle |-> k,
                   buffered |-> TRUE, tpdu |-> Request(k)]
<1>1. /\ k \in Requests /\ submitted' = k /\ k \in Nat /\ k = submitted + 1
      /\ aTable' = [aTable EXCEPT ![2] = new]
      /\ sent' = {[session |-> 1, tpdu |-> Request(k)]}
      /\ ~(a.used /\ a.active)
  BY NewRequest, InvFacts
<1>2. /\ aCalls = {} /\ bCalls = {} /\ aCalls' = {} /\ bCalls' = {}
      /\ bTable' = bTable /\ executed' = executed
      /\ joined' = joined /\ session' = session
      /\ Lost < MaxLost /\ Carry(net, "B")
  BY DEF A_Request, A!TL_TransmitRequest
<1>3. outcome' = outcome
  BY DEF A_Request
<1>4. /\ new \in A!Entry /\ Request(k) \in A!Tpdu /\ Number(k) \in 0 .. SeqMod - 1
  <2>1. Number(k) \in 0 .. SeqMod - 1 /\ Request(k) \in A!Tpdu
    BY <1>1, NumberLemma, RequestsAreTpdus
  <2>2. ReplyTime \in A!Timers /\ 0 \in 0 .. MaxRetries /\ k \in A!Handles
    <3>1. ReplyTime \in A!Timers
      BY ConstantFacts DEF A!Timers
    <3>2. 0 \in 0 .. MaxRetries
      BY ConstantFacts
    <3>3. k \in A!Handles
      BY <1>1 DEF A!Handles, Requests, Told
    <3> QED BY <3>1, <3>2, <3>3
  <2> HIDE DEF k
  <2> QED BY <2>1, <2>2 DEF A!Entry, A!Seqs
<1> HIDE DEF k, new
<1>5. /\ aTable' \in [0 .. 3 -> A!Entry] /\ a' = new
      /\ \A j \in 0 .. 3 : j # 2 => aTable'[j] = aTable[j]
  BY <1>1, <1>4, InvFacts, Layout DEF a
<1>6. /\ IsABag(net')
      /\ \A m \in DOMAIN net' :
            \/ m \in DOMAIN net /\ submitted' < m.born + MaxAge
            \/ m = [to |-> "B", tpdu |-> Request(k), born |-> k]
  BY <1>1, <1>2, CarryLemma DEF IInv, TypeOK
<1>7. TypeOK'
  <2>1. k \in 0 .. MaxRequests
    BY <1>1, InvFacts DEF Requests
  <2>2. outcome' \in [Told -> {"none", "answered", "failed"}]
    BY <1>3 DEF IInv, TypeOK
  <2> QED BY <1>1, <1>2, <1>5, <1>6, <2>1, <2>2, Layout DEF TypeOK, IInv
<1>8. OthersUnused' /\ joined' /\ session' = OneSession
  BY <1>2, <1>5, Layout DEF OthersUnused, IInv
<1>9. MasterSound'
  <2>1. outcome'[k] = "none"
    BY <1>1, <1>3, InvFacts DEF IInv, OutcomesSound
  <2>2. Number(submitted)' = Number(k) /\ Request(submitted)' = Request(k)
    BY <1>1 DEF Number, Request, A!REQ_UNICAST
  <2>3. /\ a'.used /\ a'.active /\ a'.master /\ ~a'.bcast /\ a'.buffered
        /\ a'.seq = Number(k) /\ a'.handle = k /\ a'.tpdu = Request(k)
        /\ a'.timer \in 0 .. ReplyTime
    <3>1. ReplyTime \in 0 .. ReplyTime
      BY ConstantFacts
    <3> QED BY <1>5, <3>1 DEF new
  <2>4. submitted' > 0 /\ outcome'[submitted'] = "none" /\ a'.handle = submitted' /\ submitted' = k
    BY <1>1, <2>1, <2>3, InvFacts
  <2>5. a'.seq = Number(submitted)' /\ a'.tpdu = Request(submitted)'
    BY <2>2, <2>3
  <2> QED BY <2>3, <2>4, <2>5 DEF MasterSound
<1>10. ConfirmsSound'
  BY <1>2 DEF ConfirmsSound
<1>11. OutcomesSound'
  <2>1. submitted > 0 => outcome[submitted] # "none"
    BY <1>1, <1>2 DEF IInv, OutcomesSound, MasterSound
  <2>2. \A i \in Requests : outcome'[i] = outcome[i]
    BY <1>3
  <2>3. \A i \in Requests : i > k => outcome'[i] = "none"
    BY <1>1, <1>3, InvFacts DEF IInv, OutcomesSound, Requests
  <2>4. \A i \in Requests : i < k => outcome'[i] # "none"
    <3> SUFFICES ASSUME NEW i \in Requests, i < k PROVE outcome'[i] # "none"
      OBVIOUS
    <3>1. i < submitted \/ i = submitted
      BY <1>1, InvFacts DEF Requests
    <3> QED BY <1>1, <2>1, <2>2, <3>1, InvFacts DEF IInv, OutcomesSound, Requests
  <2>5. a'.active
    BY <1>5 DEF new
  <2>6. \A i \in Requests : outcome'[i] = "answered" => executed'[i] = 1
    BY <1>2, <2>2 DEF IInv, OutcomesSound
  <2> QED BY <1>1, <2>3, <2>4, <2>5, <2>6 DEF OutcomesSound
<1>12. PICK e \in 0 .. submitted : Upto(e)
  BY DEF IInv
<1>13. submitted < e + MaxLost
  BY <1>2, <1>12, LostLemma
<1>14. SlaveSound(e)'
  BY <1>2, <1>12 DEF Upto, SlaveSound, b
<1>15. ExecutedSound(e)'
  BY <1>1, <1>2, <1>12, <1>13, InvFacts DEF Upto, ExecutedSound
<1>16. NetSound(e)'
  <2> SUFFICES ASSUME NEW m \in DOMAIN net' PROVE PacketSound(e, m)'
    BY DEF NetSound
  <2>1. CASE m \in DOMAIN net /\ submitted' < m.born + MaxAge
    <3>1. PacketSound(e, m)
      BY <1>12, <2>1 DEF Upto, NetSound
    <3> QED BY <1>1, <1>2, <2>1, <3>1, InvFacts DEF PacketSound
  <2>2. CASE m = [to |-> "B", tpdu |-> Request(k), born |-> k]
    BY <1>1, <2>2, InvFacts DEF PacketSound, Request, Number
  <2> QED BY <1>6, <2>1, <2>2
<1>17. e \in 0 .. submitted'
  BY <1>1, <1>12, InvFacts
<1> QED BY <1>7, <1>8, <1>9, <1>10, <1>11, <1>14, <1>15, <1>16, <1>17 DEF IInv, Upto

\* A step of A sends its last request again, or nothing, and leaves B alone.
LEMMA AKeepsRest ==
    ASSUME IInv, NEW bag, IsABag(bag), DOMAIN bag \subseteq DOMAIN net, Carry(bag, "B"),
           UNCHANGED <<joined, session, bTable, bCalls, submitted, executed, outcome>>,
           aTable' \in [0 .. 3 -> A!Entry], aCalls' \subseteq A!Upcall,
           \A j \in 0 .. 3 : j # 2 => aTable'[j] = aTable[j],
           \A n \in sent' : n.tpdu = Request(submitted) /\ submitted > 0
    PROVE  /\ TypeOK' /\ OthersUnused' /\ joined' /\ session' = OneSession
           /\ \E e \in 0 .. submitted' : Upto(e)'
<1>1. PICK e \in 0 .. submitted : Upto(e)
  BY DEF IInv
<1>2. SlaveSound(e)'
  <2>1. SlaveSound(e)
    BY <1>1 DEF Upto
  <2>2. b' = b
    BY DEF b
  <2> QED BY <2>1, <2>2 DEF SlaveSound, InHand, Request, Response, Number
<1>3. ExecutedSound(e)'
  BY <1>1 DEF Upto, ExecutedSound
<1>4. ASSUME NEW n \in sent'
      PROVE  PacketSound(e, [to |-> "B", tpdu |-> n.tpdu, born |-> submitted])
  BY <1>4, InvFacts DEF PacketSound
<1>5. IsABag(net') /\ NetSound(e)'
  BY <1>1, <1>4, NetKept DEF Upto
<1>6. TypeOK'
  BY <1>5, Layout DEF TypeOK, IInv
<1>7. OthersUnused' /\ joined' /\ session' = OneSession
  BY Layout DEF OthersUnused, IInv
<1> QED BY <1>1, <1>2, <1>3, <1>5, <1>6, <1>7 DEF Upto

\* A refused request leaves the number where it was.
LEMMA A_RefusedKeeps ==
    ASSUME IInv, A_Refused
    PROVE  IInv'
<1>1. PICK rc \in ARefusals :
          A!TL_TransmitRequest(Slot, RefusedHandle, A!REQ_UNICAST, RefusedHandle, rc)
  BY DEF A_Refused
<1>2. /\ aCalls = {} /\ aCalls' = {} /\ Carry(net, "B") /\ IsABag(net)
      /\ outcome' = [outcome EXCEPT ![RefusedHandle] = "failed"]
      /\ UNCHANGED <<joined, session, bTable, bCalls, submitted, executed>>
  BY <1>1 DEF A_Refused, A!TL_TransmitRequest, IInv, TypeOK
<1> DEFINE seq == A!NextSeq(IF a.used THEN a.seq ELSE SeqMod - 1)
           pdu == [tt |-> 2, seq |-> seq, data |-> RefusedHandle]
           new == [used |-> TRUE, active |-> rc = "SUCCESS", master |-> TRUE,
                   bcast |-> FALSE,
                   seq |-> IF rc = "SUCCESS" THEN seq ELSE A!PrevSeq(seq),
                   retry |-> 0, timer |-> ReplyTime, handle |-> RefusedHandle,
                   buffered |-> TRUE, tpdu |-> pdu]
<1>3. /\ aTable' = [aTable EXCEPT ![2] = new]
      /\ sent' = IF rc = "SUCCESS" THEN {[session |-> 1, tpdu |-> pdu]} ELSE {}
      /\ ~(a.used /\ a.active)
  <2>1. /\ A!Master(Slot) = 2 /\ a = aTable[2] /\ A!REQ_UNICAST = 2
        /\ A!IsBroadcastTT(2) = FALSE /\ Slot = 1
    BY Layout DEF a, A!REQ_UNICAST, A!IsBroadcastTT, Slot
  <2> QED BY <1>1, <2>1 DEF A!TL_TransmitRequest
<1>4. rc # "SUCCESS"
  BY RefusalsAssumption
<1>5. seq = Number(submitted + 1) /\ A!PrevSeq(seq) = Number(submitted)
  BY NextNumber, InvFacts, NumberLemma
<1>6. new \in A!Entry
  <2>1. Number(submitted) \in A!Seqs /\ seq \in A!Seqs
    <3>1. submitted + 1 \in Nat
      BY InvFacts
    <3>2. Number(submitted) \in 0 .. SeqMod - 1 /\ Number(submitted + 1) \in 0 .. SeqMod - 1
      BY <3>1, InvFacts, NumberLemma
    <3> QED BY <1>5, <3>2 DEF A!Seqs
  <2>2. pdu \in A!Tpdu
    <3> HIDE DEF seq
    <3> QED BY <2>1 DEF A!Tpdu, A!TransportTypes, Told
  <2>3. ReplyTime \in A!Timers /\ 0 \in 0 .. MaxRetries /\ RefusedHandle \in A!Handles
    BY ConstantFacts DEF A!Timers, A!Handles, Told
  <2>4. new.seq \in A!Seqs
    BY <1>4, <1>5, <2>1
  <2> HIDE DEF seq, pdu
  <2> QED BY <2>2, <2>3, <2>4 DEF A!Entry
<1>7. /\ a' = new /\ aTable' \in [0 .. 3 -> A!Entry]
      /\ \A j \in 0 .. 3 : j # 2 => aTable'[j] = aTable[j]
  <2> HIDE DEF new
  <2> QED BY <1>3, <1>6, InvFacts, Layout DEF a
<1>8. /\ a'.used /\ ~a'.active /\ a'.master /\ ~a'.bcast /\ a'.buffered
      /\ a'.seq = Number(submitted) /\ a'.timer \in 0 .. ReplyTime
      /\ a'.handle = RefusedHandle
  <2>1. ReplyTime \in 0 .. ReplyTime
    BY ConstantFacts
  <2> HIDE DEF seq, pdu
  <2> QED BY <1>4, <1>5, <1>7, <2>1
<1> HIDE DEF new, seq, pdu
<1>9. sent' = {}
  BY <1>3, <1>4
<1>10. /\ \A k \in Requests : outcome'[k] = outcome[k]
       /\ outcome' \in [Told -> {"none", "answered", "failed"}]
  <2>1. RefusedHandle \notin Requests /\ outcome \in [Told -> {"none", "answered", "failed"}]
    BY ValuesAssumption DEF IInv, TypeOK, Requests
  <2> QED BY <1>2, <2>1 DEF Told
<1>11. PICK e \in 0 .. submitted : Upto(e)
  BY DEF IInv
<1>12. SlaveSound(e)'
  <2>1. SlaveSound(e)
    BY <1>11 DEF Upto
  <2>2. b' = b
    BY <1>2 DEF b
  <2> QED BY <1>2, <2>1, <2>2 DEF SlaveSound, InHand, Request, Response, Number
<1>13. ExecutedSound(e)'
  BY <1>2, <1>11 DEF Upto, ExecutedSound
<1>14. IsABag(net') /\ NetSound(e)'
  BY <1>2, <1>9, <1>11, NetKept DEF Upto
<1>15. TypeOK'
  BY <1>2, <1>7, <1>10, <1>14, Layout DEF TypeOK, IInv
<1>16. OthersUnused' /\ joined' /\ session' = OneSession
  BY <1>2, <1>7, Layout DEF OthersUnused, IInv
<1>17. MasterSound'
  BY <1>2, <1>8 DEF MasterSound, Number
<1>18. ConfirmsSound'
  BY <1>2 DEF ConfirmsSound
<1>19. OutcomesSound'
  <2>1. submitted > 0 => outcome[submitted] # "none"
    BY <1>2, <1>3 DEF IInv, OutcomesSound, MasterSound
  <2>2. submitted > 0 => submitted \in Requests
    BY InvFacts DEF Requests
  <2> QED BY <1>2, <1>10, <2>1, <2>2 DEF IInv, OutcomesSound
<1> QED BY <1>2, <1>11, <1>12, <1>13, <1>14, <1>15, <1>16, <1>17, <1>18, <1>19 DEF IInv, Upto

LEMMA A_doRetryKeeps ==
    ASSUME IInv, A_doRetry
    PROVE  IInv'
<1>1. PICK taken \in SUBSET {2} : A!TL_doRetry(taken)
  BY Layout DEF A_doRetry
<1>2. /\ aCalls = {} /\ Carry(net, "B") /\ IsABag(net)
      /\ UNCHANGED <<joined, session, bTable, bCalls, submitted, executed, outcome>>
  BY <1>1 DEF A_doRetry, A!TL_doRetry, IInv, TypeOK
<1>3. \A j \in 0 .. 3 : j # 2 => ~aTable[j].used
  BY Layout DEF IInv, OthersUnused
<1>4. /\ aTable' = [j \in 0 .. 3 |-> A!Swept(aTable[j], j \in taken)]
      /\ \A n \in sent' : \E j \in taken :
            /\ A!Resends(aTable[j]) \/ A!Marked(aTable[j])
            /\ n.tpdu = A!Buffer(aTable[j])
      /\ aCalls' = {[op |-> "APP_TransmitConfirm", handle |-> aTable[j].handle,
                     status |-> "MAX_RETRIES_EXCEEDED", data |-> NoData] :
                       j \in {x \in 0 .. 3 : A!GivesUp(aTable[x])}}
  BY <1>1, <1>2, Layout DEF A!TL_doRetry, A!Abandoned
<1>5. \A j \in 0 .. 3 : j # 2 => aTable'[j] = aTable[j] /\ ~A!GivesUp(aTable[j])
  BY <1>3, <1>4
  DEF A!Swept, A!Resends, A!GivesUp, A!TimedOut, A!Waiting, A!Marked
<1>6. a' = A!Swept(a, 2 \in taken) /\ aTable'[2] = a' /\ a = aTable[2]
  BY <1>4, InvFacts, Layout DEF a
<1>7. CASE ~A!Waiting(a)
  <2>1. ~A!GivesUp(a) /\ ~A!Resends(a) /\ ~A!Marked(a)
    BY <1>7 DEF A!Resends, A!GivesUp, A!TimedOut, A!Marked, A!Waiting, IInv, MasterSound
  <2>2. a' = a
    BY <1>6, <1>7, <2>1 DEF A!Swept
  <2>3. aCalls' = {} /\ sent' = {}
    BY <1>4, <1>5, <1>6, <2>1
  <2>4. \A j \in 0 .. 3 : aTable'[j] = aTable[j]
    BY <1>5, <1>6, <2>2
  <2>5. aTable' \in [0 .. 3 -> A!Entry]
    BY <1>4, <2>4, InvFacts
  <2>6. /\ TypeOK' /\ OthersUnused' /\ joined' /\ session' = OneSession
        /\ \E e \in 0 .. submitted' : Upto(e)'
    BY <1>2, <1>5, <2>3, <2>5, AKeepsRest
  <2>7. MasterSound' /\ ConfirmsSound' /\ OutcomesSound'
    BY <1>2, <2>2, <2>3 DEF IInv, MasterSound, ConfirmsSound, OutcomesSound
  <2> QED BY <2>6, <2>7 DEF IInv
<1>8. CASE A!Waiting(a)
  <2>1. /\ a.used /\ a.active /\ a.master /\ a.timer \in 0 .. ReplyTime /\ a.buffered
        /\ submitted > 0 /\ a.handle = submitted /\ outcome[submitted] = "none"
        /\ a.tpdu = Request(submitted) /\ a.seq = Number(submitted) /\ ~a.bcast
        /\ a.retry \in 0 .. MaxRetries
    BY <1>8, InvFacts DEF A!Waiting, IInv, MasterSound, A!Entry
  <2>2. \A n \in sent' : n.tpdu = Request(submitted) /\ submitted > 0
    BY <1>4, <1>6, <2>1 DEF A!Buffer
  <2>3. CASE A!GivesUp(a)
    <3>1. a' = [a EXCEPT !.active = FALSE]
      <4>1. ~A!Resends(a)
        BY <2>1, <2>3, NumbersAssumption DEF A!Resends, A!GivesUp
      <4> QED BY <1>6, <2>3, <4>1 DEF A!Swept
    <3>2. aCalls' = {[op |-> "APP_TransmitConfirm", handle |-> submitted,
                      status |-> "MAX_RETRIES_EXCEEDED", data |-> NoData]}
      BY <1>4, <1>5, <1>6, <2>1, <2>3
    <3>3. aTable' \in [0 .. 3 -> A!Entry] /\ aCalls' \subseteq A!Upcall
      <4>1. a' \in A!Entry
        BY <3>1, InvFacts DEF A!Entry
      <4>2. submitted \in A!Handles
        BY <2>1, InvFacts DEF A!Handles, Requests, Told
      <4> QED BY <1>4, <1>5, <1>6, <3>2, <4>1, <4>2, InvFacts DEF A!Upcall, A!Statuses
    <3>4. /\ TypeOK' /\ OthersUnused' /\ joined' /\ session' = OneSession
          /\ \E e \in 0 .. submitted' : Upto(e)'
      BY <1>2, <1>5, <2>2, <3>3, AKeepsRest
    <3>5. MasterSound'
      BY <1>2, <2>1, <3>1, InvFacts DEF MasterSound, IInv, A!Entry
    <3>6. ConfirmsSound'
      BY <1>2, <2>1, <3>1, <3>2, InvFacts DEF ConfirmsSound, A!Entry
    <3>7. OutcomesSound'
      BY <1>2, <3>2 DEF OutcomesSound, IInv
    <3> QED BY <3>4, <3>5, <3>6, <3>7 DEF IInv
  <2>4. CASE ~A!GivesUp(a)
    <3>1. aCalls' = {}
      BY <1>4, <1>5, <1>6, <2>4
    <3>2. \E t \in 0 .. ReplyTime, r \in 0 .. MaxRetries :
             a' = [a EXCEPT !.timer = t, !.retry = r]
      <4>1. CASE A!Resends(a)
        <5>1. a' = [a EXCEPT !.timer = ReplyTime, !.retry = a.retry + 1]
          BY <1>6, <4>1 DEF A!Swept
        <5>2. ReplyTime \in 0 .. ReplyTime /\ a.retry + 1 \in 0 .. MaxRetries
          BY <2>1, <4>1, NumbersAssumption DEF A!Resends
        <5> QED BY <5>1, <5>2, Zenon
      <4>2. CASE ~A!Resends(a)
        <5>1. a' = [a EXCEPT !.timer = a.timer - 1]
          BY <1>6, <1>8, <2>4, <4>2 DEF A!Swept
        <5>2. a.timer # 0
          BY <1>8, <2>1, <2>4, <4>2, NumbersAssumption
          DEF A!Resends, A!GivesUp, A!TimedOut
        <5>3. a' = [a EXCEPT !.timer = a.timer - 1, !.retry = a.retry]
          BY <5>1, InvFacts DEF A!Entry
        <5>4. a.timer - 1 \in 0 .. ReplyTime
          BY <2>1, <5>2, NumbersAssumption
        <5> QED BY <2>1, <5>3, <5>4, Zenon
      <4> QED BY <4>1, <4>2
    <3>3. /\ a' \in A!Entry /\ a'.timer \in 0 .. ReplyTime
          /\ a'.used /\ a'.active /\ a'.master /\ ~a'.bcast /\ a'.buffered
          /\ a'.seq = a.seq /\ a'.handle = a.handle /\ a'.tpdu = a.tpdu
      <4>1. PICK t \in 0 .. ReplyTime, r \in 0 .. MaxRetries :
               a' = [a EXCEPT !.timer = t, !.retry = r]
        BY <3>2
      <4>2. t \in A!Timers
        BY DEF A!Timers
      <4>3. a' \in A!Entry
        BY <4>1, <4>2, InvFacts DEF A!Entry
      <4>4. /\ a'.timer = t /\ a'.used = a.used /\ a'.active = a.active
            /\ a'.master = a.master /\ a'.bcast = a.bcast /\ a'.buffered = a.buffered
            /\ a'.seq = a.seq /\ a'.handle = a.handle /\ a'.tpdu = a.tpdu
        BY <4>1, InvFacts DEF A!Entry
      <4> QED BY <2>1, <4>3, <4>4
    <3>4. aTable' \in [0 .. 3 -> A!Entry]
      BY <1>4, <1>5, <1>6, <3>3, InvFacts
    <3>5. /\ TypeOK' /\ OthersUnused' /\ joined' /\ session' = OneSession
          /\ \E e \in 0 .. submitted' : Upto(e)'
      BY <1>2, <1>5, <2>2, <3>1, <3>4, AKeepsRest
    <3>6. MasterSound' /\ ConfirmsSound' /\ OutcomesSound'
      BY <1>2, <2>1, <3>1, <3>3, InvFacts
      DEF IInv, MasterSound, ConfirmsSound, OutcomesSound, A!Entry
    <3> QED BY <3>5, <3>6 DEF IInv
  <2> QED BY <2>3, <2>4
<1> QED BY <1>7, <1>8

LEMMA A_ReceiveKeeps ==
    ASSUME IInv, A_Receive
    PROVE  IInv'
<1>1. PICK m \in DOMAIN net, h \in PacketHandles :
          /\ m.to = "A" /\ A!TL_ResponseIndicate(1, h, m.tpdu)
          /\ UNCHANGED <<bTable, bCalls, submitted, executed, outcome>>
          /\ Carry(net (-) SetToBag({m}), "B")
  BY DEF A_Receive, InFlight, BagToSet, Slot
<1>2. PICK e \in 0 .. submitted : Upto(e)
  BY DEF IInv
<1>3. PacketSound(e, m)
  BY <1>1, <1>2 DEF Upto, NetSound
<1>4. PICK n \in 1 .. e :
          /\ m.tpdu = Response(n) /\ executed[n] = 1
          /\ m.born <= n + MaxLost
          /\ n < e => m.born <= n + MaxAge
  BY <1>1, <1>3 DEF PacketSound
<1>5. /\ n \in Requests /\ n \in Nat /\ n > 0 /\ n <= submitted
      /\ submitted - n < SeqMod /\ n - submitted < SeqMod
  <2>1. e \in Nat /\ submitted <= e + MaxLost
    BY <1>2, InvFacts DEF Upto, ExecutedSound
  <2>2. m.born \in Nat /\ submitted < m.born + MaxAge
    BY <1>3, InvFacts DEF PacketSound
  <2>3. CASE n = e
    BY <2>1, <2>3, InvFacts DEF Requests
  <2>4. CASE n < e
    BY <1>4, <2>1, <2>2, <2>4, InvFacts DEF Requests
  <2> QED BY <2>1, <2>3, <2>4
<1>6. /\ aCalls = {} /\ sent' = {}
      /\ UNCHANGED <<joined, session>>
  BY <1>1 DEF A_Receive, A!TL_ResponseIndicate
<1>7. IsABag(net (-) SetToBag({m})) /\ DOMAIN (net (-) SetToBag({m})) \subseteq DOMAIN net
  BY TakenLemma DEF IInv, TypeOK
<1>8. CASE A!Answers(a, m.tpdu)
  <2>1. /\ a.used
        /\ aCalls' = {[op |-> "APP_TransmitConfirm", handle |-> a.handle,
                       status |-> "SUCCESS", data |-> m.tpdu.data]}
        /\ aTable' = [aTable EXCEPT ![2].active = FALSE]
    BY <1>1, <1>6, <1>8, Layout DEF A!TL_ResponseIndicate, a, Slot
  <2>2. n = submitted
    <3>1. Number(n) = Number(submitted)
      BY <1>4, <1>8, <2>1 DEF A!Answers, Response, IInv, MasterSound
    <3> QED BY <1>5, <3>1, SameNumber, InvFacts
  <2>3. a' = [a EXCEPT !.active = FALSE] /\ a' \in A!Entry /\ a' = aTable'[2]
    <3>1. a' = aTable'[2]
      BY Layout DEF a
    <3>2. a' = [a EXCEPT !.active = FALSE]
      BY <2>1, <3>1, InvFacts
    <3> QED BY <3>1, <3>2, InvFacts DEF A!Entry
  <2>4. /\ aTable' \in [0 .. 3 -> A!Entry]
        /\ \A j \in 0 .. 3 : j # 2 => aTable'[j] = aTable[j]
    BY <2>1, <2>3, InvFacts
  <2>5. a.handle = submitted \/ a.handle = RefusedHandle
    BY <2>1 DEF IInv, MasterSound
  <2>6. aCalls' \subseteq A!Upcall
    <3>1. m.tpdu.data = n /\ n \in Told
      BY <1>4, <1>5 DEF Response, Told
    <3>2. a.handle \in A!Handles
      BY <1>5, <2>2, <2>5 DEF A!Handles, Told
    <3> QED BY <2>1, <3>1, <3>2 DEF A!Upcall, A!Statuses
  <2>7. /\ TypeOK' /\ OthersUnused' /\ joined' /\ session' = OneSession
        /\ \E i \in 0 .. submitted' : Upto(i)'
    <3>1. UNCHANGED <<joined, session, bTable, bCalls, submitted, executed, outcome>>
      BY <1>1, <1>6
    <3> QED BY <1>1, <1>6, <1>7, <2>4, <2>6, <3>1, AKeepsRest
  <2>8. MasterSound'
    BY <1>1, <2>3, InvFacts DEF MasterSound, IInv, A!Entry
  <2>9. ConfirmsSound'
    <3>1. ~a'.active
      BY <2>3, InvFacts DEF A!Entry
    <3> QED BY <1>1, <1>4, <1>5, <2>1, <2>2, <2>5, <3>1 DEF ConfirmsSound
  <2>10. OutcomesSound'
    <3>1. a.active => a.handle = submitted
      BY DEF IInv, MasterSound
    <3> QED BY <1>1, <1>6, <2>1, <3>1 DEF OutcomesSound, IInv
  <2> QED BY <2>7, <2>8, <2>9, <2>10 DEF IInv
<1>9. CASE ~A!Answers(a, m.tpdu)
  <2>1. /\ aCalls' = {[op |-> "APP_TransmitConfirm", handle |-> h,
                       status |-> "INVALID_SEQUENCE_NUMBER", data |-> NoData]}
        /\ aTable' = aTable
    BY <1>1, <1>6, <1>9, Layout DEF A!TL_ResponseIndicate, a, Slot
  <2>2. a' = a
    BY <2>1 DEF a
  <2>3. aCalls' \subseteq A!Upcall
    BY <2>1 DEF A!Upcall, A!Statuses, A!Handles
  <2>4. /\ TypeOK' /\ OthersUnused' /\ joined' /\ session' = OneSession
        /\ \E i \in 0 .. submitted' : Upto(i)'
    <3>1. UNCHANGED <<joined, session, bTable, bCalls, submitted, executed, outcome>>
      BY <1>1, <1>6
    <3> QED BY <1>1, <1>6, <1>7, <2>1, <2>3, <3>1, InvFacts, AKeepsRest
  <2>5. MasterSound'
    BY <1>1, <2>2 DEF MasterSound, IInv
  <2>6. ConfirmsSound'
    BY <2>1 DEF ConfirmsSound
  <2>7. OutcomesSound'
    BY <1>1, <1>6, <2>2 DEF OutcomesSound, IInv
  <2> QED BY <2>4, <2>5, <2>6, <2>7 DEF IInv
<1> QED BY <1>8, <1>9

LEMMA A_ConfirmKeeps ==
    ASSUME IInv, A_Confirm
    PROVE  IInv'
<1>1. PICK c \in aCalls :
          /\ outcome' = IF c.handle \in Told
                        THEN [outcome EXCEPT ![c.handle] =
                                IF c.status = "SUCCESS" THEN "answered" ELSE "failed"]
                        ELSE outcome
          /\ aCalls' = aCalls \ {c}
  BY DEF A_Confirm
<1>2. UNCHANGED <<joined, session, aTable, bTable, bCalls, net, submitted, executed>>
  BY DEF A_Confirm, fixed
<1>3. aCalls = {c} /\ aCalls' = {}
  BY <1>1 DEF IInv, ConfirmsSound
<1>4. a' = a /\ b' = b
  BY <1>2 DEF a, b
<1>5. outcome' \in [Told -> {"none", "answered", "failed"}]
  BY <1>1 DEF IInv, TypeOK
<1>6. TypeOK' /\ OthersUnused' /\ joined' /\ session' = OneSession
  BY <1>2, <1>3, <1>5 DEF IInv, TypeOK, OthersUnused
<1>7. PICK e \in 0 .. submitted : Upto(e)
  BY DEF IInv
<1>8. Upto(e)'
  BY <1>2, <1>4, <1>7
  DEF Upto, SlaveSound, InHand, ExecutedSound, NetSound, PacketSound, Request, Response, Number
<1>9. CASE c.handle \in Requests
  <2>1. /\ c.handle = submitted /\ submitted > 0 /\ ~a.active
        /\ \/ c.status = "SUCCESS" /\ executed[submitted] = 1
           \/ c.status = "MAX_RETRIES_EXCEEDED"
    <3>1. c.handle \notin PacketHandles \cup {RefusedHandle}
      BY <1>9, ValuesAssumption DEF Requests
    <3> QED BY <3>1 DEF IInv, ConfirmsSound
  <2>2. outcome' = [outcome EXCEPT ![submitted] =
                       IF c.status = "SUCCESS" THEN "answered" ELSE "failed"]
    BY <1>1, <1>9, <2>1 DEF Told
  <2>3. /\ \A k \in Requests : k # submitted => outcome'[k] = outcome[k]
        /\ outcome'[submitted] \in {"answered", "failed"}
        /\ outcome'[submitted] = "answered" => executed[submitted] = 1
    BY <1>9, <2>1, <2>2 DEF IInv, TypeOK, Told
  <2>4. MasterSound' /\ ConfirmsSound' /\ OutcomesSound'
    <3>1. MasterSound'
      BY <1>2, <1>4, <2>1 DEF IInv, MasterSound
    <3>2. OutcomesSound'
      BY <1>2, <1>4, <2>1, <2>3, InvFacts DEF IInv, OutcomesSound, Requests
    <3> QED BY <1>3, <3>1, <3>2 DEF ConfirmsSound
  <2> QED BY <1>2, <1>6, <1>7, <1>8, <2>4 DEF IInv
<1>10. CASE c.handle \notin Requests
  <2>1. \A k \in Requests : outcome'[k] = outcome[k]
    <3>1. outcome \in [Told -> {"none", "answered", "failed"}]
      BY DEF IInv, TypeOK
    <3> QED BY <1>1, <1>10, <3>1 DEF Told
  <2>2. submitted > 0 => c.handle # submitted /\ submitted \in Requests
    BY <1>10, InvFacts DEF Requests
  <2>3. MasterSound' /\ ConfirmsSound'
    BY <1>2, <1>3, <1>4, <2>1, <2>2 DEF IInv, MasterSound, ConfirmsSound
  <2>4. OutcomesSound'
    BY <1>2, <1>3, <1>4, <2>1, <2>2 DEF IInv, OutcomesSound
  <2> QED BY <1>2, <1>6, <1>7, <1>8, <2>3, <2>4 DEF IInv
<1> QED BY <1>9, <1>10

-----------------------------------------------------------------------------
(* End B.                                                                  *)

\* A step of B leaves A and the outcomes alone.
LEMMA BKeepsRest ==
    ASSUME IInv,
           UNCHANGED <<joined, session, aTable, aCalls, submitted, outcome>>,
           bTable' \in [0 .. 3 -> B!Entry], bCalls' \subseteq B!Upcall, IsABag(net'),
           executed' \in [Requests -> {0, 1}],
           \A k \in Requests : executed[k] = 1 => executed'[k] = 1,
           \A j \in 0 .. 3 : j # 3 => bTable'[j] = bTable[j],
           NEW e \in 0 .. submitted, Upto(e)'
    PROVE  IInv'
<1>1. TypeOK'
  <2>1. executed' \in [Requests -> Nat]
    OBVIOUS
  <2> QED BY <2>1, Layout DEF TypeOK, IInv
<1>2. OthersUnused' /\ joined' /\ session' = OneSession
  BY Layout DEF OthersUnused, IInv
<1>3. a' = a
  BY DEF a
<1>4. MasterSound' /\ OutcomesSound'
  BY <1>3 DEF IInv, MasterSound, OutcomesSound, Request, Number
<1>5. ConfirmsSound'
  BY <1>3, InvFacts DEF IInv, ConfirmsSound, Requests
<1> QED BY <1>1, <1>2, <1>4, <1>5 DEF IInv

\* The entry of B while the application has no request in hand.
LEMMA SlaveIdle ==
    ASSUME IInv, bCalls = {}, NEW e \in 0 .. submitted, Upto(e)
    PROVE  /\ b.used <=> e > 0
           /\ b.used => /\ b.active /\ ~b.master /\ b.seq = Number(e)
                        /\ b.buffered /\ b.tpdu = Response(e)
                        /\ PacketSound(e, [to |-> "A", tpdu |-> b.tpdu, born |-> submitted])
<1>1. /\ b.used <=> e > 0
      /\ b.used => /\ b.active /\ ~b.master /\ b.seq = Number(e)
                   /\ b.buffered /\ b.tpdu = Response(e)
  BY DEF Upto, SlaveSound
<1>2. ASSUME b.used
      PROVE  PacketSound(e, [to |-> "A", tpdu |-> b.tpdu, born |-> submitted])
  <2>1. e > 0 /\ b.tpdu = Response(e) /\ executed[e] = 1 /\ submitted <= e + MaxLost
    BY <1>1, <1>2 DEF Upto, ExecutedSound
  <2> QED BY <2>1, InvFacts DEF PacketSound
<1> QED BY <1>1, <1>2

\* A request that B takes for the next one is the next one.
LEMMA NextTaken ==
    ASSUME IInv, bCalls = {}, NEW e \in 0 .. submitted, Upto(e),
           NEW k \in 1 .. submitted, submitted < k + MaxAge,
           B!InSequence(b, Request(k))
    PROVE  e = 0 \/ k = e + 1
<1>1. SUFFICES ASSUME e > 0 PROVE k - 1 = e
  BY InvFacts
<1>2. b.used /\ b.seq = Number(e)
  BY <1>1, SlaveIdle
<1>3. B!PrevSeq(Number(k)) = Number(k - 1)
  <2>1. k - 1 \in Nat /\ (k - 1) + 1 = k
    BY InvFacts
  <2> QED BY <2>1, NumberLemma
<1>4. Number(e) = Number(k - 1)
  BY <1>2, <1>3 DEF B!InSequence, Request
<1>5. submitted <= e + MaxLost
  BY DEF Upto, ExecutedSound
<1>6. (k - 1) - e < SeqMod /\ e - (k - 1) < SeqMod /\ k - 1 \in Nat /\ e \in Nat
  BY <1>5, InvFacts
<1> QED BY <1>4, <1>6, SameNumber

LEMMA B_ReceiveKeeps ==
    ASSUME IInv, B_Receive
    PROVE  IInv'
<1>1. PICK m \in DOMAIN net :
          /\ m.to = "B"
          /\ \/ \E h \in PacketHandles : B!TL_RequestIndicate(1, h, m.tpdu)
             \/ \E rc \in {"SUCCESS"} \cup BRefusals : B!TL_RetryIndicate(1, m.tpdu, rc)
          /\ UNCHANGED <<aTable, aCalls, submitted, executed, outcome>>
          /\ Carry(net (-) SetToBag({m}), "A")
  BY DEF B_Receive, InFlight, BagToSet, Slot
<1>2. PICK e \in 0 .. submitted : Upto(e)
  BY DEF IInv
<1> DEFINE k == m.born
<1>3. /\ k \in 1 .. submitted /\ submitted < k + MaxAge /\ m.tpdu = Request(k)
      /\ k \in Requests
  <2>1. PacketSound(e, m)
    BY <1>2 DEF Upto, NetSound
  <2> QED BY <1>1, <2>1, InvFacts DEF PacketSound, Requests
<1>4. bCalls = {}
  BY DEF B_Receive
<1>5. IsABag(net (-) SetToBag({m})) /\ DOMAIN (net (-) SetToBag({m})) \subseteq DOMAIN net
  BY TakenLemma DEF IInv, TypeOK
<1>6. /\ executed' \in [Requests -> {0, 1}]
      /\ \A i \in Requests : executed[i] = 1 => executed'[i] = 1
  BY <1>1, <1>2 DEF Upto, ExecutedSound
<1>7. ExecutedSound(e)'
  BY <1>1, <1>2 DEF Upto, ExecutedSound
<1>8. ASSUME NEW h \in PacketHandles, B!TL_RequestIndicate(1, h, m.tpdu)
      PROVE  IInv'
  <2> DEFINE new == [used |-> TRUE, active |-> TRUE, master |-> FALSE, bcast |-> FALSE,
                     seq |-> B!PrevSeq(Number(k)), retry |-> 0, timer |-> 0, handle |-> h,
                     buffered |-> FALSE, tpdu |-> Request(k)]
             call == [op |-> "APP_TransmitIndicate", handle |-> h, session |-> 1,
                      tpdu |-> Request(k)]
  <2>1. /\ B!InSequence(b, Request(k))
        /\ bCalls' = {call} /\ sent' = {} /\ UNCHANGED <<joined, session>>
    BY <1>3, <1>4, <1>8, Layout DEF B!TL_RequestIndicate, b, Slot
  <2>2. bTable' = [bTable EXCEPT ![3] = new]
    <3>1. /\ (b.used => b.active) = TRUE /\ (b.used /\ b.master) = FALSE
          /\ B!IsBroadcastTT(Request(k).tt) = FALSE
          /\ B!StoredNumber(Request(k)) = B!PrevSeq(Number(k))
      BY <1>2, <1>4, SlaveIdle
      DEF B!IsBroadcastTT, B!StoredNumber, Request, A!REQ_UNICAST
    <3>2. B!Slave(1) = 3 /\ b = bTable[3]
      BY Layout DEF Slot, b
    <3> HIDE DEF k
    <3> QED BY <1>3, <1>8, <3>1, <3>2 DEF B!TL_RequestIndicate
  <2>3. new \in B!Entry /\ call \in B!Upcall
    <3>1. Request(k) \in B!Tpdu
      BY <1>3, RequestsAreTpdus
    <3>2. B!PrevSeq(Number(k)) \in B!Seqs
      <4>1. k - 1 \in Nat /\ (k - 1) + 1 = k
        BY <1>3, InvFacts
      <4>2. B!PrevSeq(Number(k)) = Number(k - 1) /\ Number(k - 1) \in 0 .. SeqMod - 1
        BY <4>1, NumberLemma
      <4> QED BY <4>2 DEF B!Seqs
    <3> HIDE DEF k
    <3>3. 0 \in B!Timers /\ 0 \in 0 .. MaxRetries /\ 1 \in B!Sessions /\ h \in B!Handles
      BY NumbersAssumption, Layout DEF B!Timers, B!Handles
    <3> QED BY <3>1, <3>2, <3>3 DEF B!Entry, B!Upcall
  <2>4. /\ bTable' \in [0 .. 3 -> B!Entry] /\ b' = new
        /\ \A j \in 0 .. 3 : j # 3 => bTable'[j] = bTable[j]
    <3> HIDE DEF new
    <3> QED BY <2>2, <2>3, InvFacts, Layout DEF b
  <2>5. IsABag(net') /\ NetSound(e)'
    BY <1>1, <1>2, <1>5, <2>1, NetKept DEF Upto
  <2>6. e = 0 \/ k = e + 1
    BY <1>2, <1>3, <1>4, <2>1, NextTaken
  <2>7. InHand(e, call)'
    <3>1. /\ b'.used /\ b'.seq = B!PrevSeq(Number(k)) /\ b'.tpdu = Request(k)
          /\ call.tpdu = Request(k) /\ submitted' = submitted
      BY <1>1, <2>4
    <3> HIDE DEF k, call
    <3> QED BY <1>3, <2>6, <3>1 DEF InHand
  <2>8. SlaveSound(e)'
    <3>1. b'.active /\ ~b'.master
      BY <2>4
    <3> HIDE DEF k, call, new
    <3> QED BY <2>1, <2>7, <3>1 DEF SlaveSound
  <2>9. bCalls' \subseteq B!Upcall
    BY <2>1, <2>3
  <2> HIDE DEF k, call, new
  <2> QED BY <1>1, <1>6, <1>7, <2>1, <2>4, <2>5, <2>8, <2>9, BKeepsRest DEF Upto
<1>9. ASSUME NEW rc \in {"SUCCESS"} \cup BRefusals, B!TL_RetryIndicate(1, m.tpdu, rc)
      PROVE  IInv'
  <2>1. B!RetryHome(1, m.tpdu.tt) = 1
    BY <1>3
    DEF B!RetryHome, B!ToUnicast, B!SEARCH_BROADCAST, Request, A!REQ_UNICAST
  <2>2. /\ b.used /\ \A n \in sent' : n.tpdu = b.tpdu
        /\ UNCHANGED <<joined, session, bTable, bCalls>>
    BY <1>9, <2>1, Layout DEF B!TL_RetryIndicate, B!tables, b, Slot
  <2>3. IsABag(net') /\ NetSound(e)'
    BY <1>1, <1>2, <1>4, <1>5, <2>2, SlaveIdle, NetKept DEF Upto
  <2>4. SlaveSound(e)'
    <3>1. b' = b
      BY <2>2 DEF b
    <3> QED BY <1>2, <1>4, <2>2, <3>1 DEF Upto, SlaveSound, Response, Number
  <2> QED BY <1>1, <1>2, <1>6, <1>7, <2>2, <2>3, <2>4, InvFacts, BKeepsRest DEF Upto, IInv, TypeOK
<1> QED BY <1>1, <1>8, <1>9

LEMMA B_ExecuteKeeps ==
    ASSUME IInv, B_Execute
    PROVE  /\ IInv'
           /\ \E k \in Requests :
                 /\ k <= submitted /\ executed[k] = 0
                 /\ executed' = [executed EXCEPT ![k] = 1]
<1>1. PICK c \in bCalls, j \in B!Entries, rc \in {"SUCCESS"} \cup BRefusals :
          /\ B!TL_TransmitRsp(j, c.handle, c.tpdu.seq, c.tpdu.data, rc)
          /\ executed' = [executed EXCEPT ![c.tpdu.data] = @ + 1]
          /\ bCalls' = bCalls \ {c}
  BY DEF B_Execute
<1>2. UNCHANGED <<aTable, aCalls, submitted, outcome>> /\ Carry(net, "A")
  BY DEF B_Execute
<1>3. PICK e \in 0 .. submitted : Upto(e)
  BY DEF IInv
<1>4. PICK k \in 1 .. submitted :
          /\ e = 0 \/ k = e + 1
          /\ submitted < k + MaxAge
          /\ c.tpdu = Request(k) /\ b.tpdu = Request(k)
          /\ b.used /\ b.seq = B!PrevSeq(Number(k))
  BY <1>1, <1>3 DEF Upto, SlaveSound, InHand
<1>5. /\ k \in Requests /\ k > e /\ k \in Nat /\ e \in Nat /\ executed[k] = 0
      /\ b.active /\ ~b.master
      /\ bCalls' = {}
      /\ c.tpdu.seq = Number(k) /\ c.tpdu.data = k /\ k # NoData
  <2>1. k \in Requests /\ k > e /\ k \in Nat /\ e \in Nat
    BY <1>4, InvFacts DEF Requests
  <2>2. b.active /\ ~b.master /\ bCalls' = {}
    BY <1>1, <1>3, <1>4 DEF Upto, SlaveSound
  <2> QED BY <1>3, <1>4, <2>1, <2>2, RequestsAreTpdus DEF Upto, ExecutedSound, Request
<1>6. executed' = [executed EXCEPT ![k] = 1]
  BY <1>1, <1>3, <1>5 DEF Upto, ExecutedSound
<1>7. j = 3
  BY <1>1, Layout DEF B!TL_TransmitRsp, B!FindTransportEntryByHandle, IInv, OthersUnused
<1>8. B!TL_TransmitRsp(3, c.handle, Number(k), k, rc)
  BY <1>1, <1>5, <1>7
<1>9. /\ 3 \div 2 = 1 /\ bTable[3].tpdu.tt = 2 /\ B!ToUnicast(1) = 1
      /\ B!ResponseHome(1, 2) = 1 /\ B!Slave(1) = 3
      /\ B!ResponseType(2) = 3
  BY <1>4, InvFacts, Layout
  DEF B!ToUnicast, B!ResponseHome, B!ResponseType, B!Slave, B!SEARCH_BROADCAST,
      B!PUBLISH_BROADCAST, B!REQ_BROADCAST, B!REQ_UNICAST, B!RESP_UNICAST, Request,
      A!REQ_UNICAST
<1>10. Response(k) = [tt |-> 3, seq |-> Number(k), data |-> k]
  BY DEF Response, A!RESP_UNICAST
<1>11. \E t \in {b.timer, B!TLRetryMark} :
          /\ bTable' = [x \in 0 .. 3 |->
                IF x = 3 THEN [b EXCEPT !.seq = Number(k), !.handle = NoHandle,
                                        !.buffered = TRUE, !.tpdu = Response(k), !.timer = t]
                ELSE bTable[x]]
          /\ \A n \in sent' : n.tpdu = Response(k)
          /\ UNCHANGED <<joined, session>>
  <2>1. bTable \in [0 .. 3 -> B!Entry] /\ b = bTable[3] /\ B!Entries = 0 .. 3
    BY InvFacts, Layout
  <2> DEFINE tt == bTable[3].tpdu.tt
             home == B!ResponseHome(3 \div 2, tt)
             pdu == [tt |-> B!ResponseType(tt), seq |-> Number(k), data |-> k]
             dropped == {3, B!Slave(B!ToUnicast(3 \div 2)), B!Slave(home)}
             reply(x) == IF k = NoData THEN [x EXCEPT !.buffered = FALSE]
                         ELSE [x EXCEPT !.buffered = TRUE, !.tpdu = pdu,
                                  !.timer = IF rc = "DLL_OUT_OF_MEMORY"
                                            THEN B!TLRetryMark ELSE x.timer]
             advance(x, f) == IF x = 3 THEN [f EXCEPT !.seq = Number(k)] ELSE f
             forget(x, f)  == IF x \in dropped THEN [f EXCEPT !.handle = NoHandle] ELSE f
             store(x, f)   == IF x = B!Slave(home) THEN reply(f) ELSE f
  <2>2. /\ bTable' = [x \in 0 .. 3 |-> store(x, forget(x, advance(x, bTable[x])))]
        /\ \A n \in sent' : n.tpdu = pdu
        /\ UNCHANGED <<joined, session>>
    BY <1>8, <2>1 DEF B!TL_TransmitRsp
  <2>3. dropped = {3} /\ B!Slave(home) = 3 /\ pdu = Response(k) /\ k # NoData
    BY <1>5, <1>9, <1>10
  <2> HIDE DEF dropped, home, pdu, tt
  <2> DEFINE t == IF rc = "DLL_OUT_OF_MEMORY" THEN B!TLRetryMark ELSE b.timer
  <2>4. ASSUME NEW x \in 0 .. 3, x # 3
        PROVE  store(x, forget(x, advance(x, bTable[x]))) = bTable[x]
    BY <2>3, <2>4
  <2>5. store(3, forget(3, advance(3, bTable[3])))
           = [b EXCEPT !.seq = Number(k), !.handle = NoHandle,
                       !.buffered = TRUE, !.tpdu = Response(k), !.timer = t]
    BY <2>1, <2>3 DEF B!Entry
  <2>6. t \in {b.timer, B!TLRetryMark}
    OBVIOUS
  <2> HIDE DEF store, forget, advance, t
  <2> QED BY <2>2, <2>3, <2>4, <2>5, <2>6
<1>12. PICK t \in {b.timer, B!TLRetryMark} :
          bTable' = [x \in 0 .. 3 |->
                IF x = 3 THEN [b EXCEPT !.seq = Number(k), !.handle = NoHandle,
                                        !.buffered = TRUE, !.tpdu = Response(k), !.timer = t]
                ELSE bTable[x]]
  BY <1>11
<1>13. /\ b' \in B!Entry /\ b'.used /\ b'.active /\ ~b'.master
       /\ b'.seq = Number(k) /\ b'.buffered /\ b'.tpdu = Response(k)
       /\ b' = bTable'[3]
  <2>1. b' = bTable'[3]
    BY Layout DEF b
  <2>2. b' = [b EXCEPT !.seq = Number(k), !.handle = NoHandle,
                       !.buffered = TRUE, !.tpdu = Response(k), !.timer = t]
    BY <1>12, <2>1
  <2>3. t \in B!Timers /\ Number(k) \in B!Seqs /\ Response(k) \in B!Tpdu
    BY <1>5, InvFacts, RequestsAreTpdus, NumberLemma DEF B!Entry, B!Timers, B!Seqs
  <2>4. b' \in B!Entry
    BY <2>2, <2>3, InvFacts DEF B!Entry
  <2>5. /\ b'.used = b.used /\ b'.active = b.active /\ b'.master = b.master
        /\ b'.seq = Number(k) /\ b'.buffered = TRUE /\ b'.tpdu = Response(k)
    BY <2>2, InvFacts DEF B!Entry
  <2> QED BY <1>4, <1>5, <2>1, <2>4, <2>5
<1>14. /\ bTable' \in [0 .. 3 -> B!Entry]
       /\ \A x \in 0 .. 3 : x # 3 => bTable'[x] = bTable[x]
  <2> DEFINE new == [b EXCEPT !.seq = Number(k), !.handle = NoHandle,
                       !.buffered = TRUE, !.tpdu = Response(k), !.timer = t]
  <2> HIDE DEF new
  <2>1. bTable' = [x \in 0 .. 3 |-> IF x = 3 THEN new ELSE bTable[x]]
    BY <1>12 DEF new
  <2> QED BY <1>13, <2>1, InvFacts
<1>15. /\ executed' \in [Requests -> {0, 1}] /\ executed'[k] = 1
       /\ \A i \in Requests : i # k => executed'[i] = executed[i]
  BY <1>3, <1>5, <1>6 DEF Upto, ExecutedSound
<1>16. ExecutedSound(k)'
  <2>1. \A i \in Requests : i > k => executed'[i] = 0
    BY <1>3, <1>5, <1>15 DEF Upto, ExecutedSound, Requests
  <2>2. submitted <= k + MaxLost
    BY <1>3, <1>4, <1>5, InvFacts DEF Upto, ExecutedSound
  <2> QED BY <1>2, <1>5, <1>15, <2>1, <2>2 DEF ExecutedSound
<1>17. SlaveSound(k)'
  <2>1. bCalls' = {} /\ k > 0 /\ b'.used /\ b'.active /\ ~b'.master /\ b'.seq = Number(k)
        /\ b'.buffered /\ b'.tpdu = Response(k)
    BY <1>5, <1>13
  <2> QED BY <2>1 DEF SlaveSound
<1>18. IsABag(net') /\ NetSound(k)'
  <2>1. /\ IsABag(net')
        /\ \A m \in DOMAIN net' :
              \/ m \in DOMAIN net
              \/ m = [to |-> "A", tpdu |-> Response(k), born |-> submitted]
    BY <1>2, <1>11, CarryLemma DEF IInv, TypeOK
  <2>2. ASSUME NEW m \in DOMAIN net PROVE PacketSound(k, m)'
    <3>1. PacketSound(e, m) /\ submitted' = submitted
      BY <1>2, <1>3 DEF Upto, NetSound
    <3>2. CASE m.to = "B"
      BY <3>1, <3>2 DEF PacketSound
    <3>3. CASE m.to = "A"
      <4>1. PICK n \in 1 .. e : /\ m.tpdu = Response(n) /\ executed[n] = 1
                                /\ m.born <= n + MaxLost
                                /\ n < e => m.born <= n + MaxAge
        BY <3>1, <3>3 DEF PacketSound
      <4>2. n \in 1 .. k /\ n < k /\ n # k /\ n \in Requests
        BY <1>4, <1>5, InvFacts DEF Requests
      <4>3. executed'[n] = 1
        BY <1>15, <4>1, <4>2
      <4>4. m.born <= n + MaxAge
        <5>1. CASE n < e
          BY <4>1, <5>1
        <5>2. CASE n = e
          <6>1. k = n + 1 /\ m.born \in 0 .. submitted
            BY <1>4, <3>1, <5>2 DEF PacketSound
          <6> QED BY <1>4, <1>5, <6>1, InvFacts
        <5> QED BY <1>5, <5>1, <5>2
      <4> QED BY <3>1, <3>3, <4>1, <4>2, <4>3, <4>4 DEF PacketSound
    <3> QED BY <3>1, <3>2, <3>3 DEF PacketSound
  <2>3. ASSUME NEW m, m = [to |-> "A", tpdu |-> Response(k), born |-> submitted]
        PROVE  PacketSound(k, m)'
    <3>1. submitted' <= k + MaxLost /\ submitted' = submitted /\ k \in 1 .. k
      BY <1>2, <1>5, <1>16 DEF ExecutedSound
    <3>2. m.to = "A" /\ m.born = submitted /\ m.tpdu = Response(k)
      BY <2>3
    <3> QED BY <1>15, <3>1, <3>2, InvFacts DEF PacketSound
  <2> QED BY <2>1, <2>2, <2>3 DEF NetSound
<1>19. IInv'
  <2>1. \A i \in Requests : executed[i] = 1 => executed'[i] = 1
    BY <1>15
  <2>2. Upto(k)' /\ k \in 0 .. submitted /\ bCalls' \subseteq B!Upcall
    BY <1>5, <1>16, <1>17, <1>18, InvFacts DEF Upto
  <2> QED BY <1>2, <1>11, <1>14, <1>15, <1>18, <2>1, <2>2, BKeepsRest
<1>20. k <= submitted
  BY <1>4, InvFacts
<1> QED BY <1>5, <1>6, <1>19, <1>20, Zenon

LEMMA B_doRetryKeeps ==
    ASSUME IInv, B_doRetry
    PROVE  IInv'
<1>1. PICK taken \in SUBSET {3} : B!TL_doRetry(taken)
  BY Layout DEF B_doRetry
<1>2. /\ bCalls = {} /\ Carry(net, "A") /\ IsABag(net)
      /\ UNCHANGED <<joined, session, aTable, aCalls, submitted, executed, outcome>>
  BY <1>1 DEF B_doRetry, B!TL_doRetry, IInv, TypeOK
<1>3. PICK e \in 0 .. submitted : Upto(e)
  BY DEF IInv
<1>4. \A j \in 0 .. 3 : ~B!Waiting(bTable[j])
  <2>1. \A j \in 0 .. 3 : j # 3 => ~bTable[j].used
    BY Layout DEF IInv, OthersUnused
  <2>2. ~B!Waiting(bTable[3])
    BY <1>2, <1>3, InvFacts, SlaveIdle DEF B!Waiting
  <2> QED BY <2>1, <2>2 DEF B!Waiting
<1>5. /\ bTable' = [j \in 0 .. 3 |-> B!Swept(bTable[j], j \in taken)]
      /\ \A n \in sent' : /\ B!Marked(b) /\ n.tpdu = B!Buffer(b)
      /\ bCalls' = {}
  <2>1. \A j \in 0 .. 3 : ~B!Resends(bTable[j]) /\ ~B!GivesUp(bTable[j])
    BY <1>4 DEF B!Resends, B!GivesUp, B!TimedOut
  <2> QED BY <1>1, <1>2, <2>1, InvFacts, Layout DEF B!TL_doRetry, B!Abandoned
<1>6. \A j \in 0 .. 3 : bTable'[j] \in {bTable[j], [bTable[j] EXCEPT !.timer = 0]}
  BY <1>4, <1>5 DEF B!Swept, B!Resends, B!GivesUp, B!TimedOut
<1>7. \A j \in 0 .. 3 : j # 3 => bTable'[j] = bTable[j]
  BY <1>4, <1>5, Layout
  DEF B!Swept, B!Resends, B!GivesUp, B!TimedOut, B!Marked, IInv, OthersUnused
<1>8. /\ b' \in B!Entry /\ b' = bTable'[3]
      /\ b'.used = b.used /\ b'.active = b.active /\ b'.master = b.master
      /\ b'.seq = b.seq /\ b'.buffered = b.buffered /\ b'.tpdu = b.tpdu
  <2>1. b' = bTable'[3] /\ b' \in {b, [b EXCEPT !.timer = 0]}
    BY <1>6, InvFacts, Layout DEF b
  <2>2. 0 \in B!Timers
    BY NumbersAssumption DEF B!Timers
  <2> QED BY <2>1, <2>2, InvFacts DEF B!Entry
<1>9. bTable' \in [0 .. 3 -> B!Entry]
  BY <1>5, <1>7, <1>8, InvFacts
<1>10. SlaveSound(e)'
  <2>1. (b'.used <=> e > 0) /\ (b'.used => /\ b'.active /\ ~b'.master /\ b'.seq = Number(e)
                                           /\ b'.buffered /\ b'.tpdu = Response(e))
    BY <1>2, <1>3, <1>8, SlaveIdle
  <2> QED BY <1>5, <2>1 DEF SlaveSound
<1>11. ExecutedSound(e)' /\ executed' \in [Requests -> {0, 1}]
  BY <1>2, <1>3 DEF Upto, ExecutedSound
<1>12. IsABag(net') /\ NetSound(e)'
  <2>1. ASSUME NEW n \in sent'
        PROVE  PacketSound(e, [to |-> "A", tpdu |-> n.tpdu, born |-> submitted])
    <3>1. b.used /\ n.tpdu = B!Buffer(b)
      BY <1>5, <2>1 DEF B!Marked
    <3>2. /\ n.tpdu = b.tpdu
          /\ PacketSound(e, [to |-> "A", tpdu |-> b.tpdu, born |-> submitted])
      BY <1>2, <1>3, <3>1, SlaveIdle DEF B!Buffer
    <3> QED BY <3>2
  <2> QED BY <1>2, <1>3, <2>1, NetKept DEF Upto
<1> QED
  BY <1>2, <1>3, <1>5, <1>7, <1>9, <1>10, <1>11, <1>12, BKeepsRest DEF Upto

-----------------------------------------------------------------------------
(* The theorems.                                                           *)

LEMMA InitialIInv ==
    ASSUME Init
    PROVE  IInv
<1>1. /\ A!InitialEntry \in A!Entry /\ B!InitialEntry \in B!Entry
      /\ ~A!InitialEntry.used /\ ~B!InitialEntry.used /\ ~A!InitialEntry.active
  BY NumbersAssumption
  DEF A!InitialEntry, B!InitialEntry, A!Entry, B!Entry, A!Seqs, B!Seqs, A!Timers, B!Timers,
      A!Tpdu, B!Tpdu, A!TransportTypes, B!TransportTypes
<1>2. a = A!InitialEntry /\ b = B!InitialEntry
  BY Layout DEF Init, a, b
<1>3. IsABag(net) /\ DOMAIN net = {}
  <2>1. net = [m \in {} |-> 1]
    BY DEF Init, EmptyBag, SetToBag
  <2>2. DOMAIN net = {} /\ net \in [{} -> {n \in Nat : n > 0}]
    BY <2>1
  <2> QED BY <2>2 DEF IsABag
<1>4. MaxRequests \in Nat /\ MaxLost \in Nat
  BY AgeAssumption
<1>5. TypeOK
  BY <1>1, <1>3, <1>4 DEF Init, TypeOK
<1>6. OthersUnused /\ joined /\ session = OneSession
  BY <1>1 DEF Init, OthersUnused
<1>7. MasterSound /\ ConfirmsSound /\ OutcomesSound
  BY <1>1, <1>2, <1>4 DEF Init, MasterSound, ConfirmsSound, OutcomesSound, Requests, Told
<1>8. Upto(0) /\ 0 \in 0 .. submitted
  BY <1>1, <1>2, <1>3, <1>4
  DEF Init, Upto, SlaveSound, ExecutedSound, NetSound, Requests
<1> QED BY <1>5, <1>6, <1>7, <1>8 DEF IInv

LEMMA StutterKeeps ==
    ASSUME IInv, UNCHANGED vars
    PROVE  IInv'
<1>1. a' = a /\ b' = b
  BY DEF a, b, vars, ends
<1>2. PICK e \in 0 .. submitted : Upto(e)
  BY DEF IInv
<1>3. Upto(e)'
  BY <1>1, <1>2
  DEF vars, ends, fixed, Upto, SlaveSound, InHand, ExecutedSound, NetSound, PacketSound, Request,
      Response, Number
<1>4. /\ TypeOK' /\ OthersUnused' /\ joined' /\ session' = OneSession
      /\ MasterSound' /\ ConfirmsSound' /\ OutcomesSound'
  BY <1>1
  DEF vars, ends, fixed, IInv, TypeOK, OthersUnused, MasterSound, ConfirmsSound, OutcomesSound,
      Request, Number
<1> QED BY <1>2, <1>3, <1>4 DEF IInv, vars

LEMMA StepKeeps ==
    ASSUME IInv, [Next]_vars
    PROVE  IInv'
BY A_RequestKeeps, A_RefusedKeeps, A_doRetryKeeps, A_ReceiveKeeps, A_ConfirmKeeps, B_ReceiveKeeps,
   B_ExecuteKeeps, B_doRetryKeeps, StutterKeeps DEF Next

\* The invariant holds in every state.
LEMMA InvariantHolds ==
    Spec => []IInv
<1>1. Init => IInv
  BY InitialIInv
<1>2. IInv /\ [Next]_vars => IInv'
  BY StepKeeps
<1> QED BY <1>1, <1>2, PTL DEF Spec

\* Type correctness: both tables, the upcalls, the packets on their way and what
\* is known of the requests keep their types (the tables of transport_layer.c).
THEOREM TypeCorrect ==
    Spec => []TypeOK
<1>1. IInv => TypeOK
  BY DEF IInv
<1> QED BY <1>1, InvariantHolds, PTL

\* The numbers of the two ends stay in step as long as A has given up nothing: B
\* takes the next request of A, whatever is refused, lost, late or reordered
\* (TL_TransmitRequest and TL_TransmitRsp move the two numbers).
THEOREM InStepAlways ==
    Spec => []InStep
<1>1. ASSUME IInv PROVE InStep
  <2> SUFFICES ASSUME ~GivenUp, a.used, b.used
               PROVE  b.seq \in {a.seq, B!PrevSeq(a.seq)}
    BY DEF InStep
  <2>1. PICK e \in 0 .. submitted : Upto(e)
    BY <1>1 DEF IInv
  <2>2. a.seq = Number(submitted)
    BY <1>1 DEF IInv, MasterSound
  <2>3. \A k \in Requests : k < submitted => executed[k] = 1
    BY <1>1 DEF GivenUp, IInv, OutcomesSound, TypeOK, Told
  <2>4. \A k \in 1 .. submitted : k > e => k = submitted
    BY <1>1, <2>1, <2>3, InvFacts DEF Upto, ExecutedSound, Requests
  <2>5. b.seq = Number(submitted) \/ b.seq = B!PrevSeq(Number(submitted))
    <3>1. CASE bCalls = {}
      <4>1. e > 0 /\ b.seq = Number(e)
        BY <1>1, <2>1, <3>1, SlaveIdle
      <4>2. e = submitted \/ submitted = e + 1
        <5>1. e < submitted => e + 1 = submitted
          BY <1>1, <2>4, InvFacts
        <5> QED BY <1>1, <5>1, InvFacts
      <4>3. B!PrevSeq(Number(e + 1)) = Number(e)
        BY <1>1, InvFacts, NumberLemma
      <4> QED BY <4>1, <4>2, <4>3
    <3>2. CASE bCalls # {}
      <4>1. PICK c \in bCalls : InHand(e, c)
        BY <2>1, <3>2 DEF Upto, SlaveSound
      <4>2. PICK k \in 1 .. submitted :
                (e = 0 \/ k = e + 1) /\ b.seq = B!PrevSeq(Number(k))
        BY <4>1 DEF InHand
      <4>3. k > e
        BY <1>1, <4>2, InvFacts
      <4> QED BY <2>4, <4>2, <4>3
    <3> QED BY <3>1, <3>2
  <2> QED BY <2>2, <2>5
<1> QED BY <1>1, InvariantHolds, PTL

\* Two transport layers over a network that loses, delays and reorders implement
\* the exchange of RequestResponse for the requests that A's network layer takes:
\* each is executed at most once, and only one that was executed is answered under
\* its handle (the sequence checks and the buffered response of TL_TransmitIndicate,
\* the number check of its response branch).
THEOREM ExchangeImplemented ==
    Spec => RequestResponseHolds
<1> DEFINE told == [k \in Requests |-> outcome[k]]
           seen == <<submitted, executed, told>>
<1>1. Init => Exchange!Init
  BY DEF Init, Exchange!Init, Exchange!Requests, Requests, Told
<1>2. ASSUME IInv, [Next]_vars PROVE [Exchange!Next]_seen
  <2>1. CASE A_Request
    <3>1. /\ submitted < MaxRequests /\ submitted' = submitted + 1 /\ executed' = executed
          /\ outcome' = outcome
      BY <2>1 DEF A_Request
    <3>2. Exchange!Submit
      BY <3>1 DEF Exchange!Submit
    <3> QED BY <3>2 DEF Exchange!Next
  <2>6. CASE A_Refused
    <3>1. /\ submitted' = submitted /\ executed' = executed
          /\ outcome' = [outcome EXCEPT ![RefusedHandle] = "failed"]
      BY <2>6 DEF A_Refused
    <3>2. RefusedHandle \notin Requests /\ outcome \in [Told -> {"none", "answered", "failed"}]
      BY <1>2, ValuesAssumption DEF IInv, TypeOK, Requests
    <3>3. \A k \in Requests : outcome'[k] = outcome[k]
      BY <3>1, <3>2 DEF Told
    <3>4. told' = told
      BY <3>3
    <3> QED BY <3>1, <3>4
  <2>2. CASE A_Confirm
    <3>1. PICK c \in aCalls :
              outcome' = IF c.handle \in Told
                         THEN [outcome EXCEPT ![c.handle] =
                                 IF c.status = "SUCCESS" THEN "answered" ELSE "failed"]
                         ELSE outcome
      BY <2>2 DEF A_Confirm
    <3>2. submitted' = submitted /\ executed' = executed
      BY <2>2 DEF A_Confirm
    <3>3. CASE c.handle \in Requests
      <4>1. c.handle \notin PacketHandles \cup {RefusedHandle}
        BY <3>3, ValuesAssumption DEF Requests
      <4>2. /\ c.handle = submitted /\ submitted \in Exchange!Requests
            /\ \/ c.status = "SUCCESS" /\ executed[submitted] = 1
               \/ c.status = "MAX_RETRIES_EXCEEDED" /\ outcome[submitted] = "none"
        BY <1>2, <3>3, <4>1 DEF IInv, ConfirmsSound, Requests, Exchange!Requests
      <4>3. told' = [told EXCEPT ![submitted] =
                        IF c.status = "SUCCESS" THEN "answered" ELSE "failed"]
        <5>1. outcome \in [Told -> {"none", "answered", "failed"}]
          BY <1>2 DEF IInv, TypeOK
        <5>2. outcome' = [outcome EXCEPT ![submitted] =
                             IF c.status = "SUCCESS" THEN "answered" ELSE "failed"]
          BY <3>1, <3>3, <4>2 DEF Told
        <5>3. /\ outcome'[submitted] = IF c.status = "SUCCESS" THEN "answered" ELSE "failed"
              /\ \A k \in Requests : k # submitted => outcome'[k] = outcome[k]
              /\ submitted \in Requests
          BY <3>3, <4>2, <5>1, <5>2 DEF Told
        <5> DEFINE o == IF c.status = "SUCCESS" THEN "answered" ELSE "failed"
        <5> HIDE DEF o
        <5>4. \A k \in Requests : outcome'[k] = IF k = submitted THEN o ELSE outcome[k]
          BY <5>3 DEF o
        <5>5. told' = [k \in Requests |-> IF k = submitted THEN o ELSE outcome[k]]
          BY <5>4
        <5>6. [told EXCEPT ![submitted] = o]
                 = [k \in Requests |-> IF k = submitted THEN o ELSE outcome[k]]
          BY <5>3
        <5> QED BY <5>5, <5>6 DEF o
      <4>4. told[submitted] = outcome[submitted]
        BY <3>3, <4>2
      <4> HIDE DEF told
      <4>5. \E k \in Exchange!Requests : Exchange!Answer(k) \/ Exchange!GiveUp(k)
        BY <3>2, <4>2, <4>3, <4>4 DEF Exchange!Answer, Exchange!GiveUp, told
      <4> QED BY <4>5 DEF Exchange!Next
    <3>4. CASE c.handle \notin Requests
      <4>1. outcome \in [Told -> {"none", "answered", "failed"}]
        BY <1>2 DEF IInv, TypeOK
      <4>2. \A k \in Requests : outcome'[k] = outcome[k]
        BY <3>1, <3>4, <4>1 DEF Told
      <4>3. told' = told
        BY <4>2
      <4> QED BY <3>2, <4>3
    <3> QED BY <3>3, <3>4
  <2>3. CASE B_Execute
    <3>1. PICK k \in Requests : /\ k <= submitted /\ executed[k] = 0
                               /\ executed' = [executed EXCEPT ![k] = 1]
      BY <1>2, <2>3, B_ExecuteKeeps
    <3>2. submitted' = submitted /\ outcome' = outcome
      BY <2>3 DEF B_Execute
    <3>3. Exchange!Execute(k) /\ k \in Exchange!Requests
      BY <3>1, <3>2 DEF Exchange!Execute, Exchange!Requests, Requests
    <3> QED BY <3>3 DEF Exchange!Next
  <2>4. CASE A_doRetry \/ A_Receive \/ B_Receive \/ B_doRetry
    BY <2>4 DEF A_doRetry, A_Receive, B_Receive, B_doRetry
  <2>5. CASE UNCHANGED vars
    BY <2>5 DEF vars
  <2> QED BY <1>2, <2>1, <2>2, <2>3, <2>4, <2>5, <2>6 DEF Next
<1> QED
  BY <1>1, <1>2, InvariantHolds, PTL DEF Spec, RequestResponseHolds, Exchange!Spec
===============================================================================
