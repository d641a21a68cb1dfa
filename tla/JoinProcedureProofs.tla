-------------------------- MODULE JoinProcedureProofs --------------------------
(***************************************************************************)
(* The join procedure for every set of advertisers and every limit on the  *)
(* advertisements and retries.                                             *)
(*                                                                         *)
(* The theorems speak of a device up to the moment in which an advertiser  *)
(* is written behind the table.  InTurn and ByMerit need that no           *)
(* advertisement is taken in once a request has been sent, FlagsStand that *)
(* no flag is set while NET_doIdle runs, and none of the superframe and    *)
(* links while a proxy may be changed.                                     *)
(***************************************************************************)
EXTENDS JoinProcedure, SequenceTheorems, TLAPS

Listens == joinState \in {"searching", "advNeighbor"}

\* Where the state machine is, and what it has by then.
Phases ==
    /\ between => netState = "idle" /\ Listens /\ flags = {}
    /\ Listens => attempts = 0
    /\ attempts = 0 <=> advIdx = NoIdx
    /\ joinState = "reqAdmission" => advs # <<>>
    /\ joinState # "looselyCoupled" => flags \intersect Coupling = {}

IInv == TypeOK /\ (~spilled => Phases) /\ InTurn /\ ByMerit

\* What the variables are set to when the procedure starts.
LEMMA StartLemma ==
    /\ <<>> \in Seq(Entries) /\ <<>> \in Seq(Indices) /\ Len(<<>>) <= MaxAdv
    /\ 0 \in 0 .. OverBound /\ 0 \in 0 .. MinAds /\ 0 \in 0 .. MaxJoinRetries + 1
    /\ NoIdx \in Indices \union {NoIdx}
<1>1. /\ <<>> \in Seq(Entries) /\ <<>> \in Seq(Indices) /\ Len(<<>>) <= MaxAdv
  BY DEF MaxAdv
<1>2. 0 \in 0 .. OverBound /\ 0 \in 0 .. MinAds /\ 0 \in 0 .. MaxJoinRetries + 1
  BY BoundAssumption
<1> QED BY <1>1, <1>2

-----------------------------------------------------------------------------
(* The advertisements.                                                     *)

LEMMA KnownLemma ==
    ASSUME TypeOK, ~spilled
    PROVE  /\ Known \in Seq(Entries) /\ Len(Known) <= MaxAdv
           /\ Overs \in 0 .. OverBound /\ Ads \in 0 .. MinAds
BY BoundAssumption DEF TypeOK, Known, Overs, Ads, MaxAdv

\* The table keeps its size and the type of its entries.
LEMMA TableLemma ==
    ASSUME TypeOK, ~spilled, over < OverBound, NEW a \in Advertisers, NEW level \in Levels,
           LET places == {k \in DOMAIN Known : Known[k].id = a}
           IN  IF places = {} THEN AddAdvert([id |-> a, rsl |-> level])
               ELSE \E k \in places : Refresh(k, level)
    PROVE  advs' \in Seq(Entries) /\ Len(advs') <= MaxAdv /\ over' \in 0 .. OverBound
<1>1. /\ Known \in Seq(Entries) /\ Len(Known) <= MaxAdv
      /\ Overs \in 0 .. OverBound /\ Overs < OverBound
  BY KnownLemma, BoundAssumption DEF Overs, TypeOK
<1>2. Overs + 1 \in 0 .. OverBound
  BY <1>1, BoundAssumption
<1>3. ASSUME NEW k \in DOMAIN Known, Refresh(k, level)
      PROVE  advs' \in Seq(Entries) /\ Len(advs') = Len(Known)
             /\ over' \in 0 .. OverBound
  <2>1. Known[k] \in Entries /\ k \in 1 .. Len(Known)
    BY <1>1, <1>3
  <2>2. [Known[k] EXCEPT !.rsl = level] \in Entries
    BY <2>1 DEF Entries
  <2>3. advs' = [Known EXCEPT ![k] = [Known[k] EXCEPT !.rsl = level]]
    BY <1>3 DEF Refresh
  <2>4. over' \in {Overs, Overs + 1}
    BY <1>3 DEF Refresh
  <2> QED BY <1>1, <1>2, <2>1, <2>2, <2>3, <2>4
<1>4. ASSUME NEW entry \in Entries, AddAdvert(entry)
      PROVE  advs' \in Seq(Entries) /\ Len(advs') <= MaxAdv /\ over' \in 0 .. OverBound
  <2>1. over' \in {Overs, Overs + 1}
    BY <1>4 DEF AddAdvert
  <2>2. over' \in 0 .. OverBound
    BY <1>1, <1>2, <2>1
  <2> SUFFICES advs' \in Seq(Entries) /\ Len(advs') <= MaxAdv
    BY <2>2
  <2>3. CASE advs' = Append(Known, entry) /\ ~Full
    <3>1. ~(Len(Known) >= MaxAdv)
      BY <2>3 DEF Full
    <3>2. advs' \in Seq(Entries) /\ Len(advs') = Len(Known) + 1
      BY <1>1, <1>4, <2>3, AppendProperties
    <3>3. Len(Known) \in Nat /\ Len(Known) < 3
      BY <1>1, <3>1 DEF MaxAdv
    <3> QED BY <3>2, <3>3 DEF MaxAdv
  <2>4. CASE advs' = [Known EXCEPT ![Overs + 1] = entry] /\ Overs < Len(Known)
    <3>1. Overs + 1 \in 1 .. Len(Known)
      <4>1. Len(Known) \in Nat /\ Overs \in Nat /\ Overs < Len(Known)
        BY <1>1, <2>4, BoundAssumption
      <4> QED BY <4>1
    <3>2. advs' \in Seq(Entries) /\ Len(advs') = Len(Known)
      BY <1>1, <1>4, <2>4, <3>1, ExceptSeq
    <3> QED BY <1>1, <3>2
  <2>5. CASE advs' = Known
    BY <1>1, <2>5
  <2> QED BY <1>4, <2>3, <2>4, <2>5 DEF AddAdvert
<1>5. [id |-> a, rsl |-> level] \in Entries
  BY DEF Entries
<1> QED BY <1>1, <1>3, <1>4, <1>5

LEMMA AdvertStep ==
    ASSUME IInv, NEW a \in Advertisers, NEW level \in Levels,
           AdvertiseIndicate(a, level)
    PROVE  IInv'
<1>1. /\ ~spilled
      /\ Listens /\ joinState' = "advNeighbor" /\ over < OverBound
      /\ adNumber' = Ads /\ oneMore' \in {FALSE, oneMore}
      /\ running' \in {running, running \union {"adWait"}}
      /\ UNCHANGED <<netState, dll, between, sorted, advIdx, attempts, flags, holds,
                     resetting>>
  BY DEF AdvertiseIndicate, Listens, asking, given
<1>a. spilled' \in BOOLEAN
  <2>1. CASE {k \in DOMAIN Known : Known[k].id = a} = {}
    BY <2>1 DEF AdvertiseIndicate, AddAdvert
  <2>2. CASE {k \in DOMAIN Known : Known[k].id = a} # {}
    <3>1. spilled' = spilled
      BY <2>2 DEF AdvertiseIndicate, Refresh
    <3> QED BY <3>1 DEF IInv, TypeOK
  <2> QED BY <2>1, <2>2
<1>2. advs' \in Seq(Entries) /\ Len(advs') <= MaxAdv /\ over' \in 0 .. OverBound
  BY <1>1, TableLemma DEF IInv, AdvertiseIndicate
<1>3. Ads \in 0 .. MinAds
  BY <1>1, KnownLemma DEF IInv
<1>4. TypeOK'
  BY <1>1, <1>a, <1>2, <1>3 DEF IInv, TypeOK, Timers
<1>5. Phases'
  BY <1>1 DEF IInv, Phases, Listens
<1>6. ~Asked'
  BY <1>1 DEF IInv, Phases, Asked
<1> QED BY <1>4, <1>5, <1>6 DEF IInv, InTurn, ByMerit

-----------------------------------------------------------------------------
(* The requests.                                                           *)

\* A step that leaves the advertisers and the requests alone.
LEMMA AskedKept ==
    ASSUME InTurn, ByMerit, UNCHANGED <<advs, sorted, advIdx, attempts, spilled>>
    PROVE  InTurn' /\ ByMerit'
BY DEF InTurn, ByMerit, Asked, Counted

LEMMA BestLemma ==
    ASSUME NEW S, NEW i \in Best(S)
    PROVE  i \in S /\ \A j \in S : j # i => Better(i, j)
BY DEF Best

\* What getBestAdvIdx compares decides the order of merit.
Merit(i, j) ==
    LET a == advs[i + 1]  b == advs[j + 1]
    IN  /\ b.id \in Preferred => a.id \in Preferred
        /\ (a.id \in Preferred <=> b.id \in Preferred) => a.rsl >= b.rsl

LEMMA MeritLemma ==
    ASSUME TypeOK, ~spilled, NEW i \in Counted, NEW j \in Counted, Better(i, j)
    PROVE  Merit(i, j)
<1>1. i + 1 \in 1 .. Len(advs) /\ j + 1 \in 1 .. Len(advs)
  BY DEF TypeOK, Counted
<1>2. advs[i + 1] \in Entries /\ advs[j + 1] \in Entries
  BY <1>1 DEF TypeOK
<1>3. advs[i + 1].rsl \in Nat /\ advs[j + 1].rsl \in Nat
  BY <1>2, LevelAssumption DEF Entries
<1> QED BY <1>3 DEF Better, Merit

LEMMA UpToThree ==
    \A n \in Nat \ {0} : n <= 3 => n \in 1 .. 3
OBVIOUS

LEMMA CountLemma ==
    ASSUME TypeOK, ~spilled, advs # <<>>
    PROVE  Len(advs) \in 1 .. 3
<1>1. advs \in Seq(Entries)
  BY DEF TypeOK
<1>2. Len(advs) \in Nat \ {0}
  BY <1>1, EmptySeq
<1>3. Len(advs) <= 3
  BY DEF TypeOK, MaxAdv
<1> QED BY <1>2, <1>3, UpToThree, Zenon

\* aSortedAdv after the first request.
LEMMA SortsLemma ==
    ASSUME TypeOK, ~spilled, advs # <<>>, Sorts
    PROVE  /\ sorted' \in Seq(Indices) /\ Len(sorted') = Len(advs)
           /\ {sorted'[i] : i \in DOMAIN sorted'} = Counted
           /\ \A i, j \in DOMAIN sorted' : i < j => Merit(sorted'[i], sorted'[j])
<1> DEFINE n == Len(advs)
<1>1. n \in 1 .. 3
  BY CountLemma
<1>2. Counted = 0 .. (n - 1)
  BY DEF Counted
<1> PICK a \in Best(Counted) :
      IF n = 1 THEN sorted' = <<a>>
      ELSE \E b \in Best(Counted \ {a}) :
             sorted' = IF n = 2 THEN <<a, b>> ELSE <<a, b, (3 - b) - a>>
  BY DEF Sorts
<1>3. a \in Counted /\ \A j \in Counted : j # a => Better(a, j)
  BY BestLemma
<1> HIDE DEF n
<1>4. CASE n = 1
  <2>1. sorted' = <<a>> /\ a = 0 /\ Counted = {0}
    BY <1>2, <1>3, <1>4
  <2> QED BY <1>4, <2>1 DEF Indices, MaxAdv, n
<1>5. CASE n # 1
  <2> PICK b \in Best(Counted \ {a}) :
        sorted' = IF n = 2 THEN <<a, b>> ELSE <<a, b, (3 - b) - a>>
    BY <1>5
  <2>1. /\ b \in Counted /\ b # a
        /\ \A j \in Counted : j # a /\ j # b => Better(b, j)
    BY BestLemma
  <2>2. Merit(a, b)
    BY <1>3, <2>1, MeritLemma
  <2>3. CASE n = 2
    <3>1. sorted' = <<a, b>> /\ Counted = {0, 1} /\ Counted = {a, b}
      BY <1>2, <1>3, <2>1, <2>3
    <3> QED BY <1>3, <2>1, <2>2, <2>3, <3>1 DEF Indices, MaxAdv, n
  <2>4. CASE n = 3
    <3> DEFINE c == (3 - b) - a
    <3>1. sorted' = <<a, b, c>>
      BY <2>4
    <3>2. Counted = {0, 1, 2}
      BY <1>2, <2>4
    <3>3. c \in Counted /\ c # a /\ c # b /\ Counted = {a, b, c}
      BY <1>3, <2>1, <3>2
    <3> HIDE DEF c
    <3>4. Merit(a, c) /\ Merit(b, c)
      BY <1>3, <2>1, <3>3, MeritLemma
    <3> QED BY <1>3, <2>1, <2>2, <2>4, <3>1, <3>2, <3>3, <3>4 DEF Indices, MaxAdv, n
  <2> QED BY <1>1, <1>5, <2>3, <2>4
<1> QED BY <1>4, <1>5

LEMMA SendJoinReqStep ==
    ASSUME IInv, ~spilled, SendJoinReq
    PROVE  IInv'
<1>1. /\ netState = "joining" /\ joinState = "reqAdmission"
      /\ attempts <= MaxJoinRetries /\ attempts' = attempts + 1
      /\ dll' = "joined" /\ holds' = holds \ Coupling
      /\ running' = running \union {"joinRsp"}
      /\ UNCHANGED <<netState, joinState, between, advs, over, adNumber, oneMore, flags,
                     spilled, resetting>>
  BY DEF SendJoinReq, Joining, MayAsk, listening
<1>2. attempts \in Nat /\ attempts' \in 0 .. MaxJoinRetries + 1 /\ attempts' > 0
  BY <1>1, BoundAssumption DEF IInv, TypeOK
<1>3. advs # <<>> /\ Len(advs) \in 1 .. 3 /\ ~between /\ Counted' = Counted
  <2>1. advs # <<>> /\ ~between
    BY <1>1 DEF IInv, TypeOK, Phases, Listens
  <2>2. Len(advs) \in 1 .. 3
    BY <2>1, CountLemma DEF IInv
  <2> QED BY <1>1, <2>1, <2>2 DEF Counted
<1>4. /\ sorted' \in Seq(Indices) /\ Len(sorted') = Len(advs)
      /\ {sorted'[i] : i \in DOMAIN sorted'} = Counted
      /\ \A i, j \in DOMAIN sorted' : i < j => Merit(sorted'[i], sorted'[j])
      /\ advIdx' \in Indices /\ advIdx' = attempts % Len(advs)
  <2>1. CASE advIdx = NoIdx
    <3>1. attempts = 0 /\ advIdx' = 0 /\ Sorts
      BY <2>1 DEF IInv, Phases, SendJoinReq
    <3>2. 0 % Len(advs) = 0
      BY <1>3
    <3> QED BY <1>3, <3>1, <3>2, SortsLemma DEF IInv, Indices, MaxAdv
  <2>2. CASE advIdx # NoIdx
    <3>1. Asked /\ sorted' = sorted /\ advIdx' = NextAdv /\ advIdx \in 0 .. 2
      BY <1>2, <2>2 DEF IInv, TypeOK, Phases, SendJoinReq, Asked, Indices, MaxAdv
    <3>2. /\ sorted \in Seq(Indices) /\ Len(sorted) = Len(advs)
          /\ {sorted[i] : i \in DOMAIN sorted} = Counted
          /\ advIdx = (attempts - 1) % Len(advs)
      BY <3>1 DEF IInv, TypeOK, InTurn
    <3>3. \A i, j \in DOMAIN sorted : i < j => Merit(sorted[i], sorted[j])
      BY <3>1 DEF IInv, ByMerit, Merit
    <3>4. NextAdv \in 0 .. 2 /\ NextAdv = attempts % Len(advs)
      <4>1. attempts - 1 \in Nat
        BY <1>2, <3>1 DEF Asked
      <4>2. CASE Len(advs) = 1
        BY <1>2, <3>2, <4>1, <4>2 DEF NextAdv
      <4>3. CASE Len(advs) = 2
        BY <1>2, <3>2, <4>1, <4>3 DEF NextAdv
      <4>4. CASE Len(advs) = 3
        BY <1>2, <3>2, <4>1, <4>4 DEF NextAdv
      <4> QED BY <1>3, <4>2, <4>3, <4>4
    <3> QED BY <3>1, <3>2, <3>3, <3>4 DEF Indices, MaxAdv
  <2> QED BY <2>1, <2>2
<1>5. TypeOK'
  BY <1>1, <1>2, <1>3, <1>4 DEF IInv, TypeOK, Timers, MaxAdv
<1>6. Phases'
  BY <1>1, <1>2, <1>3, <1>4 DEF IInv, Phases, Listens, Indices, MaxAdv, NoIdx
<1>8. InTurn'
  <2>1. attempts' - 1 = attempts
    BY <1>1, <1>2
  <2> QED BY <1>1, <1>3, <1>4, <2>1 DEF InTurn
<1>9. ByMerit'
  BY <1>1, <1>4 DEF ByMerit, Merit
<1> QED BY <1>5, <1>6, <1>8, <1>9 DEF IInv

-----------------------------------------------------------------------------
(* The other steps.                                                        *)

\* NET_Init leaves the search as it was when the device started, or with what an
\* advertisement has left of it.
LEMMA NetInitLemma ==
    ASSUME IInv, ~spilled, NetInit
    PROVE  /\ joinState' \in {"searching", "advNeighbor"} /\ running' \subseteq Timers
           /\ advs' \in Seq(Entries) /\ Len(advs') <= MaxAdv /\ adNumber' \in 0 .. MinAds
<1>1. 0 \in 0 .. MinAds /\ 1 \in 0 .. MinAds
  BY BoundAssumption
<1>2. CASE Undisturbed
  BY <1>1, <1>2, StartLemma DEF Undisturbed, IInv, TypeOK
<1>3. CASE Disturbed
  <2> PICK done \in 0 .. 3, entry \in Entries :
        /\ joinState' = "advNeighbor"
        /\ running' = (running \ {"adWait", "joinRsp"})
                        \union {timer \in {"adWait"} : done >= 1}
        /\ adNumber' = IF done >= 2 THEN 1 ELSE 0
        /\ advs' = IF done >= 3 THEN <<entry>> ELSE <<>>
    BY <1>3 DEF Disturbed
  <2>1. running' \subseteq Timers
    BY DEF IInv, TypeOK, Timers
  <2>2. adNumber' \in 0 .. MinAds
    BY <1>1
  <2>3. <<entry>> \in Seq(Entries) /\ Len(<<entry>>) <= MaxAdv
    BY DEF MaxAdv
  <2>4. advs' \in Seq(Entries) /\ Len(advs') <= MaxAdv
    BY <2>3, StartLemma
  <2> QED BY <2>1, <2>2, <2>4
<1> QED BY <1>2, <1>3 DEF NetInit

LEMMA DoIdleStep ==
    ASSUME IInv, ~spilled, DoIdle \/ DoIdleJoin
    PROVE  IInv'
<1>1. CASE DoIdle
  <2>1. /\ joinState' \in {"searching", "advNeighbor"} /\ running' \subseteq Timers
        /\ advs' \in Seq(Entries) /\ Len(advs') <= MaxAdv /\ adNumber' \in 0 .. MinAds
    BY <1>1, NetInitLemma DEF DoIdle
  <2>2. /\ flags' = {} /\ holds' = holds \ LostByNet
        /\ over' = 0 /\ oneMore' = FALSE
        /\ sorted' = <<>> /\ advIdx' = NoIdx /\ attempts' = 0
        /\ netState = "idle" /\ between' = TRUE
        /\ UNCHANGED <<netState, dll, resetting, spilled>>
    BY <1>1 DEF DoIdle, NetInit, FlagsReset
  <2>3. TypeOK'
    BY <2>1, <2>2, StartLemma DEF IInv, TypeOK
  <2>4. Phases'
    BY <2>1, <2>2 DEF Phases, Listens
  <2>5. ~Asked'
    BY <2>2 DEF Asked
  <2> QED BY <2>3, <2>4, <2>5 DEF IInv, InTurn, ByMerit
<1>2. CASE DoIdleJoin
  <2>1. /\ between /\ between' = FALSE /\ dll' = "active" /\ netState' = "joining"
        /\ holds' = holds \ LostByDll /\ attempts' = 0
        /\ UNCHANGED <<joinState, advs, over, adNumber, oneMore, spilled, running, sorted,
                       advIdx, flags, resetting>>
    BY <1>2 DEF DoIdleJoin, listening
  <2>2. TypeOK'
    BY <2>1, StartLemma DEF IInv, TypeOK
  <2>3. Phases'
    BY <2>1 DEF IInv, Phases, Listens
  <2>4. ~Asked'
    BY <2>1 DEF Asked
  <2> QED BY <2>2, <2>3, <2>4 DEF IInv, InTurn, ByMerit
<1> QED BY <1>1, <1>2

LEMMA ListeningStep ==
    ASSUME IInv, ~spilled, WaitOneMore \/ RequestAdmission \/ SearchTimeout
    PROVE  IInv'
<1>1. UNCHANGED <<advs, sorted, advIdx, attempts, netState, between, over, adNumber,
                  flags, holds, resetting, spilled>>
  BY DEF WaitOneMore, RequestAdmission, SearchTimeout, listening, asking, given
<1>2. InTurn' /\ ByMerit'
  BY <1>1, AskedKept DEF IInv
<1>3. TypeOK'
  <2>1. oneMore' \in BOOLEAN /\ running' \subseteq Timers
    BY DEF IInv, TypeOK, WaitOneMore, Waited, RequestAdmission, SearchTimeout,
           listening, Timers
  <2>2. dll' \in {"idle", "active", "passive", "synchronized", "joined"}
        /\ joinState' \in {joinState, "reqAdmission"}
    BY DEF IInv, TypeOK, WaitOneMore, RequestAdmission, SearchTimeout
  <2> QED BY <1>1, <2>1, <2>2 DEF IInv, TypeOK
<1>4. Phases'
  <2>1. CASE RequestAdmission
    BY <1>1, <2>1 DEF IInv, Phases, RequestAdmission, Joining, Listens
  <2>2. CASE WaitOneMore \/ SearchTimeout
    <3>1. joinState' = joinState
      BY <2>2 DEF WaitOneMore, SearchTimeout
    <3> QED BY <1>1, <3>1 DEF IInv, Phases, Listens
  <2> QED BY <2>1, <2>2
<1> QED BY <1>2, <1>3, <1>4 DEF IInv

LEMMA AdmittedStep ==
    ASSUME IInv, ~spilled, LooselyCouple \/ Quarantine \/ DoQuarantine \/ JoinFailed
    PROVE  IInv'
<1>1. UNCHANGED <<dll, between, advs, over, adNumber, oneMore, sorted, advIdx,
                  attempts, flags, holds, spilled>>
  BY DEF LooselyCouple, Quarantine, DoQuarantine, JoinFailed, listening, asking, given
<1>2. InTurn' /\ ByMerit'
  BY <1>1, AskedKept DEF IInv
<1>3. TypeOK'
  <2>1. /\ netState' \in {netState, "quarantined", "operational"}
        /\ joinState' \in {joinState, "looselyCoupled"}
        /\ running' \in {running, running \union {"looselyCoupled"}}
    BY DEF LooselyCouple, Quarantine, DoQuarantine, JoinFailed
  <2>2. resetting' = TRUE \/ resetting' = resetting
    BY DEF LooselyCouple, Quarantine, DoQuarantine, JoinFailed, given
  <2>3. resetting' \in BOOLEAN
    BY <2>2 DEF IInv, TypeOK
  <2> QED BY <1>1, <2>1, <2>3 DEF IInv, TypeOK, Timers
<1>4. Phases'
  BY <1>1 DEF IInv, Phases, Listens, LooselyCouple, Quarantine, DoQuarantine,
              JoinFailed, Joining
<1> QED BY <1>2, <1>3, <1>4 DEF IInv

LEMMA ResetStep ==
    ASSUME IInv, Reset
    PROVE  IInv'
<1>1. TypeOK'
  BY StartLemma DEF IInv, TypeOK, Reset
<1>2. Phases'
  BY DEF Reset, Phases, Listens
<1>3. ~Asked'
  BY DEF Reset, Asked
<1> QED BY <1>1, <1>2, <1>3 DEF IInv, InTurn, ByMerit

\* A write sets the flag of a superframe or link only in the state that awaits it.
LEMMA WriteFlags ==
    ASSUME NEW item, Write(item)
    PROVE  /\ flags' \in {flags, flags \union {item}}
           /\ item \in Coupling /\ flags' # flags => joinState = "looselyCoupled"
<1>1. flags' = IF Awaited(item) THEN flags \union {item} ELSE flags
  BY DEF Write
<1>2. item \in Coupling /\ Awaited(item) => joinState = "looselyCoupled"
  BY DEF Awaited, Admission, Coupling
<1> QED BY <1>1, <1>2

LEMMA CommandStep ==
    ASSUME IInv,
           \/ \E timer \in Timers : Expire(timer)
           \/ \E item \in Written : Write(item)
           \/ \E items \in Deletions : Erase(items)
           \/ WriteNetworkId
    PROVE  IInv'
<1>1. ~spilled /\ UNCHANGED <<joinState, dll, between, advs, over, adNumber, oneMore,
                              spilled, sorted, advIdx, attempts>>
  BY DEF Expire, Write, Erase, WriteNetworkId, listening, asking
<1>2. InTurn' /\ ByMerit'
  BY <1>1, AskedKept DEF IInv
<1>3. ASSUME NEW timer \in Timers, Expire(timer)
      PROVE  TypeOK' /\ Phases'
  BY <1>1, <1>3 DEF IInv, TypeOK, Phases, Listens, Expire, given
<1>4. CASE WriteNetworkId
  BY <1>1, <1>2, <1>4 DEF IInv, TypeOK, Phases, Listens, WriteNetworkId, given
<1>5. ASSUME NEW items, Disables(items)
      PROVE  resetting' \in BOOLEAN
  <2>1. resetting' = TRUE \/ resetting' = resetting
    BY <1>5 DEF Disables
  <2>2. resetting \in BOOLEAN
    BY <1>1 DEF IInv, TypeOK
  <2> QED BY <2>1, <2>2
<1>6. ASSUME NEW item \in Written, Write(item)
      PROVE  TypeOK' /\ Phases'
  <2>1. /\ ~between /\ UNCHANGED <<netState, running>>
        /\ holds' = holds \union ({item} \intersect Kept)
        /\ resetting' \in BOOLEAN
    BY <1>5, <1>6 DEF Write
  <2>2. /\ flags' \in {flags, flags \union {item}} /\ item \in Items
        /\ item \in Coupling /\ flags' # flags => joinState = "looselyCoupled"
    BY <1>6, WriteFlags, WrittenAssumption
  <2>3. TypeOK'
    BY <1>1, <2>1, <2>2 DEF IInv, TypeOK
  <2>4. Phases'
    BY <1>1, <2>1, <2>2 DEF IInv, Phases, Listens
  <2> QED BY <2>3, <2>4
<1>7. ASSUME NEW items \in Deletions, Erase(items)
      PROVE  TypeOK' /\ Phases'
  <2>1. /\ UNCHANGED <<netState, running, flags>> /\ holds' = holds \ items
        /\ resetting' \in BOOLEAN
    BY <1>5, <1>7 DEF Erase
  <2>2. TypeOK'
    BY <1>1, <2>1 DEF IInv, TypeOK
  <2>3. Phases'
    BY <1>1, <2>1 DEF IInv, Phases, Listens
  <2> QED BY <2>2, <2>3
<1> QED BY <1>1, <1>2, <1>3, <1>4, <1>6, <1>7 DEF IInv

-----------------------------------------------------------------------------
(* The theorems.                                                           *)

\* The invariants and the phases are inductive.
THEOREM Invariance == Spec => []IInv
<1>1. Init => IInv
  <2> SUFFICES ASSUME Init PROVE IInv
    OBVIOUS
  <2>1. TypeOK
    BY StartLemma DEF Init, TypeOK
  <2>2. Phases /\ InTurn /\ ByMerit
    BY DEF Init, Phases, InTurn, ByMerit, Asked, Listens
  <2> QED BY <2>1, <2>2 DEF IInv
<1>2. IInv /\ [Next]_vars => IInv'
  <2> SUFFICES ASSUME IInv, [Next]_vars PROVE IInv'
    OBVIOUS
  <2>1. CASE StateMachine
    BY <2>1, DoIdleStep, ListeningStep, SendJoinReqStep, AdmittedStep
       DEF StateMachine
  <2>2. CASE \E a \in Advertisers, level \in Levels : AdvertiseIndicate(a, level)
    BY <2>2, AdvertStep
  <2>3. CASE SearchTimeout
    BY <2>3, ListeningStep DEF SearchTimeout
  <2>4. CASE \/ \E timer \in Timers : Expire(timer)
             \/ \E item \in Written : Write(item)
             \/ \E items \in Deletions : Erase(items)
             \/ WriteNetworkId
    BY <2>4, CommandStep
  <2>5. CASE Reset
    BY <2>5, ResetStep
  <2>6. CASE UNCHANGED vars
    <3>1. UNCHANGED <<netState, joinState, dll, between, advs, over, adNumber, oneMore,
                      running, sorted, advIdx, attempts, flags, holds, resetting, spilled>>
      BY <2>6 DEF vars, listening, asking, given
    <3>2. InTurn' /\ ByMerit'
      BY <3>1, AskedKept DEF IInv
    <3> QED BY <3>1, <3>2 DEF IInv, TypeOK, Phases, Listens
  <2> QED BY <2>1, <2>2, <2>3, <2>4, <2>5, <2>6 DEF Next
<1> QED BY <1>1, <1>2, PTL DEF Spec

\* The tables and counters of network_layer.c keep within their declarations, for
\* every number of advertisers and whatever they send, until an advertiser is written
\* behind the table.
THEOREM TypeCorrect == Spec => []TypeOK
<1>1. IInv => TypeOK
  BY DEF IInv
<1> QED BY <1>1, Invariance, PTL

\* Until then the requests go to the advertisers in turn, each of them once before any
\* again.
THEOREM InTurnAlways == Spec => []InTurn
<1>1. IInv => InTurn
  BY DEF IInv
<1> QED BY <1>1, Invariance, PTL

\* Until then aSortedAdv is in the order of merit.
THEOREM ByMeritAlways == Spec => []ByMerit
<1>1. IInv => ByMerit
  BY DEF IInv
<1> QED BY <1>1, Invariance, PTL

\* What a step other than a deletion does to the flags and the tables.
LEMMA StandStep ==
    ASSUME IInv, Next
    PROVE  \/ \E items \in Deletions : Erase(items)
           \/ Lacking' \subseteq Lacking
<1>1. CASE StateMachine
  <2>1. CASE DoIdle
    BY <2>1 DEF DoIdle, NetInit, FlagsReset, Lacking
  <2>2. CASE DoIdleJoin
    <3>1. flags' = {}
      BY <1>1, <2>2 DEF DoIdleJoin, StateMachine, IInv, Phases
    <3> QED BY <3>1 DEF Lacking
  <2>3. CASE SendJoinReq
    <3>1. flags \intersect Coupling = {}
      BY <1>1, <2>3 DEF SendJoinReq, StateMachine, Joining, IInv, Phases
    <3>2. flags' = flags /\ holds' = holds \ Coupling
      BY <2>3 DEF SendJoinReq
    <3> QED BY <3>1, <3>2 DEF Lacking
  <2>4. CASE \/ WaitOneMore \/ RequestAdmission \/ LooselyCouple \/ Quarantine
             \/ JoinFailed \/ DoQuarantine
    <3>1. flags' = flags /\ holds' = holds
      BY <2>4 DEF WaitOneMore, RequestAdmission, LooselyCouple, Quarantine, JoinFailed,
                  DoQuarantine, given
    <3> QED BY <3>1 DEF Lacking
  <2> QED BY <1>1, <2>1, <2>2, <2>3, <2>4 DEF StateMachine
<1>2. ASSUME NEW item \in Written, Write(item)
      PROVE  Lacking' \subseteq Lacking
  <2>1. flags' \in {flags, flags \union {item}}
    BY <1>2, WriteFlags
  <2>2. holds' = holds \union ({item} \intersect Kept)
    BY <1>2 DEF Write
  <2> QED BY <2>1, <2>2 DEF Lacking
<1>3. CASE \/ \E a \in Advertisers, level \in Levels : AdvertiseIndicate(a, level)
           \/ SearchTimeout \/ WriteNetworkId
           \/ \E timer \in Timers : Expire(timer)
  <2>1. flags' = flags /\ holds' = holds
    BY <1>3 DEF AdvertiseIndicate, SearchTimeout, WriteNetworkId, Expire, given
  <2> QED BY <2>1 DEF Lacking
<1>4. CASE Reset
  BY <1>4 DEF Reset, Lacking
<1> QED BY <1>1, <1>2, <1>3, <1>4 DEF Next

\* No step but a deletion leaves a flag set for something that is not in the tables.
THEOREM FlagsStandAlways == Spec => FlagsStand
<1>1. IInv /\ [Next]_vars =>
        [(\E items \in Deletions : Erase(items)) \/ spilled' \/ Lacking' \subseteq Lacking]_vars
  BY StandStep
<1> QED BY <1>1, Invariance, PTL DEF Spec, FlagsStand
===============================================================================
