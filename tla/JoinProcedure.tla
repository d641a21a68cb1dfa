----------------------------- MODULE JoinProcedure -----------------------------
(***************************************************************************)
(* How the device joins a network: NET_StateMachine.                       *)
(*                                                                         *)
(* The device listens for advertisements and keeps up to three             *)
(* advertisers, sends the join request through them in turn until the      *)
(* network manager has admitted it, waits for a superframe and links, and  *)
(* is then quarantined until it has a session with the gateway.  When it   *)
(* is not admitted in time it resets.                                      *)
(*                                                                         *)
(* NET_StateMachine runs in the main loop, once in each pass, and so do    *)
(* the commands of the network manager; a pass may carry out several of    *)
(* them before the state machine looks at what they have set.              *)
(* DLL_AdvertiseIndicate runs at interrupt level, also within NET_Init and *)
(* between the two calls of NET_doIdle.  A timer is running or not.        *)
(*                                                                         *)
(* An advertiser may be written behind the table (AddAdvert).  What the    *)
(* program does after that is undefined: the module stops there, and its   *)
(* properties speak of what happens before.                                *)
(***************************************************************************)
EXTENDS Integers, Sequences, FiniteSets

CONSTANTS
    Advertisers,    \* the neighbours that advertise
    Preferred,      \* those with the better join priority
    Levels,         \* levels of the received signal
    Threshold,      \* g_stProv.cRSLThresholdGoodConnection
    MinAds,         \* MIN_ADS_NEEDED
    MaxJoinRetries, \* g_ucMaxJoinRetries
    Written,        \* what the network manager writes
    OverBound       \* bound of the model: g_ucAdvOverTresh

MaxAdv == 3         \* MAX_ADV_NEIGHBORS, on which the sorting relies
NoIdx  == 255       \* g_ucAdvIdx before the first request

ASSUME BoundAssumption == /\ MinAds \in Nat \ {0, 1} /\ MaxJoinRetries \in Nat
                          /\ Threshold \in Nat /\ OverBound \in Nat
ASSUME LevelAssumption == Levels \subseteq Nat

VARIABLES
    netState,  \* g_ucNetState
    joinState, \* g_ucNetJoinState
    dll,       \* g_ucDllStatus
    between,   \* NET_doIdle is between NET_Init and DLL_Join
    advs,      \* g_astAdvNeighbors, g_ucAdvNeighborNmb of them
    over,      \* g_ucAdvOverTresh
    adNumber,  \* g_ucNetAdNumber, up to MinAds
    oneMore,   \* g_ucAdvOneMorePeriod
    running,   \* the timers of NET_CheckTimers that run
    sorted,    \* aSortedAdv, as long as it is used
    advIdx,    \* g_ucAdvIdx
    attempts,  \* g_stC769.noOfJoinAttempts
    flags,     \* g_ucJoinCmdFlags
    holds,     \* what the network manager has written into the tables
    resetting, \* g_ucResetReason is set
    spilled    \* an advertiser was written behind g_astAdvNeighbors

listening == <<advs, over, adNumber, oneMore, spilled>>
asking    == <<sorted, advIdx, attempts>>
given     == <<flags, holds, resetting>>
vars == <<netState, joinState, dll, between, listening, running, asking, given>>

-----------------------------------------------------------------------------
(* Values.                                                                 *)

Entries == [id : Advertisers, rsl : Levels]
Indices == 0 .. MaxAdv - 1
Timers  == {"adWait", "joinRsp", "looselyCoupled"}

\* What the network manager writes, in the order of the bits of g_ucJoinCmdFlags.
Admission == {"key", "nickname", "session"}
Coupling  == {"superframe", "txLink", "rxLink"}
Items     == Admission \union Coupling \union {"gateway"}

ASSUME WrittenAssumption == Written \subseteq Items

\* What the properties ask of the tables, and what NET_Init and DLL_Init erase.
Kept      == {"nickname", "session"} \union Coupling
LostByNet == {"nickname", "session"}
LostByDll == {"nickname"} \union Coupling

Init ==
    /\ netState = "idle" /\ joinState = "searching" /\ dll = "idle"
    /\ between = FALSE
    /\ advs = <<>> /\ over = 0 /\ adNumber = 0 /\ oneMore = FALSE
    /\ running = {}
    /\ sorted = <<>> /\ advIdx = NoIdx /\ attempts = 0
    /\ flags = {} /\ holds = {}
    /\ resetting = FALSE /\ spilled = FALSE

-----------------------------------------------------------------------------
(* Advertisements: DLL_AdvertiseIndicate.                                  *)

\* The first advertisement starts the wait for others.
FirstAdvert == joinState = "searching"

Known == IF FirstAdvert THEN <<>> ELSE advs
Overs == IF FirstAdvert THEN 0 ELSE over
Ads   == IF FirstAdvert THEN 1 ELSE IF adNumber < MinAds THEN adNumber + 1
         ELSE adNumber

Full == Len(Known) >= MaxAdv \/ Ads >= MinAds

\* An advertiser of the table: its level is refreshed.  The neighbour table of the
\* data link layer keeps the best one of a neighbour without links.
Refresh(k, level) ==
    /\ level >= Known[k].rsl
    /\ advs' = [Known EXCEPT ![k].rsl = level]
    /\ over' = IF level > Threshold /\ Known[k].rsl < Threshold THEN Overs + 1
               ELSE Overs
    /\ UNCHANGED spilled

\* A new one is added.  When there is no room, or enough have been heard, it
\* takes the place with the number g_ucAdvOverTresh, if its own level is over the
\* threshold; that place may be behind those that count, or behind the table.
AddAdvert(entry) ==
    /\ advs' = IF ~Full THEN Append(Known, entry)
               ELSE IF entry.rsl > Threshold /\ Overs < Len(Known)
               THEN [Known EXCEPT ![Overs + 1] = entry]
               ELSE Known
    /\ over' = IF entry.rsl > Threshold THEN Overs + 1 ELSE Overs
    /\ spilled' = (Full /\ entry.rsl > Threshold /\ Overs >= MaxAdv)

AdvertiseIndicate(a, level) ==
    /\ ~spilled
    /\ dll \in {"active", "synchronized"}
    /\ joinState \in {"searching", "advNeighbor"}
    /\ over < OverBound
    /\ joinState' = "advNeighbor"
    /\ adNumber' = Ads
    /\ LET places == {k \in DOMAIN Known : Known[k].id = a}
       IN  IF places = {} THEN AddAdvert([id |-> a, rsl |-> level])
           ELSE \E k \in places : Refresh(k, level)
    /\ oneMore' = IF FirstAdvert THEN FALSE ELSE oneMore
    /\ running' = IF FirstAdvert THEN running \union {"adWait"} ELSE running
    /\ UNCHANGED <<netState, dll, between, asking, given>>

\* TMR_DLL_Function: the search goes on and off while nothing is heard.
SearchTimeout ==
    /\ ~spilled
    /\ dll' = CASE dll = "active" -> "passive" [] dll = "passive" -> "active"
                [] OTHER -> dll
    /\ dll' # dll
    /\ UNCHANGED <<netState, joinState, between, listening, running, asking, given>>

-----------------------------------------------------------------------------
(* NET_doIdle.                                                             *)

\* Mutant: g_ucJoinCmdFlags is not reset.
FlagsKept == flags

FlagsReset == {}

\* NET_Init with no advertisement in it.
Undisturbed ==
    /\ joinState' = "searching"
    /\ running' = running \ {"adWait", "joinRsp"}
    /\ adNumber' = 0 /\ advs' = <<>>

\* NET_Init is not protected.  It starts the search anew and then resets the timer,
\* the number of advertisements and the table, in this order.  An advertisement
\* after the first of these resets keeps what the others do not reset again: it may
\* leave the device with an empty table, and with no timer.
Disturbed ==
    \E done \in 0 .. 3, entry \in Entries :
      /\ dll \in {"active", "synchronized"}
      /\ joinState' = "advNeighbor"
      /\ running' = (running \ {"adWait", "joinRsp"})
                      \union {timer \in {"adWait"} : done >= 1}
      /\ adNumber' = IF done >= 2 THEN 1 ELSE 0
      /\ advs' = IF done >= 3 THEN <<entry>> ELSE <<>>

\* What is in aSortedAdv is not read before it is made again.
NetInit ==
    /\ Undisturbed \/ Disturbed
    /\ flags' = FlagsReset /\ holds' = holds \ LostByNet
    /\ over' = 0 /\ oneMore' = FALSE
    /\ sorted' = <<>> /\ advIdx' = NoIdx /\ attempts' = 0

DoIdle ==
    /\ netState = "idle" /\ ~between
    /\ NetInit
    /\ between' = TRUE
    /\ UNCHANGED <<netState, dll, resetting, spilled>>

\* DLL_Join
DoIdleJoin ==
    /\ between
    /\ between' = FALSE
    /\ dll' = "active" /\ netState' = "joining"
    /\ holds' = holds \ LostByDll
    /\ attempts' = 0
    /\ UNCHANGED <<joinState, listening, running, sorted, advIdx, flags, resetting>>

-----------------------------------------------------------------------------
(* NET_JoinProcedure.                                                      *)

Joining(state) == netState = "joining" /\ joinState = state

\* Mutant: the flag is not set.
Remembers == oneMore' = oneMore

Waited == oneMore' = TRUE

\* No advertiser is over the threshold: g_ulAdWaitTimer starts again.
WaitOneMore ==
    /\ Joining("advNeighbor") /\ advs # <<>>
    /\ over = 0 /\ ~oneMore
    /\ Waited
    /\ running' = running \union {"adWait"}
    /\ UNCHANGED <<netState, joinState, dll, between, advs, over, adNumber, spilled,
                   asking, given>>

RequestAdmission ==
    /\ Joining("advNeighbor") /\ advs # <<>>
    /\ over > 0 \/ oneMore
    /\ adNumber >= MinAds \/ Len(advs) >= MaxAdv \/ "adWait" \notin running
    /\ joinState' = "reqAdmission" /\ dll' = "synchronized"
    /\ UNCHANGED <<netState, between, listening, running, asking, given>>

Admitted == Admission \subseteq flags

\* Mutant: the stronger signal comes first.
Stronger(i, j) ==
    LET a == advs[i + 1]  b == advs[j + 1]
    IN  \/ a.rsl > b.rsl
        \/ a.rsl = b.rsl /\ a.id \in Preferred /\ b.id \notin Preferred
        \/ a.rsl = b.rsl /\ (a.id \in Preferred <=> b.id \in Preferred) /\ i < j

\* getBestAdvIdx: the join priority, then the signal, then the place.
Better(i, j) ==
    LET a == advs[i + 1]  b == advs[j + 1]
    IN  \/ a.id \in Preferred /\ b.id \notin Preferred
        \/ /\ a.id \in Preferred <=> b.id \in Preferred
           /\ a.rsl > b.rsl \/ (a.rsl = b.rsl /\ i < j)

Best(S) == {i \in S : \A j \in S \ {i} : Better(i, j)}

Counted == 0 .. Len(advs) - 1

\* The order in which the advertisers are asked, made for the first request.
Sorts ==
    \E a \in Best(Counted) :
      IF Len(advs) = 1
      THEN sorted' = <<a>>
      ELSE \E b \in Best(Counted \ {a}) :
             sorted' = IF Len(advs) = 2 THEN <<a, b>> ELSE <<a, b, (3 - b) - a>>

\* Mutant: one place too far.
NextTooFar == IF advIdx + 1 > Len(advs) THEN 0 ELSE advIdx + 1

NextAdv == IF advIdx + 1 >= Len(advs) THEN 0 ELSE advIdx + 1

MayAsk == attempts <= MaxJoinRetries

\* NET_SendJoinReq: the next advertiser becomes the proxy, and its superframes and
\* links replace all those there are (NET_ParseProxyInfo).
SendJoinReq ==
    /\ Joining("reqAdmission") /\ ~Admitted
    /\ "joinRsp" \notin running /\ MayAsk
    /\ dll' = "joined"
    /\ IF advIdx = NoIdx THEN advIdx' = 0 /\ Sorts
                         ELSE advIdx' = NextAdv /\ UNCHANGED sorted
    /\ holds' = holds \ Coupling
    /\ running' = running \union {"joinRsp"}
    /\ attempts' = attempts + 1
    /\ UNCHANGED <<netState, joinState, between, listening, flags, resetting>>

\* Authenticated.
LooselyCouple ==
    /\ Joining("reqAdmission") /\ Admitted
    /\ joinState' = "looselyCoupled"
    /\ running' = running \union {"looselyCoupled"}
    /\ UNCHANGED <<netState, dll, between, listening, asking, given>>

Quarantine ==
    /\ Joining("looselyCoupled") /\ Coupling \subseteq flags
    /\ netState' = "quarantined"
    /\ UNCHANGED <<joinState, dll, between, listening, running, asking, given>>

\* NMB_OF_JOIN_REQ_EXCEEDED: PrepareForReset.
JoinFailed ==
    /\ ~resetting
    /\ \/ Joining("reqAdmission") /\ ~Admitted /\ "joinRsp" \notin running /\ ~MayAsk
       \/ Joining("looselyCoupled") /\ ~(Coupling \subseteq flags)
            /\ "looselyCoupled" \notin running
    /\ resetting' = TRUE
    /\ UNCHANGED <<netState, joinState, dll, between, listening, running, asking,
                   flags, holds>>

\* NET_doQuarantine
DoQuarantine ==
    /\ netState = "quarantined" /\ "gateway" \in flags
    /\ netState' = "operational"
    /\ UNCHANGED <<joinState, dll, between, listening, running, asking, given>>

StateMachine ==
    /\ ~spilled
    /\ \/ DoIdle \/ DoIdleJoin
       \/ WaitOneMore \/ RequestAdmission
       \/ SendJoinReq \/ LooselyCouple \/ Quarantine \/ JoinFailed
       \/ DoQuarantine

-----------------------------------------------------------------------------
(* Timers and commands.                                                    *)

\* NET_CheckTimers
Expire(timer) ==
    /\ timer \in running /\ ~between /\ ~spilled
    /\ running' = running \ {timer}
    /\ UNCHANGED <<netState, joinState, dll, between, listening, asking, given>>

\* A flag is set only in the state that waits for it.
Awaited(item) ==
    \/ item \in Admission /\ joinState = "reqAdmission"
    \/ item \in Coupling /\ joinState = "looselyCoupled"
    \/ item = "gateway" /\ netState = "quarantined"

\* A superframe that is disabled or deleted: if it was the last one, the device
\* restarts.
Disables(items) ==
    resetting' \in {resetting} \union {TRUE : item \in items \intersect {"superframe"}}

\* The network manager writes a key, nickname, session, superframe or link.
Write(item) ==
    /\ dll = "joined" /\ ~between /\ ~spilled
    /\ holds' = holds \union ({item} \intersect Kept)
    /\ flags' = IF Awaited(item) THEN flags \union {item} ELSE flags
    /\ Disables({item})
    /\ UNCHANGED <<netState, joinState, dll, between, listening, running, asking>>

\* What is deleted together: a session, a superframe with the links in it, links,
\* which also go with slots of their superframe or with a neighbour.
Deletions == {{"session"}} \union (SUBSET Coupling \ {{}})

\* The network manager deletes them, or a neighbour leaves.  The flags stay.
Erase(items) ==
    /\ dll = "joined" /\ ~between /\ ~spilled
    /\ items \subseteq holds
    /\ holds' = holds \ items
    /\ Disables(items)
    /\ UNCHANGED <<netState, joinState, dll, between, listening, running, asking, flags>>

\* Execute_C773_WriteNetworkId, a new one, before the device is authenticated.
WriteNetworkId ==
    /\ netState = "joining" /\ joinState # "looselyCoupled" /\ ~spilled
    /\ netState' = "idle"
    /\ UNCHANGED <<joinState, dll, between, listening, running, asking, given>>

\* disconnectTask waits for nothing with these reasons: it stops the device, and the
\* watchdog restarts it.
Reset ==
    /\ resetting /\ ~between /\ ~spilled
    /\ netState' = "idle" /\ joinState' = "searching" /\ dll' = "idle"
    /\ advs' = <<>> /\ over' = 0 /\ adNumber' = 0 /\ oneMore' = FALSE
    /\ running' = {}
    /\ sorted' = <<>> /\ advIdx' = NoIdx /\ attempts' = 0
    /\ flags' = {} /\ holds' = {}
    /\ resetting' = FALSE
    /\ UNCHANGED <<between, spilled>>

-----------------------------------------------------------------------------
Next ==
    \/ StateMachine
    \/ \E a \in Advertisers, level \in Levels : AdvertiseIndicate(a, level)
    \/ SearchTimeout
    \/ \E timer \in Timers : Expire(timer)
    \/ \E item \in Written : Write(item)
    \/ \E items \in Deletions : Erase(items)
    \/ WriteNetworkId
    \/ Reset

Spec == Init /\ [][Next]_vars

\* The main loop runs NET_StateMachine in every pass, NET_CheckTimers and
\* disconnectTask every 250 ms.
Fairness ==
    /\ WF_vars(StateMachine)
    /\ WF_vars(Reset)
    /\ \A timer \in Timers : WF_vars(Expire(timer))

FairSpec == Spec /\ Fairness

-----------------------------------------------------------------------------
(* Properties.                                                             *)

\* Type invariant: until an advertiser is written behind the table, each variable
\* holds what its declaration in network_layer.c lets it hold.
TypeOK ==
    /\ spilled \in BOOLEAN
    /\ ~spilled =>
        /\ netState \in {"idle", "joining", "quarantined", "operational"}
        /\ joinState \in {"searching", "advNeighbor", "reqAdmission", "looselyCoupled"}
        /\ dll \in {"idle", "active", "passive", "synchronized", "joined"}
        /\ between \in BOOLEAN /\ resetting \in BOOLEAN
        /\ advs \in Seq(Entries) /\ Len(advs) <= MaxAdv
        /\ over \in 0 .. OverBound /\ adNumber \in 0 .. MinAds /\ oneMore \in BOOLEAN
        /\ running \subseteq Timers
        /\ sorted \in Seq(Indices) /\ Len(sorted) <= MaxAdv
        /\ advIdx \in Indices \union {NoIdx} /\ attempts \in 0 .. MaxJoinRetries + 1
        /\ flags \subseteq Items /\ holds \subseteq Kept

Asked == attempts > 0 /\ ~spilled

\* Every advertiser gets its turn, and each retry goes to another one: aSortedAdv
\* holds every place of the table once, and the place of the proxy moves on by one
\* with each attempt, whatever was heard and however often the join starts again,
\* as long as no advertiser was written behind the table.
InTurn ==
    Asked =>
      /\ advs # <<>> /\ Len(sorted) = Len(advs)
      /\ {sorted[i] : i \in DOMAIN sorted} = Counted
      /\ advIdx = (attempts - 1) % Len(advs)

\* The advertisers are asked in the order of their merit: none comes before one
\* with a better join priority, or with the same one and a stronger signal, as long
\* as no advertiser was written behind the table.
ByMerit ==
    Asked => \A i, j \in DOMAIN sorted :
      i < j =>
        LET a == advs[sorted[i] + 1]  b == advs[sorted[j] + 1]
        IN  /\ b.id \in Preferred => a.id \in Preferred
            /\ (a.id \in Preferred <=> b.id \in Preferred) => a.rsl >= b.rsl

\* The tables lack something whose flag is set.
Lacking == (flags \intersect Kept) \ holds

\* A flag is only set, and only stays set, with what it stands for in the tables,
\* although that may have been written before and cleared when the join was started
\* again or retried: only a deletion, by a command or with a neighbour that leaves,
\* makes a device lack the nickname and session with which it was authenticated, or
\* the superframe and links with which it was quarantined.
FlagsStand ==
    [][(\E items \in Deletions : Erase(items)) \/ spilled' \/ Lacking' \subseteq Lacking]_vars

\* An advertiser is in the table, or a request has been made.
Pending ==
    /\ netState = "joining" /\ joinState # "searching" /\ ~spilled
    /\ joinState = "advNeighbor" => advs # <<>>

\* A join that has an advertiser ends: the device is quarantined, it resets, or it
\* starts again because of a command.
JoinEnds == Pending ~> ~Pending
===============================================================================
