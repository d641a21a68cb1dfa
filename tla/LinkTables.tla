------------------------------ MODULE LinkTables ------------------------------
(***************************************************************************)
(* The tables of the data link layer: superframes, links, neighbours and   *)
(* connections (the edges of the graphs).                                  *)
(*                                                                         *)
(* The network manager's commands run in the main loop.  They only append  *)
(* entries and mark entries, and commit (g_sDllFlags.m_ucStructs); the     *)
(* start of the next slot, at interrupt level, takes the marked entries    *)
(* out, carries out what the superframes are marked for, moves the linked  *)
(* neighbours to the front, sorts the connections, and rebuilds the two    *)
(* hash tables that the slots are served from, whose entries are indices   *)
(* into the other tables.  Receptions, at interrupt level too, add         *)
(* neighbours between two slots.                                           *)
(*                                                                         *)
(* The model starts when the first join request has been sent over a proxy *)
(* and its tables are in place.  Channels, the handheld flag, statistics   *)
(* and backoffs are left out.                                              *)
(***************************************************************************)
EXTENDS Naturals, Sequences, FiniteSets, SequencesExt

CONSTANTS
    Superframes,     \* superframe ids, numbers
    Slots,           \* slot numbers
    Nicknames,       \* short addresses of neighbours, numbers
    Proxies,         \* those that advertise
    Graphs,          \* graph ids, numbers above the superframes'
    JoinGraph,       \* the one a proxy advertises
    MaxSuperframes,  \* DLL_MAX_SUPERFRAMES
    MaxLinks,        \* DLL_MAX_LINKS
    MaxNeighbors,    \* DLL_MAX_NEIGHBORS
    MaxConnections,  \* DLL_MAX_CONNECTIONS
    MaxChanges       \* bound of the model: commands and receptions in a behaviour

\* The address of all neighbours, and no neighbour in a hash entry.
Broadcast == 65535
NoIndex   == 0

ASSUME NumbersAssumption ==
    /\ Superframes \subseteq Nat /\ Slots \subseteq Nat /\ Graphs \subseteq Nat
    /\ Nicknames \subseteq Nat \ {Broadcast} /\ IsFiniteSet(Nicknames)
\* What NET_ParseProxyInfo sets up is within the sets and fits into the tables.
ASSUME JoinAssumption ==
    /\ 0 \in Superframes /\ {0, 1} \subseteq Slots
    /\ Proxies \subseteq Nicknames /\ JoinGraph \in Graphs
ASSUME SizeAssumption ==
    /\ MaxSuperframes \in Nat \ {0} /\ MaxLinks \in Nat \ {0, 1}
    /\ MaxConnections \in Nat \ {0} /\ MaxNeighbors \in Nat \ {0}
    /\ MaxChanges \in Nat

VARIABLES
    superframes,  \* g_aDllSuperframes, as long as g_ucDllAllSuperframesSize
    links,        \* g_aDllLinks
    crtLinks,     \* g_ucDllCrtLinksSize
    neighbors,    \* g_aDllNeighbors
    linkedSize,   \* g_ucDllLkdNeighborsSize
    connections,  \* g_aDllConnections
    crtConns,     \* g_ucDllCrtConnectionsSize
    hashLinks,    \* g_aDllHashLinks
    hashGraphs,   \* g_aDllHashGraphs
    structs,      \* g_sDllFlags.m_ucStructs: 0, 1 or 3
    disconnect,   \* g_sDllFlags.m_ucDisconnect
    net,          \* g_ucNetState, as far as the tables depend on it
    reset,        \* PrepareForReset has been called
    changes

tables == <<superframes, links, neighbors, connections>>
committed == <<crtLinks, linkedSize, crtConns, hashLinks, hashGraphs>>
tableVars == <<tables, committed, structs, disconnect, net, reset, changes>>

-----------------------------------------------------------------------------
(* Entries.                                                                 *)

Options == {{"tx"}, {"rx"}}

Superframe == [id : Superframes, slots : Nat, newSlots : Nat, active : BOOLEAN,
               setOn : BOOLEAN, setOff : BOOLEAN, modify : BOOLEAN, deleted : BOOLEAN]
Link       == [sf : Superframes, nbr : Nicknames \union {Broadcast}, slot : Slots,
               options : Options, join : BOOLEAN, deleted : BOOLEAN]
Neighbor   == [addr : Nicknames, linked : SUBSET {"tx", "rx"}, gone : BOOLEAN,
               deleted : BOOLEAN]
Connection == [graph : Graphs \union Superframes, nbr : Nicknames \union {Broadcast},
               deleted : BOOLEAN]

\* The index of the first entry that matches, 0 for none.
FindSuperframe(t, id)     == SelectInSeq(t, LAMBDA e : e.id = id)
FindShortNeighbor(t, a)   == SelectInSeq(t, LAMBDA e : e.addr = a)
FindLink(sf, nbr, slot)   ==
    SelectInSeq(links, LAMBDA e : e.sf = sf /\ e.nbr = nbr /\ e.slot = slot)
FindConnection(t, g, nbr) == SelectInSeq(t, LAMBDA e : e.graph = g /\ e.nbr = nbr)

NewSuperframe(id, n, on) ==
    [id |-> id, slots |-> n, newSlots |-> 0, active |-> FALSE, setOn |-> on,
     setOff |-> FALSE, modify |-> FALSE, deleted |-> FALSE]
NewLink(sf, nbr, slot, options, join) ==
    [sf |-> sf, nbr |-> nbr, slot |-> slot, options |-> options, join |-> join,
     deleted |-> FALSE]
NewNeighbor(a) == [addr |-> a, linked |-> {}, gone |-> FALSE, deleted |-> FALSE]
NewConnection(g, nbr) == [graph |-> g, nbr |-> nbr, deleted |-> FALSE]

\* The entries at the indices in which are marked.
Marked(t, which) ==
    [i \in DOMAIN t |-> IF i \in which THEN [t[i] EXCEPT !.deleted = TRUE] ELSE t[i]]
Undeleted(t) ==
    LET kept[n \in 0 .. Len(t)] ==
            IF n = 0 THEN <<>>
            ELSE IF t[n].deleted THEN kept[n - 1] ELSE Append(kept[n - 1], t[n])
    IN  kept[Len(t)]

-----------------------------------------------------------------------------
(* Links and the neighbours' m_bLinked.                                     *)

\* The options of the links to a that are not marked.
LinkedBy(ls, a) ==
    UNION {ls[i].options : i \in {j \in DOMAIN ls : ls[j].nbr = a /\ ~ls[j].deleted}}

\* Mutant: the neighbours stay as they are.
NotRecounted(nbs, ls, addrs) == nbs

\* The end of DLL_DeleteLink: the neighbours concerned are linked as the links
\* that are left say.
Recounted(nbs, ls, addrs) ==
    [i \in DOMAIN nbs |->
        IF nbs[i].addr \in addrs
        THEN [nbs[i] EXCEPT !.linked = LinkedBy(ls, nbs[i].addr)] ELSE nbs[i]]

\* DLL_DeleteLink for each of the links.
Unlinked(nbs, ls, which) == Recounted(nbs, Marked(ls, which), {ls[j].nbr : j \in which})

DeleteLinks(which) ==
    /\ links' = Marked(links, which)
    /\ neighbors' = Unlinked(neighbors, links, which)

\* DLL_AddLink.
LinkedTo(nbs, a, options) ==
    [i \in DOMAIN nbs |->
        IF i = FindShortNeighbor(nbs, a)
        THEN [nbs[i] EXCEPT !.linked = @ \union options] ELSE nbs[i]]

-----------------------------------------------------------------------------
(* DLL_AddShortNeighbor, on behalf of a reception or of a new link.         *)

Added(nbs, a) ==
    IF FindShortNeighbor(nbs, a) # 0 THEN {nbs}
    ELSE IF Len(nbs) < MaxNeighbors THEN {Append(nbs, NewNeighbor(a))}
    ELSE \* the oldest of those that are not in the linked part
         {ReplaceAt(nbs, i, NewNeighbor(a)) : i \in linkedSize + 1 .. MaxNeighbors}

-----------------------------------------------------------------------------
(* The start of a slot.                                                     *)

\* DLL_RebuildNeighbors: position p is visited once, whatever has moved there.
Visit(s, p) ==
    IF p > Len(s.tab) THEN s
    ELSE IF s.tab[p].linked # {}
    THEN [tab  |-> [s.tab EXCEPT ![s.size + 1] = s.tab[p], ![p] = s.tab[s.size + 1]],
          size |-> s.size + 1]
    ELSE IF s.tab[p].deleted THEN [s EXCEPT !.tab = RemoveAt(s.tab, p)]
    ELSE s

RebuildNeighbors(nbs) ==
    LET visited[p \in 0 .. Len(nbs)] ==
            IF p = 0 THEN [tab |-> nbs, size |-> 0] ELSE Visit(visited[p - 1], p)
    IN  visited[Len(nbs)]

\* Mutant: m_bModifySlots is not reset.
AppliedAgain(f) ==
    [f EXCEPT !.active = IF f.setOn THEN TRUE ELSE IF f.setOff THEN FALSE ELSE f.active,
              !.slots  = IF f.modify THEN f.newSlots ELSE f.slots,
              !.setOn = FALSE, !.setOff = FALSE]

\* What a superframe is marked for, in the order in which it is done.
Applied(f) ==
    [f EXCEPT !.active = IF f.setOn THEN TRUE ELSE IF f.setOff THEN FALSE ELSE f.active,
              !.slots  = IF f.modify THEN f.newSlots ELSE f.slots,
              !.newSlots = IF f.modify THEN 0 ELSE @,
              !.setOn = FALSE, !.setOff = FALSE, !.modify = FALSE]

\* What the hash of the links says of link i.
HashLink(sfs, ls, nbs, i) ==
    [link |-> i, sf |-> FindSuperframe(sfs, ls[i].sf),
     nbr |-> FindShortNeighbor(nbs, ls[i].nbr)]

\* Mutant: links of disabled superframes too.
ServedOrNot(sfs, e) == FindSuperframe(sfs, e.sf) # 0

\* Links of superframes that are enabled.
Served(sfs, e) ==
    LET f == FindSuperframe(sfs, e.sf) IN f # 0 /\ sfs[f].active

\* The new entry goes behind those of superframes with smaller ids, and of its own.
HashInserted(hash, ls, h) ==
    LET k == SelectInSeq(hash, LAMBDA g : ls[h.link].sf < ls[g.link].sf)
    IN  IF k = 0 THEN Append(hash, h) ELSE InsertAt(hash, k, h)

\* DLL_RebuildHashLinks: the links of enabled superframes by superframe.
RebuildHashLinks(sfs, ls, nbs) ==
    LET hash[i \in 0 .. Len(ls)] ==
            IF i = 0 THEN <<>>
            ELSE IF ~Served(sfs, ls[i]) THEN hash[i - 1]
            ELSE HashInserted(hash[i - 1], ls, HashLink(sfs, ls, nbs, i))
    IN  hash[Len(ls)]

\* DLL_RebuildConnections: the new ones are inserted into the sorted ones.
Before(c, d) == c.graph < d.graph \/ (c.graph = d.graph /\ c.nbr < d.nbr)
\* Mutant: the new one stays behind the others.
Appended(sorted, c) == Append(sorted, c)

Inserted(sorted, c) ==
    LET k == SelectInSeq(sorted, LAMBDA d : Before(c, d))
    IN  IF k = 0 THEN Append(sorted, c) ELSE InsertAt(sorted, k, c)
RebuildConnections(cs, size) ==
    LET new == Undeleted(SubSeq(cs, size + 1, Len(cs)))
        sorted[n \in 0 .. Len(new)] ==
            IF n = 0 THEN Undeleted(SubSeq(cs, 1, size)) ELSE Inserted(sorted[n - 1], new[n])
    IN  sorted[Len(new)]

\* DLL_RebuildHashGraphs.
HashGraph(cs, hash, i) ==
    IF hash # <<>> /\ Last(hash).graph = cs[i].graph
    THEN [hash EXCEPT ![Len(hash)].len = @ + 1]
    ELSE Append(hash, [graph |-> cs[i].graph, idx |-> i, len |-> 1])
RebuildHashGraphs(cs) ==
    LET hash[i \in 0 .. Len(cs)] == IF i = 0 THEN <<>> ELSE HashGraph(cs, hash[i - 1], i)
    IN  hash[Len(cs)]

\* DLL_Configure, on the tables as the disconnections have left them.
Configure(flag, ls, nbs, cs) ==
    LET sfs   == [i \in DOMAIN Undeleted(superframes) |-> Applied(Undeleted(superframes)[i])]
        kept  == Undeleted(ls)
        named == [i \in DOMAIN kept |->
                    IF flag = 3 /\ kept[i].join
                    THEN [kept[i] EXCEPT !.nbr = Broadcast] ELSE kept[i]]
        nb    == RebuildNeighbors(nbs)
        conns == RebuildConnections(cs, crtConns)
    IN  /\ superframes' = sfs
        /\ links' = named
        /\ crtLinks' = Len(named)
        /\ neighbors' = nb.tab
        /\ linkedSize' = nb.size
        /\ hashLinks' = RebuildHashLinks(sfs, named, nb.tab)
        /\ connections' = conns
        /\ crtConns' = Len(conns)
        /\ hashGraphs' = RebuildHashGraphs(conns)

Lost == {a \in Nicknames : \E i \in DOMAIN neighbors :
            neighbors[i].addr = a /\ neighbors[i].gone}
LostLinked == {a \in Nicknames : \E i \in DOMAIN neighbors :
            /\ neighbors[i].addr = a /\ neighbors[i].gone
            /\ neighbors[i].linked # {} \/ i <= linkedSize}

\* DLL_Timeslot_Start: first the neighbours that have disconnected.
TimeslotStart ==
    LET toLost(t) == {i \in DOMAIN t : t[i].nbr \in LostLinked}
        ls  == Marked(links, toLost(links))
        cs  == Marked(connections, toLost(connections))
        nbs == [i \in DOMAIN neighbors |->
                    IF neighbors[i].gone
                    THEN [neighbors[i] EXCEPT !.linked = {}, !.deleted = TRUE]
                    ELSE neighbors[i]]
    IN  /\ IF disconnect /\ Lost # {} THEN Configure(1, ls, nbs, cs)
           ELSE IF structs # 0 THEN Configure(structs, links, neighbors, connections)
           ELSE UNCHANGED <<tables, committed>>
        /\ structs' = 0
        /\ disconnect' = FALSE
        /\ UNCHANGED <<net, reset, changes>>

-----------------------------------------------------------------------------
(* The join request over a proxy, NET_ParseProxyInfo, and the states after  *)
(* the join.  Every proxy advertises superframe 0, with a slot to send in   *)
(* and one to receive in.                                                   *)

JoinLinks(proxy) == <<NewLink(0, proxy, 0, {"tx"}, TRUE), NewLink(0, proxy, 1, {"rx"}, TRUE)>>

TablesInit ==
    \E proxy \in Proxies :
        /\ superframes = <<Applied(NewSuperframe(0, 2, TRUE))>>
        /\ links = JoinLinks(proxy) /\ crtLinks = 2
        /\ neighbors = LinkedTo(<<NewNeighbor(proxy)>>, proxy, {"tx", "rx"})
        /\ linkedSize = 1
        /\ connections = <<NewConnection(JoinGraph, proxy)>> /\ crtConns = 1
        /\ hashLinks = RebuildHashLinks(superframes, links, neighbors)
        /\ hashGraphs = RebuildHashGraphs(connections)
        /\ structs = 0 /\ disconnect = FALSE
        /\ net = "joining" /\ reset = FALSE /\ changes = 0

\* The request is repeated over another proxy: what was created for the one
\* before is deleted, and the same superframe is added again.
JoinRetry(proxy) ==
    /\ net = "joining" /\ changes = 0
    /\ Len(superframes) < MaxSuperframes
    /\ Len(links) + 2 <= MaxLinks /\ Len(connections) < MaxConnections
    /\ FindShortNeighbor(neighbors, proxy) # 0
    /\ superframes' = Append(Marked(superframes, DOMAIN superframes), NewSuperframe(0, 2, TRUE))
    /\ links' = Marked(links, DOMAIN links) \o JoinLinks(proxy)
    /\ neighbors' = LinkedTo(Unlinked(neighbors, links, DOMAIN links), proxy, {"tx", "rx"})
    /\ connections' = Append(Marked(connections, DOMAIN connections),
                             NewConnection(JoinGraph, proxy))
    /\ structs' = 1
    /\ UNCHANGED <<committed, disconnect, net, reset, changes>>

\* NET_doQuarantine: the join links become links with everybody.
Quarantined ==
    /\ net = "joining"
    /\ net' = "quarantined"
    /\ structs' = 3
    /\ UNCHANGED <<tables, committed, disconnect, reset, changes>>

Operational ==
    /\ net = "quarantined"
    /\ net' = "operational"
    /\ UNCHANGED <<tables, committed, structs, disconnect, reset, changes>>

-----------------------------------------------------------------------------
(* The commands of the network manager.                                     *)

Counted == changes < MaxChanges /\ changes' = changes + 1

\* A superframe that will be served.
Live(f) == (f.active \/ f.setOn) /\ ~f.deleted /\ ~f.setOff

\* Mutant: a superframe that is to be deleted counts.
CheckAllSuperframes(sfs) ==
    reset' = (reset \/ ~\E i \in DOMAIN sfs : sfs[i].active \/ sfs[i].setOn)

\* The device restarts if it has none left.
CheckSuperframes(sfs) ==
    reset' = (reset \/ ~\E i \in DOMAIN sfs : Live(sfs[i]))

\* Command 965.
WriteSuperframe(id, n, on) ==
    LET k == FindSuperframe(superframes, id)
        f == superframes[k]
        off == f.setOff \/ ~on
        resize == (~f.active \/ off) /\ f.slots # n
        refused == /\ on /\ (f.setOn \/ f.active)
                   /\ n # (IF f.modify THEN f.newSlots ELSE f.slots)
    IN  /\ Counted
        /\ IF k = 0
           THEN /\ Len(superframes) < MaxSuperframes
                /\ superframes' = Append(superframes, NewSuperframe(id, n, on))
                /\ UNCHANGED <<links, neighbors>>
           ELSE /\ ~refused
                /\ superframes' = [superframes EXCEPT ![k] =
                        [f EXCEPT !.deleted = FALSE, !.setOff = off,
                                  !.newSlots = IF resize THEN n ELSE @,
                                  !.modify = f.modify \/ resize,
                                  !.setOn = f.setOn \/ on]]
                /\ IF resize THEN DeleteLinks({i \in DOMAIN links : links[i].sf = id /\ links[i].slot >= n})
                   ELSE UNCHANGED <<links, neighbors>>
        /\ CheckSuperframes(superframes')
        /\ structs' = 1
        /\ UNCHANGED <<committed, connections, disconnect, net>>

\* Command 966.
DeleteSuperframe(id) ==
    LET k == FindSuperframe(superframes, id)
    IN  /\ Counted
        /\ k # 0
        /\ superframes' = [superframes EXCEPT ![k].deleted = TRUE]
        /\ DeleteLinks({i \in DOMAIN links : links[i].sf = id})
        /\ CheckSuperframes(superframes')
        /\ structs' = 1
        /\ UNCHANGED <<committed, connections, disconnect, net>>

\* Command 967, for a normal link with a neighbour.
WriteLink(sf, a, slot, options) ==
    LET k == FindLink(sf, a, slot)
        f == FindSuperframe(superframes, sf)
    IN  /\ Counted
        /\ Len(links) < MaxLinks
        /\ net = "operational" /\ k # 0 => links[k].deleted
        /\ f # 0 /\ slot < superframes[f].slots
        /\ \E nbs \in Added(neighbors, a) : neighbors' = LinkedTo(nbs, a, options)
        /\ links' = Append(links, NewLink(sf, a, slot, options, FALSE))
        /\ structs' = 1
        /\ UNCHANGED <<committed, superframes, connections, disconnect, net, reset>>

\* Command 968.
DeleteLink(sf, a, slot) ==
    LET k == FindLink(sf, a, slot)
        marked == [links EXCEPT ![k].deleted = TRUE]
    IN  /\ Counted
        /\ k # 0
        /\ links' = marked
        /\ neighbors' = Recounted(neighbors, marked, {a})
        /\ structs' = 1
        /\ UNCHANGED <<committed, superframes, connections, disconnect, net, reset>>

\* The connection is added, or kept if it was marked.
Connected(cs, g, a) ==
    LET k == FindConnection(cs, g, a)
    IN  IF k # 0 THEN [cs EXCEPT ![k].deleted = FALSE]
        ELSE IF Len(cs) < MaxConnections THEN Append(cs, NewConnection(g, a))
        ELSE cs

\* Command 969.
WriteConnection(g, a) ==
    LET n == FindShortNeighbor(neighbors, a)
    IN  /\ Counted
        /\ n # 0 /\ "tx" \in neighbors[n].linked
        /\ Connected(connections, g, a) # connections
        /\ connections' = Connected(connections, g, a)
        /\ structs' = IF Len(connections') > Len(connections) THEN 1 ELSE structs
        /\ UNCHANGED <<committed, superframes, links, neighbors, disconnect, net, reset>>

\* Links of superframe sf that lead to a neighbour.
Leads(sf, e) == /\ e.sf = sf /\ "tx" \in e.options /\ ~e.deleted
                /\ e.join => net = "joining"
AllConnected(sf) ==
    LET conns[i \in 0 .. Len(links)] ==
            IF i = 0 THEN connections
            ELSE IF Leads(sf, links[i]) THEN Connected(conns[i - 1], sf, links[i].nbr)
            ELSE conns[i - 1]
    IN  conns[Len(links)]

\* Command 974, for a route that is a superframe: connections with the neighbours
\* that its links lead to.
RouteOnSuperframe(sf) ==
    LET f == FindSuperframe(superframes, sf)
    IN  /\ Counted
        /\ f # 0 /\ ~superframes[f].deleted
        /\ \E i \in DOMAIN links : Leads(sf, links[i])
        /\ connections' = AllConnected(sf)
        /\ structs' = IF Len(connections') > Len(connections) THEN 1 ELSE structs
        /\ UNCHANGED <<committed, superframes, links, neighbors, disconnect, net, reset>>

\* The route over g is no longer there: removeOldConnections.
RouteRemoved(g) ==
    /\ Counted
    /\ LET old == {i \in DOMAIN connections : connections[i].graph = g}
       IN  old # {} /\ connections' = Marked(connections, old)
    /\ structs' = 1
    /\ UNCHANGED <<committed, superframes, links, neighbors, disconnect, net, reset>>

\* Command 970.
DeleteConnection(g, a) ==
    LET k == FindConnection(connections, g, a)
    IN  /\ Counted
        /\ k # 0
        /\ connections' = [connections EXCEPT ![k].deleted = TRUE]
        /\ structs' = 1
        /\ UNCHANGED <<committed, superframes, links, neighbors, disconnect, net, reset>>

-----------------------------------------------------------------------------
(* Receptions, PHY_DataIndicate.                                            *)

Receive(a) ==
    /\ FindShortNeighbor(neighbors, a) = 0
    /\ neighbors' \in Added(neighbors, a)
    /\ UNCHANGED <<committed, superframes, links, connections, structs, disconnect,
                   net, reset, changes>>

ReceiveDisconnect(a) ==
    /\ Counted
    /\ \E nbs \in Added(neighbors, a) :
        neighbors' = [nbs EXCEPT ![FindShortNeighbor(nbs, a)].gone = TRUE]
    /\ disconnect' = TRUE
    /\ UNCHANGED <<committed, superframes, links, connections, structs, net, reset>>

-----------------------------------------------------------------------------
TablesNext ==
    \/ TimeslotStart
    \/ \E proxy \in Proxies : JoinRetry(proxy)
    \/ Quarantined \/ Operational
    \/ \E id \in Superframes :
        \/ \E n \in {s + 1 : s \in Slots}, on \in BOOLEAN : WriteSuperframe(id, n, on)
        \/ DeleteSuperframe(id)
        \/ RouteOnSuperframe(id)
        \/ \E a \in Nicknames, slot \in Slots :
            \/ \E options \in Options : WriteLink(id, a, slot, options)
            \/ DeleteLink(id, a, slot)
    \/ \E g \in Graphs, a \in Nicknames :
        WriteConnection(g, a) \/ DeleteConnection(g, a)
    \/ \E g \in Graphs \union Superframes : RouteRemoved(g)
    \/ \E a \in Nicknames : Receive(a) \/ ReceiveDisconnect(a)

TablesSpec == TablesInit /\ [][TablesNext]_tableVars

-----------------------------------------------------------------------------
(* Properties.                                                              *)

\* Type invariant.
TablesTypeOK ==
    /\ superframes \in Seq(Superframe) /\ Len(superframes) <= MaxSuperframes
    /\ links \in Seq(Link) /\ Len(links) <= MaxLinks /\ crtLinks \in 0 .. Len(links)
    /\ neighbors \in Seq(Neighbor) /\ Len(neighbors) <= MaxNeighbors
    /\ linkedSize \in 0 .. Len(neighbors)
    /\ connections \in Seq(Connection) /\ Len(connections) <= MaxConnections
    /\ crtConns \in 0 .. Len(connections)
    /\ structs \in {0, 1, 3} /\ disconnect \in BOOLEAN /\ reset \in BOOLEAN
    /\ net \in {"joining", "quarantined", "operational"}
    /\ changes \in 0 .. MaxChanges

Room == Cardinality(Nicknames) <= MaxNeighbors

\* What a slot is served from: every entry of the hash of the links refers to a
\* committed link, to the enabled superframe of that link, and (while no neighbour
\* had to be replaced) to the neighbour that the link leads to, whatever has been
\* written, deleted or received since it was built.
HashSound ==
    \A k \in DOMAIN hashLinks :
        LET h == hashLinks[k] IN
        /\ h.link \in 1 .. crtLinks
        /\ h.sf \in DOMAIN superframes
        /\ superframes[h.sf].id = links[h.link].sf /\ superframes[h.sf].active
        /\ Room /\ h.nbr # NoIndex =>
            h.nbr \in DOMAIN neighbors /\ neighbors[h.nbr].addr = links[h.link].nbr

\* The committed connections are sorted, and each graph is once in the hash, with all
\* its connections and no others: a packet on a graph finds every neighbour it may go to.
GraphsSorted ==
    /\ \A i, j \in 1 .. crtConns : i < j => ~Before(connections[j], connections[i])
    /\ \A i \in 1 .. crtConns : \E k \in DOMAIN hashGraphs :
        /\ hashGraphs[k].graph = connections[i].graph
        /\ i \in hashGraphs[k].idx .. hashGraphs[k].idx + hashGraphs[k].len - 1
    /\ \A k \in DOMAIN hashGraphs :
        \A i \in hashGraphs[k].idx .. hashGraphs[k].idx + hashGraphs[k].len - 1 :
            i \in 1 .. crtConns /\ connections[i].graph = hashGraphs[k].graph
    /\ \A k, m \in DOMAIN hashGraphs : hashGraphs[k].graph = hashGraphs[m].graph => k = m

\* NET_TransmitIndicate routes a packet directly to a neighbour by its m_bLinked:
\* there is such a link (the proxy of the join is excepted, since its join links
\* become links with everybody and m_bLinked does not follow).
LinkedMeansLink ==
    \A i \in DOMAIN neighbors :
        neighbors[i].addr \notin Proxies =>
            neighbors[i].linked \subseteq LinkedBy(links, neighbors[i].addr)

\* The comment in DLL_Configure on m_bModifySlots: it may be set only if the
\* superframe is disabled or set disabled.
ResizedOnlyDisabled ==
    \A i \in DOMAIN superframes :
        superframes[i].modify => ~superframes[i].active \/ superframes[i].setOff

\* A device without a superframe to serve could not be reached any more: it has
\* one, or it has asked for a restart.
SuperframeOrRestart == reset \/ \E i \in DOMAIN superframes : Live(superframes[i])
=============================================================================
