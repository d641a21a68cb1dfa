# TLA+ models of the WirelessHART field device

This directory holds a specification of the protocol core of the firmware under
`source_files/WirelessHart`: TLA+ modules, TLC configurations that check them on
small instances, and proofs that TLAPS checks for every value of the constants.
`PROJECT.json` lists the components, the runs, the lines that every definition
stands for, the hazards, the disagreements that runs show, and the theorems.

## The system

The device runs one endless main loop (`main.c:412-418` and the tasks around it)
and the interrupts of the radio, the timers and the serial ports.  Everything
above the data link queue runs in the main loop, so that the functions of the
network, transport and application layers never interrupt each other; they do
call each other back.

| component | state | operations | interacts with |
|---|---|---|---|
| transport layer, `transport_layer.c` | `g_aTransportTable`: two entries for each session, one as master and one as slave | `TL_TransmitRequest`, `TL_TransmitIndicate`, `TL_TransmitRsp`, `TL_doRetry` | called by the application and by the network layer's receive task; calls `NET_TransmitRequest`, `APP_TransmitIndicate`, `APP_TransmitConfirm` |
| network layer management, `network_layer_dm.c` | `g_aSessionsTable`, routes, graphs, timetables, services | the `NL_*` requests of `NET_Request` | commands of the network manager; marks transport entries unused when it opens a session |
| network layer, `network_layer.c` | receive queue `g_stRecvNSDU`, nonce counters of the sessions, packet handles | receive, check age, decrypt, forward, build and encrypt | fed by the link layer in interrupts, read by the main loop |
| pending commands, `app_layer.c`, `app_cmdresp.c` | `g_sPendingCmdsData` | commands 961, 963, 965, 972 with an execution time, `DLL_CheckCmdExecTime` | session table, link-layer tables |
| requests to the manager, `app_cmdreq.c` | `g_aReqNMQueue` | `REQNM_Task`, `APP_TransmitConfirm` | transport layer, delayed responses, services |
| delayed responses and command queue, `drm.c` | `g_stDRSlaveBuf`, `g_aAPPQueue` | `APP_ProcessCmdBuf`, `APP_QueueTask` | transport layer (`TL_TransmitRsp`), user board, requests to the manager |
| user board, `Common_API.c`, `apphart.c` | the message queue of the serial link | tunnelling of commands, answers | command queue |
| join and network states, `network_layer.c`, `app_layer.c` | `g_ucNetJoinState`, `g_ucNetState`, `g_ucJoinCmdFlags` | the join state machine | every layer |
| bursts, events, alarms, health, `app_layer.c` | publish timers, event queue, `g_aAlarmBuff` | publish tasks | transport layer; alarms are added from interrupts |
| data link layer, `datalink_layer*.c` | slot engine, transmit queue, superframes, links, neighbours | one slot after the other, in interrupts | network layer |
| drivers, security, sensors, wired HART, flash, command parsers | registers, samples, frames, records | | |

What is hard in it: a request is answered, repeated, given up or refused while its
copies and their responses are still in the network; the application answers
long after it was asked, and its answer finds a table that has changed; a table
entry is reused while somebody waits for it; a command takes effect at a later
time than the one its admission was tested at; numbers have five, eight or
sixteen bits; alarms and packets arrive in interrupts.

What makes each part correct:

* transport layer: a request is executed at most once and its outcome is told
  exactly to the one who sent it; every request ends; a repeated request gets the
  response its first copy was given; both ends agree on the next number;
* sessions and pending commands: no more sessions than entries, no queued write
  lost, queued writes executed in the order of their times;
* requests to the manager and delayed responses: each initiated delayed response
  ends and is fetched once, an element of the queue is never left waiting;
* tunnelled commands: the answer of the user board goes to the command it is for;
* reception: no packet is delivered twice, none that is new is taken for old;
* requests to the manager: one is out at a time, none for the same service twice, and
  each leaves the queue;
* link queue: the packet in flight is found again, none stays for ever, a buffer is
  left for commands;
* link tables: the hashes that a slot is served from refer to the right rows;
* join: every state has the tables it stands for, and joining ends;
* events: no lasting change is missed, an event stays until it is acknowledged;
* alarms: an alarm is reported once.

## The modules

| module | models |
|---|---|
| `TransportLayer` | the transport layer and the session table it works on, in an environment that may do anything the interfaces allow |
| `RequestResponse` | the abstract specification of an acknowledged exchange |
| `Conversation` | two instances of `TransportLayer` over a network that loses, delays and reorders; implements `RequestResponse` |
| `PendingSessions` | the queue of delayed session writes, with the session table |
| `NonceWindow` | the nonce counters of a session and the history that rejects copies |
| `ManagerRequests` | the queue of requests to the network manager, the table of services, and what bursts and events ask of them |
| `CommandQueue` | the commands of a packet, the command queue, the tunnel to the user board, the delayed-response buffer |
| `LinkQueue` | the packet queue of the data link layer, from the network layer to the radio, and leaving the network |
| `LinkTables` | superframes, links, neighbours, connections and the hashes built from them |
| `JoinProcedure` | the join and network states, advertisers, retries |
| `EventNotification` | scans, event queue, publications and acknowledgements of events |
| `TransportLayerProofs`, `ConversationProofs`, `ManagerRequestsProofs`, `CommandQueueProofs`, `JoinProcedureProofs`, `EventNotificationProofs` | the theorems about the module of that name |
| `SessionProofs` | the theorems about `NonceWindow` |
| `DataLinkProofs` | the theorems about `LinkQueue` and `LinkTables` |
| `MCTransportLayer`, `MCConversation`, `MCPendingSessions`, `MCCommandQueue`, `MCJoinProcedure` | instances for TLC: definitions that a configuration cannot write |

Only `Conversation` composes two modules.  The others meet at interfaces that each
keeps open on its side: `ManagerRequests` leaves open whether the transport layer
accepts and what it confirms, which `TransportLayer` bounds (`RequestOutcome`);
`CommandQueue` leaves open when `ManagerRequests` moves the delayed response;
`TransportLayer` leaves open which packets `LinkQueue` takes; `LinkQueue` takes any
links that `LinkTables` may give it; `JoinProcedure` takes the writes and
deletions of the manager as they come, and `LinkTables` what the join state allows.

### `TransportLayer`

`transport` is `g_aTransportTable`.  A record keeps the fields that control
depends on: `used` is the bit `UNUSED_ENTRY` of `m_ucRetryCount` and `retry` the
rest of it, `active`, `master` and `bcast` are the flags, `seq`, `timer` and
`handle` are `m_ucSequenceNumber`, `m_unResponseTimer` and `m_hTPDUHandle`,
`buffered` says that `m_ucLastPayloadSize` is not 0 and `tpdu` is the transport
type, the number and the application data of `m_aLastPayload`.  The two are
separate because a request of the peer is stored with size 0.  Priorities, service
ids, status bytes, counters of command 779 and alarm 791 are left out: nothing
reads them to decide.

`session` is `g_aSessionsTable` with the type, the peer and the packet counter.
`joined` is `g_unNickname # 0xFFFF`.

Each of the functions is one action, or one for each of its disjoint cases:
`TL_TransmitRequest` is `TL_TransmitRequest` (acknowledged) and
`TL_TransmitPublish` (not acknowledged); `TL_TransmitIndicate` is
`TL_RequestIndicate`, `TL_RetryIndicate`, `TL_PlainIndicate` and
`TL_ResponseIndicate`; `TL_TransmitRsp` and `TL_doRetry` have their names, and the
sweep of `TL_doRetry` over the whole table is one step.  The result `rc` of
`NET_TransmitRequest`, and the set `taken` of the entries whose packets it takes in
the sweep, are arguments of the step: the link queue may be full, or have no
route, at any time.  `sent` is what the step handed down.

The layer calls the application back in the middle of its functions.  Such a
call is pending in `calls` until it returns, and meanwhile the layer itself does
nothing but what the application calls from inside an indication:
`TL_TransmitRsp`, and the commands that write and delete sessions or give the
device its nickname.  From inside a confirm the application calls nothing of
this layer.  `m_bActive` is cleared after the confirm in the code and in the same
step here, which nobody can tell for that reason.

The environment may send any transport type on any session, with any number,
may answer with any payload or none, and may write and delete sessions whenever
commands run.  `Restart` is the start-up of `NET_Init`.

Two details that the model keeps because they matter: the response to a packet of
the join session goes out on session 1, and the response to a request of a
broadcast type on the session before the one it came in on, and both are
buffered in the entry of the session they go out on (`ResponseHome`); a repeat is
redirected for `SEARCH_BROADCAST` only (`RetryHome`).

The first session is never the broadcast session, and the manager writes its
unicast session before its broadcast session; `Transport` allows any order.

### `Conversation` and `RequestResponse`

End A runs the master half of `TransportLayer` and end B the slave half, each by
`INSTANCE` with its own table; both sessions are open before and stay.  The
network is a bag of packets.  Two facts are taken from the network layer: a copy
is delivered at most once (the nonce counters of the session reject a second
delivery), and a packet that is too old is discarded (`NET_CheckPacketAge`); the
age is counted in requests of A.  B answers from inside the indication, as
`APP_TransmitIndicate` does for the commands the device executes itself; commands
that wait are in `CommandQueue`.

The network layer of either end may refuse a packet. A request of A that is refused
leaves its handle and its bytes in A's entry and gives its number back (`A_Refused`);
all refused requests share one handle (`RefusedHandle`), and the others are numbered.

`RequestResponse` says what this is for: requests are submitted one at a time, each is
executed at most once, and a request that is answered to the application has been
executed. `executed` counts, so that a second execution is not a stutter. It speaks of
the requests that A's network layer took. What the application may hear of a refused one
is the run `LateAnswer`.

### `PendingSessions`

`data` and `idx` are `m_aC963_Data` and `m_aC963_Idx`, `table` is the set of sessions
that are in use.  A write is its session, its execution time and the mark of a
creation (`m_ucRemainingSessionsNo = 0xFF`).  The comparison of two
`_time40_t`, which are arrays, compares addresses, and `SortedIdx` sorts so: it puts
the new index before the smaller ones and leaves the others where they are.
`ExecuteDue` is the loop of `DLL_CheckCmdExecTime`, `ExecuteLast` its body.
The manager may write and delete sessions at any time, while writes are queued too.
`DLL_CheckCmdExecTime` has no caller in the sources, so a delayed command is
answered with success and never executed; the module calls it as its header
describes, so that what it does can be checked.

### `NonceWindow`

A packet of a session carries the low byte of its peer's nonce counter.
`NET_InterpretPacket` rebuilds the counter from the greatest one it has accepted
(`peer`, `m_ulPeerNonceCounter`), looks it up in `history`, decrypts with it, and
then sets the bit or moves the window.  `ReceiveLate` and `ReceiveNew` are the two
ways this can end in a delivery; a packet that is discarded changes nothing.  A
wrong counter or the wrong key fails the MIC (`Authentic`).  The network is not a
variable: every packet the peer has sent may arrive at any time and any number of
times.

The arithmetic has the widths of the code.  The rebuilding compares a `uint32`
with `(uint8)counter - 31`, an `int`; `Borrows` compares with that `int` converted
(`Unsigned`), which makes the comparison false whenever the edge is negative.

The key of a session is replaced at each end at a time of its own, one key apart at
most.  `keepOld` is the timer of the retained key; the code keeps the key and the
timer and never decrypts with it.  `keyOf` and `delivered` are history variables.
The session is opened by command 963 with the counter that the peer used last.
Counters do not reach the end of their 32 bits (`CounterAssumption`).

### `ManagerRequests`

`queue` is `g_aReqNMQueue`.  An element keeps its status, its command (799 asks for
a service, 801 gives it back), its service, whether it points to the
delayed-response buffer, and its retries; `due` stands for the two age tests of
`REQNM_Task` (older than the send delay, older than the maximal age).  `crt` is the
static index from which `REQNM_Task` goes round the queue.  The steps are one pass of
`REQNM_Task`, the pass of the service task, commands 117 and 118 and the
requests of the user board that put an element in, and the branches of
`APP_TransmitConfirm`: granted, postponed, denied, without an answer. `dr` is the
delayed-response buffer as far as the queue moves it. The manager may create and delete
services by itself (`ManagerIds`, commands 973 and 801).

`tl` is the transport layer's entry of the session with the manager, as far as it
decides which element an answer meets: the handle in it, whether its request is active,
what the request with its number asked for, and the answer to it. The response branch of
`TL_TransmitIndicate` compares the number only, and `APP_TransmitConfirm` never looks at
`m_ucStatus`. So an answer may come any number of times, before the entry's next request
is sent, and it meets the element that the handle names, whatever has become of it: it
may revive a request that was given up, postpone one that is not sent yet, or end one
that it is not the answer to (`Responds`). A copy of a request is answered as the first
one was (`tl.reply`). A request that the network layer refuses leaves its handle in the
entry (`TlResults`), and a new session makes the entry unused (`SessionWritten`).

### `CommandQueue`

`work` is the packet that `APP_ProcessCmdBuf` goes through, with its place in the
command list and the response so far; `elem` is the only element of `g_aAPPQueue`.
A packet is a sender and a list of kinds of commands: carried out and answered,
carried out without a response, meant for the user board, waiting for the manager,
flushing the delayed responses (command 106).  `Process` is one turn of the loop,
with a disjunct for each way a turn may end; `QueueTask` takes the packet on when
it may go on, and `QueueTaskWired` is its branch for a wired master.  A response is the
list of commands its parts answer, each with the side it came from, so that a mix-up
would be seen.  A command
that finds too little room for its response gets RCS_E60, and the rest of the packet is
ignored (`PayloadTooLong`); how much room is left is open at each command.

The user board sends its answer until it is acknowledged, with a message number of
one bit; `RcvAnswer(FALSE)` is an answer whose acknowledgement is lost.  The
number and the result of the last message (`gLastMsg`) are what the device
recognises a repetition by.  What the network manager does to a delayed response
is `DrMoves`.

The queue element is pending for every packet that waits, also for one whose command
waits for the manager and not for the board (`app_layer.c:543`); such a packet goes on
only when its element is reused or an answer of the board happens to come, so that
`BoardWaitersEnd` is stated for the packets that do wait for the board.

### `LinkQueue`

`queue` is `g_aDllQueue` with its packets: identity, priority, destination, marked
as deleted or not, retries, age.  `crt` is the part that the slot may choose from, which
`DLL_Configure` makes as long as the queue at the start of a slot, after the marked
packets have gone.  `slot` is `m_pQueue` and `m_ucNeedACK`, `buffer` the packet that
was composed, `xvr` the state of the transceiver.  One slot is several steps, between
which the main loop queues packets (`NET_TransmitRequest`) and the reception
interrupt forwards some (`NET_TransmitIndicate`): the start of the slot, the
transmission, its end, the acknowledgement or its absence.  `disc` are the stages in
which `disconnectTask` leaves the network: the queue, the disconnect packets, the reset.
`acked` is a history variable.

### `LinkTables`

The tables are sequences, as long as the `All` sizes of the code; `crtLinks`,
`linkedSize` and `crtConns` are the sizes of the last commit, and `hashLinks` and
`hashGraphs` what it built, with entries that are indices into the tables.
`structs` is `g_sDllFlags.m_ucStructs`, with the values 1 (commit) and 3 (commit, and
rename the links of the join), which overwrite each other.  Commands append and
mark; `TimeslotStart` is the start of a slot, and `Configure` in it the commit,
`DLL_Configure`, with what it rebuilds as recursive functions over the tables
(`Undeleted`, `RebuildNeighbors`, `RebuildHashLinks`, `RebuildConnections`,
`RebuildHashGraphs`).  Receptions add or replace neighbours between two slots.
The names that `LinkQueue` has as well carry a `Tables` (`TablesInit`, `TablesSpec`),
so that one module can state theorems about both.  Only normal links to neighbours and
the links of the join are modelled.

### `JoinProcedure`

`netState`, `joinState` and `dll` are `g_ucNetState`, `g_ucNetJoinState` and the status
of the data link layer; `advs` is `g_astAdvNeighbors`, `sorted` and `advIdx` are the
order in which the advertisers are asked. Each state of `NET_StateMachine` is an action
with its conditions. `flags` is `g_ucJoinCmdFlags`, and `holds` says what is in the
tables, which the flags stand for: a flag that outlives its table would be seen. The
manager writes (`Write`) and deletes (`Erase`: commands 964, 966, 968 and a neighbour
that leaves), and a deletion leaves the flags as they are. `running` are the timers;
when one expires is open.

`DLL_AdvertiseIndicate` runs in an interrupt: before and after `NET_Init`, between it
and `DLL_Join` (`between`), and within `NET_Init`, whose resets it may divide at any
place (`Disturbed`). The device is then left with an advertiser and no timer, or a timer
and no advertiser.

A join that fails only asks for the reset (`resetting` is `g_ucResetReason`);
`disconnectTask` in the 250 ms block carries it out some passes later (`Reset`).

An advertiser that finds no place in the table is written at the place
`g_ucAdvOverTresh`, which may lie behind the table (`spilled`). What the program does
from then on is undefined, so the module stops there, and its properties speak of what
happens before.

### `EventNotification`

`scans` and `last` are the ring of three scans; the fourth is the status itself.
`queue` and `size` are the event queue, and an event is identified by the scan
that found it (time stamp and configuration counter).  `isAck` is `g_ucIsEventAck`,
by which `Execute_C119` tells an acknowledgement of the gateway from a publication
of the device.  A skipped request leaves it set, and then the next publication
acknowledges itself (`Publish`).  A byte has one bit, and a bit and its negation
are alike, since the scans only compare.  There is one pipe (`MAX_EVENTS_NO` is 1),
on or off as `ManagerRequests` decides.  `told`, `watched`, `acks` (the
events that the gateway has acknowledged) and `own` (those that their own publication has)
are history variables.

## Runs

| run | question | result |
|---|---|---|
| `Transport` | is every accepted request either still waiting or its outcome told, are numbers spent only on packets that were sent, is a request that can still be answered ever overwritten by a response for another session, and does a number of the slave side advance other than by answering | yes; yes; no; no |
| `Conversation` | do two ends keep their promise over a bad network and with network layers that refuse, does every request end, do the numbers stay in step | yes |
| `LateAnswer` | is a request reported as a success always one that was executed | no, a refused one may be |
| `PendingSessions` | do immediate and delayed session writes fit into the table | no, when a session is deleted meanwhile |
| `NonceWindow` | is a packet ever delivered twice, does the history say what was delivered, is every new packet accepted | no; yes; yes |
| `ManagerRequests` | is one request out at a time, is a service asked for twice, do events publish under services that exist, does every request leave the queue | yes; only where a late answer revives a request; yes; yes |
| `CommandQueue` | is every packet answered once, each command carried out once and in order up to the first that finds no room, no answer of the board used twice, and does a packet that waits for the board go on | yes |
| `LinkQueue` | is the packet in flight found again, is one that was acknowledged sent again, is a buffer left for commands, does every packet leave, does a device that leaves restart | yes; no; yes; yes; yes |
| `LinkTables` | do the hashes refer to the right rows, is a neighbour linked only with a link, is an active superframe ever resized, is a device ever without a superframe | yes; yes; no; only with a restart |
| `JoinProcedure` | does every advertiser in the table get its turn in the order of merit, does the device keep what its join flags stand for, does joining end | yes, until one is written behind the table; yes, but for what is deleted; yes |
| `EventNotification` | is a lasting change ever missed, is an event that the gateway has not acknowledged ever removed, does the queue run empty | no; only by its own publication after a skipped request; yes, unless a mask is cut to size 0 |
| `SkippedRequest` | does an event stay until the gateway acknowledges it | no |

Three runs show where the code does something else than its own comments say (`findings`
in `PROJECT.json`).

* `LateAnswer`: request 1 is given up, request 2 is refused by the network layer, which
  returns the number of request 2 but leaves its handle (`transport_layer.c:281`); the
  response to request 1 then arrives, has the number of the entry, and is reported as
  the success of request 2.
* `PendingSessions`: a queued write of a session that is in the table is not a creation
  and claims no place. The session is deleted, immediate writes take the free places,
  and the queued write, when it is due, opens a session behind the table, against
  "aldready handled" (`network_layer_dm.c:133`). It needs `DLL_CheckCmdExecTime` to be
  called, which nothing does yet ("TODO: call this function", `app_layer.c:1240`).
* `SkippedRequest`: a command 119 of the gateway that is not carried out leaves
  `g_ucIsEventAck` set (`drm.c:341`); the next event acknowledges itself when it is
  published, and is removed, although it is to be published "until the ACK(Cmd119
  request) is received" (`app_layer.c:2217`).

### Other oddities of the code

The models follow the code in each of these; none of them has a run of its own.

* Transport layer: the response to a broadcast request is buffered over the
  response in the unicast entry (`transport_layer.c:545`), so that a repeated unicast
  request may fetch the wrong response.
* Pending commands: `DLL_CheckCmdExecTime` has no caller, so that a delayed
  command is answered with success and never executed.  Were it called: an executed
  write is taken out of `m_aC963_Data`, whose later elements move down, while the indices
  in `m_aC963_Idx` do not follow (`app_layer.c:1293`), and times are compared by the
  addresses of their arrays (`app_cmdresp.c:6283`).  When one of several queued writes
  has been executed, the next one takes an index that is in use: one write is
  executed twice and another never, and a creation that is queued is no longer counted.
* Nonce window: the comparison with the edge of the window is unsigned
  (`network_layer.c:2153`), so that a packet that was overtaken across a wrap of
  the byte is discarded; the old key of a session is kept for a time but never
  tried (`network_layer.c:2184`).
* Advertisers: three advertisers over the threshold fill the table; a fourth one,
  heard before the main loop has looked at them, is written behind it
  (`network_layer.c:1619`), where the number of advertisers and other variables lie. The
  comment above the line expects an advertiser below the threshold in the table. TLC
  finds `~spilled` violated in the instance of the run `JoinProcedure`.
* Requests to the manager: the transport layer has sent a request twice, because its
  answer was late. The first answer ends it, and a request of the user board takes the
  element. The answer to the copy has the number of the entry still, whose handle names
  the element: the new request is ended before it was sent, and the board is told that it
  succeeded. The comment of `APP_TransmitConfirm` (`app_layer.c:618`) has the function
  called with the result of the request.
* Requests to the manager: a request that is aborted by its age leaves its delayed
  response "running" for ever (`app_cmdreq.c:67`).
* Tunnelled commands: a command that finds the queue element taken is answered with
  RCS_E61 after it has been sent to the board (`drm.c:306-312`).  The board's answer then
  becomes part of the response of the packet that is pending (`Common_API.c:339`).
* Delayed responses: a delayed command that ends at once may leave an empty response
  and an unset response code (`drm.c:443`); one that waits is pending for ever when
  no answer of the board comes by (`app_layer.c:543`).
* Link queue: packets are deleted in four places and the counter of the alarms
  is counted down in three of them (`datalink_layer_dm.c:337-383`).  `AlarmBuffered`
  states what the comment in `NET_TransmitIndicate` says and fails, which TLC shows
  with `Packets = {1, 2, 3}` and `MaxBuffers = 4`; from then on every alarm of
  another device is refused.
* Link tables: a command between the end of the quarantine and the next slot
  overwrites the order to rename the links of the join (`datalink_layer_dm.h:137`).
* Events: after a mask of no bytes the size of the mask is 0, and an acknowledgement is
  compared over a length of -1 (`app_cmdresp.c:3841`). The first event is published for
  ever, however often the gateway acknowledges it: `EventsAcked` without its exception
  (`~sized`) is violated.
* Events: an update sends the contents of the first place of the queue and not the
  prepared request (`app_layer.c:2258-2271`).  Switching off the pipe drops the events in
  the queue.
* Alarms and health (not modelled): the alarms that are left after a report are
  moved from a wrong offset (`app_layer.c:2479`), and a health report whose later
  packet is refused is not retried (`app_layer.c:1630`).

### Bounds

* `SeqMod` is 3 or 4 instead of 32.  The layer only compares numbers that are
  equal or next to each other; the wrap happens within a few requests.  The
  theorems hold for any modulus from 2.
* `MaxRetries` is 1, and `ReplyTime` 0 or 1: a request is sent, repeated and given up.
* `SessionCount` is 2 (join session and one more): neighbour entries, which is where
  the redirections go.  One handle and one payload: the properties tell a request from a
  response, not one payload from another.  `Transport` goes on from the states in which
  one side, the master or the slave entries, is as at the start (`OneSide`): the two
  entries of a session have nothing in common but the session, and the theorems about
  the same properties know no such bound.  What a step has sent is no part of the view
  (`StateRead`), since no step reads it.
* `Conversation`: `MaxRequests` is 5, more than `SeqMod`, so that numbers are
  reused; `MaxAge` 2 with `SeqMod` 4 is the largest age for which a response cannot
  meet the next request of its number, and `MaxLost` must be below `SeqMod`
  (`AgeAssumption`; with 32 numbers and a packet age of minutes the code is far from
  both).  `MaxLost` is 2: A stops after that many failures in a row.  This is the limit
  of the result.  When a request that never arrived is given up, B stays behind and
  discards every later one; were A to lose as many requests as there are numbers, B would
  take the next one for a repeat and answer it with its last response.
* A's network layer refuses with one code and any number of times, B's with another one.
* `PendingSessions`: three names, a table of two and times up to 2, in which the
  counterexample shows; the session that `NET_Init` opens is fixed, the others are
  symmetric. The queue has room for as many writes as the table has sessions; the code
  would write the next one behind its array.
* `NonceWindow`: a byte of 6 values and a window of 3 bits instead of 256 and 32, and
  12 packets, so that the byte wraps twice from each side of the window and the window
  moves by every size there is; one replacement of the key.  The theorems
  hold for every width.
* `ManagerRequests`: a queue of two, one retry, a burst, an event and a service of the
  manager, room for one service, and one request of others than the service task: the
  queue and the table fill up, and two requests share the queue and meet late answers.
  The commands of the board that wait for their answer are left to C117 and C118, which
  own the delayed response in the same way. The invariants and the action property are
  theorems for any sizes.
* `CommandQueue`: two packets, of two wireless and one wired master, with lists of
  one or two commands that cover each pair of kinds that meet in a packet that waits;
  one request to the manager, two commands in the message queue of the board.
* `LinkQueue`: two packets and two buffers, three of the four priorities (an alarm,
  one above the threshold, a command), two retries, an age of two slots; alarms are
  counted up to two.  The queue is full with two packets, and one is in flight
  while another is queued, marked or compacted.
* `LinkTables`: two superframes, two slots, two neighbours of which one advertises, the
  graph of the join (routes make the numbers of the superframes graphs too), and three
  changes; a change is a command or a reception, slots are not counted.  Three are
  enough to write a row, to write another one that depends on it and to delete one
  before or after a commit.
* `JoinProcedure`: two kinds of network, each behaviour in one of them
  (`MCJoinProcedure`). In one the manager never answers, and four advertisers are heard
  for `MAX_ADV_NEIGHBORS` = 3 places, one of them preferred, with a level on each side of
  the threshold and two retries: the table fills up before and after the minimum of four
  advertisements, the index goes round, and an advertiser may find no place. In the other
  the manager may write and delete at any time, and a single advertiser is heard; the
  retries replace its tables, and the order of the advertisers, which is fixed before the
  manager can write anything, does not matter. `g_ucAdvOverTresh` is counted up to 4
  (`OverBound`), beyond the table.
* `EventNotification`: two bytes that change together, masks with none, one and both
  of them, two events in the queue and two scans that find some: a scan that finds two
  events, a full queue and an overwritten event.

### Fairness

* `Conversation`: `A_doRetry`, which the main loop calls every 250 ms whatever else
  happens, and `A_Confirm`, the return of an upcall.  Nothing is assumed of the
  network, of B, or of the link queue, and `RequestTerminates` still holds, because
  the retry counter is moved whether or not the link layer takes the packet.
* `ManagerRequests`: the tasks of the main loop run, time passes (`Ripen`), and the sweep of
  the transport layer ends an active request (`ConfirmFailed`). The transport layer
  takes what is sent again and again, since it is busy only until the sweep has ended
  what it has; and the manager grants what is asked again and again (strong fairness,
  for each element). Without the latter, requests that are postponed or denied may be
  followed by others in the same element for ever.
* `CommandQueue`: the main loop goes on, and strongly: the command queue is looked at,
  an element ages, the board answers, its answer is received with an acknowledgement
  that arrives, and a delayed response is moved on by the manager.  The
  board may be asked by others in between, so that weak fairness would not do.
* `LinkQueue`: slots follow each other, and `disconnectTask` is called every 250 ms
  (`main.c:447`).  Nothing is assumed of the radio or of the acknowledgements.
* `JoinProcedure`: the state machine is called in each pass, `disconnectTask` every
  250 ms, and each timer that runs and is not restarted expires.  Nothing is assumed of
  advertisers or of the manager.
* `EventNotification`: the join leads to normal operation, the task publishes and a
  publication arrives, an acknowledged event is taken out, and the gateway
  acknowledges the first event once it has seen it.
* The other runs state no liveness.

`CHECK_DEADLOCK FALSE` is set where a bound stops the model (all requests
submitted, last ASN or last counter reached, all packets of `CommandQueue` arrived)
and in `JoinProcedure`, which stops when an advertiser was written behind the
table, and where an operational device may have nothing left to wait for.

## Theorems

Each theorem is proved for every value of the constants that satisfies the named
assumptions of its module.  The pattern is the same everywhere: an inductive invariant
`IInv`, one lemma for each action (or group of actions) that it is preserved, and
the properties from `IInv`.

`TransportLayerProofs`: `TypeCorrect`; `PendingIntact` (`Spec => []PendingRequestIntact`);
`RequestsAnswered` (`RequestOutcome`); `MasterNumbersMove` and `SlaveNumbersMove`.
`IInv == TypeOK /\ EntriesSound`.  `EntriesSound` adds what
`PendingRequestIntact` needs to be preserved: a slave entry never has the master
flag, so that the sweep does not move its timer; the handles of master entries
are the application's and those of slave entries are packets', two disjoint sets
(`ValuesAssumption`: packet handles are below 256, the application's handles start at
0x7000), so that an answer never hits a master entry; and the timer of a master
entry is not the mark of a response.  A response that is redirected to a neighbour
entry invalidates the handle there in the same step (`transport_layer.c:552`), which is
the fact the proof of `TL_TransmitRsp` rests on (`AnswerEffect`).

`ConversationProofs`: `TypeCorrect`, `InStepAlways` and `ExchangeImplemented` (`Spec =>
RequestResponseHolds`, the refinement), for any number of requests, any modulus, age and
loss within `AgeAssumption`, and whatever the network layers of both ends refuse.
The invariant follows `e`, the last request that B has executed: `IInv` says that
`Upto(e)` holds for some `e` in `0 .. submitted`. B's entry has the number of `e` and
buffers its response, or B has a request in hand, which is then the next one, or the
first one that reached it at all (`SlaveSound`); nothing beyond `e` is executed, and A
is at most `MaxLost` requests ahead of it (`ExecutedSound`); a request in the network
was the last one when it was sent, and a response is one to an executed request, sent
before B was too far ahead or too far behind (`NetSound`). `MasterSound` fixes A's entry
by `submitted`, but for its handle and its bytes, which may be those of a refused
request. Requests that can meet are therefore less than `SeqMod` apart, so that equal
numbers mean the same request: at B, a request with the number of the entry is `e`
itself, a repeat, and one with the next number is `e + 1` and new; at A, a response with
the number of the entry answers the request that waits.

`SessionProofs`: `TypeCorrect`, `NoReplay` (`Spec => []DeliveredOnce`),
`HistoryExact` (`Spec => []WindowSound`) and `FreshPackets`
(`Spec => []FreshAccepted`).  `IInv` adds `NoneAhead`: nothing above the greatest
accepted counter has been delivered.  Without it a move of the window would have
to be shown to skip undelivered packets only.  The
argument rests on `RebuiltRange`: a rebuilt counter is never below the window, so that
the `else` branch of the update (`network_layer.c:2203`), which takes everything
outside the window for newer, is right to do so.

`ManagerRequestsProofs`: `TypeCorrect`, `OneOutstandingAlways`,
`SecondOnlyRevivedAlways`, `ServedIsInTableAlways`. `IInv` adds `RequestsSound`: an
element that is in use asks for a service of the device's own; `AskedSound`: so does the
request that holds the number of the transport entry; and `ActiveWaits`: a request that
the transport layer has in hand waits in the queue and is not old. The argument:
`REQNM_Task` sends only after it has looked at every element and found no reason to
return, so that no other one waits; an answer sets no element waiting, whatever state it
meets it in; it makes an element live that was not only if that had been given up, since
a cleared one has no command; a new request is made only where no live one for the
service is found; and whoever removes a service from the table clears the event that
used it in the same step.

`CommandQueueProofs`: `TypeCorrect`, `AccountedAlways`, `StartWaitsAlways`.  `IInv` adds
`Held` and `StartHeld`, which say who holds which packet: the loop or the
queue, never both, and a claimed buffer belongs to the command at which the packet
stopped.

`OneEachAlways` and `AnswerUsedOnceAlways` need a second invariant on top, `AInv`.
`RspSound`: the response in work, and the one in the queue element, answer the commands
up to the place of the packet, in order, as `OneEach` demands of the whole packet when
it is sent. `BoardOrder`: no command is in the board's queue twice, at most one answer
is on its way, with the number before the board's next one, and every command that the
board has got is behind the place at which its packet now is, so that a command
tunnelled next is a new one. `BoardUses`: a command that is with the board, or whose
answer has not been recognised as a repetition, is in no response yet, and the responses
share no answer of the board. One bit is enough as a number because of the single answer
on its way: one with the number of the last message is the last message (`Repeated`).
Both theorems need the kinds of commands to be disjoint (`KindAssumption`), as the
command numbers of the code are.

`DataLinkProofs`, about `LinkQueue`: `TypeCorrect`, `InFlightAlways`, `NotResentAlways`,
`CommandRoomAlways`. `IInv` has, besides the types and `NotResent`: `QueueSound`, no
packet is queued twice, and those below the priority of a command leave a buffer; `crt
<= Len(queue)`, the slot never chooses beyond what is queued; `DeletionsSound`, a marked
packet has its commit on order (`modified`), and an acknowledged one that is still
queued is marked; `FlightSound`, the packet in the air is at `slot.q`, or a device that
leaves has emptied the queue and the packet is no longer in it. A commit happens only at
the start of a slot, which ends what was in flight, and everybody else appends to the queue
or changes packets in place (`Rewritten`); that is what `InFlight` comes down to.
`NotResent` follows as the commit comes before the choice of the packet.

`DataLinkProofs`, about `LinkTables`: `TablesTypeCorrect`, `HashSoundAlways`,
`GraphsSortedAlways`, `LinkedMeansLinkAlways`, `ResizedOnlyDisabledAlways` and
`SuperframeOrRestartAlways`, for any sizes and sets. `TablesInv` adds to the properties
that an address is in the table of neighbours once (`Unique`), that the links of the
join are with a proxy or with everybody (`JoinSound`), and how the hash of the graphs is
made from the committed connections (`GroupsSound`). Steps between two slots only let
the tables grow: the committed rows keep what the hashes rely on (`SuperframesGrown`,
`LinksGrown`, `NeighborsGrown`, `ConnectionsGrown`), from which one lemma,
`BetweenSlots`, has the hashes still right. A new neighbour replaces an old one only in
a full table, and while the addresses fit into it (`Room`) a table in which one is
missing has a free row, by the pigeonhole principle. The start of a slot builds
everything anew (`ConfigureStep`): compaction keeps the order, the linked neighbours are
exchanged to the front, inserting keeps the connections sorted, and because they are
sorted the hash has one run for each graph.

`JoinProcedureProofs`: `TypeCorrect`, `InTurnAlways`, `ByMeritAlways`,
`FlagsStandAlways`. `IInv` adds `Phases`, until an advertiser is written behind the
table: which states of the network and the join go together, and when no attempt has
been made. `NET_Init` resets the flags and the table of sessions together, and the
tables that `DLL_Join` and the next request erase after it have no flag by then, since
flags for the superframe and the links are set only in the state after the last request;
this is what `FlagsStand` comes down to. The index and the order of the advertisers stay
right because advertisements change the table only in the states before the first
request, also when they divide `NET_Init`.

`EventNotificationProofs`: `TypeCorrect`, `NewestToldAlways`,
`LeavesWithCauseAlways`.  `IInv` adds `WatchedInMask`, `EventsStamped` (events in the
queue have been found by a scan) and `AckedSound` (an event marked as acknowledged has
been, by the gateway or by its own publication).  `NewestTold` is inductive by a case
analysis on the scan that is replaced: if the three scans agree after it, either they
agreed before, or the replaced one was the oldest and different, and then this is the
scan that triggers.

The recursive definitions of `LinkQueue` and `LinkTables` are
recursive functions over the numbers. That such a function exists and satisfies its
equation, and what it yields, is proved by induction in the form of sets of numbers
(`LeastLemma`, `Induction`, `Recursion`), which follows from the well-foundedness of `<`
and does without the induction theorems of the library, which take an operator as a
parameter. `RECURSIVE` operators and the folds of the community modules stay out of the
provers' reach, and no module with a theorem uses them.

Every invariant and every action property of a passing run, and the refinement, is a
theorem.
Model-checked only:

* liveness (`RequestTerminates`, `RequestsEnd`, `BoardWaitersEnd`, `PacketsLeave`,
  `LeavingEnds`, `JoinEnds`, `EventsAcked`), which is out of the prover's reach;
* the counterexamples of `LateAnswer`, `PendingSessions` and `SkippedRequest`;
* that the assumptions of the theorems can be met: TLC evaluates them in every run.

The modules of the device that have theorems state a type invariant (`TypeOK`;
`TablesTypeOK` where another module of the same proofs has that name). All of them are
theorems.

## What is not modelled, and why

* In the modelled components: periods of services and bursts (`ManagerRequests`);
  the board's own messages, aggregated commands (78), delayed responses that the
  board's commands claim, and other commands that meet a busy buffer (`CommandQueue`);
  the partial join after an error of the data link layer (`LinkTables`);
  command 771, the suspended state, the refresh of the join priority and the bits of
  command 769 (`JoinProcedure`); commands 961, 965 and 972 with an execution time
  (`PendingSessions`), whose queues nothing reads; `DRM_REDESIGN` and
  `TRANSPORT_EXTRA_BUFFER`, which are not compiled.
* Health reports and the periods of bursts are timing; the alarm buffer is wrong at
  sight (see above), and no property of it would hold.
* The slot engine (receive windows, channel hopping, clock adjustment, acknowledgement
  frames), the radio, and the statistics, backoff and discovery of neighbours are driven by
  radio timing.  The choice of routes and the bytes of the network header are
  data; the receive queue appears as loss, delay and reordering.
* Hardware drivers and AES are registers; encryption is taken as perfect.
* About 200 command executors are independent of each other and of everything here: a
  range check and an assignment each.  So are the parsers and composers, the
  conversion of sensor values, and the records in flash.  Together with the
  headers these are most of the 82 000 lines of the implementation, which is why the
  models stand for a small part of its lines although they cover most of its protocols.
* Framing of the serial links: bytes and checksums, without a state that the commands
  depend on.
