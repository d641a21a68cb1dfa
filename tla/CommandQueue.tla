----------------------------- MODULE CommandQueue -----------------------------
(***************************************************************************)
(* The commands of a received packet: those the device carries out, those  *)
(* it passes to the user board, and those that are answered later.         *)
(*                                                                         *)
(* APP_ProcessCmdBuf goes through the commands of a packet, called by      *)
(* APP_TransmitIndicate for a wireless packet, by                          *)
(* APPHART_TRANSMIT_indicate for a wired one.  When it meets a command of  *)
(* the user board, or one that needs the network manager first, it returns *)
(* and the packet is put in the only element of g_aAPPQueue;               *)
(* APP_QueueTask continues with the packet once the board has answered.    *)
(* A delayed command owns the buffer g_stDRSlaveBuf, which its request to  *)
(* the network manager moves on (module ManagerRequests).                  *)
(*                                                                         *)
(* All of it runs in the main loop.  The loop over the commands of a       *)
(* packet takes one step for each command; nothing else happens while a    *)
(* packet is worked on.  Of a command the model keeps its kind, of a       *)
(* response which commands its parts answer.                               *)
(***************************************************************************)
EXTENDS Naturals, Sequences, FiniteSets

CONSTANTS
    Masters,      \* the senders of wireless packets
    WiredMasters, \* the wired ones, addresses 0 and 1
    Plain,        \* kinds of commands: those carried out and answered,
    Silent,       \* those that make no response (RCS_N255_MakeNoResponse),
    Tunnelled,    \* those of the user board (not APP_IsCmdForMe),
    Delayed,      \* the forms of a command that waits for the network manager,
    Flush,        \* C106_FlushDelayedResponses,
    MaxRequests,  \* REQNM_QUEUE_SIZE
    SpiRoom,      \* commands that fit in g_aucTxQueue
    Lists,        \* the lists of commands that a packet may hold
    MaxPackets    \* bound of the model: packets that arrive

Sources == Masters \union WiredMasters
Kinds   == UNION {Plain, Silent, Tunnelled, Delayed, Flush}
Packets == 1 .. MaxPackets

ASSUME LimitAssumption  == /\ MaxRequests \in Nat /\ SpiRoom \in Nat
                           /\ MaxPackets \in Nat
ASSUME ListAssumption   == Lists \subseteq Seq(Kinds) \ {<<>>}
ASSUME SourceAssumption == Masters \intersect WiredMasters = {} /\ 0 \notin Sources
                           /\ "none" \notin Kinds
ASSUME KindAssumption   ==
    /\ Plain \intersect UNION {Silent, Tunnelled, Delayed, Flush} = {}
    /\ Silent \intersect UNION {Tunnelled, Delayed, Flush} = {}
    /\ Tunnelled \intersect UNION {Delayed, Flush} = {}
    /\ Delayed \intersect Flush = {}

VARIABLES
    packets,   \* the packets that have arrived
    work,      \* what APP_ProcessCmdBuf works on
    elem,      \* g_aAPPQueue[0]
    dr,        \* g_stDRSlaveBuf: its status, m_unSrcAddr and m_aReq
    requests,  \* requests to the network manager whose m_pDRBuf is the buffer
    toBoard,   \* commands sent to the user board, not answered yet
    fromBoard, \* the message that the board sends until it is acknowledged
    boardId,   \* the board's number for its next message
    lastMsg,   \* gLastMsg
    sent       \* the responses to each packet

vars == <<packets, work, elem, dr, requests, toBoard, fromBoard, boardId, lastMsg,
          sent>>

board == <<toBoard, fromBoard, boardId, lastMsg>>

-----------------------------------------------------------------------------
(* Values.                                                                 *)

Contents == [src : Sources, cmds : Seq(Kinds)]

\* An answer of the device or of the board to the n-th command of a packet;
\* "tooLong" is RCS_E60_PayloadTooLong.
Places  == Packets \X (Nat \ {0})
Answers == [from : {"device", "board", "tooLong"}, to : Places]

\* The place in the packet, the response so far, and whether the last command
\* made none.  full: the rest of the packet is ignored; resumed: called by
\* APP_QueueTask.
Work == [packet : Packets \union {0}, at : Nat \ {0}, rsp : Seq(Answers),
         quiet : BOOLEAN, full : BOOLEAN, resumed : BOOLEAN]

Idle == [packet |-> 0, at |-> 1, rsp |-> <<>>, quiet |-> FALSE, full |-> FALSE,
         resumed |-> FALSE]

\* m_ucReqCrtPos, the response up to m_ucRspCrtPos; aged: APPQUEUE_TIMEOUT has
\* passed since m_ulTimeout.  waits is what the packet was put there for.
Element == [status : {"free", "used", "pending"}, packet : Packets \union {0},
            at : Nat \ {0}, rsp : Seq(Answers), aged : BOOLEAN,
            waits : {"board", "dr"}]

Free == [status |-> "free", packet |-> 0, at |-> 1, rsp |-> <<>>,
         aged |-> FALSE, waits |-> "board"]

DrStatuses == {"inactive", "start", "running", "end", "dead", "conflict"}
Dr   == [status : DrStatuses, src : Sources \union {0}, cmd : Delayed \union {"none"}]
NoDr == [status |-> "inactive", src |-> 0, cmd |-> "none"]

\* The board numbers its messages; two numbers tell one from the next.  about is
\* the command that is answered.  Its messages to be published are left out.
Message == [id : {0, 1}, about : Places]

Init ==
    /\ packets = <<>>
    /\ work = Idle
    /\ elem = Free
    /\ dr = NoDr /\ requests = 0
    /\ toBoard = <<>> /\ fromBoard = {} /\ boardId = 1
    /\ lastMsg = [id |-> 0, done |-> FALSE]
    /\ sent = [p \in Packets |-> <<>>]

-----------------------------------------------------------------------------
(* The loop of APP_ProcessCmdBuf.                                          *)

Source   == packets[work.packet].src
Commands == packets[work.packet].cmds
Wireless == Source \in Masters
Here     == <<work.packet, work.at>>

Working  == work.packet # 0 /\ work.at <= Len(Commands) /\ ~work.full
Command  == Commands[work.at]

\* The command is answered by the device.
Respond(from, full) ==
    work' = [work EXCEPT !.at = @ + 1, !.quiet = FALSE, !.full = full,
               !.rsp = Append(@, [from |-> from, to |-> Here])]

Answer == Respond("device", FALSE)

\* RCS_E60: the room that is left for the response is too small, and the further
\* commands of the packet are ignored.
PayloadTooLong == Respond("tooLong", TRUE)

\* RCS_E61: the code of a command that is not carried out is kept, unless more
\* commands follow and another code would not fit behind it.
Refuse == Answer \/ (work.at < Len(Commands) /\ PayloadTooLong)

\* APP_TransmitIndicate, APPHART_TRANSMIT_indicate and APP_QueueTask after
\* RCS_N258_ReturnToAppQueue or RCS_N256_ReturnWithDR: the packet waits in the
\* queue.  Without a free element a packet that has just arrived is forgotten.
Suspend(at, waits) ==
    /\ work' = Idle
    /\ elem' = IF work.resumed
               THEN [elem EXCEPT !.at = at, !.rsp = work.rsp, !.waits = waits,
                       !.status = IF waits = "board" THEN "pending" ELSE @]
               ELSE IF elem.status = "free"
               THEN [status |-> "pending", packet |-> work.packet, at |-> at,
                     rsp |-> work.rsp, aged |-> FALSE, waits |-> waits]
               ELSE elem

\* A command that the device carries out at once.
Execute ==
    /\ Working /\ Command \in Plain
    /\ Answer
    /\ UNCHANGED <<packets, elem, dr, requests, board, sent>>

\* No part of the response; the loop goes on.
ExecuteSilent ==
    /\ Working /\ Command \in Silent
    /\ work' = [work EXCEPT !.at = @ + 1, !.quiet = TRUE]
    /\ UNCHANGED <<packets, elem, dr, requests, board, sent>>

\* Execute_C106
ExecuteFlush ==
    /\ Working /\ Command \in Flush
    /\ dr' = IF dr.status = "running" THEN dr
             ELSE [dr EXCEPT !.status = "inactive"]
    /\ Answer
    /\ UNCHANGED <<packets, elem, requests, board, sent>>

\* SPI_WriteBuff
SpiTakes == Len(toBoard) < SpiRoom

\* Mutant: APP_getQueueElement is not asked.
QueueNotAsked == TRUE

\* The packet is in the queue, or APP_getQueueElement finds a free element.
QueueTakes == work.resumed \/ elem.status = "free"

\* A command of the user board: SendMessage, and the packet waits.
Tunnel ==
    /\ Working /\ Command \in Tunnelled
    /\ SpiTakes
    /\ toBoard' = Append(toBoard, Here)
    /\ IF QueueTakes
       THEN Suspend(work.at + 1, "board")
       ELSE Refuse /\ UNCHANGED elem  \* RCS_E61, although it was sent
    /\ UNCHANGED <<packets, dr, requests, fromBoard, boardId, lastMsg, sent>>

\* SendMessage finds g_aucTxQueue full.
TunnelFull ==
    /\ Working /\ Command \in Tunnelled
    /\ ~SpiTakes
    /\ Refuse                                    \* RCS_E61
    /\ UNCHANGED <<packets, elem, dr, requests, board, sent>>

-----------------------------------------------------------------------------
(* Delayed commands.                                                       *)

\* findDRBufByCmdId, the same request of the same sender: all of it is compared.
Owned   == dr.src = Source /\ dr.cmd = Command
DrFound == dr.status # "inactive" /\ dr.cmd # "none"

\* The request is known, and it is too early to answer it.
TooEarly == /\ DrFound /\ Owned /\ dr.status = "start"
            /\ Wireless /\ work.resumed /\ ~elem.aged

\* RCS_E36 to somebody else's; E33, E34, the response, E35 or E36 to its sender.
AnswerKnown ==
    /\ Working /\ Command \in Delayed
    /\ DrFound /\ ~TooEarly
    /\ dr' = IF ~Owned \/ dr.status = "running" THEN dr
             ELSE IF dr.status = "start" THEN [dr EXCEPT !.status = "running"]
             ELSE NoDr
    /\ Answer
    /\ UNCHANGED <<packets, elem, requests, board, sent>>

\* Mutant: the input is left behind the command.
BehindIt == work.at + 1

\* p_pInputStream->nextByte = pStart: the command comes again.
Restart == work.at

KeepWaiting ==
    /\ Working /\ Command \in Delayed
    /\ TooEarly
    /\ Suspend(Restart, "dr")
    /\ UNCHANGED <<packets, dr, requests, board, sent>>

\* The executor needs no request, or cannot make one.
ExecuteAtOnce ==
    /\ Working /\ Command \in Delayed
    /\ ~DrFound
    /\ Answer
    /\ UNCHANGED <<packets, elem, dr, requests, board, sent>>

\* A command that would be carried out finds too little room for its response;
\* how much room is left depends on what the commands before it have answered.
ExecuteTooLong ==
    /\ Working
    /\ \/ Command \in UNION {Plain, Silent, Flush}
       \/ Command \in Delayed /\ ~DrFound
    /\ PayloadTooLong
    /\ UNCHANGED <<packets, elem, dr, requests, board, sent>>

\* A wireless command must be able to wait, which one from the queue is not.
DrCanWait == Wireless => elem.status = "free"

\* The executor has put a request in g_aReqNMQueue, with the buffer as m_pDRBuf,
\* and returns RCS_N256_ReturnWithDR.
Initiate ==
    /\ Working /\ Command \in Delayed
    /\ dr.status = "inactive" /\ requests < MaxRequests
    /\ requests' = requests + 1
    /\ IF ~DrCanWait
       THEN Answer /\ UNCHANGED <<elem, dr>>             \* RCS_E32
       ELSE /\ dr' = [status |-> IF Wireless THEN "start" ELSE "running",
                      src |-> Source, cmd |-> Command]
            /\ IF Wireless THEN Suspend(Restart, "dr")
                           ELSE Answer /\ UNCHANGED elem
    /\ UNCHANGED <<packets, board, sent>>

\* APP_TransmitConfirm and REQNM_Task, with m_pDRBuf.
DrMoves(status) ==
    /\ work.packet = 0
    /\ requests > 0
    /\ requests' = requests - 1
    /\ dr' = [dr EXCEPT !.status = status]
    /\ UNCHANGED <<packets, work, elem, board, sent>>

-----------------------------------------------------------------------------
(* APP_QueueTask.                                                          *)

\* Mutant: the place is behind the next command.
ResumeBehind(p, quiet) ==
    [packet |-> p, at |-> elem.at + 1, rsp |-> elem.rsp, resumed |-> TRUE,
     quiet |-> quiet, full |-> FALSE]

\* The rest of the packet in the queue.  unRespCode is not set before the loop:
\* when nothing is left of the packet it may be RCS_N255_MakeNoResponse.
Resume(p, quiet) ==
    [packet |-> p, at |-> elem.at, rsp |-> elem.rsp, resumed |-> TRUE,
     quiet |-> quiet, full |-> FALSE]

Unset(p) == IF elem.at > Len(packets[p].cmds) THEN BOOLEAN ELSE {FALSE}

WiredElem == packets[elem.packet].src \in WiredMasters

QueueTask ==
    /\ work.packet = 0
    /\ elem.status = "used" /\ ~WiredElem
    /\ \E quiet \in Unset(elem.packet) : work' = Resume(elem.packet, quiet)
    /\ UNCHANGED <<packets, elem, dr, requests, board, sent>>

\* A wired packet has one command, which has been answered.
QueueTaskWired ==
    /\ work.packet = 0
    /\ elem.status = "used" /\ WiredElem
    /\ sent' = [sent EXCEPT ![elem.packet] = Append(@, elem.rsp)]
    /\ elem' = Free
    /\ UNCHANGED <<packets, work, dr, requests, board>>

-----------------------------------------------------------------------------
(* The end of a packet, and the packets that come.                         *)

\* TL_TransmitRsp or DLLHART_TRANSMIT_Response.  After RCS_N255_MakeNoResponse
\* the response to a wireless packet is empty, and a wired one gets none.
Finish ==
    /\ work.packet # 0 /\ ~Working
    /\ LET rsp == IF work.quiet THEN <<>> ELSE work.rsp
       IN  sent' = [sent EXCEPT ![work.packet] = Append(@, rsp)]
    /\ elem' = IF work.resumed THEN Free ELSE elem
    /\ work' = Idle
    /\ UNCHANGED <<packets, dr, requests, board>>

\* A packet arrives; a wired one holds one command.
Receive(src, cmds) ==
    /\ work.packet = 0
    /\ Len(packets) < MaxPackets
    /\ src \in WiredMasters => Len(cmds) = 1
    /\ packets' = Append(packets, [src |-> src, cmds |-> cmds])
    /\ work' = [Idle EXCEPT !.packet = Len(packets) + 1]
    /\ UNCHANGED <<elem, dr, requests, board, sent>>

\* APPQUEUE_TIMEOUT passes.
Ages ==
    /\ work.packet = 0
    /\ elem.status # "free" /\ ~elem.aged
    /\ elem' = [elem EXCEPT !.aged = TRUE]
    /\ UNCHANGED <<packets, work, dr, requests, board, sent>>

-----------------------------------------------------------------------------
(* The user board.  A command stays in g_aucTxQueue until the board has it;  *)
(* the board sends its messages one at a time, each until it sees the        *)
(* acknowledgement of API_onRcvHartCommands.                                 *)

BoardAnswers ==
    /\ work.packet = 0
    /\ toBoard # <<>> /\ fromBoard = {}
    /\ fromBoard' = {[id |-> boardId, about |-> Head(toBoard)]}
    /\ toBoard' = Tail(toBoard)
    /\ boardId' = 1 - boardId
    /\ UNCHANGED <<packets, work, elem, dr, requests, lastMsg, sent>>

\* Mutant: the message that came before, and was not used.
RepeatedNotDone(msg) == msg.id = lastMsg.id /\ ~lastMsg.done

\* The message that came before, and was used.
Repeated(msg) == msg.id = lastMsg.id /\ lastMsg.done

\* Mutant: the element stays pending.
StaysPending(msg) ==
    elem' = [elem EXCEPT !.rsp = Append(@, [from |-> "board", to |-> msg.about])]

\* The answer goes to the element that is pending, if there is one.
GiveToElement(msg) ==
    elem' = [elem EXCEPT !.status = "used",
               !.rsp = Append(@, [from |-> "board", to |-> msg.about])]

\* API_onRcvHartCommands with an answer; acked: the board sees the acknowledgement.
RcvAnswer(acked) ==
    /\ work.packet = 0
    /\ \E msg \in fromBoard :
         /\ IF ~Repeated(msg) /\ elem.status = "pending"
            THEN GiveToElement(msg) ELSE UNCHANGED elem
         /\ IF ~Repeated(msg)
            THEN lastMsg' = [id |-> msg.id, done |-> elem.status = "pending"]
            ELSE UNCHANGED lastMsg
    /\ fromBoard' = IF acked THEN {} ELSE fromBoard
    /\ UNCHANGED <<packets, work, dr, requests, toBoard, boardId, sent>>

-----------------------------------------------------------------------------
Process ==
    \/ Execute \/ ExecuteSilent \/ ExecuteFlush
    \/ Tunnel \/ TunnelFull
    \/ AnswerKnown \/ KeepWaiting \/ ExecuteAtOnce \/ Initiate
    \/ ExecuteTooLong
    \/ Finish

Next ==
    \/ Process
    \/ QueueTask \/ QueueTaskWired
    \/ \E src \in Sources, cmds \in Lists : Receive(src, cmds)
    \/ Ages
    \/ \E status \in {"end", "dead", "conflict"} : DrMoves(status)
    \/ BoardAnswers
    \/ \E acked \in BOOLEAN : RcvAnswer(acked)

Spec == Init /\ [][Next]_vars

\* A packet is worked on to its end; each pass of the main loop runs
\* APP_QueueTask and reads the messages of the board; the board answers, and
\* some acknowledgement reaches it; the requests to the network manager end; time
\* passes.
FairSpec ==
    /\ Spec
    /\ WF_vars(Process)
    /\ SF_vars(QueueTask) /\ SF_vars(QueueTaskWired)
    /\ SF_vars(Ages)
    /\ SF_vars(BoardAnswers)
    /\ SF_vars(RcvAnswer(TRUE))
    /\ SF_vars(\E status \in {"end", "dead", "conflict"} : DrMoves(status))

-----------------------------------------------------------------------------
(* Properties.                                                             *)

\* Type invariant: each variable holds what its declaration in drm.h and
\* Common_API.c lets it hold.
TypeOK ==
    /\ packets \in Seq(Contents) /\ Len(packets) <= MaxPackets
    /\ work \in Work
    /\ elem \in Element
    /\ dr \in Dr /\ requests \in 0 .. MaxRequests
    /\ toBoard \in Seq(Places) /\ Len(toBoard) <= SpiRoom
    /\ fromBoard \in SUBSET Message /\ boardId \in {0, 1}
    /\ lastMsg \in [id : {0, 1}, done : BOOLEAN]
    /\ sent \in [Packets -> Seq(Seq(Answers))]

InHand(p) == p \in {work.packet, elem.packet}

\* No packet is forgotten and none is answered twice: a packet that has arrived
\* is worked on or in the queue, and then it has no response, or it has exactly
\* one (app_layer.c:540, "this was actually checked inside APP_ProcessCmdBuf").
Accounted ==
    \A p \in 1 .. Len(packets) : Len(sent[p]) = IF InHand(p) THEN 0 ELSE 1

\* The place in the packet survives the queue: no command is carried out twice
\* or left out when the packet goes on after it has waited.  A response that is
\* sent holds the device's own answers, one for each command that it answers, in
\* the order of the commands.  It goes on to the last command of the packet, or
\* to the first RCS_E60_PayloadTooLong, which nothing follows (drm.c:434, "ignore
\* further commands in this packet").
FromDevice(rsp) == {i \in DOMAIN rsp : rsp[i].from # "board"}
TooLong(rsp)    == {i \in DOMAIN rsp : rsp[i].from = "tooLong"}

AnswersEach(rsp, p, cmds) ==
    LET own == FromDevice(rsp)
        end == IF TooLong(rsp) = {} THEN Len(cmds) ELSE rsp[Len(rsp)].to[2]
    IN  rsp # <<>> =>
          /\ \A i, j \in own : i < j => rsp[i].to[2] < rsp[j].to[2]
          /\ \A i \in own : rsp[i].to[1] = p
          /\ TooLong(rsp) \subseteq {Len(rsp)}
          /\ \A n \in 1 .. end : cmds[n] \in UNION {Plain, Flush, Delayed} =>
                \E i \in own : rsp[i].to[2] = n
          /\ (\A n \in DOMAIN cmds : cmds[n] \notin Delayed \union Silent) =>
                Len(rsp) = end

OneEach ==
    \A p \in Packets : \A k \in DOMAIN sent[p] :
        AnswersEach(sent[p][k], p, packets[p].cmds)

\* An answer of the user board is used once, although the board repeats it as
\* long as the acknowledgement is lost and another packet may wait by then.
UsesOf(place, rsp) ==
    Cardinality({i \in DOMAIN rsp : rsp[i] = [from |-> "board", to |-> place]})

AnswerUsedOnce ==
    \A p, q \in Packets : \A rsp \in {sent[p][k] : k \in DOMAIN sent[p]} :
      \A i \in DOMAIN rsp : rsp[i].from = "board" =>
        /\ UsesOf(rsp[i].to, rsp) = 1
        /\ UsesOf(rsp[i].to, elem.rsp) = 0
        /\ p # q => \A k \in DOMAIN sent[q] : UsesOf(rsp[i].to, sent[q][k]) = 0

\* A delayed response that has been claimed for a wireless command, and not yet
\* been initiated, has the packet of that command in the queue.
StartWaits ==
    dr.status = "start" =>
      LET p == elem.packet IN
        /\ p # 0
        /\ packets[p].src = dr.src
        /\ elem.at \in DOMAIN packets[p].cmds
        /\ packets[p].cmds[elem.at] = dr.cmd

WaitsForBoard == elem.status = "pending" /\ elem.waits = "board"

\* A packet that waits for the user board goes on, whatever acknowledgements are
\* lost and whoever else sends commands to the board meanwhile.
BoardWaitersEnd == WaitsForBoard ~> ~WaitsForBoard
===============================================================================
