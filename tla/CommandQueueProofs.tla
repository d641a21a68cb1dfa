-------------------------- MODULE CommandQueueProofs --------------------------
(***************************************************************************)
(* The command queue for every number of packets and every list of         *)
(* commands.                                                               *)
(*                                                                         *)
(* Accounted needs to know who holds which packet: a packet worked on is   *)
(* the one in the queue exactly when APP_QueueTask has taken it up.        *)
(* StartWaits needs that a packet which is taken up while its delayed      *)
(* response has not been initiated stops at that very command again.       *)
(*                                                                         *)
(* OneEach and AnswerUsedOnce are about responses that have been sent;     *)
(* AInv adds to them the response that is being made.  RspSound: the       *)
(* response of a packet answers its commands up to the place where the     *)
(* packet is, and ends with RCS_E60 when the packet stops there.           *)
(* BoardOrder: the board has only been asked about commands before those   *)
(* places, about none of them twice, and has at most one message on its    *)
(* way.  BoardUses: what it still has to answer, what waits in the queue   *)
(* and what was sent have no command in common.                            *)
(***************************************************************************)
EXTENDS CommandQueue, FiniteSetTheorems, TLAPS

\* Who holds which packet.
Held ==
    /\ work.packet <= Len(packets) /\ elem.packet <= Len(packets)
    /\ elem.status = "free" <=> elem.packet = 0
    /\ work.packet # 0 /\ work.resumed =>
         elem.packet = work.packet /\ elem.status = "used"
    /\ work.packet # 0 /\ ~work.resumed => elem.packet # work.packet
    /\ \A p \in Packets : p > Len(packets) => sent[p] = <<>>

\* The packet of a delayed response that has not been initiated.
StartHeld ==
    dr.status = "start" =>
      /\ dr.src \in Masters
      /\ work.packet # 0 /\ work.resumed => work.at = elem.at /\ ~work.full

IInv == TypeOK /\ Held /\ Accounted /\ StartHeld /\ StartWaits

-----------------------------------------------------------------------------
(* The steps of the loop.                                                  *)

\* What a step of the loop may look at.
LEMMA CommandLemma ==
    ASSUME TypeOK, Held, Working
    PROVE  /\ work.packet \in 1 .. Len(packets) /\ work.packet \in Packets
           /\ work.at \in 1 .. Len(Commands)
           /\ Command \in Kinds /\ Source \in Sources
           /\ Here \in Places
<1>1. work.packet \in 1 .. Len(packets) /\ work.packet \in Packets
  BY LimitAssumption DEF TypeOK, Held, Working, Work, Packets
<1>2. packets[work.packet] \in Contents
  BY <1>1 DEF TypeOK
<1>3. Commands \in Seq(Kinds) /\ Source \in Sources
  BY <1>2 DEF Contents, Commands, Source
<1>4. work.at \in Nat \ {0}
  BY DEF TypeOK, Work
<1>5. work.at \in 1 .. Len(Commands)
  BY <1>3, <1>4 DEF Working
<1> QED BY <1>1, <1>3, <1>4, <1>5 DEF Command, Here, Places

\* A command that is answered, one way or another.
Responds(from, full) ==
    /\ Respond(from, full)
    /\ <<from, full>> \in {<<"device", FALSE>>, <<"tooLong", TRUE>>}

Responded == \E from \in {"device", "tooLong"}, full \in BOOLEAN : Responds(from, full)

LEMMA AnswerIsResponse ==
    /\ Answer => Responded
    /\ PayloadTooLong => Responded
    /\ Refuse => Responded
<1>1. Answer => Responds("device", FALSE)
  BY DEF Answer, Responds
<1>2. PayloadTooLong => Responds("tooLong", TRUE)
  BY DEF PayloadTooLong, Responds
<1> QED BY <1>1, <1>2 DEF Responded, Refuse

\* The response grows, the packet stays.
LEMMA AnswerLemma ==
    ASSUME TypeOK, Held, Working, NEW from, NEW full, Responds(from, full)
    PROVE  /\ work' \in Work
           /\ work'.packet = work.packet /\ work'.resumed = work.resumed
           /\ work'.at = work.at + 1 /\ work'.full = full
           /\ work'.rsp = Append(work.rsp, [from |-> from, to |-> Here])
<1>1. Here \in Places
  BY CommandLemma
<1>2. from \in {"device", "tooLong"} /\ full \in BOOLEAN
  BY DEF Responds
<1> DEFINE a == [from |-> from, to |-> Here]
<1>3. a \in Answers
  BY <1>1, <1>2 DEF Answers
<1>4. work \in Work
  BY DEF TypeOK
<1>5. work' = [work EXCEPT !.at = @ + 1, !.quiet = FALSE, !.full = full,
                     !.rsp = Append(@, a)]
  BY DEF Responds, Respond
<1> HIDE DEF a
<1>6. Append(work.rsp, a) \in Seq(Answers)
  BY <1>3, <1>4 DEF Work
<1>7. work.at + 1 \in Nat \ {0}
  BY <1>4 DEF Work
<1>8. /\ work' \in Work
      /\ work'.packet = work.packet /\ work'.resumed = work.resumed
      /\ work'.at = work.at + 1 /\ work'.full = full
      /\ work'.rsp = Append(work.rsp, a)
  BY <1>2, <1>4, <1>5, <1>6, <1>7 DEF Work
<1> QED BY <1>8 DEF a

\* A step that answers a command without touching the queue.
LEMMA AnswerKeeps ==
    ASSUME IInv, Working, Responded, UNCHANGED <<packets, elem, sent>>,
           dr' \in Dr, requests' \in 0 .. MaxRequests,
           toBoard' \in Seq(Places), Len(toBoard') <= SpiRoom,
           UNCHANGED <<fromBoard, boardId, lastMsg>>,
           dr'.status = "start" => dr' = dr /\ ~work.resumed
    PROVE  IInv'
<1>1. /\ work' \in Work
      /\ work'.packet = work.packet /\ work'.resumed = work.resumed
  BY AnswerLemma DEF IInv, Responded
<1>2. TypeOK'
  BY <1>1 DEF IInv, TypeOK
<1>3. Held'
  BY <1>1 DEF IInv, Held
<1>4. Accounted'
  BY <1>1 DEF IInv, Accounted, InHand
<1>5. StartHeld' /\ StartWaits'
  BY <1>1 DEF IInv, StartHeld, StartWaits
<1> QED BY <1>2, <1>3, <1>4, <1>5 DEF IInv

\* A packet that has been taken up for a delayed response comes to its command.
LEMMA ResumedLemma ==
    ASSUME IInv, Working, work.resumed, dr.status = "start"
    PROVE  Command \in Delayed /\ Owned /\ DrFound /\ Wireless
<1>1. elem.packet = work.packet /\ work.at = elem.at /\ work.packet # 0
  BY DEF IInv, Held, StartHeld, Working
<1>2. /\ packets[elem.packet].src = dr.src
      /\ packets[elem.packet].cmds[elem.at] = dr.cmd
      /\ dr.src \in Masters
  BY DEF IInv, StartWaits, StartHeld
<1>3. Source = dr.src /\ Command = dr.cmd
  BY <1>1, <1>2 DEF Source, Command, Commands
<1>4. Command \in Kinds /\ dr.cmd \in Delayed \union {"none"}
  BY CommandLemma DEF IInv, TypeOK, Dr
<1>5. "none" \notin Kinds
  BY SourceAssumption
<1>6. Command \in Delayed /\ dr.cmd # "none"
  BY <1>3, <1>4, <1>5
<1> QED BY <1>2, <1>3, <1>6 DEF Owned, DrFound, Wireless

\* No other command is met by such a packet.
LEMMA NotResumed ==
    ASSUME IInv, Working, Command \notin Delayed, dr.status = "start"
    PROVE  ~work.resumed
BY ResumedLemma

\* A packet that goes to the queue, or stays in it.
LEMMA SuspendLemma ==
    ASSUME IInv, Working, work.resumed \/ elem.status = "free",
           NEW at \in {work.at, work.at + 1}, NEW waits \in {"board", "dr"},
           Suspend(at, waits), UNCHANGED <<packets, sent>>
    PROVE  /\ work' = Idle /\ elem' \in Element
           /\ elem'.packet = work.packet /\ elem'.at = at
           /\ Held' /\ Accounted'
<1>1. /\ work.packet \in 1 .. Len(packets) /\ work.packet \in Packets
      /\ work \in Work /\ elem \in Element /\ at \in Nat \ {0}
  BY CommandLemma DEF IInv, TypeOK, Work
<1>2. work' = Idle
  BY DEF Suspend
<1>3. CASE work.resumed
  <2>1. elem' = [elem EXCEPT !.at = at, !.rsp = work.rsp, !.waits = waits,
                   !.status = IF waits = "board" THEN "pending" ELSE @]
    BY <1>3 DEF Suspend
  <2>2. elem.packet = work.packet /\ elem.status = "used"
    BY <1>3 DEF IInv, Held, Working
  <2>3. elem' \in Element /\ elem'.packet = work.packet /\ elem'.at = at
        /\ elem'.status # "free"
    BY <1>1, <2>1, <2>2 DEF Element, Work
  <2> QED BY <1>1, <1>2, <2>2, <2>3 DEF IInv, Held, Accounted, InHand, Idle
<1>4. CASE ~work.resumed
  <2>1. elem.status = "free" /\ elem.packet = 0
    BY <1>4 DEF IInv, Held
  <2>2. elem' = [status |-> "pending", packet |-> work.packet, at |-> at,
                 rsp |-> work.rsp, aged |-> FALSE, waits |-> waits]
    BY <1>4, <2>1 DEF Suspend
  <2>3. elem' \in Element /\ elem'.packet = work.packet /\ elem'.at = at
        /\ elem'.status # "free"
    BY <1>1, <2>2 DEF Element, Work
  <2> QED BY <1>1, <1>2, <2>1, <2>3, LimitAssumption
             DEF IInv, Held, Accounted, InHand, Idle, Packets
<1> QED BY <1>3, <1>4

LEMMA ExecuteStep ==
    ASSUME IInv, Execute \/ ExecuteFlush \/ TunnelFull \/ ExecuteTooLong
    PROVE  IInv'
<1>1. Working /\ (Command \notin Delayed \/ ~DrFound)
  BY KindAssumption DEF Execute, ExecuteFlush, TunnelFull, ExecuteTooLong
<1>2. dr' \in Dr /\ (dr'.status = "start" => dr' = dr /\ ~work.resumed)
  <2>1. dr \in Dr
    BY DEF IInv, TypeOK
  <2>2. CASE ExecuteFlush
    BY <1>1, <2>1, <2>2, ResumedLemma DEF ExecuteFlush, Dr, DrStatuses
  <2>3. CASE Execute \/ TunnelFull \/ ExecuteTooLong
    BY <1>1, <2>1, <2>3, ResumedLemma DEF Execute, TunnelFull, ExecuteTooLong
  <2> QED BY <2>2, <2>3
<1>3. /\ Responded /\ UNCHANGED <<packets, elem, sent>>
      /\ UNCHANGED <<requests, toBoard, fromBoard, boardId, lastMsg>>
  BY AnswerIsResponse DEF Execute, ExecuteFlush, TunnelFull, ExecuteTooLong, board
<1>4. /\ requests \in 0 .. MaxRequests
      /\ toBoard \in Seq(Places) /\ Len(toBoard) <= SpiRoom
  BY DEF IInv, TypeOK
<1> QED BY <1>1, <1>2, <1>3, <1>4, AnswerKeeps

LEMMA SilentStep ==
    ASSUME IInv, ExecuteSilent
    PROVE  IInv'
<1>1. Working /\ Command \notin Delayed
  BY KindAssumption DEF ExecuteSilent
<1>2. work' = [work EXCEPT !.at = @ + 1, !.quiet = TRUE]
      /\ UNCHANGED <<packets, elem, dr, requests, toBoard, fromBoard, boardId, lastMsg, sent>>
  BY DEF ExecuteSilent, board
<1>3. work' \in Work /\ work'.packet = work.packet /\ work'.resumed = work.resumed
  <2>1. work \in Work /\ work.at + 1 \in Nat \ {0}
    BY DEF IInv, TypeOK, Work
  <2> QED BY <1>2, <2>1 DEF Work
<1>4. TypeOK' /\ Held' /\ Accounted'
  BY <1>2, <1>3 DEF IInv, TypeOK, Held, Accounted, InHand
<1>5. dr.status = "start" => ~work.resumed
  BY <1>1, NotResumed
<1> QED BY <1>2, <1>3, <1>4, <1>5 DEF IInv, StartHeld, StartWaits

LEMMA TunnelStep ==
    ASSUME IInv, Tunnel
    PROVE  IInv'
<1>1. Working /\ Command \notin Delayed /\ Len(toBoard) < SpiRoom
  BY KindAssumption DEF Tunnel, SpiTakes
<1>2. /\ toBoard' = Append(toBoard, Here) /\ Here \in Places
      /\ toBoard \in Seq(Places) /\ requests \in 0 .. MaxRequests /\ dr \in Dr
      /\ UNCHANGED <<packets, dr, requests, fromBoard, boardId, lastMsg, sent>>
  BY <1>1, CommandLemma DEF Tunnel, IInv, TypeOK
<1>3. toBoard' \in Seq(Places) /\ Len(toBoard') <= SpiRoom
  BY <1>1, <1>2, LimitAssumption
<1>4. dr.status = "start" => ~work.resumed
  BY <1>1, NotResumed
<1>5. CASE work.resumed \/ elem.status = "free"
  <2>1. Suspend(work.at + 1, "board")
    BY <1>5 DEF Tunnel, QueueTakes
  <2>2. work' = Idle /\ elem' \in Element /\ Held' /\ Accounted'
    BY <1>1, <1>2, <1>5, <2>1, SuspendLemma
  <2>3. dr.status # "start"
    BY <1>4, <1>5 DEF IInv, StartWaits, Held
  <2>4. TypeOK'
    BY <1>2, <1>3, <2>2, LimitAssumption DEF IInv, TypeOK, Idle, Work, Packets
  <2> QED BY <1>2, <2>2, <2>3, <2>4 DEF IInv, StartHeld, StartWaits
<1>6. CASE ~(work.resumed \/ elem.status = "free")
  <2>1. Responded /\ UNCHANGED elem
    BY <1>6, AnswerIsResponse DEF Tunnel, QueueTakes
  <2> QED BY <1>1, <1>2, <1>3, <1>4, <2>1, AnswerKeeps
<1> QED BY <1>5, <1>6

-----------------------------------------------------------------------------
(* Delayed commands.                                                       *)

LEMMA AnswerKnownStep ==
    ASSUME IInv, AnswerKnown
    PROVE  IInv'
<1>1. Working /\ DrFound /\ ~TooEarly /\ Responded
      /\ UNCHANGED <<packets, elem, requests, toBoard, fromBoard, boardId, lastMsg, sent>>
  BY AnswerIsResponse DEF AnswerKnown, board
<1>2. dr \in Dr /\ requests \in 0 .. MaxRequests
      /\ toBoard \in Seq(Places) /\ Len(toBoard) <= SpiRoom
  BY DEF IInv, TypeOK
<1>3. CASE ~Owned
  <2>1. dr.status = "start" => ~work.resumed
    BY <1>1, <1>3, ResumedLemma
  <2>2. dr' = dr
    BY <1>3 DEF AnswerKnown
  <2> QED BY <1>1, <1>2, <2>1, <2>2, AnswerKeeps
<1>4. CASE Owned
  <2>1. dr' \in Dr /\ dr'.status # "start"
    <3>1. CASE dr.status = "start"
      <4>1. dr' = [dr EXCEPT !.status = "running"]
        BY <1>4, <3>1 DEF AnswerKnown
      <4> QED BY <1>2, <4>1 DEF Dr, DrStatuses
    <3>2. CASE dr.status = "running"
      <4>1. dr' = dr
        BY <1>4, <3>2 DEF AnswerKnown
      <4> QED BY <1>2, <3>2, <4>1
    <3>3. CASE dr.status \in {"end", "dead", "conflict"}
      <4>1. dr' = NoDr
        BY <1>4, <3>3 DEF AnswerKnown
      <4> QED BY <4>1 DEF NoDr, Dr, DrStatuses
    <3> QED BY <1>1, <1>2, <3>1, <3>2, <3>3 DEF DrFound, Dr, DrStatuses
  <2> QED BY <1>1, <1>2, <2>1, AnswerKeeps
<1> QED BY <1>3, <1>4

LEMMA KeepWaitingStep ==
    ASSUME IInv, KeepWaiting
    PROVE  IInv'
<1>1. Working /\ work.resumed /\ dr.status = "start" /\ Suspend(Restart, "dr")
      /\ UNCHANGED <<packets, dr, requests, toBoard, fromBoard, boardId, lastMsg, sent>>
  BY DEF KeepWaiting, TooEarly, board
<1>2. /\ work' = Idle /\ elem' \in Element /\ elem'.packet = work.packet
      /\ elem'.at = work.at /\ Held' /\ Accounted'
  BY <1>1, SuspendLemma DEF Restart
<1>3. work.packet = elem.packet /\ work.at = elem.at /\ dr.src \in Masters
  BY <1>1 DEF IInv, Held, StartHeld, Working
<1>4. TypeOK' /\ StartHeld'
  BY <1>1, <1>2, <1>3 DEF IInv, TypeOK, StartHeld, Idle, Work
<1>5. StartWaits'
  BY <1>1, <1>2, <1>3 DEF IInv, StartWaits
<1> QED BY <1>2, <1>4, <1>5 DEF IInv

LEMMA ExecuteAtOnceStep ==
    ASSUME IInv, ExecuteAtOnce
    PROVE  IInv'
<1>1. Working /\ ~DrFound /\ Responded
      /\ UNCHANGED <<packets, elem, dr, requests, toBoard, fromBoard, boardId, lastMsg, sent>>
  BY AnswerIsResponse DEF ExecuteAtOnce, board
<1>2. dr \in Dr /\ requests \in 0 .. MaxRequests
      /\ toBoard \in Seq(Places) /\ Len(toBoard) <= SpiRoom
  BY DEF IInv, TypeOK
<1>3. dr.status = "start" => ~work.resumed
  BY <1>1, ResumedLemma
<1> QED BY <1>1, <1>2, <1>3, AnswerKeeps

LEMMA InitiateStep ==
    ASSUME IInv, Initiate
    PROVE  IInv'
<1>1. /\ Working /\ Command \in Delayed /\ dr.status = "inactive"
      /\ requests' = requests + 1 /\ requests < MaxRequests
      /\ UNCHANGED <<packets, toBoard, fromBoard, boardId, lastMsg, sent>>
  BY DEF Initiate, board
<1>2. /\ dr \in Dr /\ requests' \in 0 .. MaxRequests
      /\ toBoard \in Seq(Places) /\ Len(toBoard) <= SpiRoom
  BY <1>1, LimitAssumption DEF IInv, TypeOK
<1>3. work.packet \in 1 .. Len(packets) /\ Source \in Sources
      /\ work.at \in 1 .. Len(Commands)
  BY <1>1, CommandLemma DEF IInv
<1>4. CASE ~DrCanWait
  <2>1. Responded /\ dr' = dr /\ elem' = elem
    BY <1>4, AnswerIsResponse DEF Initiate
  <2> QED BY <1>1, <1>2, <2>1, AnswerKeeps
<1>5. CASE DrCanWait /\ ~Wireless
  <2>1. Responded /\ elem' = elem
        /\ dr' = [status |-> "running", src |-> Source, cmd |-> Command]
    BY <1>5, AnswerIsResponse DEF Initiate
  <2>2. dr' \in Dr /\ dr'.status # "start"
    BY <1>1, <1>3, <2>1 DEF Dr, DrStatuses
  <2> QED BY <1>1, <1>2, <2>1, <2>2, AnswerKeeps
<1>6. CASE DrCanWait /\ Wireless
  <2>1. /\ Suspend(Restart, "dr") /\ elem.status = "free"
        /\ dr' = [status |-> "start", src |-> Source, cmd |-> Command]
    BY <1>6 DEF Initiate, DrCanWait
  <2>2. dr' \in Dr
    BY <1>1, <1>3, <2>1 DEF Dr, DrStatuses
  <2>3. /\ work' = Idle /\ elem' \in Element /\ elem'.packet = work.packet
        /\ elem'.at = work.at /\ Held' /\ Accounted'
    BY <1>1, <2>1, SuspendLemma DEF Restart
  <2>4. TypeOK' /\ StartHeld'
    BY <1>1, <1>2, <1>6, <2>1, <2>2, <2>3
       DEF IInv, TypeOK, StartHeld, Idle, Work, Wireless
  <2>5. StartWaits'
    BY <1>1, <1>3, <2>1, <2>3 DEF StartWaits, Source, Command, Commands
  <2> QED BY <2>3, <2>4, <2>5 DEF IInv
<1> QED BY <1>4, <1>5, <1>6

LEMMA DrMovesStep ==
    ASSUME IInv, NEW status \in {"end", "dead", "conflict"}, DrMoves(status)
    PROVE  IInv'
<1>1. /\ requests > 0 /\ requests' = requests - 1
      /\ dr' = [dr EXCEPT !.status = status]
      /\ UNCHANGED <<packets, work, elem, toBoard, fromBoard, boardId, lastMsg, sent>>
  BY DEF DrMoves, board
<1>2. dr' \in Dr /\ dr'.status # "start"
  <2>1. dr \in Dr
    BY DEF IInv, TypeOK
  <2> QED BY <1>1, <2>1 DEF Dr, DrStatuses
<1>3. requests' \in 0 .. MaxRequests
  BY <1>1, LimitAssumption DEF IInv, TypeOK
<1> QED BY <1>1, <1>2, <1>3
        DEF IInv, TypeOK, Held, Accounted, InHand, StartHeld, StartWaits

-----------------------------------------------------------------------------
(* The queue, and the packets that come and go.                            *)

LEMMA QueueTaskStep ==
    ASSUME IInv, QueueTask
    PROVE  IInv'
<1> PICK quiet \in Unset(elem.packet) : work' = Resume(elem.packet, quiet)
  BY DEF QueueTask
<1>1. /\ work.packet = 0 /\ elem.status = "used" /\ elem.packet # 0
      /\ UNCHANGED <<packets, elem, dr, requests, toBoard, fromBoard, boardId, lastMsg, sent>>
  BY DEF QueueTask, board, IInv, Held
<1>2. elem \in Element /\ quiet \in BOOLEAN
  BY DEF IInv, TypeOK, Unset
<1>3. work' \in Work /\ work'.packet = elem.packet /\ work'.resumed
      /\ work'.at = elem.at /\ ~work'.full
  BY <1>1, <1>2 DEF Resume, Work, Element
<1>4. TypeOK' /\ StartHeld' /\ StartWaits'
  BY <1>1, <1>3 DEF IInv, TypeOK, StartHeld, StartWaits
<1>5. Held' /\ Accounted'
  BY <1>1, <1>3 DEF IInv, Held, Accounted, InHand
<1> QED BY <1>4, <1>5 DEF IInv

\* What the response of a packet does to the account.
LEMMA SentLemma ==
    ASSUME IInv, NEW p \in 1 .. Len(packets), InHand(p), NEW rsp \in Seq(Answers),
           sent' = [sent EXCEPT ![p] = Append(@, rsp)]
    PROVE  /\ sent' \in [Packets -> Seq(Seq(Answers))]
           /\ Len(sent'[p]) = 1
           /\ \A q \in Packets : q # p => sent'[q] = sent[q]
<1>1. p \in Packets /\ sent \in [Packets -> Seq(Seq(Answers))]
  BY LimitAssumption DEF IInv, TypeOK, Packets
<1>2. Len(sent[p]) = 0 /\ sent[p] \in Seq(Seq(Answers))
  BY <1>1 DEF IInv, Accounted
<1>3. Append(sent[p], rsp) \in Seq(Seq(Answers)) /\ Len(Append(sent[p], rsp)) = 1
  BY <1>2
<1> QED BY <1>1, <1>3

LEMMA QueueTaskWiredStep ==
    ASSUME IInv, QueueTaskWired
    PROVE  IInv'
<1>1. /\ work.packet = 0 /\ elem.status = "used" /\ elem.packet # 0
      /\ packets[elem.packet].src \in WiredMasters
      /\ sent' = [sent EXCEPT ![elem.packet] = Append(@, elem.rsp)]
      /\ elem' = Free
      /\ UNCHANGED <<packets, work, dr, requests, toBoard, fromBoard, boardId, lastMsg>>
  BY DEF QueueTaskWired, WiredElem, board, IInv, Held
<1>2. elem.packet \in 1 .. Len(packets) /\ elem.rsp \in Seq(Answers)
  BY <1>1 DEF IInv, TypeOK, Held, Element, Packets
<1>3. /\ sent' \in [Packets -> Seq(Seq(Answers))]
      /\ Len(sent'[elem.packet]) = 1
      /\ \A q \in Packets : q # elem.packet => sent'[q] = sent[q]
  BY <1>1, <1>2, SentLemma DEF InHand
<1>4. dr.status # "start"
  BY <1>1, SourceAssumption DEF IInv, StartHeld, StartWaits
<1>5. TypeOK' /\ StartHeld' /\ StartWaits'
  BY <1>1, <1>3, <1>4 DEF IInv, TypeOK, StartHeld, StartWaits, Free, Element
<1>6. elem'.packet = 0 /\ elem'.status = "free" /\ Len(packets) \in Nat
  BY <1>1 DEF Free, IInv, TypeOK
<1>7. Held'
  <2>1. \A p \in Packets : p > Len(packets) => sent'[p] = <<>>
    <3> SUFFICES ASSUME NEW p \in Packets, p > Len(packets) PROVE sent'[p] = sent[p]
      BY DEF IInv, Held
    <3>1. p # elem.packet
      BY <1>2, <1>6
    <3> QED BY <1>3, <3>1
  <2>2. work'.packet = 0 /\ packets' = packets
    BY <1>1
  <2> QED BY <1>6, <2>1, <2>2 DEF Held
<1>8. Accounted'
  <2>1. work.packet = 0 /\ work'.packet = 0 /\ packets' = packets
    BY <1>1
  <2>2. \A p \in 1 .. Len(packets) : p # 0 /\ ~(p \in {work'.packet, elem'.packet})
    BY <1>6, <2>1
  <2> SUFFICES ASSUME NEW p \in 1 .. Len(packets) PROVE Len(sent'[p]) = 1
    BY <2>1, <2>2 DEF Accounted, InHand
  <2>3. p \in Packets
    BY <1>6, LimitAssumption DEF IInv, TypeOK, Packets
  <2>4. CASE p = elem.packet
    BY <1>3, <2>4
  <2>5. CASE p # elem.packet
    BY <1>3, <2>1, <2>2, <2>3, <2>5 DEF IInv, Accounted, InHand
  <2> QED BY <2>4, <2>5
<1> QED BY <1>5, <1>7, <1>8 DEF IInv

LEMMA FinishStep ==
    ASSUME IInv, Finish
    PROVE  IInv'
<1> DEFINE rsp == IF work.quiet THEN <<>> ELSE work.rsp
<1>1. /\ work.packet # 0 /\ ~Working
      /\ sent' = [sent EXCEPT ![work.packet] = Append(@, rsp)]
      /\ elem' = IF work.resumed THEN Free ELSE elem
      /\ work' = Idle
      /\ UNCHANGED <<packets, dr, requests, toBoard, fromBoard, boardId, lastMsg>>
  BY DEF Finish, board
<1>2. /\ work.packet \in 1 .. Len(packets) /\ rsp \in Seq(Answers)
      /\ elem \in Element
  BY <1>1 DEF IInv, TypeOK, Held, Work, Packets
<1>3. /\ sent' \in [Packets -> Seq(Seq(Answers))]
      /\ Len(sent'[work.packet]) = 1
      /\ \A q \in Packets : q # work.packet => sent'[q] = sent[q]
  <2> HIDE DEF rsp
  <2> QED BY <1>1, <1>2, SentLemma DEF InHand
<1>4. work.resumed => dr.status # "start"
  <2> SUFFICES ASSUME work.resumed, dr.status = "start" PROVE FALSE
    OBVIOUS
  <2>1. /\ elem.packet = work.packet /\ work.at = elem.at /\ ~work.full
        /\ elem.at \in DOMAIN packets[elem.packet].cmds
    BY <1>1 DEF IInv, Held, StartHeld, StartWaits
  <2>2. Commands \in Seq(Kinds)
    <3>1. packets[work.packet] \in Contents
      BY <1>2 DEF IInv, TypeOK
    <3> QED BY <3>1 DEF Contents, Commands
  <2>3. work.at \in DOMAIN Commands
    BY <2>1 DEF Commands
  <2>4. work.at <= Len(Commands)
    BY <2>2, <2>3
  <2> QED BY <1>1, <2>1, <2>4 DEF Working
<1>5. TypeOK' /\ StartHeld' /\ StartWaits'
  BY <1>1, <1>2, <1>3, <1>4
     DEF IInv, TypeOK, StartHeld, StartWaits, Free, Idle, Element, Work
<1>6. /\ work.resumed => elem.packet = work.packet
      /\ ~work.resumed => elem.packet # work.packet
  BY <1>1 DEF IInv, Held
<1>7. elem'.packet = IF work.resumed THEN 0 ELSE elem.packet
  BY <1>1 DEF Free
<1>8. Held'
  <2>1. elem'.packet <= Len(packets') /\ (elem'.status = "free" <=> elem'.packet = 0)
    BY <1>1, <1>7, <1>2 DEF IInv, TypeOK, Held, Free
  <2>2. \A p \in Packets : p > Len(packets') => sent'[p] = <<>>
    BY <1>1, <1>2, <1>3 DEF IInv, Held, Packets
  <2> QED BY <1>1, <2>1, <2>2, <1>2 DEF Held, Idle
<1>9. Accounted'
  <2> SUFFICES ASSUME NEW p \in 1 .. Len(packets)
               PROVE  Len(sent'[p]) = IF p = elem'.packet THEN 0 ELSE 1
    BY <1>1 DEF Accounted, InHand, Idle
  <2>1. CASE p = work.packet
    <3>1. p # elem'.packet
      BY <1>1, <1>6, <1>7, <2>1
    <3> QED BY <1>3, <2>1, <3>1
  <2>2. CASE p # work.packet
    <3>1. p \in Packets
      BY LimitAssumption DEF IInv, TypeOK, Packets
    <3>2. sent'[p] = sent[p]
      BY <1>3, <2>2, <3>1
    <3> QED BY <1>6, <1>7, <2>2, <3>2 DEF IInv, Accounted, InHand
  <2> QED BY <2>1, <2>2
<1> QED BY <1>5, <1>8, <1>9 DEF IInv

LEMMA ReceiveStep ==
    ASSUME IInv, NEW src \in Sources, NEW cmds \in Lists, Receive(src, cmds)
    PROVE  IInv'
<1> DEFINE new == Len(packets) + 1
<1>1. /\ work.packet = 0 /\ Len(packets) < MaxPackets
      /\ packets' = Append(packets, [src |-> src, cmds |-> cmds])
      /\ work' = [Idle EXCEPT !.packet = new]
      /\ UNCHANGED <<elem, dr, requests, toBoard, fromBoard, boardId, lastMsg, sent>>
  BY DEF Receive, board
<1>2. packets \in Seq(Contents) /\ Len(packets) \in Nat /\ new \in Packets
  BY <1>1, LimitAssumption DEF IInv, TypeOK, Packets
<1>3. [src |-> src, cmds |-> cmds] \in Contents
  BY ListAssumption DEF Contents
<1>4. /\ packets' \in Seq(Contents) /\ Len(packets') = new
      /\ \A p \in 1 .. Len(packets) : packets'[p] = packets[p]
  BY <1>1, <1>2, <1>3
<1>5. work' \in Work /\ work'.packet = new /\ ~work'.resumed
  <2>1. work' = [packet |-> new, at |-> 1, rsp |-> <<>>, quiet |-> FALSE,
                 full |-> FALSE, resumed |-> FALSE]
    BY <1>1 DEF Idle
  <2> HIDE DEF new
  <2> QED BY <1>2, <2>1 DEF Work
<1>6. TypeOK'
  BY <1>1, <1>2, <1>4, <1>5, LimitAssumption DEF IInv, TypeOK
<1>7. elem.packet \in Nat /\ elem.packet <= Len(packets)
  BY DEF IInv, TypeOK, Held, Element, Packets
<1>8. Held'
  BY <1>1, <1>2, <1>4, <1>5, <1>7 DEF IInv, Held, Packets
<1>9. Accounted'
  <2> SUFFICES ASSUME NEW p \in 1 .. new
               PROVE  Len(sent[p]) = IF p \in {new, elem.packet} THEN 0 ELSE 1
    BY <1>1, <1>4, <1>5 DEF Accounted, InHand
  <2>1. CASE p = new
    BY <1>2, <2>1 DEF IInv, Held
  <2>2. CASE p # new
    <3>1. p \in 1 .. Len(packets) /\ p # 0
      BY <1>2, <2>2
    <3> QED BY <1>1, <2>2, <3>1 DEF IInv, Accounted, InHand
  <2> QED BY <2>1, <2>2
<1>10. StartHeld' /\ StartWaits'
  <2> SUFFICES ASSUME dr.status = "start"
               PROVE  StartHeld' /\ StartWaits'
    BY <1>1 DEF StartHeld, StartWaits
  <2>1. elem.packet \in 1 .. Len(packets)
    BY <1>7 DEF IInv, StartWaits
  <2>2. packets'[elem.packet] = packets[elem.packet]
    BY <1>4, <2>1
  <2> QED BY <1>1, <1>5, <2>2 DEF IInv, StartHeld, StartWaits
<1> QED BY <1>6, <1>8, <1>9, <1>10 DEF IInv

LEMMA AgesStep ==
    ASSUME IInv, Ages
    PROVE  IInv'
<1>1. /\ elem' = [elem EXCEPT !.aged = TRUE]
      /\ UNCHANGED <<packets, work, dr, requests, toBoard, fromBoard, boardId,
                     lastMsg, sent>>
  BY DEF Ages, board
<1>2. elem \in Element
  BY DEF IInv, TypeOK
<1>3. elem' \in Element /\ elem'.packet = elem.packet /\ elem'.at = elem.at
      /\ elem'.status = elem.status
  BY <1>1, <1>2 DEF Element
<1> QED BY <1>1, <1>3
        DEF IInv, TypeOK, Held, Accounted, InHand, StartHeld, StartWaits

-----------------------------------------------------------------------------
(* The user board.                                                         *)

LEMMA BoardAnswersStep ==
    ASSUME IInv, BoardAnswers
    PROVE  IInv'
<1>1. /\ toBoard # <<>>
      /\ fromBoard' = {[id |-> boardId, about |-> Head(toBoard)]}
      /\ toBoard' = Tail(toBoard) /\ boardId' = 1 - boardId
      /\ UNCHANGED <<packets, work, elem, dr, requests, lastMsg, sent>>
  BY DEF BoardAnswers
<1>2. toBoard \in Seq(Places) /\ Len(toBoard) <= SpiRoom /\ boardId \in {0, 1}
  BY DEF IInv, TypeOK
<1>3. /\ toBoard' \in Seq(Places) /\ Len(toBoard') <= SpiRoom
      /\ Head(toBoard) \in Places
  BY <1>1, <1>2, LimitAssumption
<1>4. fromBoard' \in SUBSET Message /\ boardId' \in {0, 1}
  BY <1>1, <1>2, <1>3 DEF Message
<1> QED BY <1>1, <1>3, <1>4
        DEF IInv, TypeOK, Held, Accounted, InHand, StartHeld, StartWaits

LEMMA RcvAnswerStep ==
    ASSUME IInv, NEW acked \in BOOLEAN, RcvAnswer(acked)
    PROVE  IInv'
<1> PICK msg \in fromBoard :
         /\ IF ~Repeated(msg) /\ elem.status = "pending"
            THEN GiveToElement(msg) ELSE UNCHANGED elem
         /\ IF ~Repeated(msg)
            THEN lastMsg' = [id |-> msg.id, done |-> elem.status = "pending"]
            ELSE UNCHANGED lastMsg
  BY DEF RcvAnswer
<1>1. /\ work.packet = 0
      /\ fromBoard' = (IF acked THEN {} ELSE fromBoard)
      /\ UNCHANGED <<packets, work, dr, requests, toBoard, boardId, sent>>
  BY DEF RcvAnswer
<1>2. /\ msg \in Message /\ fromBoard' \in SUBSET Message /\ elem \in Element
      /\ lastMsg \in [id : {0, 1}, done : BOOLEAN]
  BY <1>1 DEF IInv, TypeOK
<1>3. lastMsg' \in [id : {0, 1}, done : BOOLEAN]
  <2> DEFINE done == elem.status = "pending"
  <2>1. done \in BOOLEAN /\ msg.id \in {0, 1}
    BY <1>2 DEF Message
  <2>2. lastMsg' = [id |-> msg.id, done |-> done] \/ lastMsg' = lastMsg
    OBVIOUS
  <2> HIDE DEF done
  <2> QED BY <1>2, <2>1, <2>2
<1>4. /\ elem' \in Element /\ elem'.packet = elem.packet /\ elem'.at = elem.at
      /\ elem'.status = "free" <=> elem.status = "free"
  <2>1. CASE UNCHANGED elem
    BY <1>2, <2>1
  <2>2. CASE GiveToElement(msg) /\ elem.status = "pending"
    <3>1. [from |-> "board", to |-> msg.about] \in Answers
      BY <1>2 DEF Message, Answers
    <3>2. Append(elem.rsp, [from |-> "board", to |-> msg.about]) \in Seq(Answers)
      BY <1>2, <3>1 DEF Element
    <3> QED BY <1>2, <2>2, <3>2 DEF GiveToElement, Element
  <2> QED BY <2>1, <2>2
<1> QED BY <1>1, <1>2, <1>3, <1>4
        DEF IInv, TypeOK, Held, Accounted, InHand, StartHeld, StartWaits

-----------------------------------------------------------------------------
(* The theorems.                                                           *)

LEMMA InitStep ==
    ASSUME Init
    PROVE  IInv
<1>1. packets \in Seq(Contents) /\ Len(packets) = 0
  BY DEF Init
<1>2. work \in Work /\ elem \in Element /\ dr \in Dr
  BY DEF Init, Idle, Work, Free, Element, NoDr, Dr, DrStatuses
<1>3. sent \in [Packets -> Seq(Seq(Answers))]
  BY DEF Init
<1>4. TypeOK
  BY <1>1, <1>2, <1>3, LimitAssumption DEF Init, TypeOK
<1>5. Held /\ Accounted /\ StartHeld /\ StartWaits
  BY <1>1 DEF Init, Held, Accounted, StartHeld, StartWaits, Idle, Free, NoDr, Packets
<1> QED BY <1>4, <1>5 DEF IInv

LEMMA NextStep ==
    ASSUME IInv, [Next]_vars
    PROVE  IInv'
<1>1. CASE Process
  BY <1>1, ExecuteStep, SilentStep, TunnelStep, AnswerKnownStep, KeepWaitingStep,
     ExecuteAtOnceStep, InitiateStep, FinishStep DEF Process
<1>2. CASE QueueTask \/ QueueTaskWired \/ Ages \/ BoardAnswers
  BY <1>2, QueueTaskStep, QueueTaskWiredStep, AgesStep, BoardAnswersStep
<1>3. CASE \E src \in Sources, cmds \in Lists : Receive(src, cmds)
  BY <1>3, ReceiveStep
<1>4. CASE \E status \in {"end", "dead", "conflict"} : DrMoves(status)
  BY <1>4, DrMovesStep
<1>5. CASE \E acked \in BOOLEAN : RcvAnswer(acked)
  BY <1>5, RcvAnswerStep
<1>6. CASE UNCHANGED vars
  BY <1>6 DEF vars, board, IInv, TypeOK, Held, Accounted, InHand, StartHeld, StartWaits
<1> QED BY <1>1, <1>2, <1>3, <1>4, <1>5, <1>6 DEF Next

\* The conjunction of the invariants and of who holds which packet is inductive.
THEOREM Invariance == Spec => []IInv
<1>1. Init => IInv
  BY InitStep
<1>2. IInv /\ [Next]_vars => IInv'
  BY NextStep
<1> QED BY <1>1, <1>2, PTL DEF Spec

\* The variables of drm.c, spi.c and Common_API.c hold what their declarations
\* let them hold, for every queue to the network manager and room for the board.
THEOREM TypeCorrect == Spec => []TypeOK
<1>1. IInv => TypeOK
  BY DEF IInv
<1> QED BY <1>1, Invariance, PTL

\* Every packet that has arrived is worked on or waits in g_aAPPQueue, or has
\* been answered exactly once, whatever it holds and however it was suspended.
THEOREM AccountedAlways == Spec => []Accounted
<1>1. IInv => Accounted
  BY DEF IInv
<1> QED BY <1>1, Invariance, PTL

\* A buffer in DR_START has its packet in the queue, at the command it is for.
THEOREM StartWaitsAlways == Spec => []StartWaits
<1>1. IInv => StartWaits
  BY DEF IInv
<1> QED BY <1>1, Invariance, PTL

-----------------------------------------------------------------------------
(* OneEach: the responses.                                                 *)

Mine == UNION {Plain, Flush, Delayed}

\* The response that is ready when packet p has been worked on up to a place.
Upto(cmds, p, at, rsp) ==
    /\ at <= Len(cmds) + 1
    /\ \A i, j \in FromDevice(rsp) : i < j => rsp[i].to[2] < rsp[j].to[2]
    /\ \A i \in FromDevice(rsp) : rsp[i].to[1] = p /\ rsp[i].to[2] < at
    /\ \A n \in 1 .. at - 1 :
          cmds[n] \in Mine => \E i \in FromDevice(rsp) : rsp[i].to[2] = n

\* No command is silent or delayed: each has a part of the response.
AllAnswered(cmds) == \A n \in DOMAIN cmds : cmds[n] \notin Delayed \union Silent

\* The board still has to answer the command before the place of a pending element.
Outstanding == IF elem.status = "pending" THEN 1 ELSE 0

\* Only the last part of a response that stops there is RCS_E60.
Ends(full, at, rsp) ==
    /\ full  => TooLong(rsp) = {Len(rsp)} /\ rsp[Len(rsp)].to[2] = at - 1
    /\ ~full => TooLong(rsp) = {}

RspSound ==
    /\ work.packet # 0 =>
         /\ Upto(Commands, work.packet, work.at, work.rsp)
         /\ Ends(work.full, work.at, work.rsp)
         /\ AllAnswered(Commands) => Len(work.rsp) = work.at - 1
         /\ work.resumed => Wireless
    /\ elem.packet # 0 =>
         LET cmds == packets[elem.packet].cmds IN
         /\ Upto(cmds, elem.packet, elem.at, elem.rsp)
         /\ TooLong(elem.rsp) = {}
         /\ AllAnswered(cmds) => Len(elem.rsp) + Outstanding = elem.at - 1
         /\ WiredElem => elem.at = 2
    /\ \A p \in 1 .. Len(packets) :
         packets[p].src \in WiredMasters => Len(packets[p].cmds) = 1

-----------------------------------------------------------------------------
(* AnswerUsedOnce: the answers of the user board.                          *)

FromBoard(rsp) == {i \in DOMAIN rsp : rsp[i].from = "board"}

\* The commands of the board that a response has the answers to.
Used(rsp) == {rsp[i].to : i \in FromBoard(rsp)}
Once(rsp) == \A i, j \in FromBoard(rsp) : rsp[i].to = rsp[j].to => i = j

UsedIn(p) == UNION {Used(sent[p][k]) : k \in DOMAIN sent[p]}
UsedSent  == UNION {UsedIn(p) : p \in Packets}
WithBoard == {toBoard[i] : i \in DOMAIN toBoard}
OnTheWay  == {msg.about : msg \in fromBoard}
Unused    == {msg.about : msg \in {m \in fromBoard : ~Repeated(m)}}

\* The commands the board has got so far lie behind the places of the packets.
Behind(place) ==
    /\ place[1] <= Len(packets)
    /\ place[1] = work.packet => place[2] < work.at
    /\ place[1] = elem.packet /\ work.packet # elem.packet => place[2] < elem.at

BoardOrder ==
    /\ \A i, j \in DOMAIN toBoard : toBoard[i] = toBoard[j] => i = j
    /\ \A msg \in fromBoard : fromBoard = {msg} /\ msg.id = 1 - boardId
    /\ WithBoard \intersect OnTheWay = {}
    /\ fromBoard = {} => lastMsg.id = 1 - boardId
    /\ \A place \in UNION {WithBoard, OnTheWay, Used(elem.rsp), UsedSent} : Behind(place)

BoardUses ==
    /\ (WithBoard \union Unused) \intersect (Used(elem.rsp) \union UsedSent) = {}
    /\ Used(elem.rsp) \intersect UsedSent = {}
    /\ \A p, q \in Packets : p # q => UsedIn(p) \intersect UsedIn(q) = {}
    /\ Once(elem.rsp)
    /\ \A p \in Packets : \A k \in DOMAIN sent[p] : Once(sent[p][k])
    /\ work.packet # 0 =>
         /\ Once(work.rsp)
         /\ Used(work.rsp) = IF work.resumed THEN Used(elem.rsp) ELSE {}

-----------------------------------------------------------------------------
(* A response that grows.                                                  *)

LEMMA PlaceLemma ==
    ASSUME NEW place \in Places
    PROVE  place[1] \in Packets /\ place[1] \in Nat /\ place[2] \in Nat \ {0}
BY DEF Places, Packets

LEMMA ResponsePlaces ==
    ASSUME NEW rsp \in Seq(Answers), NEW i \in DOMAIN rsp
    PROVE  rsp[i] \in Answers /\ rsp[i].to \in Places /\ rsp[i].to[2] \in Nat
<1>1. rsp[i] \in Answers
  OBVIOUS
<1>2. rsp[i].to \in Places
  BY <1>1 DEF Answers
<1> QED BY <1>1, <1>2, PlaceLemma

LEMMA AppendLemma ==
    ASSUME NEW rsp \in Seq(Answers), NEW a \in Answers
    PROVE  /\ Append(rsp, a) \in Seq(Answers)
           /\ Len(Append(rsp, a)) = Len(rsp) + 1 /\ Len(rsp) \in Nat
           /\ DOMAIN Append(rsp, a) = DOMAIN rsp \union {Len(rsp) + 1}
           /\ Append(rsp, a)[Len(rsp) + 1] = a
           /\ \A i \in DOMAIN rsp : /\ Append(rsp, a)[i] = rsp[i]
                                    /\ i \in Nat /\ i < Len(rsp) + 1
OBVIOUS

LEMMA DeviceAnswer ==
    ASSUME NEW rsp \in Seq(Answers), NEW place \in Places,
           NEW from \in {"device", "tooLong"}, NEW a, a = [from |-> from, to |-> place]
    PROVE  /\ FromDevice(Append(rsp, a)) = FromDevice(rsp) \union {Len(rsp) + 1}
           /\ TooLong(Append(rsp, a)) =
                IF from = "tooLong" THEN TooLong(rsp) \union {Len(rsp) + 1}
                                    ELSE TooLong(rsp)
           /\ Used(Append(rsp, a)) = Used(rsp)
           /\ Once(rsp) => Once(Append(rsp, a))
<1> DEFINE r == Append(rsp, a)
           l == Len(rsp) + 1
<1>1. a \in Answers /\ a.from = from /\ a.from # "board"
  BY DEF Answers
<1>2. /\ DOMAIN r = DOMAIN rsp \union {l} /\ r[l] = a
      /\ \A i \in DOMAIN rsp : r[i] = rsp[i]
  BY <1>1, AppendLemma
<1> HIDE DEF r, l
<1>3. FromDevice(r) = FromDevice(rsp) \union {l}
  BY <1>1, <1>2 DEF FromDevice
<1>4. FromBoard(r) = FromBoard(rsp)
  BY <1>1, <1>2 DEF FromBoard
<1>5. \A i \in FromBoard(rsp) : r[i] = rsp[i]
  BY <1>2 DEF FromBoard
<1>6. Used(r) = Used(rsp) /\ (Once(rsp) => Once(r))
  BY <1>4, <1>5 DEF Used, Once
<1>7. TooLong(r) = IF from = "tooLong" THEN TooLong(rsp) \union {l} ELSE TooLong(rsp)
  BY <1>1, <1>2 DEF TooLong
<1> QED BY <1>3, <1>6, <1>7 DEF r, l

LEMMA BoardAnswer ==
    ASSUME NEW rsp \in Seq(Answers), NEW place \in Places,
           NEW a, a = [from |-> "board", to |-> place]
    PROVE  /\ FromDevice(Append(rsp, a)) = FromDevice(rsp)
           /\ TooLong(Append(rsp, a)) = TooLong(rsp)
           /\ Used(Append(rsp, a)) = Used(rsp) \union {place}
           /\ Once(rsp) /\ place \notin Used(rsp) => Once(Append(rsp, a))
<1> DEFINE r == Append(rsp, a)
           l == Len(rsp) + 1
<1>1. a \in Answers /\ a.from = "board" /\ a.to = place
  BY DEF Answers
<1>2. /\ DOMAIN r = DOMAIN rsp \union {l} /\ r[l] = a
      /\ \A i \in DOMAIN rsp : r[i] = rsp[i]
  BY <1>1, AppendLemma
<1> HIDE DEF r, l
<1>3. FromDevice(r) = FromDevice(rsp)
  BY <1>1, <1>2 DEF FromDevice
<1>4. FromBoard(r) = FromBoard(rsp) \union {l}
  BY <1>1, <1>2 DEF FromBoard
<1>5. \A i \in FromBoard(rsp) : r[i] = rsp[i]
  BY <1>2 DEF FromBoard
<1>6. Used(r) = Used(rsp) \union {place}
  BY <1>1, <1>2, <1>4, <1>5 DEF Used
<1>7. ASSUME Once(rsp), place \notin Used(rsp) PROVE Once(r)
  <2> SUFFICES ASSUME NEW i \in FromBoard(r), NEW j \in FromBoard(r), r[i].to = r[j].to
               PROVE  i = j
    BY DEF Once
  <2>1. \A k \in FromBoard(rsp) : r[k].to # place
    BY <1>5, <1>7 DEF Used
  <2> QED BY <1>1, <1>2, <1>4, <1>5, <1>7, <2>1 DEF Once
<1>8. TooLong(r) = TooLong(rsp)
  BY <1>1, <1>2 DEF TooLong
<1> QED BY <1>3, <1>6, <1>7, <1>8 DEF r, l

LEMMA NothingUsed ==
    /\ FromDevice(<<>>) = {} /\ Used(<<>>) = {} /\ Once(<<>>) /\ TooLong(<<>>) = {}
    /\ \A cmds \in Seq(Kinds), p \in Nat : Upto(cmds, p, 1, <<>>)
<1>1. FromDevice(<<>>) = {} /\ FromBoard(<<>>) = {} /\ TooLong(<<>>) = {}
  BY DEF FromDevice, FromBoard, TooLong
<1> QED BY <1>1 DEF Used, Once, Upto

-----------------------------------------------------------------------------
(* The place in the packet that goes with it.                              *)

LEMMA UptoAnswer ==
    ASSUME NEW cmds \in Seq(Kinds), NEW p \in Packets, NEW at \in 1 .. Len(cmds),
           NEW rsp \in Seq(Answers), Upto(cmds, p, at, rsp),
           NEW from \in {"device", "tooLong"}, NEW a, a = [from |-> from, to |-> <<p, at>>]
    PROVE  Upto(cmds, p, at + 1, Append(rsp, a))
<1> DEFINE r == Append(rsp, a)
           l == Len(rsp) + 1
<1>1. <<p, at>> \in Places /\ a \in Answers
  BY DEF Places, Answers
<1>2. /\ l \in Nat /\ r[l] = a
      /\ \A i \in DOMAIN rsp : r[i] = rsp[i] /\ i \in Nat /\ i < l
      /\ FromDevice(r) = FromDevice(rsp) \union {l}
      /\ FromDevice(rsp) \subseteq DOMAIN rsp
  BY <1>1, AppendLemma, DeviceAnswer DEF FromDevice
<1>3. a.to[1] = p /\ a.to[2] = at /\ Len(cmds) \in Nat
  OBVIOUS
<1>4. \A i \in FromDevice(rsp) : rsp[i].to[2] \in Nat
  BY ResponsePlaces DEF FromDevice
<1> HIDE DEF r, l
<1>5. \A i, j \in FromDevice(r) : i < j => r[i].to[2] < r[j].to[2]
  <2> SUFFICES ASSUME NEW i \in FromDevice(r), NEW j \in FromDevice(r), i < j
               PROVE  r[i].to[2] < r[j].to[2]
    OBVIOUS
  <2>1. i \in FromDevice(rsp)
    BY <1>2
  <2>2. CASE j = l
    BY <1>2, <1>3, <2>1, <2>2 DEF Upto
  <2>3. CASE j \in FromDevice(rsp)
    BY <1>2, <2>1, <2>3 DEF Upto
  <2> QED BY <1>2, <2>2, <2>3
<1>6. \A i \in FromDevice(r) : r[i].to[1] = p /\ r[i].to[2] < at + 1
  BY <1>2, <1>3, <1>4 DEF Upto
<1>7. ASSUME NEW n \in 1 .. (at + 1) - 1, cmds[n] \in Mine
      PROVE  \E i \in FromDevice(r) : r[i].to[2] = n
  <2>1. CASE n = at
    BY <1>2, <1>3, <2>1
  <2>2. CASE n \in 1 .. at - 1
    BY <1>2, <1>7, <2>2 DEF Upto
  <2> QED BY <2>1, <2>2
<1>8. at + 1 <= Len(cmds) + 1
  BY <1>3
<1> QED BY <1>5, <1>6, <1>7, <1>8 DEF Upto, r

LEMMA UptoSkip ==
    ASSUME NEW cmds \in Seq(Kinds), NEW p \in Packets, NEW at \in 1 .. Len(cmds),
           NEW rsp \in Seq(Answers), Upto(cmds, p, at, rsp), cmds[at] \notin Mine
    PROVE  Upto(cmds, p, at + 1, rsp)
<1>1. \A i \in FromDevice(rsp) : rsp[i].to[2] \in Nat
  BY ResponsePlaces DEF FromDevice
<1>2. Len(cmds) \in Nat /\ at + 1 <= Len(cmds) + 1
  OBVIOUS
<1>3. \A n \in 1 .. (at + 1) - 1 : n = at \/ n \in 1 .. at - 1
  OBVIOUS
<1> QED BY <1>1, <1>2, <1>3 DEF Upto

LEMMA UptoBoard ==
    ASSUME NEW cmds \in Seq(Kinds), NEW p \in Packets, NEW at \in Nat \ {0},
           NEW rsp \in Seq(Answers), Upto(cmds, p, at, rsp), NEW place \in Places,
           NEW a, a = [from |-> "board", to |-> place]
    PROVE  Upto(cmds, p, at, Append(rsp, a))
<1>1. a \in Answers
  BY DEF Answers
<1>2. FromDevice(Append(rsp, a)) = FromDevice(rsp)
      /\ \A i \in FromDevice(rsp) : Append(rsp, a)[i] = rsp[i]
  <2>1. FromDevice(Append(rsp, a)) = FromDevice(rsp)
    BY BoardAnswer
  <2>2. \A i \in DOMAIN rsp : Append(rsp, a)[i] = rsp[i]
    BY <1>1, AppendLemma
  <2> QED BY <2>1, <2>2 DEF FromDevice
<1> HIDE DEF FromDevice
<1> QED BY <1>2 DEF Upto

LEMMA UptoComplete ==
    ASSUME NEW cmds \in Seq(Kinds), NEW p \in Packets, NEW at \in Nat,
           NEW full \in BOOLEAN, NEW rsp, Upto(cmds, p, at, rsp), Ends(full, at, rsp),
           ~full => at = Len(cmds) + 1,
           AllAnswered(cmds) => Len(rsp) = at - 1
    PROVE  AnswersEach(rsp, p, cmds)
<1> DEFINE own == FromDevice(rsp)
           end == IF TooLong(rsp) = {} THEN Len(cmds) ELSE rsp[Len(rsp)].to[2]
<1>1. Len(cmds) \in Nat
  OBVIOUS
<1>2. end = at - 1
  <2>1. CASE full
    BY <2>1 DEF Ends
  <2>2. CASE ~full
    BY <1>1, <2>2 DEF Ends
  <2> QED BY <2>1, <2>2
<1>3. TooLong(rsp) \subseteq {Len(rsp)}
  BY DEF Ends
<1>4. Plain \union Flush \union Delayed = Mine
      /\ UNION {Plain, Flush, Delayed} = Mine
  BY DEF Mine
<1> HIDE DEF end
<1>5. \A n \in 1 .. end : cmds[n] \in UNION {Plain, Flush, Delayed} =>
                \E i \in own : rsp[i].to[2] = n
  <2> HIDE DEF own
  <2>1. \A n \in 1 .. at - 1 : cmds[n] \in Mine => \E i \in own : rsp[i].to[2] = n
    BY DEF Upto, own
  <2> QED BY <1>2, <1>4, <2>1
<1>6. (\A n \in DOMAIN cmds : cmds[n] \notin Delayed \union Silent) => Len(rsp) = end
  BY <1>2 DEF AllAnswered
<1> QED BY <1>3, <1>5, <1>6 DEF Upto, AnswersEach, end

-----------------------------------------------------------------------------
(* What the steps have in common.                                          *)

AInv == RspSound /\ OneEach /\ BoardOrder /\ BoardUses

LEMMA WorkFacts ==
    ASSUME IInv, Working
    PROVE  /\ work.packet \in 1 .. Len(packets) /\ work.packet \in Packets
           /\ work.packet # 0
           /\ Commands \in Seq(Kinds) /\ Commands = packets[work.packet].cmds
           /\ work.at \in 1 .. Len(Commands) /\ work.at \in Nat
           /\ Command \in Kinds /\ work.rsp \in Seq(Answers)
           /\ Here = <<work.packet, work.at>> /\ Here \in Places
<1>1. /\ work.packet \in 1 .. Len(packets) /\ work.packet \in Packets
      /\ work.at \in 1 .. Len(Commands) /\ Command \in Kinds /\ Here \in Places
  BY CommandLemma DEF IInv
<1>2. work \in Work /\ packets[work.packet] \in Contents
  BY <1>1 DEF IInv, TypeOK
<1> QED BY <1>1, <1>2 DEF Work, Contents, Commands, Here, Working

LEMMA KnownPlaces ==
    ASSUME IInv
    PROVE  /\ UNION {WithBoard, OnTheWay, Used(elem.rsp), UsedSent} \subseteq Places
           /\ elem.rsp \in Seq(Answers) /\ elem.at \in Nat \ {0}
           /\ elem.packet \in Nat /\ work.packet \in Nat
<1>1. elem \in Element /\ work \in Work
  BY DEF IInv, TypeOK
<1>2. WithBoard \subseteq Places
  BY DEF IInv, TypeOK, WithBoard
<1>3. OnTheWay \subseteq Places
  BY DEF IInv, TypeOK, OnTheWay, Message
<1>4. \A rsp \in Seq(Answers) : Used(rsp) \subseteq Places
  BY ResponsePlaces DEF Used, FromBoard
<1>5. elem.rsp \in Seq(Answers)
  BY <1>1 DEF Element
<1>6. \A p \in Packets : \A k \in DOMAIN sent[p] : sent[p][k] \in Seq(Answers)
  <2> SUFFICES ASSUME NEW p \in Packets, NEW k \in DOMAIN sent[p]
               PROVE  sent[p][k] \in Seq(Answers)
    OBVIOUS
  <2>1. sent[p] \in Seq(Seq(Answers))
    BY DEF IInv, TypeOK
  <2> QED BY <2>1
<1>7. UsedSent \subseteq Places
  BY <1>4, <1>6 DEF UsedSent, UsedIn
<1> QED BY <1>1, <1>2, <1>3, <1>4, <1>5, <1>7 DEF Element, Work, Packets

\* A command that is passed to the board has not been passed to it before.
LEMMA HereIsNew ==
    ASSUME IInv, BoardOrder, Working
    PROVE  Here \notin UNION {WithBoard, OnTheWay, Used(elem.rsp), UsedSent}
<1>1. Here[1] = work.packet /\ Here[2] = work.at /\ work.at \in Nat
  BY WorkFacts
<1>2. ~Behind(Here)
  BY <1>1 DEF Behind
<1> QED BY <1>2 DEF BoardOrder

\* Steps that answer nothing the board has been asked, and may pass it a command.
LEMMA BoardKeeps ==
    ASSUME IInv, BoardOrder, BoardUses, NEW here, here = Here,
           UNCHANGED <<fromBoard, boardId, lastMsg, sent>>,
           \/ toBoard' = toBoard
           \/ Working /\ toBoard' = Append(toBoard, here) /\ Behind(here)',
           \A place \in Places : Behind(place) => Behind(place)',
           Used(elem'.rsp) \subseteq Used(elem.rsp), Once(elem'.rsp),
           work'.packet # 0 =>
             /\ Once(work'.rsp)
             /\ Used(work'.rsp) = IF work'.resumed THEN Used(elem'.rsp) ELSE {}
    PROVE  BoardOrder' /\ BoardUses'
<1> DEFINE Known == UNION {WithBoard, OnTheWay, Used(elem.rsp), UsedSent}
<1>1. toBoard \in Seq(Places) /\ Known \subseteq Places
  BY KnownPlaces DEF IInv, TypeOK
<1>2. /\ OnTheWay' = OnTheWay /\ Unused' = Unused /\ UsedSent' = UsedSent
      /\ \A p \in Packets : UsedIn(p)' = UsedIn(p)
  BY DEF OnTheWay, Unused, Repeated, UsedSent, UsedIn
<1>3. /\ \A i, j \in DOMAIN toBoard' : toBoard'[i] = toBoard'[j] => i = j
      /\ \/ WithBoard' = WithBoard
         \/ /\ WithBoard' = WithBoard \union {here}
            /\ here \notin Known /\ Behind(here)'
  <2>1. CASE toBoard' = toBoard
    BY <2>1 DEF WithBoard, BoardOrder
  <2>2. CASE Working /\ toBoard' = Append(toBoard, here) /\ Behind(here)'
    <3> DEFINE l == Len(toBoard) + 1
    <3>1. here \in Places
      BY <2>2, WorkFacts
    <3>2. /\ DOMAIN toBoard' = DOMAIN toBoard \union {l} /\ toBoard'[l] = here
          /\ \A i \in DOMAIN toBoard : toBoard'[i] = toBoard[i]
      BY <1>1, <2>2, <3>1
    <3> HIDE DEF l
    <3>3. WithBoard' = WithBoard \union {here}
      BY <3>2 DEF WithBoard
    <3>4. here \notin Known
      BY <2>2, HereIsNew
    <3>5. \A i \in DOMAIN toBoard : toBoard[i] # here
      BY <3>4 DEF WithBoard
    <3> QED BY <2>2, <3>2, <3>3, <3>4, <3>5 DEF BoardOrder
  <2> QED BY <2>1, <2>2
<1>4. BoardOrder'
  <2>1. \A place \in Known : Behind(place)'
    BY <1>1 DEF BoardOrder
  <2>2. \A place \in UNION {WithBoard', OnTheWay', Used(elem'.rsp), UsedSent'} : Behind(place)'
    BY <1>2, <1>3, <2>1
  <2>3. \A msg \in fromBoard' : fromBoard' = {msg} /\ msg.id = 1 - boardId'
    BY DEF BoardOrder
  <2>4. WithBoard' \intersect OnTheWay' = {}
    BY <1>2, <1>3 DEF BoardOrder
  <2>5. fromBoard' = {} => lastMsg'.id = 1 - boardId'
    BY DEF BoardOrder
  <2> QED BY <1>3, <2>2, <2>3, <2>4, <2>5 DEF BoardOrder, Used, FromBoard
<1>5. BoardUses'
  <2>1. (WithBoard \union Unused)' \intersect (Used(elem'.rsp) \union UsedSent') = {}
    BY <1>2, <1>3 DEF BoardUses
  <2>2. Used(elem'.rsp) \intersect UsedSent' = {}
    BY <1>2 DEF BoardUses
  <2>3. \A p, q \in Packets : p # q => UsedIn(p)' \intersect UsedIn(q)' = {}
    BY <1>2 DEF BoardUses
  <2>4. \A p \in Packets : \A k \in DOMAIN sent'[p] : Once(sent'[p][k])
    BY DEF BoardUses
  <2> QED BY <2>1, <2>2, <2>3, <2>4 DEF BoardUses, Used, FromBoard, Once
<1> QED BY <1>4, <1>5

\* Steps that leave the responses alone.
LEMMA OneEachKeeps ==
    ASSUME IInv, OneEach, sent' = sent,
           \A p \in 1 .. Len(packets) : packets'[p] = packets[p]
    PROVE  OneEach'
<1> SUFFICES ASSUME NEW p \in Packets, NEW k \in DOMAIN sent[p]
             PROVE  AnswersEach(sent[p][k], p, packets'[p].cmds)
  BY DEF OneEach
<1>1. p \in 1 .. Len(packets)
  <2> SUFFICES ASSUME p > Len(packets) PROVE FALSE
    BY DEF Packets, IInv, TypeOK
  <2>1. sent[p] = <<>>
    BY DEF IInv, Held
  <2> QED BY <2>1
<1> QED BY <1>1 DEF OneEach

-----------------------------------------------------------------------------
(* The loop of APP_ProcessCmdBuf.                                          *)

LEMMA AnswerResponds ==
    ASSUME IInv, AInv, Working, Responded,
           UNCHANGED <<packets, elem, sent, fromBoard, boardId, lastMsg>>,
           toBoard' = toBoard \/ toBoard' = Append(toBoard, Here)
    PROVE  AInv'
<1> PICK from \in {"device", "tooLong"}, full \in BOOLEAN : Responds(from, full)
  BY DEF Responded
<1> DEFINE a == [from |-> from, to |-> Here]
           rsp == work.rsp
           cmds == Commands
           p == work.packet
           at == work.at
<1>1. /\ p \in 1 .. Len(packets) /\ p \in Packets /\ p # 0
      /\ cmds \in Seq(Kinds) /\ cmds = packets[p].cmds
      /\ at \in 1 .. Len(cmds) /\ at \in Nat
      /\ rsp \in Seq(Answers) /\ Here = <<p, at>> /\ Here \in Places
  BY WorkFacts
<1>2. /\ work'.packet = p /\ work'.resumed = work.resumed /\ work'.at = at + 1
      /\ work'.rsp = Append(rsp, a) /\ work'.full = full
  BY AnswerLemma DEF IInv
<1>3. /\ Commands' = Commands /\ Wireless' = Wireless /\ WiredElem' = WiredElem
      /\ Outstanding' = Outstanding
  BY <1>2 DEF Commands, Wireless, Source, WiredElem, Outstanding
<1>4. a \in Answers
  BY <1>1 DEF Answers
<1>5. /\ Len(Append(rsp, a)) = Len(rsp) + 1 /\ Len(rsp) \in Nat
      /\ Append(rsp, a)[Len(rsp) + 1] = a
      /\ Used(Append(rsp, a)) = Used(rsp) /\ (Once(rsp) => Once(Append(rsp, a)))
      /\ TooLong(Append(rsp, a)) =
           IF from = "tooLong" THEN TooLong(rsp) \union {Len(rsp) + 1} ELSE TooLong(rsp)
  <2>1. Here \in Places /\ rsp \in Seq(Answers) /\ a = [from |-> from, to |-> Here]
    BY <1>1
  <2> HIDE DEF a, rsp
  <2> QED BY <1>4, <2>1, AppendLemma, DeviceAnswer
<1>5a. Ends(full, at + 1, Append(rsp, a))
  <2>1. TooLong(rsp) = {}
    BY <1>1 DEF AInv, RspSound, Ends, Working
  <2>2. a.to[2] = at /\ (full <=> from = "tooLong")
    BY <1>1 DEF Responds
  <2> HIDE DEF a, rsp, at
  <2>3. (at + 1) - 1 = at
    BY <1>1
  <2> QED BY <1>5, <2>1, <2>2, <2>3 DEF Ends
<1> HIDE DEF a, rsp, cmds, p, at
<1>6. /\ Upto(cmds, p, at, rsp)
      /\ AllAnswered(cmds) => Len(rsp) = at - 1
      /\ work.resumed => Wireless
  BY <1>1 DEF AInv, RspSound, cmds, p, at, rsp
<1>7. Upto(cmds, p, at + 1, Append(rsp, a))
  BY <1>1, <1>6, UptoAnswer DEF a
<1>8. RspSound'
  <2>1. /\ Upto(Commands', work'.packet, work'.at, work'.rsp)
        /\ Ends(work'.full, work'.at, work'.rsp)
        /\ AllAnswered(Commands') => Len(work'.rsp) = work'.at - 1
        /\ work'.resumed => Wireless'
    BY <1>1, <1>2, <1>3, <1>5, <1>5a, <1>6, <1>7 DEF cmds
  <2>2. elem'.packet # 0 =>
         LET c == packets'[elem'.packet].cmds IN
         /\ Upto(c, elem'.packet, elem'.at, elem'.rsp)
         /\ TooLong(elem'.rsp) = {}
         /\ AllAnswered(c) => Len(elem'.rsp) + Outstanding' = elem'.at - 1
         /\ WiredElem' => elem'.at = 2
    BY <1>3 DEF AInv, RspSound
  <2>3. \A q \in 1 .. Len(packets') :
           packets'[q].src \in WiredMasters => Len(packets'[q].cmds) = 1
    BY DEF AInv, RspSound
  <2> QED BY <2>1, <2>2, <2>3 DEF RspSound, Upto, Ends, TooLong, AllAnswered, FromDevice
<1>9. OneEach'
  BY OneEachKeeps DEF AInv
<1>10. BoardOrder' /\ BoardUses'
  <2>1. PICK here : here = Here
    OBVIOUS
  <2>2. here[1] = p /\ here[2] = at
    BY <1>1, <2>1
  <2>3. Behind(here)'
    BY <1>1, <1>2, <2>2, KnownPlaces DEF Behind, p, IInv, Held
  <2>4. ASSUME NEW place \in Places, Behind(place) PROVE Behind(place)'
    BY <1>1, <1>2, <2>4, PlaceLemma DEF Behind, p, at
  <2>5. /\ work'.packet # 0 =>
              /\ Once(work'.rsp)
              /\ Used(work'.rsp) = IF work'.resumed THEN Used(elem'.rsp) ELSE {}
        /\ Used(elem'.rsp) = Used(elem.rsp) /\ Once(elem'.rsp)
    BY <1>1, <1>2, <1>5 DEF AInv, BoardUses, rsp, p
  <2>6. \/ toBoard' = toBoard
        \/ Working /\ toBoard' = Append(toBoard, here) /\ Behind(here)'
    BY <2>1, <2>3
  <2> QED BY <2>1, <2>4, <2>5, <2>6, BoardKeeps DEF AInv
<1> QED BY <1>8, <1>9, <1>10 DEF AInv

LEMMA SilentResponds ==
    ASSUME IInv, AInv, ExecuteSilent
    PROVE  AInv'
<1> DEFINE rsp == work.rsp
           cmds == Commands
           p == work.packet
           at == work.at
<1>1. /\ p \in 1 .. Len(packets) /\ p \in Packets /\ p # 0
      /\ cmds \in Seq(Kinds) /\ cmds = packets[p].cmds
      /\ at \in 1 .. Len(cmds) /\ at \in Nat /\ rsp \in Seq(Answers)
  BY WorkFacts DEF ExecuteSilent
<1>2. /\ UNCHANGED <<packets, elem, toBoard, fromBoard, boardId, lastMsg, sent>>
      /\ cmds[at] \in Silent
      /\ work' = [work EXCEPT !.at = @ + 1, !.quiet = TRUE]
  BY DEF ExecuteSilent, board, Command
<1>3. /\ work'.packet = p /\ work'.resumed = work.resumed /\ work'.at = at + 1
      /\ work'.rsp = rsp /\ work'.full = work.full /\ ~work.full
  <2>1. work \in Work /\ ~work.full
    BY DEF IInv, TypeOK, ExecuteSilent, Working
  <2> QED BY <1>2, <2>1 DEF Work
<1>4. /\ Commands' = Commands /\ Wireless' = Wireless /\ WiredElem' = WiredElem
      /\ Outstanding' = Outstanding
  BY <1>2, <1>3 DEF Commands, Wireless, Source, WiredElem, Outstanding
<1>5. cmds[at] \notin Mine /\ ~AllAnswered(cmds)
  <2>1. cmds[at] \notin Mine
    BY <1>2, KindAssumption DEF Mine
  <2>2. at \in DOMAIN cmds
    BY <1>1
  <2> HIDE DEF cmds
  <2> QED BY <1>2, <2>1, <2>2 DEF AllAnswered
<1> HIDE DEF rsp, cmds, p, at
<1>6. Upto(cmds, p, at, rsp) /\ (work.resumed => Wireless)
      /\ Ends(FALSE, at + 1, rsp)
  BY <1>1, <1>3 DEF AInv, RspSound, Ends, cmds, p, at, rsp
<1>7. Upto(cmds, p, at + 1, rsp)
  BY <1>1, <1>5, <1>6, UptoSkip
<1>8. RspSound'
  <2>0. work'.full = FALSE
    BY <1>3
  <2>1. /\ Upto(Commands', work'.packet, work'.at, work'.rsp)
        /\ Ends(work'.full, work'.at, work'.rsp)
        /\ AllAnswered(Commands') => Len(work'.rsp) = work'.at - 1
        /\ work'.resumed => Wireless'
    BY <1>1, <1>3, <1>4, <1>5, <1>6, <1>7, <2>0 DEF cmds
  <2>2. elem'.packet # 0 =>
         LET c == packets'[elem'.packet].cmds IN
         /\ Upto(c, elem'.packet, elem'.at, elem'.rsp)
         /\ TooLong(elem'.rsp) = {}
         /\ AllAnswered(c) => Len(elem'.rsp) + Outstanding' = elem'.at - 1
         /\ WiredElem' => elem'.at = 2
    BY <1>2, <1>4 DEF AInv, RspSound
  <2>3. \A q \in 1 .. Len(packets') :
           packets'[q].src \in WiredMasters => Len(packets'[q].cmds) = 1
    BY <1>2 DEF AInv, RspSound
  <2> QED BY <2>1, <2>2, <2>3 DEF RspSound, Upto, Ends, TooLong, AllAnswered, FromDevice
<1>9. OneEach'
  BY <1>2, OneEachKeeps DEF AInv
<1>10. BoardOrder' /\ BoardUses'
  <2>1. ASSUME NEW place \in Places, Behind(place) PROVE Behind(place)'
    BY <1>1, <1>2, <1>3, <2>1, PlaceLemma DEF Behind, p, at
  <2>2. /\ work'.packet # 0 =>
              /\ Once(work'.rsp)
              /\ Used(work'.rsp) = IF work'.resumed THEN Used(elem'.rsp) ELSE {}
        /\ Used(elem'.rsp) = Used(elem.rsp) /\ Once(elem'.rsp)
    BY <1>1, <1>2, <1>3 DEF AInv, BoardUses, rsp, p
  <2> QED BY <1>2, <2>1, <2>2, BoardKeeps DEF AInv
<1> QED BY <1>8, <1>9, <1>10 DEF AInv

\* The packet waits: for the board behind the command, or to come to it again.
LEMMA SuspendResponds ==
    ASSUME IInv, AInv, Working, work.resumed \/ elem.status = "free",
           UNCHANGED <<packets, sent, fromBoard, boardId, lastMsg>>,
           \/ /\ Command \in Tunnelled /\ Suspend(work.at + 1, "board")
              /\ toBoard' = Append(toBoard, Here)
           \/ /\ Command \in Delayed /\ Suspend(work.at, "dr") /\ Wireless
              /\ toBoard' = toBoard
    PROVE  AInv'
<1> DEFINE rsp == work.rsp
           cmds == Commands
           p == work.packet
           at == work.at
<1>1. /\ p \in 1 .. Len(packets) /\ p \in Packets /\ p # 0 /\ p \in Nat
      /\ cmds \in Seq(Kinds) /\ cmds = packets[p].cmds
      /\ at \in 1 .. Len(cmds) /\ at \in Nat /\ rsp \in Seq(Answers)
      /\ Here = <<p, at>> /\ Command = cmds[at] /\ Len(cmds) \in Nat
  BY WorkFacts DEF Command, Packets
<1>2. /\ Upto(cmds, p, at, rsp) /\ (AllAnswered(cmds) => Len(rsp) = at - 1)
      /\ work.resumed => Wireless
      /\ TooLong(rsp) = {}
  BY <1>1 DEF AInv, RspSound, Ends, Working
<1>3. PICK nat \in {at, at + 1}, waits \in {"board", "dr"} :
        /\ Suspend(nat, waits)
        /\ \/ /\ cmds[at] \in Tunnelled /\ nat = at + 1 /\ waits = "board"
              /\ toBoard' = Append(toBoard, Here)
           \/ /\ cmds[at] \in Delayed /\ nat = at /\ waits = "dr" /\ Wireless
              /\ toBoard' = toBoard
  BY <1>1
<1>4. /\ work' = Idle /\ elem'.packet = p /\ elem'.at = nat /\ elem' \in Element
      /\ elem'.rsp = rsp
      /\ waits = "board" => elem'.status = "pending"
      /\ work.resumed => elem.packet = p /\ elem.at \in Nat
      /\ ~work.resumed => elem.packet # p
  <2>1. /\ work' = Idle /\ elem' \in Element
        /\ elem'.packet = work.packet /\ elem'.at = nat
    BY <1>3, SuspendLemma
  <2>2. elem \in Element
    BY DEF IInv, TypeOK
  <2>3. /\ work.resumed => elem.packet = p /\ elem.at \in Nat
        /\ ~work.resumed => elem.packet # p
    BY <1>1, <2>2 DEF IInv, Held, Element
  <2>4. CASE work.resumed
    <3>1. elem' = [elem EXCEPT !.at = nat, !.rsp = work.rsp, !.waits = waits,
                       !.status = IF waits = "board" THEN "pending" ELSE @]
      BY <1>3, <2>4 DEF Suspend
    <3> QED BY <2>1, <2>2, <2>3, <2>4, <3>1 DEF Element
  <2>5. CASE ~work.resumed
    <3>1. elem' = [status |-> "pending", packet |-> work.packet, at |-> nat,
                     rsp |-> work.rsp, aged |-> FALSE, waits |-> waits]
      BY <1>3, <2>5 DEF Suspend
    <3> QED BY <2>1, <2>3, <2>5, <3>1
  <2> QED BY <2>4, <2>5
<1> HIDE DEF rsp, cmds, p, at
<1>5. Wireless => packets[p].src \notin WiredMasters
  <2>1. packets[p].src \in Masters => packets[p].src \notin WiredMasters
    BY SourceAssumption
  <2> QED BY <2>1 DEF Wireless, Source, p
<1>6. Upto(cmds, p, nat, rsp)
  <2>1. CASE nat = at
    BY <1>2, <2>1
  <2>2. CASE nat = at + 1
    <3>1. cmds[at] \in Tunnelled
      BY <1>1, <1>3, <2>2
    <3>2. cmds[at] \notin Mine
      BY <3>1, KindAssumption DEF Mine
    <3> QED BY <1>1, <1>2, <2>2, <3>2, UptoSkip
  <2> QED BY <2>1, <2>2
<1>7. AllAnswered(cmds) => Len(elem'.rsp) + Outstanding' = elem'.at - 1
  <2>1. CASE cmds[at] \in Delayed
    <3>1. at \in DOMAIN cmds
      BY <1>1
    <3> QED BY <2>1, <3>1 DEF AllAnswered
  <2>2. CASE cmds[at] \notin Delayed
    <3>1. Outstanding' = 1 /\ nat = at + 1
      BY <1>3, <1>4, <2>2 DEF Outstanding
    <3>2. Len(rsp) \in Nat
      BY <1>1
    <3> QED BY <1>1, <1>2, <1>4, <3>1, <3>2
  <2> QED BY <2>1, <2>2
<1>8. packets[p].src \in WiredMasters => elem'.at = 2
  <2> SUFFICES ASSUME packets[p].src \in WiredMasters PROVE nat = 2
    BY <1>4
  <2>1. Len(cmds) = 1
    BY <1>1 DEF AInv, RspSound
  <2>2. at = 1
    BY <1>1, <2>1
  <2> QED BY <1>3, <1>5, <2>2
<1>9. RspSound'
  <2>1. work'.packet = 0
    BY <1>4 DEF Idle
  <2>2. elem'.packet # 0 =>
         LET c == packets'[elem'.packet].cmds IN
         /\ Upto(c, elem'.packet, elem'.at, elem'.rsp)
         /\ TooLong(elem'.rsp) = {}
         /\ AllAnswered(c) => Len(elem'.rsp) + Outstanding' = elem'.at - 1
         /\ WiredElem' => elem'.at = 2
    BY <1>1, <1>2, <1>4, <1>6, <1>7, <1>8 DEF WiredElem
  <2>3. \A q \in 1 .. Len(packets') :
           packets'[q].src \in WiredMasters => Len(packets'[q].cmds) = 1
    BY DEF AInv, RspSound
  <2> QED BY <2>1, <2>2, <2>3 DEF RspSound, Upto, Ends, TooLong, AllAnswered, FromDevice
<1>10. OneEach'
  BY OneEachKeeps DEF AInv
<1>11. BoardOrder' /\ BoardUses'
  <2>1. PICK here : here = Here
    OBVIOUS
  <2>2. here[1] = p /\ here[2] = at
    BY <1>1, <2>1
  <2>3. work'.packet = 0 /\ p # 0
    BY <1>1, <1>4 DEF Idle
  <2>4. nat = at + 1 => Behind(here)'
    <3>1. here[1] <= Len(packets) /\ here[2] < at + 1
      BY <1>1, <2>2
    <3> QED BY <1>4, <2>2, <2>3, <3>1 DEF Behind
  <2>5. ASSUME NEW place \in Places, Behind(place) PROVE Behind(place)'
    <3>1. /\ place[1] <= Len(packets)
          /\ place[1] = p => place[2] < at
      BY <2>5 DEF Behind, p, at
    <3>2. place[1] # 0 /\ place[2] \in Nat
      BY PlaceLemma DEF Packets, Places
    <3>3. place[1] = p => place[2] < nat
      BY <1>1, <3>1, <3>2
    <3> QED BY <1>4, <2>3, <3>1, <3>2, <3>3 DEF Behind
  <2>6. Used(elem'.rsp) \subseteq Used(elem.rsp) /\ Once(elem'.rsp)
    BY <1>1, <1>4 DEF AInv, BoardUses, rsp, p
  <2>7. \/ toBoard' = toBoard
        \/ Working /\ toBoard' = Append(toBoard, here) /\ Behind(here)'
    BY <1>3, <2>1, <2>4
  <2> QED BY <2>1, <2>3, <2>5, <2>6, <2>7, BoardKeeps DEF AInv
<1> QED BY <1>9, <1>10, <1>11 DEF AInv

LEMMA ProcessResponds ==
    ASSUME IInv, AInv, Process, ~Finish
    PROVE  AInv'
<1>1. CASE \/ Execute \/ ExecuteFlush \/ TunnelFull \/ AnswerKnown \/ ExecuteAtOnce
           \/ ExecuteTooLong
  <2>1. /\ Working /\ Responded
        /\ UNCHANGED <<packets, elem, sent, toBoard, fromBoard, boardId, lastMsg>>
    BY <1>1, AnswerIsResponse DEF Execute, ExecuteFlush, TunnelFull, AnswerKnown, ExecuteAtOnce,
                                  ExecuteTooLong, board
  <2> QED BY <2>1, AnswerResponds
<1>2. CASE ExecuteSilent
  BY <1>2, SilentResponds
<1>3. CASE Tunnel
  <2>1. /\ Working /\ Command \in Tunnelled
        /\ toBoard' = Append(toBoard, Here)
        /\ UNCHANGED <<packets, fromBoard, boardId, lastMsg, sent>>
        /\ IF work.resumed \/ elem.status = "free"
           THEN Suspend(work.at + 1, "board") ELSE Responded /\ UNCHANGED elem
    BY <1>3, AnswerIsResponse DEF Tunnel, QueueTakes
  <2> QED BY <2>1, AnswerResponds, SuspendResponds
<1>4. CASE KeepWaiting
  <2>1. /\ Working /\ Command \in Delayed /\ work.resumed /\ Wireless
        /\ Suspend(work.at, "dr")
        /\ UNCHANGED <<packets, toBoard, fromBoard, boardId, lastMsg, sent>>
    BY <1>4 DEF KeepWaiting, TooEarly, Restart, board
  <2> QED BY <2>1, SuspendResponds
<1>5. CASE Initiate
  <2>1. /\ Working /\ Command \in Delayed
        /\ UNCHANGED <<packets, toBoard, fromBoard, boardId, lastMsg, sent>>
    BY <1>5 DEF Initiate, board
  <2>2. \/ Responded /\ UNCHANGED elem
        \/ elem.status = "free" /\ Wireless /\ Suspend(work.at, "dr")
    BY <1>5, AnswerIsResponse DEF Initiate, DrCanWait, Restart
  <2> QED BY <2>1, <2>2, AnswerResponds, SuspendResponds
<1> QED BY <1>1, <1>2, <1>3, <1>4, <1>5 DEF Process

-----------------------------------------------------------------------------
(* The end of a packet.                                                    *)

\* A response is sent: what it has of the board's answers has been used.
LEMMA SentResponds ==
    ASSUME IInv, AInv, NEW p \in 1 .. Len(packets), InHand(p), NEW rsp \in Seq(Answers),
           sent' = [sent EXCEPT ![p] = Append(@, rsp)],
           AnswersEach(rsp, p, packets[p].cmds),
           Used(rsp) \subseteq Used(elem.rsp), Once(rsp),
           \/ Used(rsp) = {} /\ elem' = elem /\ work.packet # elem.packet
           \/ elem' = Free,
           work'.packet = 0,
           UNCHANGED <<packets, toBoard, fromBoard, boardId, lastMsg>>
    PROVE  OneEach' /\ BoardOrder' /\ BoardUses'
<1>1. /\ p \in Packets /\ p # 0
      /\ sent \in [Packets -> Seq(Seq(Answers))]
  BY LimitAssumption DEF IInv, TypeOK, Packets
<1>2. sent[p] = <<>>
  <2>1. Len(sent[p]) = 0 /\ sent[p] \in Seq(Seq(Answers))
    BY <1>1 DEF IInv, Accounted
  <2> QED BY <2>1
<1>3. /\ sent'[p] = <<rsp>>
      /\ \A q \in Packets : q # p => sent'[q] = sent[q]
  <2>1. sent'[p] = Append(sent[p], rsp)
    BY <1>1
  <2>2. Append(<<>>, rsp) = <<rsp>>
    OBVIOUS
  <2> QED BY <1>1, <1>2, <2>1, <2>2
<1>4. DOMAIN sent'[p] = {1} /\ sent'[p][1] = rsp
  BY <1>3
<1>5. /\ UsedIn(p)' = Used(rsp)
      /\ \A q \in Packets : q # p => UsedIn(q)' = UsedIn(q)
      /\ UsedIn(p) = {}
  <2>1. UsedIn(p)' = UNION {Used(sent'[p][k]) : k \in DOMAIN sent'[p]}
    BY DEF UsedIn, Used, FromBoard
  <2>2. UsedIn(p)' = Used(rsp)
    BY <1>4, <2>1
  <2>3. UsedIn(p) = {}
    BY <1>2 DEF UsedIn
  <2>4. ASSUME NEW q \in Packets, q # p PROVE UsedIn(q)' = UsedIn(q)
    <3>1. sent'[q] = sent[q]
      BY <1>3, <2>4
    <3>2. UsedIn(q)' = UNION {Used(sent'[q][k]) : k \in DOMAIN sent'[q]}
      BY DEF UsedIn, Used, FromBoard
    <3> QED BY <3>1, <3>2 DEF UsedIn
  <2> QED BY <2>2, <2>3, <2>4
<1>6. UsedSent' = UsedSent \union Used(rsp)
  <2>1. UsedSent' = UNION {UsedIn(q)' : q \in Packets}
    BY DEF UsedSent, UsedIn, Used, FromBoard, Packets
  <2> QED BY <1>1, <1>5, <2>1 DEF UsedSent
<1>7. /\ OnTheWay' = OnTheWay /\ Unused' = Unused /\ WithBoard' = WithBoard
  BY DEF OnTheWay, Unused, Repeated, WithBoard
<1>8. /\ Used(elem'.rsp) \subseteq Used(elem.rsp) /\ Once(elem'.rsp)
      /\ Used(elem'.rsp) \intersect Used(rsp) = {}
      /\ elem'.packet \in {0, elem.packet}
      /\ elem'.packet # 0 => elem'.at = elem.at
  <2>1. CASE elem' = elem /\ Used(rsp) = {} /\ work.packet # elem.packet
    BY <2>1 DEF AInv, BoardUses
  <2>2. CASE elem' = Free
    <3>1. elem'.rsp = <<>> /\ elem'.packet = 0
      BY <2>2 DEF Free
    <3> QED BY <3>1, NothingUsed
  <2> QED BY <2>1, <2>2
<1>9. OneEach'
  <2> SUFFICES ASSUME NEW q \in Packets, NEW k \in DOMAIN sent'[q]
               PROVE  AnswersEach(sent'[q][k], q, packets'[q].cmds)
    BY DEF OneEach
  <2>1. CASE q = p
    BY <1>4, <2>1
  <2>2. CASE q # p
    BY <1>3, <2>2 DEF AInv, OneEach
  <2> QED BY <2>1, <2>2
<1>10. BoardOrder'
  <2>1. ASSUME NEW place \in UNION {WithBoard, OnTheWay, Used(elem.rsp), UsedSent}
        PROVE  Behind(place)'
    <3>1. Behind(place) /\ place \in Places
      BY KnownPlaces DEF AInv, BoardOrder
    <3>2. place[1] # 0 /\ work'.packet = 0
      BY <3>1, PlaceLemma DEF Packets, Places
    <3>3. place[1] = elem'.packet => elem'.packet = elem.packet /\ elem'.at = elem.at
      BY <1>8, <3>2
    <3>4. place[1] = elem'.packet => place[2] < elem'.at
      <4> SUFFICES ASSUME place[1] = elem'.packet PROVE place[2] < elem.at
        BY <3>3
      <4>1. elem' = elem /\ work.packet # elem.packet
        BY <3>2 DEF Free
      <4> QED BY <3>1, <4>1 DEF Behind
    <3> QED BY <3>1, <3>2, <3>4 DEF Behind
  <2>2. \A place \in UNION {WithBoard', OnTheWay', Used(elem'.rsp), UsedSent'} : Behind(place)'
    BY <1>6, <1>7, <1>8, <2>1
  <2>3. /\ \A i, j \in DOMAIN toBoard' : toBoard'[i] = toBoard'[j] => i = j
        /\ \A msg \in fromBoard' : fromBoard' = {msg} /\ msg.id = 1 - boardId'
        /\ WithBoard' \intersect OnTheWay' = {}
        /\ fromBoard' = {} => lastMsg'.id = 1 - boardId'
    BY <1>7 DEF AInv, BoardOrder
  <2> QED BY <2>2, <2>3 DEF BoardOrder, Used, FromBoard
<1>11. BoardUses'
  <2>1. (WithBoard' \union Unused') \intersect (Used(elem'.rsp) \union UsedSent') = {}
    BY <1>6, <1>7, <1>8 DEF AInv, BoardUses
  <2>2. Used(elem'.rsp) \intersect UsedSent' = {}
    BY <1>6, <1>8 DEF AInv, BoardUses
  <2>3. \A q, r \in Packets : q # r => UsedIn(q)' \intersect UsedIn(r)' = {}
    <3>1. \A q \in Packets : UsedIn(q) \intersect Used(rsp) = {}
      BY DEF AInv, BoardUses, UsedSent
    <3> QED BY <1>5, <3>1 DEF AInv, BoardUses
  <2>4. \A q \in Packets : \A k \in DOMAIN sent'[q] : Once(sent'[q][k])
    BY <1>3, <1>4 DEF AInv, BoardUses
  <2>5. work'.packet = 0
    OBVIOUS
  <2> QED BY <1>8, <2>1, <2>2, <2>3, <2>4, <2>5 DEF BoardUses, Used, FromBoard, Once
<1> QED BY <1>9, <1>10, <1>11

LEMMA FinishResponds ==
    ASSUME IInv, AInv, Finish
    PROVE  AInv'
<1> DEFINE p == work.packet
           cmds == Commands
           rsp == IF work.quiet THEN <<>> ELSE work.rsp
<1>1. /\ p \in 1 .. Len(packets) /\ p # 0 /\ ~Working /\ p \in Packets
      /\ cmds \in Seq(Kinds) /\ cmds = packets[p].cmds
      /\ work.rsp \in Seq(Answers) /\ work.at \in Nat /\ work.full \in BOOLEAN
  <2>1. p # 0 /\ ~Working
    BY DEF Finish
  <2>2. p \in 1 .. Len(packets) /\ work \in Work /\ p \in Packets
    BY <2>1, LimitAssumption DEF IInv, TypeOK, Held, Work, Packets
  <2>3. packets[p] \in Contents
    BY <2>2 DEF IInv, TypeOK
  <2> QED BY <2>1, <2>2, <2>3 DEF Contents, Commands, Work
<1>2. /\ sent' = [sent EXCEPT ![p] = Append(@, rsp)]
      /\ work' = Idle /\ elem' = IF work.resumed THEN Free ELSE elem
      /\ UNCHANGED <<packets, toBoard, fromBoard, boardId, lastMsg>>
  BY DEF Finish, board
<1>3. /\ Upto(cmds, p, work.at, work.rsp)
      /\ Ends(work.full, work.at, work.rsp)
      /\ AllAnswered(cmds) => Len(work.rsp) = work.at - 1
      /\ Once(work.rsp)
      /\ Used(work.rsp) = IF work.resumed THEN Used(elem.rsp) ELSE {}
  BY <1>1 DEF AInv, RspSound, BoardUses
<1> HIDE DEF cmds
<1>4. ~work.full => work.at = Len(cmds) + 1
  <2>1. ~work.full => ~(work.at <= Len(cmds))
    BY <1>1 DEF Working, cmds
  <2>2. Len(cmds) \in Nat
    BY <1>1
  <2> QED BY <1>1, <1>3, <2>1, <2>2 DEF Upto
<1>5. AnswersEach(work.rsp, p, cmds)
  BY <1>1, <1>3, <1>4, UptoComplete
<1>6. AnswersEach(<<>>, p, cmds)
  BY DEF AnswersEach
<1>7. /\ rsp \in Seq(Answers) /\ AnswersEach(rsp, p, cmds)
      /\ Once(rsp) /\ Used(rsp) \subseteq Used(work.rsp)
  BY <1>1, <1>3, <1>5, <1>6, NothingUsed
<1>8. work.resumed => elem.packet = p
  BY <1>1 DEF IInv, Held
<1>9. ~work.resumed => elem.packet # p
  BY <1>1 DEF IInv, Held
<1>10. OneEach' /\ BoardOrder' /\ BoardUses'
  <2> HIDE DEF rsp
  <2>1. \/ Used(rsp) = {} /\ elem' = elem /\ p # elem.packet
        \/ elem' = Free
    BY <1>2, <1>3, <1>7, <1>9
  <2>2. Used(rsp) \subseteq Used(elem.rsp)
    BY <1>3, <1>7
  <2>3. work'.packet = 0
    BY <1>2 DEF Idle
  <2>4. InHand(p)
    BY DEF InHand
  <2> QED BY <1>1, <1>2, <1>7, <2>1, <2>2, <2>3, <2>4, SentResponds
<1>11. RspSound'
  <2>1. work'.packet = 0
    BY <1>2 DEF Idle
  <2>2. CASE work.resumed
    <3>1. elem'.packet = 0
      BY <1>2, <2>2 DEF Free
    <3> QED BY <1>2, <2>1, <3>1 DEF AInv, RspSound
  <2>3. CASE ~work.resumed
    <3>1. elem' = elem
      BY <1>2, <2>3
    <3>2. Outstanding' = Outstanding /\ WiredElem' = WiredElem
      BY <1>2, <3>1 DEF Outstanding, WiredElem
    <3>3. elem'.packet # 0 =>
         LET c == packets'[elem'.packet].cmds IN
         /\ Upto(c, elem'.packet, elem'.at, elem'.rsp)
         /\ TooLong(elem'.rsp) = {}
         /\ AllAnswered(c) => Len(elem'.rsp) + Outstanding' = elem'.at - 1
         /\ WiredElem' => elem'.at = 2
      BY <1>2, <3>1, <3>2 DEF AInv, RspSound
    <3>4. \A q \in 1 .. Len(packets') :
             packets'[q].src \in WiredMasters => Len(packets'[q].cmds) = 1
      BY <1>2 DEF AInv, RspSound
    <3> QED BY <2>1, <3>3, <3>4 DEF RspSound, Upto, Ends, TooLong, AllAnswered, FromDevice
  <2> QED BY <2>2, <2>3
<1> QED BY <1>10, <1>11 DEF AInv

LEMMA QueueTaskWiredResponds ==
    ASSUME IInv, AInv, QueueTaskWired
    PROVE  AInv'
<1> DEFINE p == elem.packet
           cmds == packets[p].cmds
<1>1. /\ work.packet = 0 /\ elem.status = "used" /\ WiredElem
      /\ sent' = [sent EXCEPT ![p] = Append(@, elem.rsp)]
      /\ elem' = Free
      /\ UNCHANGED <<packets, work, toBoard, fromBoard, boardId, lastMsg>>
  BY DEF QueueTaskWired, board
<1>2. /\ p \in 1 .. Len(packets) /\ p # 0 /\ elem.rsp \in Seq(Answers)
      /\ p \in Packets /\ cmds \in Seq(Kinds)
  <2>1. elem \in Element /\ p # 0 /\ p <= Len(packets)
    BY <1>1 DEF IInv, TypeOK, Held
  <2>2. p \in 1 .. Len(packets) /\ p \in Packets
    BY <2>1, LimitAssumption DEF IInv, TypeOK, Element, Packets
  <2>3. packets[p] \in Contents
    BY <2>2 DEF IInv, TypeOK
  <2> QED BY <2>1, <2>2, <2>3 DEF Element, Contents
<1>3. elem.at = 2 /\ Len(cmds) = 1
  BY <1>1, <1>2 DEF AInv, RspSound, WiredElem
<1>4. /\ Upto(cmds, p, 2, elem.rsp) /\ Ends(FALSE, 2, elem.rsp)
      /\ AllAnswered(cmds) => Len(elem.rsp) + 0 = 2 - 1
  <2>1. Outstanding = 0
    BY <1>1 DEF Outstanding
  <2> QED BY <1>2, <1>3, <2>1 DEF AInv, RspSound, Ends
<1> HIDE DEF cmds
<1>5. AnswersEach(elem.rsp, p, cmds)
  <2>1. AllAnswered(cmds) => Len(elem.rsp) = 2 - 1
    <3>1. Len(elem.rsp) \in Nat
      BY <1>2
    <3> QED BY <1>4, <3>1
  <2>2. 2 = Len(cmds) + 1
    BY <1>3
  <2>3. 2 \in Nat /\ FALSE \in BOOLEAN
    OBVIOUS
  <2> QED BY <1>2, <1>4, <2>1, <2>2, <2>3, UptoComplete
<1>6. OneEach' /\ BoardOrder' /\ BoardUses'
  <2>1. Once(elem.rsp) /\ InHand(p) /\ work'.packet = 0
    BY <1>1 DEF AInv, BoardUses, InHand
  <2> QED BY <1>1, <1>2, <1>5, <2>1, SentResponds DEF cmds
<1>7. RspSound'
  <2>1. work'.packet = 0 /\ elem'.packet = 0
    BY <1>1 DEF Free
  <2> QED BY <1>1, <2>1 DEF AInv, RspSound
<1> QED BY <1>6, <1>7 DEF AInv

-----------------------------------------------------------------------------
(* Packets that come and go on, and time.                                  *)

LEMMA QueueTaskResponds ==
    ASSUME IInv, AInv, QueueTask
    PROVE  AInv'
<1> DEFINE p == elem.packet
           cmds == packets[p].cmds
<1>1. /\ work.packet = 0 /\ elem.status = "used" /\ ~WiredElem
      /\ work'.packet = p /\ work'.at = elem.at /\ work'.rsp = elem.rsp
      /\ work'.resumed = TRUE /\ work'.full = FALSE
      /\ UNCHANGED <<packets, elem, toBoard, fromBoard, boardId, lastMsg, sent>>
  BY DEF QueueTask, Resume, board
<1>2. p \in 1 .. Len(packets) /\ p # 0 /\ packets[p] \in Contents
  <2>1. elem \in Element /\ p # 0 /\ p <= Len(packets)
    BY <1>1 DEF IInv, TypeOK, Held
  <2>2. p \in 1 .. Len(packets)
    BY <2>1 DEF IInv, TypeOK, Element, Packets
  <2> QED BY <2>1, <2>2 DEF IInv, TypeOK
<1>3. packets[p].src \in Masters
  BY <1>1, <1>2 DEF Contents, Sources, WiredElem
<1>4. /\ Upto(cmds, p, elem.at, elem.rsp) /\ Ends(FALSE, elem.at, elem.rsp)
      /\ AllAnswered(cmds) => Len(elem.rsp) = elem.at - 1
  <2>1. Outstanding = 0
    BY <1>1 DEF Outstanding
  <2>2. Len(elem.rsp) \in Nat
    BY KnownPlaces
  <2> QED BY <1>2, <2>1, <2>2 DEF AInv, RspSound, Ends
<1>5. RspSound'
  <2>1. Commands' = cmds /\ Wireless'
    BY <1>1, <1>3 DEF Commands, Wireless, Source
  <2>2. Outstanding' = Outstanding /\ WiredElem' = WiredElem
    BY <1>1 DEF Outstanding, WiredElem
  <2>3. elem'.packet # 0 =>
         LET c == packets'[elem'.packet].cmds IN
         /\ Upto(c, elem'.packet, elem'.at, elem'.rsp)
         /\ TooLong(elem'.rsp) = {}
         /\ AllAnswered(c) => Len(elem'.rsp) + Outstanding' = elem'.at - 1
         /\ WiredElem' => elem'.at = 2
    BY <1>1, <2>2 DEF AInv, RspSound
  <2>4. \A q \in 1 .. Len(packets') :
           packets'[q].src \in WiredMasters => Len(packets'[q].cmds) = 1
    BY <1>1 DEF AInv, RspSound
  <2>5. /\ Upto(Commands', work'.packet, work'.at, work'.rsp)
        /\ Ends(work'.full, work'.at, work'.rsp)
        /\ AllAnswered(Commands') => Len(work'.rsp) = work'.at - 1
    BY <1>1, <1>4, <2>1
  <2> QED BY <2>1, <2>3, <2>4, <2>5 DEF RspSound, Upto, Ends, TooLong, AllAnswered, FromDevice
<1>6. OneEach'
  BY <1>1, OneEachKeeps DEF AInv
<1>7. BoardOrder' /\ BoardUses'
  <2>1. ASSUME NEW place \in Places, Behind(place) PROVE Behind(place)'
    BY <1>1, <1>2, <2>1 DEF Behind
  <2>2. /\ Used(elem'.rsp) = Used(elem.rsp) /\ Once(elem'.rsp)
        /\ Once(work'.rsp) /\ Used(work'.rsp) = Used(elem'.rsp)
    BY <1>1 DEF AInv, BoardUses
  <2> QED BY <1>1, <2>1, <2>2, BoardKeeps DEF AInv
<1> QED BY <1>5, <1>6, <1>7 DEF AInv

LEMMA ReceiveResponds ==
    ASSUME IInv, AInv, NEW src \in Sources, NEW cmds \in Lists, Receive(src, cmds)
    PROVE  AInv'
<1> DEFINE new == [src |-> src, cmds |-> cmds]
           p == Len(packets) + 1
<1>1. /\ work.packet = 0 /\ (src \in WiredMasters => Len(cmds) = 1)
      /\ packets' = Append(packets, new)
      /\ work'.packet = p /\ work'.at = 1 /\ work'.rsp = <<>>
      /\ work'.resumed = FALSE /\ work'.full = FALSE
      /\ UNCHANGED <<elem, toBoard, fromBoard, boardId, lastMsg, sent>>
  BY DEF Receive, Idle, board
<1>2. packets \in Seq(Contents) /\ new \in Contents /\ cmds \in Seq(Kinds)
  BY ListAssumption DEF IInv, TypeOK, Contents
<1>3. /\ Len(packets) \in Nat /\ Len(packets') = p
      /\ packets'[p] = new
      /\ \A q \in 1 .. Len(packets) : packets'[q] = packets[q]
  BY <1>1, <1>2
<1> HIDE DEF p
<1>4. p \in Nat /\ p = Len(packets) + 1
  BY <1>3 DEF p
<1>5. elem.packet \in 0 .. Len(packets)
  BY <1>3, KnownPlaces DEF IInv, Held
<1>6. RspSound'
  <2>1. Commands' = cmds
    BY <1>1, <1>3 DEF Commands
  <2>2. /\ Upto(Commands', work'.packet, work'.at, work'.rsp)
        /\ Ends(work'.full, work'.at, work'.rsp)
        /\ AllAnswered(Commands') => Len(work'.rsp) = work'.at - 1
        /\ ~work'.resumed
    BY <1>1, <1>2, <1>4, <2>1, NothingUsed DEF Ends
  <2>3. elem'.packet # 0 =>
         LET c == packets'[elem'.packet].cmds IN
         /\ Upto(c, elem'.packet, elem'.at, elem'.rsp)
         /\ TooLong(elem'.rsp) = {}
         /\ AllAnswered(c) => Len(elem'.rsp) + Outstanding' = elem'.at - 1
         /\ WiredElem' => elem'.at = 2
    <3> SUFFICES ASSUME elem.packet # 0
                 PROVE  LET c == packets[elem.packet].cmds IN
                        /\ Upto(c, elem.packet, elem.at, elem.rsp)
                        /\ TooLong(elem.rsp) = {}
                        /\ AllAnswered(c) => Len(elem.rsp) + Outstanding = elem.at - 1
                        /\ WiredElem => elem.at = 2
      <4>1. Outstanding' = Outstanding
        BY <1>1 DEF Outstanding
      <4>2. elem.packet # 0 => packets'[elem.packet] = packets[elem.packet]
        BY <1>3, <1>5
      <4>3. elem.packet # 0 => WiredElem' = WiredElem
        BY <1>1, <4>2 DEF WiredElem
      <4> QED BY <1>1, <4>1, <4>2, <4>3
    <3> QED BY DEF AInv, RspSound
  <2>4. \A q \in 1 .. Len(packets') :
           packets'[q].src \in WiredMasters => Len(packets'[q].cmds) = 1
    <3> SUFFICES ASSUME NEW q \in 1 .. p, packets'[q].src \in WiredMasters
                 PROVE  Len(packets'[q].cmds) = 1
      BY <1>3
    <3>1. CASE q = p
      <4>1. packets'[q].src = src /\ packets'[q].cmds = cmds
        BY <1>3, <3>1
      <4> QED BY <1>1, <4>1
    <3>2. CASE q \in 1 .. Len(packets)
      BY <1>3, <3>2 DEF AInv, RspSound
    <3> QED BY <1>3, <1>4, <3>1, <3>2
  <2> QED BY <2>2, <2>3, <2>4 DEF RspSound, Upto, Ends, TooLong, AllAnswered, FromDevice
<1>7. OneEach'
  BY <1>1, <1>3, OneEachKeeps DEF AInv
<1>8. BoardOrder' /\ BoardUses'
  <2>1. ASSUME NEW place \in Places, Behind(place) PROVE Behind(place)'
    <3>1. place[1] \in Nat /\ place[1] # 0 /\ place[1] <= Len(packets)
      BY <2>1, PlaceLemma DEF Behind, Packets
    <3>2. place[1] <= p /\ place[1] # p
      BY <1>3, <1>4, <3>1
    <3>3. place[1] = elem.packet => place[2] < elem.at
      BY <1>1, <2>1, <3>1 DEF Behind
    <3> QED BY <1>1, <1>3, <3>2, <3>3 DEF Behind
  <2>2. /\ Used(elem'.rsp) = Used(elem.rsp) /\ Once(elem'.rsp)
        /\ Once(work'.rsp) /\ Used(work'.rsp) = {} /\ ~work'.resumed
    BY <1>1, NothingUsed DEF AInv, BoardUses
  <2> QED BY <1>1, <2>1, <2>2, BoardKeeps DEF AInv
<1> QED BY <1>6, <1>7, <1>8 DEF AInv

\* Steps that leave the packets and the answers alone.
LEMMA OthersRespond ==
    ASSUME IInv, AInv,
           UNCHANGED <<packets, work, toBoard, fromBoard, boardId, lastMsg, sent>>,
           elem' = elem \/ elem' = [elem EXCEPT !.aged = TRUE]
    PROVE  AInv'
<1>1. /\ elem'.packet = elem.packet /\ elem'.at = elem.at /\ elem'.rsp = elem.rsp
      /\ elem'.status = elem.status
  <2>1. elem \in Element
    BY DEF IInv, TypeOK
  <2> QED BY <2>1 DEF Element
<1>2. RspSound'
  <2>1. /\ Commands' = Commands /\ Wireless' = Wireless /\ WiredElem' = WiredElem
        /\ Outstanding' = Outstanding
    BY <1>1 DEF Commands, Wireless, Source, WiredElem, Outstanding
  <2> QED BY <1>1, <2>1 DEF AInv, RspSound, Upto, Ends, TooLong, AllAnswered, FromDevice
<1>3. OneEach'
  BY OneEachKeeps DEF AInv
<1>4. BoardOrder' /\ BoardUses'
  <2>1. ASSUME NEW place \in Places, Behind(place) PROVE Behind(place)'
    BY <1>1, <2>1 DEF Behind
  <2>2. /\ Used(elem'.rsp) = Used(elem.rsp) /\ Once(elem'.rsp)
        /\ work'.packet # 0 =>
             /\ Once(work'.rsp)
             /\ Used(work'.rsp) = IF work'.resumed THEN Used(elem'.rsp) ELSE {}
    BY <1>1 DEF AInv, BoardUses
  <2> QED BY <2>1, <2>2, BoardKeeps DEF AInv
<1> QED BY <1>2, <1>3, <1>4 DEF AInv

-----------------------------------------------------------------------------
(* The user board.                                                         *)

LEMMA BoardAnswersResponds ==
    ASSUME IInv, AInv, BoardAnswers
    PROVE  AInv'
<1> DEFINE place == Head(toBoard)
           msg == [id |-> boardId, about |-> place]
<1>1. /\ toBoard # <<>> /\ fromBoard = {}
      /\ fromBoard' = {msg} /\ toBoard' = Tail(toBoard) /\ boardId' = 1 - boardId
      /\ UNCHANGED <<packets, work, elem, lastMsg, sent>>
  BY DEF BoardAnswers
<1>2. toBoard \in Seq(Places) /\ boardId \in {0, 1}
  BY DEF IInv, TypeOK
<1>3. lastMsg.id = 1 - boardId
  BY <1>1 DEF AInv, BoardOrder
<1>4. /\ place = toBoard[1] /\ 1 \in DOMAIN toBoard
      /\ \A i \in DOMAIN toBoard' : /\ toBoard'[i] = toBoard[i + 1]
                                    /\ i + 1 \in DOMAIN toBoard /\ i + 1 # 1 /\ i \in Nat
  BY <1>1, <1>2
<1>5. /\ place \in WithBoard
      /\ WithBoard' \subseteq WithBoard /\ place \notin WithBoard'
      /\ \A i, j \in DOMAIN toBoard' : toBoard'[i] = toBoard'[j] => i = j
  <2> HIDE DEF place
  <2>1. \A i, j \in DOMAIN toBoard : toBoard[i] = toBoard[j] => i = j
    BY DEF AInv, BoardOrder
  <2>2. \A i \in DOMAIN toBoard' : toBoard'[i] # place
    BY <1>4, <2>1
  <2>3. \A i, j \in DOMAIN toBoard' : toBoard'[i] = toBoard'[j] => i = j
    <3> SUFFICES ASSUME NEW i \in DOMAIN toBoard', NEW j \in DOMAIN toBoard',
                        toBoard'[i] = toBoard'[j]
                 PROVE  i = j
      OBVIOUS
    <3>1. i + 1 = j + 1
      BY <1>4, <2>1
    <3> QED BY <1>4, <3>1
  <2> QED BY <1>4, <2>2, <2>3 DEF WithBoard
<1>6. /\ UsedSent' = UsedSent /\ \A p \in Packets : UsedIn(p)' = UsedIn(p)
      /\ Used(elem'.rsp) = Used(elem.rsp)
      /\ \A q : Behind(q)' = Behind(q)
  BY <1>1 DEF UsedSent, UsedIn, Behind
<1>7. OnTheWay' = {place} /\ Unused' \subseteq {place}
  BY <1>1 DEF OnTheWay, Unused
<1> HIDE DEF place
<1>8. RspSound'
  <2>1. /\ Commands' = Commands /\ Wireless' = Wireless /\ WiredElem' = WiredElem
        /\ Outstanding' = Outstanding
    BY <1>1 DEF Commands, Wireless, Source, WiredElem, Outstanding
  <2> QED BY <1>1, <2>1 DEF AInv, RspSound, Upto, Ends, TooLong, AllAnswered, FromDevice
<1>9. OneEach'
  BY <1>1, OneEachKeeps DEF AInv
<1>10. BoardOrder'
  <2>1. \A q \in UNION {WithBoard', OnTheWay', Used(elem'.rsp), UsedSent'} : Behind(q)'
    BY <1>5, <1>6, <1>7 DEF AInv, BoardOrder
  <2>2. \A m \in fromBoard' : fromBoard' = {m} /\ m.id = 1 - boardId'
    BY <1>1, <1>2
  <2>3. WithBoard' \intersect OnTheWay' = {}
    BY <1>5, <1>7
  <2> QED BY <1>1, <1>5, <2>1, <2>2, <2>3 DEF BoardOrder, Used, FromBoard
<1>11. BoardUses'
  <2>1. (WithBoard' \union Unused') \intersect (Used(elem'.rsp) \union UsedSent') = {}
    BY <1>5, <1>6, <1>7 DEF AInv, BoardUses
  <2>2. Used(elem'.rsp) \intersect UsedSent' = {}
    BY <1>6 DEF AInv, BoardUses
  <2>3. \A p, q \in Packets : p # q => UsedIn(p)' \intersect UsedIn(q)' = {}
    BY <1>6 DEF AInv, BoardUses
  <2>4. /\ \A p \in Packets : \A k \in DOMAIN sent'[p] : Once(sent'[p][k])
        /\ Once(elem'.rsp)
        /\ work'.packet # 0 =>
             /\ Once(work'.rsp)
             /\ Used(work'.rsp) = IF work'.resumed THEN Used(elem'.rsp) ELSE {}
    BY <1>1 DEF AInv, BoardUses
  <2> QED BY <2>1, <2>2, <2>3, <2>4 DEF BoardUses, Used, FromBoard, Once
<1> QED BY <1>8, <1>9, <1>10, <1>11 DEF AInv

\* The board sees an acknowledgement, or the message stays; what of it has been
\* used is no longer unused.
LEMMA RcvAnswerResponds ==
    ASSUME IInv, AInv, NEW acked \in BOOLEAN, RcvAnswer(acked)
    PROVE  AInv'
<1>1. PICK msg \in fromBoard :
         /\ IF ~Repeated(msg) /\ elem.status = "pending"
            THEN GiveToElement(msg) ELSE UNCHANGED elem
         /\ IF ~Repeated(msg)
            THEN lastMsg' = [id |-> msg.id, done |-> elem.status = "pending"]
            ELSE UNCHANGED lastMsg
  BY DEF RcvAnswer
<1>2. /\ work.packet = 0 /\ (fromBoard' = {} \/ fromBoard' = fromBoard)
      /\ UNCHANGED <<packets, work, toBoard, boardId, sent>>
  BY DEF RcvAnswer
<1>3. /\ fromBoard = {msg} /\ msg.id = 1 - boardId /\ msg \in Message
      /\ msg.about \in Places /\ elem \in Element /\ elem.rsp \in Seq(Answers)
  BY DEF AInv, BoardOrder, IInv, TypeOK, Message, Element
<1> DEFINE place == msg.about
           used == ~Repeated(msg) /\ elem.status = "pending"
           a == [from |-> "board", to |-> place]
<1>4. /\ elem'.packet = elem.packet /\ elem'.at = elem.at
      /\ IF used THEN elem'.rsp = Append(elem.rsp, a) /\ elem'.status = "used"
                 ELSE elem' = elem
  BY <1>1, <1>3 DEF GiveToElement, Element
<1>5. OnTheWay = {place} /\ OnTheWay' \subseteq {place}
  BY <1>2, <1>3 DEF OnTheWay
<1>6. used => place \in Unused
  BY <1>3 DEF Unused
<1>7. used => Unused' = {}
  <2> SUFFICES ASSUME used, NEW m \in fromBoard' PROVE Repeated(m)'
    BY DEF Unused
  <2>1. m = msg /\ lastMsg' = [id |-> msg.id, done |-> TRUE]
    BY <1>1, <1>2, <1>3
  <2> QED BY <2>1 DEF Repeated
<1>8. Unused' \subseteq Unused
  <2> SUFFICES ASSUME NEW m \in fromBoard', ~Repeated(m)' PROVE ~Repeated(m) /\ m \in fromBoard
    BY DEF Unused
  <2>1. m = msg /\ m \in fromBoard
    BY <1>2, <1>3
  <2>2. ASSUME Repeated(msg) PROVE FALSE
    BY <1>1, <2>1, <2>2 DEF Repeated
  <2> QED BY <2>1, <2>2
<1>9. lastMsg'.id = 1 - boardId
  <2>1. CASE Repeated(msg)
    BY <1>1, <1>3, <2>1 DEF Repeated
  <2>2. CASE ~Repeated(msg)
    BY <1>1, <1>3, <2>2
  <2> QED BY <2>1, <2>2
<1>10. /\ IF used THEN Used(elem'.rsp) = Used(elem.rsp) \union {place}
                  ELSE Used(elem'.rsp) = Used(elem.rsp)
       /\ Once(elem'.rsp)
  <2>1. CASE used
    <3>1. place \notin Used(elem.rsp) /\ Once(elem.rsp)
      BY <1>6, <2>1 DEF AInv, BoardUses
    <3> HIDE DEF used, place
    <3>2. place \in Places /\ elem'.rsp = Append(elem.rsp, a)
      BY <1>3, <1>4, <2>1 DEF place
    <3> HIDE DEF a
    <3>3. Used(elem'.rsp) = Used(elem.rsp) \union {place} /\ Once(elem'.rsp)
      BY <1>3, <3>1, <3>2, BoardAnswer DEF a
    <3> QED BY <2>1, <3>3
  <2>2. CASE ~used
    BY <1>4, <2>2 DEF AInv, BoardUses
  <2> QED BY <2>1, <2>2
<1> HIDE DEF place, used, a
<1>11. /\ UsedSent' = UsedSent /\ WithBoard' = WithBoard
       /\ \A p \in Packets : UsedIn(p)' = UsedIn(p)
       /\ \A q : Behind(q)' = Behind(q)
  BY <1>2, <1>4 DEF UsedSent, UsedIn, WithBoard, Behind
<1>12. RspSound'
  <2>1. WiredElem' = WiredElem
    BY <1>2, <1>4 DEF WiredElem
  <2>2. ASSUME elem.packet # 0
        PROVE  LET c == packets[elem.packet].cmds IN
               /\ Upto(c, elem.packet, elem.at, elem'.rsp)
               /\ TooLong(elem'.rsp) = {}
               /\ AllAnswered(c) => Len(elem'.rsp) + Outstanding' = elem.at - 1
               /\ WiredElem => elem.at = 2
    <3> DEFINE c == packets[elem.packet].cmds
    <3>1. /\ Upto(c, elem.packet, elem.at, elem.rsp)
          /\ TooLong(elem.rsp) = {}
          /\ AllAnswered(c) => Len(elem.rsp) + Outstanding = elem.at - 1
          /\ WiredElem => elem.at = 2
      BY <2>2 DEF AInv, RspSound
    <3>2. CASE used
      <4>1. /\ Len(elem'.rsp) = Len(elem.rsp) + 1 /\ Len(elem.rsp) \in Nat
            /\ a \in Answers
        BY <1>3, <1>4, <3>2, AppendLemma DEF a, place, Answers
      <4>2. Outstanding = 1 /\ Outstanding' = 0
        BY <1>4, <3>2 DEF Outstanding, used
      <4>3. c \in Seq(Kinds) /\ elem.packet \in Packets /\ elem.at \in Nat \ {0}
        <5>1. elem.packet \in 1 .. Len(packets)
          BY <1>3, <2>2 DEF IInv, Held, Element, Packets, TypeOK
        <5>2. packets[elem.packet] \in Contents
          BY <5>1 DEF IInv, TypeOK
        <5> QED BY <1>3, <2>2, <5>2 DEF Contents, Element
      <4> HIDE DEF c
      <4>4. Upto(c, elem.packet, elem.at, elem'.rsp)
        BY <1>3, <1>4, <3>1, <3>2, <4>3, UptoBoard DEF a, place
      <4>5. TooLong(elem'.rsp) = {}
        <5>1. TooLong(Append(elem.rsp, a)) = TooLong(elem.rsp)
          BY <1>3, BoardAnswer DEF a, place
        <5>2. elem'.rsp = Append(elem.rsp, a)
          BY <1>4, <3>2
        <5> QED BY <3>1, <5>1, <5>2
      <4> QED BY <3>1, <4>1, <4>2, <4>3, <4>4, <4>5 DEF c, Element
    <3>3. CASE ~used
      <4>1. elem' = elem /\ Outstanding' = Outstanding
        BY <1>4, <3>3 DEF Outstanding
      <4> QED BY <3>1, <4>1
    <3> QED BY <3>2, <3>3
  <2>3. elem'.packet # 0 =>
         LET c == packets'[elem'.packet].cmds IN
         /\ Upto(c, elem'.packet, elem'.at, elem'.rsp)
         /\ TooLong(elem'.rsp) = {}
         /\ AllAnswered(c) => Len(elem'.rsp) + Outstanding' = elem'.at - 1
         /\ WiredElem' => elem'.at = 2
    BY <1>2, <1>4, <2>1, <2>2
  <2>4. \A q \in 1 .. Len(packets') :
           packets'[q].src \in WiredMasters => Len(packets'[q].cmds) = 1
    BY <1>2 DEF AInv, RspSound
  <2> QED BY <1>2, <2>3, <2>4 DEF RspSound, Upto, Ends, TooLong, AllAnswered, FromDevice
<1>13. OneEach'
  BY <1>2, OneEachKeeps DEF AInv
<1>14. BoardOrder'
  <2>1. \A q \in UNION {WithBoard', OnTheWay', Used(elem'.rsp), UsedSent'} : Behind(q)'
    BY <1>5, <1>10, <1>11 DEF AInv, BoardOrder
  <2>2. \A m \in fromBoard' : fromBoard' = {m} /\ m.id = 1 - boardId'
    BY <1>2, <1>3
  <2>3. WithBoard' \intersect OnTheWay' = {}
    BY <1>5, <1>11 DEF AInv, BoardOrder
  <2>4. \A i, j \in DOMAIN toBoard' : toBoard'[i] = toBoard'[j] => i = j
    BY <1>2 DEF AInv, BoardOrder
  <2> QED BY <1>2, <1>9, <2>1, <2>2, <2>3, <2>4 DEF BoardOrder, Used, FromBoard
<1>15. BoardUses'
  <2>1. (WithBoard' \union Unused') \intersect (Used(elem'.rsp) \union UsedSent') = {}
    <3>1. CASE used
      <4>1. place \notin WithBoard /\ place \notin UsedSent
        BY <1>5, <1>6, <3>1 DEF AInv, BoardOrder, BoardUses
      <4> QED BY <1>7, <1>10, <1>11, <3>1, <4>1 DEF AInv, BoardUses
    <3>2. CASE ~used
      BY <1>8, <1>10, <1>11, <3>2 DEF AInv, BoardUses
    <3> QED BY <3>1, <3>2
  <2>2. Used(elem'.rsp) \intersect UsedSent' = {}
    BY <1>6, <1>10, <1>11 DEF AInv, BoardUses
  <2>3. \A p, q \in Packets : p # q => UsedIn(p)' \intersect UsedIn(q)' = {}
    BY <1>11 DEF AInv, BoardUses
  <2>4. \A p \in Packets : \A k \in DOMAIN sent'[p] : Once(sent'[p][k])
    BY <1>2 DEF AInv, BoardUses
  <2> QED BY <1>2, <1>10, <2>1, <2>2, <2>3, <2>4 DEF BoardUses, Used, FromBoard, Once
<1> QED BY <1>12, <1>13, <1>14, <1>15 DEF AInv

-----------------------------------------------------------------------------
LEMMA InitResponds == Init => AInv
<1> SUFFICES ASSUME Init PROVE AInv
  OBVIOUS
<1>1. /\ packets = <<>> /\ work.packet = 0 /\ elem.packet = 0 /\ elem.rsp = <<>>
      /\ toBoard = <<>> /\ fromBoard = {} /\ boardId = 1 /\ lastMsg.id = 0
      /\ \A p \in Packets : sent[p] = <<>>
  BY DEF Init, Idle, Free
<1>2. Used(elem.rsp) = {} /\ Once(elem.rsp)
  BY <1>1, NothingUsed
<1>3. WithBoard = {} /\ OnTheWay = {} /\ Unused = {}
  BY <1>1 DEF WithBoard, OnTheWay, Unused
<1>4. /\ \A p \in Packets : UsedIn(p) = {} /\ DOMAIN sent[p] = {}
      /\ UsedSent = {}
  BY <1>1 DEF UsedIn, UsedSent
<1>5. RspSound
  BY <1>1 DEF RspSound
<1>6. OneEach
  BY <1>4 DEF OneEach
<1>7. BoardOrder
  BY <1>1, <1>2, <1>3, <1>4 DEF BoardOrder
<1>8. BoardUses
  BY <1>1, <1>2, <1>3, <1>4 DEF BoardUses
<1> QED BY <1>5, <1>6, <1>7, <1>8 DEF AInv

LEMMA NextResponds == IInv /\ AInv /\ [Next]_vars => AInv'
<1> SUFFICES ASSUME IInv, AInv, [Next]_vars PROVE AInv'
  OBVIOUS
<1>1. CASE Process
  BY <1>1, ProcessResponds, FinishResponds
<1>2. CASE QueueTask
  BY <1>2, QueueTaskResponds
<1>3. CASE QueueTaskWired
  BY <1>3, QueueTaskWiredResponds
<1>4. ASSUME NEW src \in Sources, NEW cmds \in Lists, Receive(src, cmds) PROVE AInv'
  BY <1>4, ReceiveResponds
<1>5. CASE Ages
  BY <1>5, OthersRespond DEF Ages, board
<1>6. ASSUME NEW status \in {"end", "dead", "conflict"}, DrMoves(status) PROVE AInv'
  BY <1>6, OthersRespond DEF DrMoves, board
<1>7. CASE BoardAnswers
  BY <1>7, BoardAnswersResponds
<1>8. ASSUME NEW acked \in BOOLEAN, RcvAnswer(acked) PROVE AInv'
  BY <1>8, RcvAnswerResponds
<1>9. CASE UNCHANGED vars
  BY <1>9, OthersRespond DEF vars
<1> QED BY <1>1, <1>2, <1>3, <1>4, <1>5, <1>6, <1>7, <1>8, <1>9 DEF Next

LEMMA Responses == Spec => [](IInv /\ AInv)
<1>1. Init => IInv /\ AInv
  BY InitStep, InitResponds
<1>2. (IInv /\ AInv) /\ [Next]_vars => (IInv /\ AInv)'
  BY NextStep, NextResponds
<1> QED BY <1>1, <1>2, PTL DEF Spec

\* Whatever a packet holds, however often it waits and wherever the room for its
\* response ends: a response that is sent has the device's answers to its own
\* commands, one for each and in their order, up to the last command or to the
\* first RCS_E60, and a part for every command up to there when none of the
\* packet's is silent or delayed.
THEOREM OneEachAlways == Spec => []OneEach
<1>1. IInv /\ AInv => OneEach
  BY DEF AInv
<1> QED BY <1>1, Responses, PTL

LEMMA UsedOnce ==
    ASSUME NEW rsp, rsp \in Seq(Answers), NEW place
    PROVE  /\ place \notin Used(rsp) => UsesOf(place, rsp) = 0
           /\ place \in Used(rsp) /\ Once(rsp) => UsesOf(place, rsp) = 1
<1> DEFINE uses == {i \in DOMAIN rsp : rsp[i] = [from |-> "board", to |-> place]}
<1>1. \A i \in FromBoard(rsp) : rsp[i] = [from |-> "board", to |-> rsp[i].to]
  BY ResponsePlaces DEF FromBoard, Answers
<1>2. uses = {i \in FromBoard(rsp) : rsp[i].to = place}
  BY <1>1 DEF FromBoard
<1>3. UsesOf(place, rsp) = Cardinality(uses)
  BY DEF UsesOf
<1> HIDE DEF uses
<1>4. ASSUME place \notin Used(rsp) PROVE Cardinality(uses) = 0
  BY <1>2, <1>4, FS_EmptySet DEF Used
<1>5. ASSUME place \in Used(rsp), Once(rsp) PROVE Cardinality(uses) = 1
  <2>1. PICK i \in FromBoard(rsp) : rsp[i].to = place
    BY <1>5 DEF Used
  <2>2. uses = {i}
    BY <1>2, <1>5, <2>1 DEF Once
  <2> QED BY <2>2, FS_Singleton
<1> QED BY <1>3, <1>4, <1>5

\* However often the board repeats its answer, whichever packet waits by then and
\* whoever else talks to the board: the answer to a command becomes part of one
\* response, once.
THEOREM AnswerUsedOnceAlways == Spec => []AnswerUsedOnce
<1>1. IInv /\ AInv => AnswerUsedOnce
  <2> SUFFICES ASSUME IInv, AInv, NEW p \in Packets, NEW q \in Packets,
                      NEW k \in DOMAIN sent[p],
                      NEW i \in DOMAIN sent[p][k], sent[p][k][i].from = "board"
               PROVE  LET rsp == sent[p][k] IN
                      /\ UsesOf(rsp[i].to, rsp) = 1
                      /\ UsesOf(rsp[i].to, elem.rsp) = 0
                      /\ p # q => \A n \in DOMAIN sent[q] :
                                     UsesOf(rsp[i].to, sent[q][n]) = 0
    BY DEF AnswerUsedOnce
  <2> DEFINE rsp == sent[p][k]
             place == rsp[i].to
  <2>1. /\ elem.rsp \in Seq(Answers)
        /\ \A r \in Packets : \A n \in DOMAIN sent[r] : sent[r][n] \in Seq(Answers)
    <3>1. \A r \in Packets : sent[r] \in Seq(Seq(Answers))
      BY DEF IInv, TypeOK
    <3> QED BY <3>1, KnownPlaces
  <2>2. place \in Used(rsp)
    BY DEF Used, FromBoard
  <2>3. place \in UsedIn(p)
    BY <2>2 DEF UsedIn
  <2>4. place \in UsedSent
    BY <2>3 DEF UsedSent
  <2>5. Once(rsp) /\ place \notin Used(elem.rsp)
    BY <2>4 DEF AInv, BoardUses
  <2>6. ASSUME p # q, NEW n \in DOMAIN sent[q] PROVE place \notin Used(sent[q][n])
    <3>1. place \notin UsedIn(q)
      BY <2>3, <2>6 DEF AInv, BoardUses
    <3> QED BY <3>1 DEF UsedIn
  <2> HIDE DEF rsp, place
  <2>7. UsesOf(place, rsp) = 1 /\ UsesOf(place, elem.rsp) = 0
    BY <2>1, <2>2, <2>5, UsedOnce DEF rsp
  <2>8. p # q => \A n \in DOMAIN sent[q] : UsesOf(place, sent[q][n]) = 0
    BY <2>1, <2>6, UsedOnce
  <2> QED BY <2>7, <2>8 DEF rsp, place
<1> QED BY <1>1, Responses, PTL
===============================================================================
