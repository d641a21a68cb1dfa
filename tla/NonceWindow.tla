---------------------------- MODULE NonceWindow ----------------------------
(***************************************************************************)
(* How NET_InterpretPacket keeps a packet of a session from being read     *)
(* twice.  A peer numbers its packets with a nonce counter of 32 bits, of  *)
(* which a packet carries the low byte; the receiver rebuilds the counter  *)
(* from the greatest one it has accepted, and a history has one bit for    *)
(* each of the last Window counters.  A packet whose counter is rebuilt    *)
(* wrongly fails the test of its MIC, because the counter is in the nonce. *)
(*                                                                         *)
(* The network delivers a packet any number of times and in any order.     *)
(* The network manager replaces the key of a session that both ends have   *)
(* (command 963), at each end at a time of its own.  The counters for the  *)
(* health report (command 779) are left out.                               *)
(***************************************************************************)
EXTENDS Integers

CONSTANTS
    ByteMod,    \* 2^8, the values of a uint8
    LongMod,    \* 2^32, the values of a uint32
    Window,     \* the bits of m_ulNonceCounterHistory
    Start,      \* m_ulPeerNonceCounterValue of the command that opens the session
    MaxCounter, \* bound of the model: the last counter of the peer
    MaxKey,     \* bound of the model: how often the key is replaced
    KeepTime    \* 2 * ulMaxPacketAge, in steps of the 250 ms task

ASSUME WidthAssumption == /\ Window \in Nat /\ ByteMod \in Nat /\ LongMod \in Nat
                          /\ 1 <= Window /\ Window < ByteMod
ASSUME CounterAssumption == /\ Start \in Nat /\ MaxCounter \in Nat
                            /\ Start <= MaxCounter
                            /\ MaxCounter + 2 * ByteMod <= LongMod
ASSUME KeyAssumption == MaxKey \in Nat /\ KeepTime \in Nat \ {0}

VARIABLES
    sent,       \* m_ulMyNonceCounter of the peer: its last packet
    peerKey,    \* the key of the peer's session
    keyOf,      \* for every packet the key it was encrypted with
    peer,       \* m_ulPeerNonceCounter
    history,    \* m_ulNonceCounterHistory, bit 31 (the counter peer) first
    key,        \* m_aSessionKey
    keepOld,    \* m_ulKeepOldKeyTime while VALID_OLD_KEY is set, 0 otherwise
    delivered   \* how often TL_TransmitIndicate has been called with each packet

vars == <<sent, peerKey, keyOf, peer, history, key, keepOld, delivered>>

Counters == Start + 1 .. MaxCounter
Bits     == 0 .. Window - 1
Keys     == 0 .. MaxKey

Init == /\ sent = Start /\ peer = Start
        /\ peerKey = 0 /\ key = 0 /\ keepOld = 0
        /\ keyOf = [c \in Counters |-> 0]
        /\ history = [d \in Bits |-> FALSE]
        /\ delivered = [c \in Counters |-> 0]

-----------------------------------------------------------------------------
(* The arithmetic of NET_InterpretPacket.                                  *)

Unsigned(n) == n % LongMod

Low  == peer % ByteMod
High == peer \div ByteMod
Edge == Low - (Window - 1)  \* an int, negative when the window begins below High

\* An int that is compared with a uint32 is converted to one.
Borrows(byte) == Low < Window - 1 /\ byte >= Unsigned(Edge)

\* Mutant: the byte is never taken to have wrapped.
NeverCarries(byte) == FALSE

Carries(byte) == Low >= Window - 1 /\ byte < Edge

Upper(byte) == CASE Borrows(byte) -> High - 1
                 [] Carries(byte) -> High + 1
                 [] OTHER         -> High

Rebuilt(byte) == Unsigned(Upper(byte) * ByteMod + byte)

\* How far a counter is behind the greatest one.
Age(c) == Unsigned(peer - c)

\* Mutant: the history is not read.
NeverMarked(c) == FALSE

Marked(c) == Age(c) < Window /\ history[Age(c)]

\* Mutant: the MIC is not tested.
AnyPacket(c) == TRUE

\* AES_Decrypt_User succeeds only under the key and the counter of the packet; the old
\* key is not tried.
Authentic(c) == keyOf[c] = key /\ Rebuilt(c % ByteMod) = c

Accepts(c) == ~ Marked(Rebuilt(c % ByteMod)) /\ Authentic(c)

\* Mutant: the history is moved by one step too many.
ShiftedTwice(n) ==
    [d \in Bits |-> IF d <= n THEN d = 0 ELSE history[d - n - 1]]

\* The loop counter is a uint8.
Shifted(n) ==
    LET steps == n % ByteMod IN
    [d \in Bits |-> IF d = 0 THEN TRUE ELSE d >= steps /\ history[d - steps]]

-----------------------------------------------------------------------------
(* The session of the receiver.                                            *)

Deliver(c) == delivered' = [delivered EXCEPT ![c] = @ + 1]

\* NET_InterpretPacket: one of the last Window packets.
ReceiveLate(c) ==
    LET r == Rebuilt(c % ByteMod) IN
    /\ Accepts(c) /\ Age(r) < Window
    /\ history' = [history EXCEPT ![Age(r)] = TRUE]
    /\ Deliver(c)
    /\ UNCHANGED <<sent, peerKey, keyOf, peer, key, keepOld>>

\* NET_InterpretPacket: a packet that the window moves up to.
ReceiveNew(c) ==
    LET r == Rebuilt(c % ByteMod) IN
    /\ Accepts(c) /\ Age(r) >= Window
    /\ history' = Shifted(Unsigned(r - peer))
    /\ peer' = r
    /\ Deliver(c)
    /\ UNCHANGED <<sent, peerKey, keyOf, key, keepOld>>

\* NL_WRITE_SESSION_KEY for a session that exists: its counters stay.
ReplaceKey ==
    /\ key < MaxKey /\ key <= peerKey
    /\ key' = key + 1
    /\ keepOld' = KeepTime
    /\ UNCHANGED <<sent, peerKey, keyOf, peer, history, delivered>>

NET_CheckOldSessionKeysTimes ==
    /\ keepOld > 0
    /\ keepOld' = keepOld - 1
    /\ UNCHANGED <<sent, peerKey, keyOf, peer, history, key, delivered>>

-----------------------------------------------------------------------------
(* The peer.                                                               *)

\* NET_TransmitRequest; a packet that the link queue refuses leaves no trace, because
\* its counter is taken back.
PeerSends ==
    /\ sent < MaxCounter
    /\ sent' = sent + 1
    /\ keyOf' = [keyOf EXCEPT ![sent + 1] = peerKey]
    /\ UNCHANGED <<peerKey, peer, history, key, keepOld, delivered>>

PeerReplacesKey ==
    /\ peerKey < MaxKey /\ peerKey <= key
    /\ peerKey' = peerKey + 1
    /\ UNCHANGED <<sent, keyOf, peer, history, key, keepOld, delivered>>

Sent == Start + 1 .. sent

Next == \/ PeerSends \/ PeerReplacesKey
        \/ ReplaceKey \/ NET_CheckOldSessionKeysTimes
        \/ \E c \in Sent : ReceiveLate(c) \/ ReceiveNew(c)

Spec == Init /\ [][Next]_vars

-----------------------------------------------------------------------------
\* The counters keep their ranges, and the window never moves past the last packet
\* that the peer has sent.
TypeOK == /\ sent \in Start .. MaxCounter /\ peer \in Start .. sent
          /\ key \in Keys /\ peerKey \in Keys /\ keyOf \in [Counters -> Keys]
          /\ keepOld \in 0 .. KeepTime
          /\ history \in [Bits -> BOOLEAN]
          /\ delivered \in [Counters -> Nat]

\* NET_InterpretPacket gives no packet to the transport layer twice, however often and
\* in whatever order its copies arrive.
DeliveredOnce == \A c \in Counters : delivered[c] <= 1

\* A bit of the history is set if and only if the packet with its counter has been
\* delivered: the moves of the window keep the bits in their places, so that no packet
\* is discarded as a duplicate of another.
WindowSound ==
    \A d \in Bits :
        history[d] <=> peer - d \in Counters /\ delivered[peer - d] > 0

\* A packet that is ahead of all the accepted ones is accepted, as long as fewer than
\* ByteMod - Window packets before it have been lost: the counter is rebuilt across
\* every wrap of its byte.
FreshAccepted ==
    \A c \in Sent : /\ peer < c /\ c <= peer + ByteMod - Window
                    /\ keyOf[c] = key
                    => Accepts(c)
=============================================================================
