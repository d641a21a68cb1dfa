---------------------------- MODULE SessionProofs ----------------------------
(***************************************************************************)
(* Theorems about NonceWindow: NET_InterpretPacket delivers no packet      *)
(* twice and accepts every packet that is not too far ahead, for every     *)
(* width of the counters and every size of the window.                     *)
(***************************************************************************)
EXTENDS NonceWindow, TLAPS

-----------------------------------------------------------------------------
(* Arithmetic.                                                             *)

LEMMA ModSmall ==
    ASSUME NEW m \in Nat, NEW n \in Int, 0 <= n, n < m
    PROVE  n % m = n
BY SMT

LEMMA ModBelow ==
    ASSUME NEW m \in Nat, NEW n \in Int, n < 0, 0 <= m + n
    PROVE  n % m = m + n
BY SMT

LEMMA Division ==
    ASSUME NEW m \in Nat \ {0}, NEW n \in Nat
    PROVE  /\ n % m \in 0 .. m - 1
           /\ n \div m \in Nat
           /\ n = ((n \div m) * m) + (n % m)
BY SMT

LEMMA SmallMultiple ==
    ASSUME NEW m \in Nat, NEW k \in Int, - m < k * m, k * m < m
    PROVE  k = 0
<1>1. CASE k >= 1
  BY <1>1, k * m >= m
<1>2. CASE k <= -1
  BY <1>2, k * m <= - m
<1> QED BY <1>1, <1>2

-----------------------------------------------------------------------------
(* The rebuilt counter.                                                    *)

\* The branch that is to borrow is never taken: its negative edge is a large uint32.
LEMMA NeverBorrows ==
    ASSUME NEW byte \in 0 .. ByteMod - 1, Low \in 0 .. ByteMod - 1
    PROVE  ~ Borrows(byte)
<1> SUFFICES ASSUME Low < Window - 1 PROVE ~ (byte >= Unsigned(Edge))
  BY DEF Borrows
<1>1. Edge \in Int /\ Edge < 0 /\ - ByteMod < Edge
  BY WidthAssumption DEF Edge
<1>2. Unsigned(Edge) = LongMod + Edge
  BY <1>1, ModBelow, WidthAssumption, CounterAssumption DEF Unsigned
<1> QED BY <1>1, <1>2, WidthAssumption, CounterAssumption

\* The rebuilt counter has the byte of the packet and lies in the window of the
\* greatest accepted counter or less than ByteMod above it.
LEMMA RebuiltRange ==
    ASSUME peer \in 0 .. MaxCounter, NEW byte \in 0 .. ByteMod - 1
    PROVE  /\ Rebuilt(byte) = (Upper(byte) * ByteMod) + byte
           /\ Upper(byte) \in Nat
           /\ Rebuilt(byte) \in Nat
           /\ peer - Window < Rebuilt(byte)
           /\ Rebuilt(byte) < peer + ByteMod
<1>1. /\ Low \in 0 .. ByteMod - 1
      /\ High \in Nat
      /\ peer = (High * ByteMod) + Low
  <2>1. peer \in Nat /\ ByteMod \in Nat \ {0}
    BY WidthAssumption, CounterAssumption
  <2>2. /\ peer % ByteMod \in 0 .. ByteMod - 1
        /\ peer \div ByteMod \in Nat
        /\ peer = ((peer \div ByteMod) * ByteMod) + (peer % ByteMod)
    BY <2>1, Division
  <2> QED BY <2>2 DEF Low, High
<1>2. ~ Borrows(byte)
  BY <1>1, NeverBorrows
<1> DEFINE base == High * ByteMod
<1>3. base \in Nat /\ peer = base + Low
  BY <1>1, WidthAssumption
<1>4. /\ Upper(byte) \in Nat
      /\ Upper(byte) * ByteMod = IF Carries(byte) THEN base + ByteMod ELSE base
  <2>1. CASE Carries(byte)
    <3>1. Upper(byte) = High + 1
      BY <1>2, <2>1 DEF Upper
    <3>2. (High + 1) * ByteMod = (High * ByteMod) + ByteMod
      BY <1>1, WidthAssumption
    <3> QED BY <1>1, <2>1, <3>1, <3>2
  <2>2. CASE ~ Carries(byte)
    <3>1. Upper(byte) = High
      BY <1>2, <2>2 DEF Upper
    <3> QED BY <1>1, <2>2, <3>1
  <2> QED BY <2>1, <2>2
<1> DEFINE n == (Upper(byte) * ByteMod) + byte
<1> HIDE DEF base
<1>5. n \in Nat /\ peer - Window < n /\ n < peer + ByteMod
  <2>1. CASE Carries(byte)
    BY <1>1, <1>3, <1>4, <2>1, WidthAssumption DEF Carries, Edge
  <2>2. CASE ~ Carries(byte)
    BY <1>1, <1>3, <1>4, <2>2, WidthAssumption DEF Carries, Edge
  <2> QED BY <2>1, <2>2
<1>6. n < LongMod
  BY <1>5, WidthAssumption, CounterAssumption
<1>7. Rebuilt(byte) = n
  <2>1. Unsigned(n) = n
    BY <1>5, <1>6, ModSmall, WidthAssumption DEF Unsigned
  <2> QED BY <2>1 DEF Rebuilt
<1> QED BY <1>4, <1>5, <1>7

LEMMA RebuiltFresh ==
    ASSUME peer \in Start .. MaxCounter, NEW c \in Counters,
           peer < c, c <= peer + ByteMod - Window
    PROVE  Rebuilt(c % ByteMod) = c
<1> DEFINE byte == c % ByteMod
           q == c \div ByteMod
           u == Upper(byte)
<1>1. c \in Nat /\ peer \in 0 .. MaxCounter /\ ByteMod \in Nat \ {0}
  BY WidthAssumption, CounterAssumption DEF Counters
<1>2. byte \in 0 .. ByteMod - 1 /\ q \in Nat /\ c = (q * ByteMod) + byte
  BY <1>1, Division
<1>3. /\ Rebuilt(byte) = (u * ByteMod) + byte
      /\ u \in Nat
      /\ Rebuilt(byte) \in Nat
      /\ peer - Window < Rebuilt(byte)
      /\ Rebuilt(byte) < peer + ByteMod
  BY <1>1, <1>2, RebuiltRange
<1> HIDE DEF byte, q, u
<1>4. (u - q) * ByteMod = Rebuilt(byte) - c
  <2>1. (u - q) * ByteMod = (u * ByteMod) - (q * ByteMod)
    BY <1>1, <1>2, <1>3
  <2> DEFINE x == u * ByteMod
             y == q * ByteMod
  <2>2. x \in Nat /\ y \in Nat
    BY <1>1, <1>2, <1>3
  <2> HIDE DEF x, y
  <2>3. x - y = Rebuilt(byte) - c
    BY <1>2, <1>3, <2>2 DEF x, y
  <2> QED BY <2>1, <2>3 DEF x, y
<1>5. - ByteMod < Rebuilt(byte) - c /\ Rebuilt(byte) - c < ByteMod
  BY <1>1, <1>3, WidthAssumption
<1>6. u - q = 0
  <2>1. u - q \in Int
    BY <1>2, <1>3
  <2> QED BY <1>1, <1>4, <1>5, <2>1, SmallMultiple
<1>7. Rebuilt(byte) = c
  BY <1>2, <1>3, <1>6
<1> QED BY <1>7 DEF byte

\* The age of a counter in the range of RebuiltRange tells whether it is in the window.
LEMMA AgeInWindow ==
    ASSUME peer \in 0 .. MaxCounter, NEW r \in Nat,
           peer - Window < r, r < peer + ByteMod
    PROVE  /\ r <= peer => Age(r) = peer - r /\ Age(r) \in Bits
           /\ r > peer => Age(r) >= Window /\ Unsigned(r - peer) = r - peer
<1>1. CASE r <= peer
  <2>1. peer - r \in Int /\ 0 <= peer - r /\ peer - r < LongMod
    BY <1>1, WidthAssumption, CounterAssumption
  <2>2. Age(r) = peer - r
    BY <2>1, ModSmall, WidthAssumption DEF Age, Unsigned
  <2> QED BY <1>1, <2>2, WidthAssumption, CounterAssumption DEF Bits
<1>2. CASE r > peer
  <2>1. /\ peer - r \in Int /\ peer - r < 0 /\ 0 <= LongMod + (peer - r)
        /\ LongMod + (peer - r) >= Window
        /\ r - peer \in Int /\ 0 <= r - peer /\ r - peer < LongMod
    BY <1>2, WidthAssumption, CounterAssumption
  <2>2. Age(r) = LongMod + (peer - r)
    BY <2>1, ModBelow, WidthAssumption DEF Age, Unsigned
  <2>3. Unsigned(r - peer) = r - peer
    BY <2>1, ModSmall, WidthAssumption DEF Unsigned
  <2> QED BY <1>2, <2>1, <2>2, <2>3, CounterAssumption
<1> QED BY <1>1, <1>2, CounterAssumption

-----------------------------------------------------------------------------
(* The invariant.                                                          *)

\* Nothing above the greatest accepted counter has been delivered.
NoneAhead == \A c \in Counters : delivered[c] > 0 => c <= peer

IInv == TypeOK /\ NoneAhead /\ WindowSound /\ DeliveredOnce

\* A packet that is accepted has been rebuilt rightly and lies in the window or above it.
LEMMA AcceptedRange ==
    ASSUME IInv, NEW c \in Sent, Accepts(c)
    PROVE  /\ Rebuilt(c % ByteMod) = c
           /\ c \in Counters /\ c \in Nat
           /\ peer \in 0 .. MaxCounter
           /\ peer - Window < c /\ c < peer + ByteMod
<1>1. /\ Rebuilt(c % ByteMod) = c
      /\ c \in Counters /\ c \in Nat
      /\ peer \in 0 .. MaxCounter
  BY WidthAssumption, CounterAssumption
     DEF IInv, TypeOK, Accepts, Authentic, Sent, Counters
<1>2. c % ByteMod \in 0 .. ByteMod - 1
  <2>1. ByteMod \in Nat \ {0}
    BY WidthAssumption
  <2> QED BY <1>1, <2>1, Division
<1> QED BY <1>1, <1>2, RebuiltRange

\* A bit of the window that is clear is the bit of a packet not yet delivered.
LEMMA LateStep ==
    ASSUME IInv, NEW c \in Sent, ReceiveLate(c)
    PROVE  IInv'
<1>1. /\ Rebuilt(c % ByteMod) = c
      /\ c \in Counters /\ c \in Nat
      /\ peer \in 0 .. MaxCounter
      /\ peer - Window < c /\ c < peer + ByteMod
  BY AcceptedRange DEF ReceiveLate
<1>2. /\ Age(c) < Window
      /\ ~ history[Age(c)]
      /\ history' = [history EXCEPT ![Age(c)] = TRUE]
      /\ delivered' = [delivered EXCEPT ![c] = @ + 1]
      /\ UNCHANGED <<sent, peerKey, keyOf, peer, key, keepOld>>
  BY <1>1 DEF ReceiveLate, Accepts, Marked, Deliver
<1>3. c <= peer /\ Age(c) = peer - c /\ Age(c) \in Bits
  <2>1. ~ (c > peer)
    <3> SUFFICES ASSUME c > peer PROVE FALSE
      OBVIOUS
    <3>1. Age(c) >= Window
      BY <1>1, AgeInWindow
    <3>2. Age(c) \in Int
      BY <1>1, WidthAssumption, CounterAssumption DEF Age, Unsigned
    <3> QED BY <1>2, <3>1, <3>2, WidthAssumption
  <2>2. c <= peer
    BY <1>1, <2>1, CounterAssumption
  <2> QED BY <1>1, <2>2, AgeInWindow
<1>4. delivered[c] = 0
  <2>1. peer - (peer - c) = c
    BY <1>1
  <2>2. ~ (delivered[c] > 0)
    BY <1>1, <1>2, <1>3, <2>1 DEF IInv, WindowSound
  <2> QED BY <1>1, <2>2 DEF IInv, TypeOK
<1>5. TypeOK'
  BY <1>1, <1>2, <1>3, <1>4 DEF IInv, TypeOK
<1>6. NoneAhead'
  BY <1>1, <1>2, <1>3 DEF IInv, TypeOK, NoneAhead
<1>7. DeliveredOnce'
  BY <1>1, <1>2, <1>4 DEF IInv, TypeOK, DeliveredOnce
<1>8. WindowSound'
  <2> SUFFICES ASSUME NEW d \in Bits
               PROVE  history'[d] <=> peer - d \in Counters /\ delivered'[peer - d] > 0
    BY <1>2 DEF WindowSound
  <2>1. CASE d = Age(c)
    <3>1. peer - d = c
      BY <1>1, <1>3, <2>1
    <3>2. history'[d] = TRUE
      BY <1>2, <2>1 DEF IInv, TypeOK
    <3>3. delivered'[c] > 0
      BY <1>1, <1>2, <1>4 DEF IInv, TypeOK
    <3> QED BY <1>1, <3>1, <3>2, <3>3
  <2>2. CASE d # Age(c)
    <3>1. peer - d # c
      BY <1>1, <1>3, <2>2 DEF Bits
    <3>2. history'[d] = history[d]
      BY <1>2, <2>2 DEF IInv, TypeOK
    <3>3. peer - d \in Counters => delivered'[peer - d] = delivered[peer - d]
      BY <1>2, <3>1 DEF IInv, TypeOK
    <3> QED BY <3>2, <3>3 DEF IInv, WindowSound
  <2> QED BY <2>1, <2>2
<1> QED BY <1>5, <1>6, <1>7, <1>8 DEF IInv

\* The window moves up to the packet: the bits keep their packets, and those in between
\* have not been delivered.
LEMMA NewStep ==
    ASSUME IInv, NEW c \in Sent, ReceiveNew(c)
    PROVE  IInv'
<1>1. /\ Rebuilt(c % ByteMod) = c
      /\ c \in Counters /\ c \in Nat
      /\ peer \in 0 .. MaxCounter
      /\ peer - Window < c /\ c < peer + ByteMod
  BY AcceptedRange DEF ReceiveNew
<1>2. /\ Age(c) >= Window
      /\ history' = Shifted(Unsigned(c - peer))
      /\ peer' = c
      /\ delivered' = [delivered EXCEPT ![c] = @ + 1]
      /\ UNCHANGED <<sent, peerKey, keyOf, key, keepOld>>
  BY <1>1 DEF ReceiveNew, Deliver
<1>3. c > peer /\ Unsigned(c - peer) = c - peer
  <2>1. ~ (c <= peer)
    <3> SUFFICES ASSUME c <= peer PROVE FALSE
      OBVIOUS
    <3>1. Age(c) \in Bits
      BY <1>1, AgeInWindow
    <3> QED BY <1>2, <3>1, WidthAssumption DEF Bits
  <2>2. c > peer
    BY <1>1, <2>1, CounterAssumption
  <2> QED BY <1>1, <2>2, AgeInWindow
<1> DEFINE n == c - peer
<1>4. n \in Nat /\ n >= 1 /\ n % ByteMod = n
  <2>1. n \in Int /\ 1 <= n /\ n < ByteMod
    BY <1>1, <1>3, WidthAssumption, CounterAssumption
  <2> QED BY <2>1, ModSmall, WidthAssumption
<1>5. history' = [d \in Bits |-> IF d = 0 THEN TRUE ELSE d >= n /\ history[d - n]]
  BY <1>2, <1>3, <1>4 DEF Shifted
<1>6. delivered[c] = 0
  BY <1>1, <1>3, CounterAssumption DEF IInv, TypeOK, NoneAhead
<1>7. TypeOK'
  <2>1. history' \in [Bits -> BOOLEAN]
    <3> SUFFICES ASSUME NEW d \in Bits, d # 0, d >= n
                 PROVE  history[d - n] \in BOOLEAN
      BY <1>5
    <3>1. d - n \in Bits
      BY <1>4, WidthAssumption DEF Bits
    <3> QED BY <3>1 DEF IInv, TypeOK
  <2>2. peer' \in Start .. sent'
    BY <1>2, WidthAssumption, CounterAssumption DEF IInv, TypeOK, Sent
  <2> QED BY <1>1, <1>2, <2>1, <2>2 DEF IInv, TypeOK
<1>8. NoneAhead'
  <2> SUFFICES ASSUME NEW e \in Counters, delivered'[e] > 0, e # c
               PROVE  e <= c
    BY <1>1, <1>2 DEF NoneAhead
  <2>1. delivered'[e] = delivered[e]
    BY <1>2 DEF IInv, TypeOK
  <2>2. e <= peer
    BY <2>1 DEF IInv, NoneAhead
  <2> QED BY <1>1, <1>3, <2>2, CounterAssumption DEF Counters
<1>9. DeliveredOnce'
  BY <1>1, <1>2, <1>6 DEF IInv, TypeOK, DeliveredOnce
<1>10. WindowSound'
  <2> SUFFICES ASSUME NEW d \in Bits
               PROVE  history'[d] <=> c - d \in Counters /\ delivered'[c - d] > 0
    BY <1>2 DEF WindowSound
  <2> d \in Nat
    BY WidthAssumption DEF Bits
  <2>1. CASE d = 0
    <3>1. c - d = c
      BY <1>1, <2>1
    <3>2. delivered'[c] > 0
      BY <1>1, <1>2, <1>6 DEF IInv, TypeOK
    <3> QED BY <1>1, <1>5, <2>1, <3>1, <3>2
  <2>2. CASE d # 0 /\ d < n
    <3>1. history'[d] = FALSE
      <4>1. ~ (d >= n)
        BY <1>4, <2>2
      <4> QED BY <1>5, <2>2, <4>1
    <3>2. c - d \in Int /\ c - d # c /\ ~ (c - d <= peer)
      BY <1>1, <2>2, CounterAssumption
    <3>3. c - d \in Counters => delivered'[c - d] = delivered[c - d]
      BY <1>2, <3>2 DEF IInv, TypeOK
    <3>4. c - d \in Counters => ~ (delivered[c - d] > 0)
      BY <3>2 DEF IInv, NoneAhead
    <3> QED BY <3>1, <3>3, <3>4
  <2>3. CASE d # 0 /\ d >= n
    <3>1. d - n \in Bits /\ peer - (d - n) = c - d
      BY <1>1, <1>4, <2>3, WidthAssumption, CounterAssumption DEF Bits
    <3>2. history'[d] = history[d - n]
      BY <1>5, <2>3, <3>1 DEF IInv, TypeOK
    <3>3. c - d # c
      BY <1>1, <2>3
    <3>4. c - d \in Counters => delivered'[c - d] = delivered[c - d]
      BY <1>2, <3>3 DEF IInv, TypeOK
    <3>5. history[d - n] <=> c - d \in Counters /\ delivered[c - d] > 0
      BY <3>1 DEF IInv, WindowSound
    <3> QED BY <3>2, <3>4, <3>5
  <2>4. d < n \/ d >= n
    BY <1>4
  <2> QED BY <2>1, <2>2, <2>3, <2>4
<1> QED BY <1>7, <1>8, <1>9, <1>10 DEF IInv

\* The steps that receive nothing leave the window alone.
LEMMA OtherStep ==
    ASSUME IInv,
           \/ PeerSends \/ PeerReplacesKey
           \/ ReplaceKey \/ NET_CheckOldSessionKeysTimes
           \/ UNCHANGED vars
    PROVE  IInv'
<1>1. UNCHANGED <<peer, history, delivered>>
  BY DEF PeerSends, PeerReplacesKey, ReplaceKey, NET_CheckOldSessionKeysTimes, vars
<1>2. NoneAhead' /\ WindowSound' /\ DeliveredOnce'
  BY <1>1 DEF IInv, NoneAhead, WindowSound, DeliveredOnce
<1>3. TypeOK'
  <2>1. CASE PeerSends
    <3>1. sent + 1 \in Start .. MaxCounter /\ peer \in Start .. sent + 1
      BY <2>1, CounterAssumption DEF PeerSends, IInv, TypeOK
    <3>2. keyOf' \in [Counters -> Keys]
      BY <2>1 DEF PeerSends, IInv, TypeOK
    <3> QED BY <2>1, <3>1, <3>2 DEF PeerSends, IInv, TypeOK
  <2>2. CASE PeerReplacesKey
    BY <2>2, KeyAssumption DEF PeerReplacesKey, IInv, TypeOK, Keys
  <2>3. CASE ReplaceKey
    BY <2>3, KeyAssumption DEF ReplaceKey, IInv, TypeOK, Keys
  <2>4. CASE NET_CheckOldSessionKeysTimes
    BY <2>4, KeyAssumption DEF NET_CheckOldSessionKeysTimes, IInv, TypeOK
  <2>5. CASE UNCHANGED vars
    BY <2>5 DEF vars, IInv, TypeOK
  <2> QED BY <2>1, <2>2, <2>3, <2>4, <2>5
<1> QED BY <1>2, <1>3 DEF IInv

LEMMA InitIInv == Init => IInv
<1> SUFFICES ASSUME Init PROVE IInv
  OBVIOUS
<1>1. TypeOK
  BY WidthAssumption, CounterAssumption, KeyAssumption DEF Init, TypeOK, Keys
<1>2. \A c \in Counters : delivered[c] = 0
  BY DEF Init
<1>3. NoneAhead /\ DeliveredOnce
  BY <1>2 DEF NoneAhead, DeliveredOnce
<1>4. WindowSound
  BY <1>2 DEF Init, WindowSound
<1> QED BY <1>1, <1>3, <1>4 DEF IInv

LEMMA NextIInv == IInv /\ [Next]_vars => IInv'
BY LateStep, NewStep, OtherStep DEF Next

LEMMA InvariantHolds == Spec => []IInv
BY InitIInv, NextIInv, PTL DEF Spec

-----------------------------------------------------------------------------
(* The theorems.                                                           *)

\* NET_InterpretPacket keeps the ranges of the session's counters, and the window never
\* passes the last packet sent.
THEOREM TypeCorrect == Spec => []TypeOK
<1>1. IInv => TypeOK
  BY DEF IInv
<1> QED BY InvariantHolds, <1>1, PTL

\* NET_InterpretPacket gives no packet to the transport layer twice.
THEOREM NoReplay == Spec => []DeliveredOnce
<1>1. IInv => DeliveredOnce
  BY DEF IInv
<1> QED BY InvariantHolds, <1>1, PTL

\* Every bit of the history is the bit of its packet, so that no packet is taken for a
\* duplicate of another.
THEOREM HistoryExact == Spec => []WindowSound
<1>1. IInv => WindowSound
  BY DEF IInv
<1> QED BY InvariantHolds, <1>1, PTL

\* NET_InterpretPacket accepts every packet that is ahead of the window by less than the
\* byte can tell.
THEOREM FreshPackets == Spec => []FreshAccepted
<1>1. IInv => FreshAccepted
  <2> SUFFICES ASSUME IInv, NEW c \in Sent,
                      peer < c, c <= peer + ByteMod - Window, keyOf[c] = key
               PROVE  Accepts(c)
    BY DEF FreshAccepted
  <2>1. /\ c \in Counters /\ c \in Nat
        /\ peer \in Start .. MaxCounter /\ peer \in 0 .. MaxCounter
    BY WidthAssumption, CounterAssumption DEF IInv, TypeOK, Sent, Counters
  <2>2. Rebuilt(c % ByteMod) = c
    BY <2>1, RebuiltFresh
  <2>3. Age(c) \in Int /\ Age(c) >= Window
    <3>1. peer - Window < c /\ c < peer + ByteMod /\ c > peer
      BY <2>1, WidthAssumption
    <3>2. Age(c) \in Int
      BY <2>1, WidthAssumption, CounterAssumption DEF Age, Unsigned
    <3> QED BY <2>1, <3>1, <3>2, AgeInWindow
  <2>4. ~ Marked(c)
    BY <2>3, WidthAssumption DEF Marked
  <2> QED BY <2>2, <2>4 DEF Accepts, Authentic
<1> QED BY InvariantHolds, <1>1, PTL
=============================================================================
