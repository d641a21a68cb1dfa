---------------------------- MODULE DataLinkProofs ----------------------------
(***************************************************************************)
(* Theorems about the data link layer, for any constants.                  *)
(*                                                                         *)
(* LinkQueue: the types, the place of the packet on the air, that what has *)
(* been acknowledged is not sent again, and the buffer that is reserved    *)
(* for commands.                                                           *)
(*                                                                         *)
(* LinkTables: the types, that the hash tables always agree with the       *)
(* tables they point into, that a linked neighbour has a link, that what   *)
(* is resized is not served, and that the device can always be reached.    *)
(*                                                                         *)
(* What is rebuilt at the start of a slot is defined by recursive          *)
(* functions.  That such a function exists and what it yields is proved by *)
(* induction over the table, for each of them in the same steps.           *)
(***************************************************************************)
EXTENDS LinkQueue, LinkTables, FiniteSetTheorems, WellFoundedInduction, TLAPS

-----------------------------------------------------------------------------
(* Induction, in the form of sets of numbers.                              *)

Less == OpToRel(<, Nat)

LEMMA LeastLemma ==
    ASSUME NEW S \in SUBSET Nat, S # {}
    PROVE  \E n \in S : \A m \in S : n <= m
<1>1. IsWellFoundedOn(Less, Nat)
  BY NatLessThanWellFounded DEF Less
<1>2. \A m, n \in Nat : m < n => <<m, n>> \in Less
  BY DEF OpToRel, Less
<1> HIDE DEF Less
<1>3. PICK n \in S : \A m \in S : ~ (<<m, n>> \in Less)
  BY <1>1, WFMin, Zenon
<1>4. \A m \in S : ~(m < n)
  BY <1>2, <1>3
<1> QED BY <1>3, <1>4

LEMMA Induction ==
    ASSUME NEW S \in SUBSET Nat, 0 \in S, \A n \in S : n + 1 \in S
    PROVE  S = Nat
<1> SUFFICES ASSUME Nat \ S # {} PROVE FALSE
  OBVIOUS
<1>1. PICK n \in Nat \ S : \A m \in Nat \ S : n <= m
  BY LeastLemma
<1>2. n - 1 \in Nat
  BY <1>1
<1>3. n - 1 \in S
  BY <1>1, <1>2
<1> QED BY <1>1, <1>3

\* Induction up to a bound.
LEMMA UptoInduction ==
    ASSUME NEW n \in Nat, NEW P, 0 \in P, \A m \in 0 .. n - 1 : m \in P => m + 1 \in P
    PROVE  \A m \in 0 .. n : m \in P
<1> DEFINE S == {m \in Nat : m <= n => m \in P}
<1>1. 0 \in S
  OBVIOUS
<1>2. ASSUME NEW m \in S PROVE m + 1 \in S
  OBVIOUS
<1>3. S = Nat
  <2> HIDE DEF S
  <2> QED BY <1>1, <1>2, Induction DEF S
<1> QED BY <1>3

\* A function that is given by its first value and a step exists, when the step
\* leads from each of a sequence of sets into the next one.
StepsIn(step, good, n) == \A m \in 1 .. n : \A s \in good[m - 1] : step[<<m, s>>] \in good[m]

Follows(f, good, base, n, step) ==
    /\ f = [m \in 0 .. n |-> f[m]]
    /\ f[0] = base /\ \A m \in 1 .. n : f[m] = step[<<m, f[m - 1]>>]
    /\ \A m \in 0 .. n : f[m] \in good[m]

LEMMA Recursion ==
    ASSUME NEW n \in Nat, NEW good, NEW base \in good[0], NEW step, StepsIn(step, good, n)
    PROVE  \E f : Follows(f, good, base, n, step)
<1> DEFINE P == {k \in 0 .. n : \E f : Follows(f, good, base, k, step)}
<1>1. 0 \in P
  <2> DEFINE f == [m \in 0 .. 0 |-> base]
  <2>1. Follows(f, good, base, 0, step)
    BY DEF Follows
  <2> HIDE DEF f
  <2> QED BY <2>1
<1>2. ASSUME NEW k \in 0 .. n - 1, k \in P PROVE k + 1 \in P
  <2>1. PICK f : Follows(f, good, base, k, step)
    BY <1>2
  <2> DEFINE last == step[<<k + 1, f[k]>>]
             g == [m \in 0 .. k + 1 |-> IF m = k + 1 THEN last ELSE f[m]]
  <2>2. k \in Nat /\ k + 1 \in 1 .. n /\ (k + 1) - 1 = k
    OBVIOUS
  <2>3. last \in good[k + 1]
    <3>1. f[k] \in good[k]
      BY <2>1, <2>2 DEF Follows
    <3>2. f[k] \in good[(k + 1) - 1]
      BY <2>2, <3>1
    <3> QED BY <2>2, <3>2 DEF StepsIn
  <2>4. g = [m \in 0 .. k + 1 |-> g[m]]
    OBVIOUS
  <2>5. \A m \in 0 .. k : g[m] = f[m]
    BY <2>2
  <2>6. g[k + 1] = last
    BY <2>2
  <2> HIDE DEF g
  <2>7. g[0] = base
    BY <2>1, <2>2, <2>5 DEF Follows
  <2>8. ASSUME NEW m \in 1 .. k + 1 PROVE g[m] = step[<<m, g[m - 1]>>]
    <3>1. CASE m = k + 1
      <4>1. g[m - 1] = f[k]
        BY <2>2, <2>5, <3>1
      <4> QED BY <2>6, <3>1, <4>1
    <3>2. CASE m # k + 1
      <4>1. m \in 1 .. k /\ m - 1 \in 0 .. k /\ m \in 0 .. k
        BY <2>2, <3>2
      <4>2. g[m] = f[m] /\ g[m - 1] = f[m - 1] /\ f[m] = step[<<m, f[m - 1]>>]
        BY <2>1, <2>5, <4>1 DEF Follows
      <4> QED BY <4>2
    <3> QED BY <3>1, <3>2
  <2>9. ASSUME NEW m \in 0 .. k + 1 PROVE g[m] \in good[m]
    <3>1. m = k + 1 \/ m \in 0 .. k
      BY <2>2
    <3> HIDE DEF last
    <3> QED BY <2>1, <2>3, <2>5, <2>6, <3>1 DEF Follows
  <2>10. Follows(g, good, base, k + 1, step)
    BY <2>4, <2>7, <2>8, <2>9 DEF Follows
  <2> QED BY <2>2, <2>10
<1>3. \A k \in 0 .. n : k \in P
  <2> HIDE DEF P
  <2> QED BY <1>1, <1>2, UptoInduction
<1>4. n \in P
  BY <1>3
<1> QED BY <1>4

-----------------------------------------------------------------------------
(* LinkQueue: what DLL_Configure keeps.                                    *)

\* One turn of its loop, given what the turns before have kept.
Turn(q, f, n) ==
    IF n = 0 THEN <<>>
    ELSE IF q[n].marked THEN f[n - 1]
    ELSE Append(f[n - 1], q[n])

\* h names for each packet of r where it was among the first n of q.
Sources(q, n, r) ==
    {h \in [1 .. Len(r) -> 1 .. n] :
        /\ \A i, j \in 1 .. Len(r) : h[i] = h[j] => i = j
        /\ \A i \in 1 .. Len(r) : r[i] = q[h[i]] /\ ~q[h[i]].marked}

LEMMA TurnsExist ==
    ASSUME NEW q \in Seq(Packet)
    PROVE  \E f : f = [n \in 0 .. Len(q) |-> Turn(q, f, n)]
<1> DEFINE Upto(n) == \E f : /\ f = [m \in 0 .. n |-> f[m]]
                             /\ \A m \in 0 .. n : f[m] = Turn(q, f, m)
           S == {n \in Nat : Upto(n)}
<1>1. 0 \in S
  <2> DEFINE f == [m \in 0 .. 0 |-> <<>>]
  <2>1. f = [m \in 0 .. 0 |-> f[m]] /\ \A m \in 0 .. 0 : f[m] = Turn(q, f, m)
    BY DEF Turn
  <2> HIDE DEF f
  <2> QED BY <2>1
<1>2. ASSUME NEW n \in S PROVE n + 1 \in S
  <2>1. PICK f : /\ f = [m \in 0 .. n |-> f[m]]
                 /\ \A m \in 0 .. n : f[m] = Turn(q, f, m)
    BY <1>2
  <2> DEFINE g == [m \in 0 .. n + 1 |-> IF m = n + 1 THEN Turn(q, f, m) ELSE f[m]]
  <2>2. n \in Nat
    BY <1>2
  <2>3. \A m \in 0 .. n : g[m] = f[m]
    BY <2>2
  <2>4. ASSUME NEW m \in 0 .. n + 1 PROVE g[m] = Turn(q, f, m)
    <3>1. m = n + 1 \/ m \in 0 .. n
      BY <2>2
    <3> QED BY <2>1, <2>2, <2>3, <3>1
  <2>5. ASSUME NEW m \in 0 .. n + 1 PROVE Turn(q, f, m) = Turn(q, g, m)
    <3> HIDE DEF g
    <3>1. m # 0 => m - 1 \in 0 .. n
      BY <2>2
    <3> QED BY <2>3, <3>1 DEF Turn
  <2>6. g = [m \in 0 .. n + 1 |-> g[m]]
    OBVIOUS
  <2> HIDE DEF g
  <2>7. Upto(n + 1)
    BY <2>4, <2>5, <2>6
  <2> QED BY <2>2, <2>7
<1>3. S = Nat
  <2> HIDE DEF S
  <2> QED BY <1>1, <1>2, Induction DEF S
<1>4. Len(q) \in Nat
  OBVIOUS
<1>5. PICK f : /\ f = [m \in 0 .. Len(q) |-> f[m]]
               /\ \A m \in 0 .. Len(q) : f[m] = Turn(q, f, m)
  BY <1>3, <1>4
<1>6. f = [n \in 0 .. Len(q) |-> Turn(q, f, n)]
  BY <1>5
<1> QED BY <1>6

LEMMA KeptTurns ==
    ASSUME NEW q \in Seq(Packet)
    PROVE  \A n \in 0 .. Len(q) : Kept(q)[n] = Turn(q, Kept(q), n)
<1>1. Kept(q) = CHOOSE f : f = [n \in 0 .. Len(q) |-> Turn(q, f, n)]
  BY DEF Kept, Turn
<1>2. Kept(q) = [n \in 0 .. Len(q) |-> Turn(q, Kept(q), n)]
  <2> HIDE DEF Kept
  <2> QED BY <1>1, TurnsExist, Zenon
<1> QED BY <1>2

LEMMA Interval ==
    ASSUME NEW n \in Nat
    PROVE  IsFiniteSet(1 .. n) /\ Cardinality(1 .. n) = n
<1>1. IsFiniteSet(1 .. n) /\ Cardinality(1 .. n) = IF 1 > n THEN 0 ELSE n - 1 + 1
  BY FS_Interval
<1> QED BY <1>1

LEMMA KeptSound ==
    ASSUME NEW q \in Seq(Packet), NEW n \in 0 .. Len(q)
    PROVE  Kept(q)[n] \in Seq(Packet) /\ Sources(q, n, Kept(q)[n]) # {}
<1> DEFINE k == Kept(q)
           Sound(m) == k[m] \in Seq(Packet) /\ Sources(q, m, k[m]) # {}
           S == {m \in Nat : m <= Len(q) => Sound(m)}
<1>1. \A m \in 0 .. Len(q) : k[m] = Turn(q, k, m)
  BY KeptTurns
<1>2. Len(q) \in Nat
  OBVIOUS
<1> HIDE DEF k
<1>3. 0 \in S
  <2>1. k[0] = <<>>
    BY <1>1, <1>2 DEF Turn
  <2>2. [i \in {} |-> 1] \in Sources(q, 0, <<>>)
    BY DEF Sources
  <2>3. Sound(0)
    <3>1. <<>> \in Seq(Packet)
      OBVIOUS
    <3> QED BY <2>1, <2>2, <3>1
  <2> HIDE DEF Sound
  <2> QED BY <2>3
<1>4. ASSUME NEW m \in S PROVE m + 1 \in S
  <2> SUFFICES ASSUME m + 1 <= Len(q) PROVE Sound(m + 1)
    OBVIOUS
  <2>1. m \in Nat /\ m <= Len(q) /\ k[m] \in Seq(Packet)
    BY <1>2, <1>4
  <2>2. PICK h \in Sources(q, m, k[m]) : TRUE
    BY <1>4, <2>1
  <2>3. /\ h \in [1 .. Len(k[m]) -> 1 .. m]
        /\ \A i, j \in 1 .. Len(k[m]) : h[i] = h[j] => i = j
        /\ \A i \in 1 .. Len(k[m]) : k[m][i] = q[h[i]] /\ ~q[h[i]].marked
    BY <2>2 DEF Sources
  <2>4. k[m + 1] = IF q[m + 1].marked THEN k[m] ELSE Append(k[m], q[m + 1])
    <3>1. m + 1 \in 0 .. Len(q) /\ m + 1 # 0 /\ (m + 1) - 1 = m
      BY <1>2, <2>1
    <3>2. k[m + 1] = Turn(q, k, m + 1)
      BY <1>1, <3>1
    <3> QED BY <3>1, <3>2 DEF Turn
  <2>5. CASE q[m + 1].marked
    <3>1. h \in [1 .. Len(k[m]) -> 1 .. m + 1]
      BY <2>1, <2>3
    <3>2. h \in Sources(q, m + 1, k[m])
      BY <2>3, <3>1 DEF Sources
    <3> QED BY <2>1, <2>4, <2>5, <3>2
  <2>6. CASE ~q[m + 1].marked
    <3> DEFINE r == Append(k[m], q[m + 1])
               l == Len(k[m])
               g == [i \in 1 .. l + 1 |-> IF i = l + 1 THEN m + 1 ELSE h[i]]
    <3>1. q[m + 1] \in Packet
      BY <1>2, <2>1
    <3>2. /\ r \in Seq(Packet) /\ Len(r) = l + 1 /\ l \in Nat
          /\ r[l + 1] = q[m + 1]
          /\ \A i \in 1 .. l : r[i] = k[m][i]
      BY <2>1, <3>1
    <3>3. /\ h \in [1 .. l -> 1 .. m]
          /\ \A i, j \in 1 .. l : h[i] = h[j] => i = j
          /\ \A i \in 1 .. l : k[m][i] = q[h[i]] /\ ~q[h[i]].marked
      BY <2>3
    <3> HIDE DEF r, l
    <3>4. /\ g \in [1 .. Len(r) -> 1 .. m + 1] /\ g[l + 1] = m + 1
          /\ \A i \in 1 .. l : g[i] = h[i] /\ g[i] \in 1 .. m
      BY <2>1, <3>2, <3>3
    <3> HIDE DEF g
    <3>5. \A i \in 1 .. Len(r) : i = l + 1 \/ i \in 1 .. l
      BY <3>2
    <3>6. ASSUME NEW i \in 1 .. Len(r), NEW j \in 1 .. Len(r), g[i] = g[j]
          PROVE  i = j
      <4>1. CASE i \in 1 .. l /\ j \in 1 .. l
        BY <3>3, <3>4, <3>6, <4>1
      <4>2. CASE i = l + 1 /\ j \in 1 .. l
        BY <2>1, <3>4, <3>6, <4>2
      <4>3. CASE i \in 1 .. l /\ j = l + 1
        BY <2>1, <3>4, <3>6, <4>3
      <4> QED BY <3>5, <4>1, <4>2, <4>3
    <3>7. \A i \in 1 .. Len(r) : r[i] = q[g[i]] /\ ~q[g[i]].marked
      BY <2>6, <3>2, <3>3, <3>4, <3>5
    <3>8. g \in Sources(q, m + 1, r)
      BY <3>4, <3>6, <3>7 DEF Sources
    <3>9. k[m + 1] = r
      BY <2>4, <2>6 DEF r
    <3> QED BY <3>2, <3>8, <3>9
  <2> QED BY <2>5, <2>6
<1>5. S = Nat
  <2> HIDE DEF S
  <2> QED BY <1>3, <1>4, Induction DEF S
<1> QED BY <1>2, <1>5 DEF k

\* The packets that are left are some of those there were, each once, unmarked.
LEMMA NotMarkedLemma ==
    ASSUME NEW q \in Seq(Packet)
    PROVE  /\ NotMarked(q) \in Seq(Packet)
           /\ Sources(q, Len(q), NotMarked(q)) # {}
           /\ Len(NotMarked(q)) <= Len(q)
<1>1. Len(q) \in 0 .. Len(q) /\ Len(q) \in Nat
  OBVIOUS
<1>2. NotMarked(q) \in Seq(Packet) /\ Sources(q, Len(q), NotMarked(q)) # {}
  BY <1>1, KeptSound DEF NotMarked
<1>3. Len(NotMarked(q)) <= Len(q)
  <2> DEFINE m == Len(NotMarked(q))
  <2>1. m \in Nat
    BY <1>2
  <2>2. PICK h \in [1 .. m -> 1 .. Len(q)] :
            \A i, j \in 1 .. m : h[i] = h[j] => i = j
    BY <1>2 DEF Sources
  <2> HIDE DEF m
  <2>3. h \in Injection(1 .. m, 1 .. Len(q))
    BY <2>2 DEF Injection, IsInjective
  <2>4. IsFiniteSet(1 .. Len(q)) /\ Cardinality(1 .. Len(q)) = Len(q)
        /\ IsFiniteSet(1 .. m) /\ Cardinality(1 .. m) = m
    BY <1>1, <2>1, Interval
  <2>5. m <= Len(q)
    BY <2>3, <2>4, FS_Injection DEF ExistsInjection
  <2> QED BY <2>5 DEF m
<1> QED BY <1>2, <1>3

-----------------------------------------------------------------------------
(* The invariant.                                                          *)

\* No packet is in the queue twice, and one buffer is left for a command.
QueueSound(q) ==
    /\ q \in Seq(Packet) /\ Len(q) <= MaxBuffers
    /\ \A i, j \in DOMAIN q : q[i].id = q[j].id => i = j
    /\ Cardinality({i \in DOMAIN q : q[i].prio < COMMAND}) < MaxBuffers

\* A packet that is marked goes when the next slot starts, and the packets that were
\* acknowledged are marked.
DeletionsSound ==
    /\ \A i \in DOMAIN queue : queue[i].marked => modified
    /\ acked \subseteq Queued
    /\ \A i \in DOMAIN queue : queue[i].id \in acked => queue[i].marked

\* The packet on the air is at its place; or the queue was emptied, and has not had
\* that packet since.
FlightSound ==
    xvr \in {"tx", "rx_ack"} =>
        \/ slot.q \in DOMAIN queue /\ queue[slot.q].id = buffer
        \/ buffer \notin Queued /\ disc \in {"packets", "reset"}

IInv ==
    /\ TypeOK
    /\ QueueSound(queue) /\ crt <= Len(queue)
    /\ DeletionsSound /\ FlightSound /\ NotResent

-----------------------------------------------------------------------------
(* Queues that are rewritten in place, or compacted.                       *)

\* The handlers change a packet's age, retries and mark, never which one it is.
Rewritten(q, r) ==
    /\ r \in [DOMAIN q -> Packet]
    /\ \A i \in DOMAIN q : r[i].id = q[i].id /\ r[i].prio = q[i].prio

LEMMA SameLength ==
    ASSUME NEW q \in Seq(Packet), NEW r \in [DOMAIN q -> Packet]
    PROVE  r \in Seq(Packet) /\ Len(r) = Len(q) /\ DOMAIN r = DOMAIN q
<1>1. DOMAIN q = 1 .. Len(q) /\ Len(q) \in Nat
  OBVIOUS
<1>2. r \in [1 .. Len(q) -> Packet]
  BY <1>1
<1> QED BY <1>1, <1>2

LEMMA BelowFinite ==
    ASSUME NEW n \in Nat, NEW S \in SUBSET (1 .. n)
    PROVE  IsFiniteSet(S) /\ Cardinality(S) \in Nat /\ Cardinality(S) <= n
<1>1. IsFiniteSet(1 .. n) /\ Cardinality(1 .. n) = n
  BY Interval
<1>2. IsFiniteSet(S) /\ Cardinality(S) <= Cardinality(1 .. n)
  BY <1>1, FS_Subset
<1>3. Cardinality(S) \in Nat
  BY <1>2, FS_CardinalityType
<1> QED BY <1>1, <1>2, <1>3

LEMMA RewrittenSound ==
    ASSUME NEW q, QueueSound(q), NEW r, Rewritten(q, r)
    PROVE  QueueSound(r) /\ Len(r) = Len(q) /\ DOMAIN r = DOMAIN q
<1>1. /\ r \in Seq(Packet) /\ Len(r) = Len(q) /\ DOMAIN r = DOMAIN q
  BY SameLength DEF QueueSound, Rewritten
<1>2. {i \in DOMAIN r : r[i].prio < COMMAND} = {i \in DOMAIN q : q[i].prio < COMMAND}
  BY <1>1 DEF Rewritten
<1>3. \A i, j \in DOMAIN r : r[i].id = r[j].id => i = j
  BY <1>1 DEF Rewritten, QueueSound
<1> QED BY <1>1, <1>2, <1>3 DEF QueueSound

LEMMA NotMarkedSound ==
    ASSUME NEW q, QueueSound(q)
    PROVE  /\ QueueSound(NotMarked(q))
           /\ \A i \in DOMAIN NotMarked(q) :
                \E j \in DOMAIN q : NotMarked(q)[i] = q[j] /\ ~q[j].marked
<1> DEFINE r == NotMarked(q)
           low == {i \in DOMAIN q : q[i].prio < COMMAND}
           lowR == {i \in DOMAIN r : r[i].prio < COMMAND}
<1>1. q \in Seq(Packet) /\ DOMAIN q = 1 .. Len(q) /\ Len(q) \in Nat
      /\ Len(q) <= MaxBuffers
  BY DEF QueueSound
<1>2. r \in Seq(Packet) /\ Len(r) <= Len(q) /\ Sources(q, Len(q), r) # {}
  BY <1>1, NotMarkedLemma
<1> HIDE DEF r
<1>3. DOMAIN r = 1 .. Len(r) /\ Len(r) \in Nat
  BY <1>2
<1>4. PICK h \in [DOMAIN r -> DOMAIN q] :
        /\ \A i, j \in DOMAIN r : h[i] = h[j] => i = j
        /\ \A i \in DOMAIN r : r[i] = q[h[i]] /\ ~q[h[i]].marked
  BY <1>1, <1>2, <1>3 DEF Sources
<1>5. \A i, j \in DOMAIN r : r[i].id = r[j].id => i = j
  BY <1>4 DEF QueueSound
<1>6. Cardinality(lowR) <= Cardinality(low)
  <2> DEFINE g == [i \in lowR |-> h[i]]
  <2>1. g \in [lowR -> low] /\ \A i, j \in lowR : g[i] = g[j] => i = j
    BY <1>4
  <2>2. g \in Injection(lowR, low)
    <3> HIDE DEF g, low, lowR
    <3> QED BY <2>1 DEF Injection, IsInjective
  <2>3. low \subseteq 1 .. Len(q) /\ lowR \subseteq 1 .. Len(r)
    BY <1>1, <1>3
  <2> HIDE DEF g, low, lowR
  <2>4. IsFiniteSet(low) /\ IsFiniteSet(lowR)
    BY <1>1, <1>3, <2>3, BelowFinite
  <2> QED BY <2>2, <2>4, FS_Injection DEF ExistsInjection
<1>7. Cardinality(lowR) < MaxBuffers
  <2>1. Cardinality(low) < MaxBuffers
    BY DEF QueueSound
  <2>2. low \subseteq 1 .. Len(q) /\ lowR \subseteq 1 .. Len(r)
    BY <1>1, <1>3
  <2> HIDE DEF low, lowR
  <2>3. Cardinality(low) \in Nat /\ Cardinality(lowR) \in Nat
    BY <1>1, <1>3, <2>2, BelowFinite
  <2> QED BY <1>6, <2>1, <2>3, LimitAssumption
<1>8. QueueSound(r)
  <2>1. Len(r) <= MaxBuffers
    BY <1>1, <1>2, <1>3, LimitAssumption
  <2> QED BY <1>2, <1>5, <1>7, <2>1 DEF QueueSound
<1> QED BY <1>4, <1>8 DEF r

\* One packet more: how many there may be before depends on its priority.
LEMMA AppendSound ==
    ASSUME NEW q, QueueSound(q), NEW e \in Packet,
           \A i \in DOMAIN q : q[i].id # e.id,
           Len(q) < MaxBuffers,
           e.prio < COMMAND => Len(q) < MaxBuffers - 1
    PROVE  /\ QueueSound(Append(q, e))
           /\ Len(Append(q, e)) = Len(q) + 1
           /\ Append(q, e)[Len(q) + 1] = e
           /\ \A i \in DOMAIN q : Append(q, e)[i] = q[i]
<1> DEFINE r == Append(q, e)
           l == Len(q)
           low == {i \in DOMAIN q : q[i].prio < COMMAND}
           lowR == {i \in DOMAIN r : r[i].prio < COMMAND}
<1>1. /\ q \in Seq(Packet) /\ DOMAIN q = 1 .. l /\ l \in Nat
      /\ \A i, j \in DOMAIN q : q[i].id = q[j].id => i = j
  BY DEF QueueSound
<1>2. /\ r \in Seq(Packet) /\ Len(r) = l + 1 /\ r[l + 1] = e
      /\ DOMAIN r = 1 .. l + 1
      /\ \A i \in 1 .. l : r[i] = q[i]
  BY <1>1
<1>3. l < MaxBuffers /\ l + 1 <= MaxBuffers
  BY <1>1, LimitAssumption
<1> HIDE DEF r
<1>4. \A i \in DOMAIN r : i = l + 1 \/ i \in 1 .. l
  BY <1>1, <1>2
<1>5. \A i, j \in DOMAIN r : r[i].id = r[j].id => i = j
  <2> HIDE DEF l
  <2> QED BY <1>1, <1>2, <1>4
<1>6. Cardinality(lowR) < MaxBuffers
  <2>1. CASE e.prio < COMMAND
    <3>1. l + 1 < MaxBuffers
      BY <1>1, <2>1, LimitAssumption
    <3>2. lowR \subseteq 1 .. l + 1
      BY <1>2
    <3> HIDE DEF lowR, l
    <3>3. Cardinality(lowR) \in Nat /\ Cardinality(lowR) <= l + 1
      <4>1. l + 1 \in Nat
        BY <1>1
      <4> QED BY <3>2, <4>1, BelowFinite
    <3> QED BY <1>1, <3>1, <3>3, LimitAssumption
  <2>2. CASE ~(e.prio < COMMAND)
    <3>1. lowR = low
      <4> HIDE DEF l
      <4> QED BY <1>1, <1>2, <1>4, <2>2
    <3>2. Cardinality(low) < MaxBuffers
      BY DEF QueueSound
    <3> HIDE DEF low, lowR
    <3> QED BY <3>1, <3>2
  <2> QED BY <2>1, <2>2
<1>7. QueueSound(r)
  BY <1>2, <1>3, <1>5, <1>6 DEF QueueSound
<1> QED BY <1>1, <1>2, <1>7 DEF r

-----------------------------------------------------------------------------
(* The start of a slot.                                                    *)

LEMMA InvFacts ==
    ASSUME IInv
    PROVE  /\ queue \in Seq(Packet) /\ Len(queue) \in Nat
           /\ DOMAIN queue = 1 .. Len(queue)
           /\ \A i \in DOMAIN queue : queue[i] \in Packet
           /\ Len(queue) <= MaxBuffers
           /\ acked \subseteq {queue[i].id : i \in DOMAIN queue}
<1>1. queue \in Seq(Packet) /\ Len(queue) <= MaxBuffers
  BY DEF IInv, QueueSound
<1>2. acked \subseteq {queue[i].id : i \in DOMAIN queue}
  BY DEF IInv, DeletionsSound, Queued
<1> QED BY <1>1, <1>2

LEMMA AgedLemma ==
    ASSUME NEW q \in Seq(Packet)
    PROVE  /\ Rewritten(q, Aged(q))
           /\ \A i \in DOMAIN q : /\ Aged(q)[i].marked = q[i].marked
                                  /\ Aged(q)[i].dest = q[i].dest
<1> SUFFICES ASSUME NEW i \in DOMAIN q
             PROVE  /\ Aged(q)[i] \in Packet
                    /\ Aged(q)[i].id = q[i].id /\ Aged(q)[i].prio = q[i].prio
                    /\ Aged(q)[i].marked = q[i].marked /\ Aged(q)[i].dest = q[i].dest
  BY DEF Aged, Rewritten
<1>1. q[i] \in Packet
  OBVIOUS
<1>2. (IF q[i].age = 0 THEN 0 ELSE q[i].age - 1) \in 0 .. MaxAge
  BY <1>1, LimitAssumption DEF Packet
<1>3. Aged(q)[i] = [q[i] EXCEPT !.age = IF q[i].age = 0 THEN 0 ELSE q[i].age - 1]
  BY DEF Aged
<1> QED BY <1>1, <1>2, <1>3 DEF Packet

LEMMA DisconnectedLemma ==
    ASSUME NEW q \in Seq(Packet)
    PROVE  /\ Rewritten(q, Disconnected(q))
           /\ \A i \in DOMAIN q :
                /\ q[i].marked => Disconnected(q)[i].marked
                /\ Disconnected(q)[i].marked =>
                       q[i].marked \/ (left /\ q[i].dest \in leaving)
<1> SUFFICES ASSUME NEW i \in DOMAIN q
             PROVE  /\ Disconnected(q)[i] \in Packet
                    /\ Disconnected(q)[i].id = q[i].id
                    /\ Disconnected(q)[i].prio = q[i].prio
                    /\ q[i].marked => Disconnected(q)[i].marked
                    /\ Disconnected(q)[i].marked =>
                           q[i].marked \/ (left /\ q[i].dest \in leaving)
  BY DEF Disconnected, Rewritten
<1>1. q[i] \in Packet
  OBVIOUS
<1>2. Disconnected(q)[i] = IF left /\ q[i].dest \in leaving
                           THEN [q[i] EXCEPT !.marked = TRUE] ELSE q[i]
  BY DEF Disconnected
<1> QED BY <1>1, <1>2 DEF Packet

\* After DLL_Configure nothing in the queue is marked or acknowledged.
LEMMA ConfiguredLemma ==
    ASSUME IInv, NEW q, q = Configured(Disconnected(Aged(queue)))
    PROVE  /\ QueueSound(q) /\ Committed(q) \in Nat /\ Committed(q) <= Len(q)
           /\ \A i \in DOMAIN q : ~q[i].marked /\ q[i].id \notin acked
<1> DEFINE aged == Aged(queue)
           old == Disconnected(aged)
<1>1. queue \in Seq(Packet) /\ QueueSound(queue)
  BY InvFacts DEF IInv
<1>2. /\ Rewritten(queue, aged)
      /\ \A i \in DOMAIN queue : /\ aged[i].marked = queue[i].marked
                                 /\ aged[i].dest = queue[i].dest
  BY <1>1, AgedLemma
<1> HIDE DEF aged
<1>3. QueueSound(aged) /\ Len(aged) = Len(queue) /\ DOMAIN aged = DOMAIN queue
  BY <1>1, <1>2, RewrittenSound
<1>4. /\ Rewritten(aged, old)
      /\ \A i \in DOMAIN aged :
            /\ aged[i].marked => old[i].marked
            /\ old[i].marked => aged[i].marked \/ (left /\ aged[i].dest \in leaving)
  BY <1>3, DisconnectedLemma DEF QueueSound
<1>5. q = Configured(old)
  BY DEF aged
<1> HIDE DEF old
<1>6. QueueSound(old) /\ Len(old) = Len(queue) /\ DOMAIN old = DOMAIN queue
  BY <1>3, <1>4, RewrittenSound
<1>7. /\ \A i \in DOMAIN queue : old[i].id = queue[i].id
      /\ \A i \in DOMAIN queue : queue[i].marked => old[i].marked
      /\ \A i \in DOMAIN queue :
            old[i].marked => queue[i].marked \/ (left /\ queue[i].dest \in leaving)
  BY <1>2, <1>3, <1>4 DEF Rewritten
<1>8. \A i \in DOMAIN queue : queue[i].id \in acked => queue[i].marked
  BY DEF IInv, DeletionsSound
<1>9. CASE modified \/ SomeLeaving
  <2>1. q = NotMarked(old) /\ Committed(q) = Len(q)
    BY <1>5, <1>9 DEF Configured, Committed
  <2>2. /\ QueueSound(q)
        /\ \A i \in DOMAIN q : \E j \in DOMAIN old : q[i] = old[j] /\ ~old[j].marked
    BY <1>6, <2>1, NotMarkedSound
  <2>3. \A i \in DOMAIN q : ~q[i].marked /\ q[i].id \notin acked
    BY <1>6, <1>7, <1>8, <2>2
  <2>4. Len(q) \in Nat
    BY <2>2 DEF QueueSound
  <2> QED BY <2>1, <2>2, <2>3, <2>4
<1>10. CASE ~(modified \/ SomeLeaving)
  <2>1. q = old /\ Committed(q) = crt
    BY <1>5, <1>10 DEF Configured, Committed
  <2>2. \A i \in DOMAIN queue : ~queue[i].marked
    BY <1>10 DEF IInv, DeletionsSound
  <2>3. \A i \in DOMAIN q : ~q[i].marked
    BY <1>6, <1>7, <1>10, <2>1, <2>2 DEF SomeLeaving
  <2>4. \A i \in DOMAIN q : q[i].id \notin acked
    BY <1>6, <1>7, <1>8, <2>1, <2>2
  <2>5. crt \in Nat /\ crt <= Len(q)
    BY <1>6, <2>1, LimitAssumption DEF IInv, TypeOK
  <2> QED BY <1>6, <2>1, <2>3, <2>4, <2>5
<1> QED BY <1>9, <1>10

LEMMA TimeoutsLemma ==
    ASSUME TypeOK, NEW q, QueueSound(q), \A i \in DOMAIN q : ~q[i].marked,
           NEW size \in Nat, size <= Len(q), Timeouts(q, size)
    PROVE  /\ Rewritten(q, queue')
           /\ \A i \in DOMAIN q : queue'[i].marked => modified'
           /\ modified' \in BOOLEAN /\ alarms' \in 0 .. AlarmBound
<1> DEFINE gone == {i \in 1 .. size : Expired(q[i])}
           k == Cardinality({i \in gone : q[i].prio = ALARM})
<1>1. /\ queue' = [i \in DOMAIN q |->
                      IF i \in gone THEN [q[i] EXCEPT !.marked = TRUE] ELSE q[i]]
      /\ alarms' = IF alarms > k THEN alarms - k ELSE 0
      /\ modified' = (gone # {})
  BY DEF Timeouts
<1>2. k \in Nat
  <2>1. {i \in gone : q[i].prio = ALARM} \subseteq 1 .. size
    OBVIOUS
  <2> QED BY <2>1, BelowFinite
<1> HIDE DEF k, gone
<1>3. alarms' \in 0 .. AlarmBound
  BY <1>1, <1>2, LimitAssumption DEF TypeOK
<1>4. q \in Seq(Packet)
  BY DEF QueueSound
<1>5. ASSUME NEW i \in DOMAIN q
      PROVE  /\ queue'[i] \in Packet
             /\ queue'[i].id = q[i].id /\ queue'[i].prio = q[i].prio
             /\ queue'[i].marked => i \in gone
  <2>1. q[i] \in Packet
    BY <1>4
  <2>2. queue'[i] = IF i \in gone THEN [q[i] EXCEPT !.marked = TRUE] ELSE q[i]
    BY <1>1
  <2> QED BY <2>1, <2>2 DEF Packet
<1>6. queue' \in [DOMAIN q -> Packet]
  BY <1>1, <1>5
<1>7. Rewritten(q, queue')
  BY <1>5, <1>6 DEF Rewritten
<1> QED BY <1>1, <1>3, <1>5, <1>7

LEMMA NeighborsLeaveType ==
    ASSUME TypeOK, NeighborsLeave
    PROVE  left' \in BOOLEAN /\ leaving' \subseteq Neighbors
BY DEF TypeOK, NeighborsLeave

\* What the two kinds of slots have in common: nothing acknowledged is left.
LEMMA NothingAcked ==
    ASSUME NEW q, \A i \in DOMAIN q : q[i].id \notin acked,
           acked' = acked \intersect {q[i].id : i \in DOMAIN q}
    PROVE  acked' = {}
OBVIOUS

LEMMA AsleepKeeps ==
    ASSUME IInv, AsleepSlot
    PROVE  IInv'
<1>1. /\ queue' = Configured(Disconnected(Aged(queue)))
      /\ crt' = Committed(queue')
      /\ modified' = FALSE /\ xvr' = "idle" /\ buffer' = None
      /\ NeighborsLeave
      /\ acked' = acked \intersect {queue'[i].id : i \in DOMAIN queue'}
      /\ UNCHANGED <<slot, alarms, disc>>
  BY DEF AsleepSlot
<1>2. /\ QueueSound(queue') /\ crt' \in Nat /\ crt' <= Len(queue')
      /\ \A i \in DOMAIN queue' : ~queue'[i].marked /\ queue'[i].id \notin acked
  BY <1>1, ConfiguredLemma
<1>3. acked' = {}
  BY <1>1, <1>2, NothingAcked
<1>4. queue' \in Seq(Packet) /\ Len(queue') <= MaxBuffers /\ Len(queue') \in Nat
  BY <1>2 DEF QueueSound
<1>5. crt' \in 0 .. MaxBuffers
  BY <1>2, <1>4, LimitAssumption
<1>6. TypeOK
  BY DEF IInv
<1>7. TypeOK'
  BY <1>1, <1>3, <1>4, <1>5, <1>6, NeighborsLeaveType DEF TypeOK
<1>8. DeletionsSound'
  BY <1>2, <1>3 DEF DeletionsSound, Queued
<1>9. FlightSound' /\ NotResent'
  BY <1>1 DEF FlightSound, NotResent
<1>10. QueueSound(queue)'
  BY <1>2 DEF QueueSound
<1> QED BY <1>2, <1>7, <1>8, <1>9, <1>10 DEF IInv

LEMMA SlotKeeps ==
    ASSUME IInv, NEW link \in TxLinks, NEW inTime \in BOOLEAN, Slot(link, inTime)
    PROVE  IInv'
<1>1. PICK q : /\ q = Configured(Disconnected(Aged(queue)))
               /\ crt' = Committed(q)
               /\ Scheduled(q, crt', link, inTime)
               /\ NeighborsLeave
               /\ acked' = acked \intersect {q[i].id : i \in DOMAIN q}
               /\ UNCHANGED disc
  BY DEF Slot
<1>2. /\ QueueSound(q) /\ crt' \in Nat /\ crt' <= Len(q)
      /\ \A i \in DOMAIN q : ~q[i].marked /\ q[i].id \notin acked
  BY <1>1, ConfiguredLemma
<1>3. acked' = {}
  BY <1>1, <1>2, NothingAcked
<1>4. q \in Seq(Packet) /\ Len(q) <= MaxBuffers /\ Len(q) \in Nat
      /\ DOMAIN q = 1 .. Len(q)
  BY <1>2 DEF QueueSound
<1>5. TypeOK
  BY DEF IInv
<1>6. /\ Rewritten(q, queue')
      /\ \A i \in DOMAIN q : queue'[i].marked => modified'
      /\ modified' \in BOOLEAN /\ alarms' \in 0 .. AlarmBound
      /\ slot' \in [q : 0 .. MaxBuffers, ack : BOOLEAN]
      /\ buffer' \in Packets \union {None}
      /\ xvr' \in {"idle", "rx", "tx"}
      /\ xvr' = "tx" => slot'.q \in DOMAIN q /\ q[slot'.q].id = buffer'
  <2>1. CASE Best(q, crt', link) = {}
    <3>1. /\ slot' = [q |-> 0, ack |-> FALSE] /\ buffer' = None
          /\ xvr' \in {"idle", "rx"} /\ Timeouts(q, crt')
      BY <1>1, <2>1 DEF Scheduled
    <3> QED BY <1>2, <1>5, <3>1, TimeoutsLemma, LimitAssumption
  <2>2. CASE Best(q, crt', link) # {}
    <3>1. PICK i \in Best(q, crt', link) :
            /\ slot' = [q |-> i, ack |-> q[i].dest # "superframe"]
            /\ buffer' = q[i].id
            /\ xvr' = IF inTime THEN "tx" ELSE "idle"
            /\ Timeouts(IF inTime THEN [q EXCEPT ![i].retries = @ - 1] ELSE q, crt')
      BY <1>1, <2>2 DEF Scheduled
    <3>2. i \in 1 .. crt' /\ q[i].retries > 0
      BY <3>1 DEF Best
    <3>3. i \in DOMAIN q /\ i \in 0 .. MaxBuffers /\ q[i] \in Packet
      BY <1>2, <1>4, <3>2, LimitAssumption
    <3> DEFINE sent == [q EXCEPT ![i].retries = @ - 1]
    <3>4. [q[i] EXCEPT !.retries = @ - 1] \in Packet
      BY <3>2, <3>3, LimitAssumption DEF Packet
    <3>5. /\ Rewritten(q, sent)
          /\ \A j \in DOMAIN q : ~sent[j].marked
      <4>1. ASSUME NEW j \in DOMAIN q
            PROVE  /\ sent[j] \in Packet /\ sent[j].id = q[j].id
                   /\ sent[j].prio = q[j].prio /\ ~sent[j].marked
        <5>1. q[j] \in Packet /\ ~q[j].marked
          BY <1>2, <1>4
        <5>2. sent[j] = IF j = i THEN [q[i] EXCEPT !.retries = @ - 1] ELSE q[j]
          BY <1>4, <3>3
        <5> QED BY <3>3, <3>4, <5>1, <5>2 DEF Packet
      <4>2. sent \in [DOMAIN q -> Packet]
        BY <1>4, <4>1
      <4> QED BY <4>1, <4>2 DEF Rewritten
    <3> HIDE DEF sent
    <3>6. QueueSound(sent) /\ Len(sent) = Len(q) /\ DOMAIN sent = DOMAIN q
      BY <1>2, <3>5, RewrittenSound
    <3>7. /\ Rewritten(q, queue')
          /\ \A j \in DOMAIN q : queue'[j].marked => modified'
          /\ modified' \in BOOLEAN /\ alarms' \in 0 .. AlarmBound
      <4>1. CASE inTime
        <5>1. Timeouts(sent, crt')
          BY <3>1, <4>1 DEF sent
        <5>2. /\ Rewritten(sent, queue')
              /\ \A j \in DOMAIN q : queue'[j].marked => modified'
              /\ modified' \in BOOLEAN /\ alarms' \in 0 .. AlarmBound
          BY <1>2, <1>5, <3>5, <3>6, <5>1, TimeoutsLemma
        <5> QED BY <3>5, <3>6, <5>2 DEF Rewritten
      <4>2. CASE ~inTime
        BY <1>2, <1>5, <3>1, <4>2, TimeoutsLemma
      <4> QED BY <4>1, <4>2
    <3>8. slot'.q = i /\ slot' \in [q : 0 .. MaxBuffers, ack : BOOLEAN]
      BY <3>1, <3>3
    <3>9. buffer' \in Packets /\ q[slot'.q].id = buffer'
      BY <3>1, <3>3, <3>8 DEF Packet
    <3> QED BY <3>1, <3>3, <3>7, <3>8, <3>9
  <2> QED BY <2>1, <2>2
<1>7. QueueSound(queue') /\ Len(queue') = Len(q) /\ DOMAIN queue' = DOMAIN q
  BY <1>2, <1>6, RewrittenSound
<1>8. queue' \in Seq(Packet) /\ Len(queue') <= MaxBuffers /\ crt' \in 0 .. MaxBuffers
  BY <1>2, <1>4, <1>7, LimitAssumption DEF QueueSound
<1>9. TypeOK'
  <2>1. left' \in BOOLEAN /\ leaving' \subseteq Neighbors
    BY <1>1, <1>5, NeighborsLeaveType
  <2>2. disc' \in {"inactive", "queue", "packets", "reset"}
    BY <1>1, <1>5 DEF TypeOK
  <2> QED BY <1>3, <1>6, <1>8, <2>1, <2>2 DEF TypeOK
<1>10. DeletionsSound'
  BY <1>3, <1>6, <1>7 DEF DeletionsSound, Queued
<1>11. FlightSound' /\ NotResent'
  BY <1>3, <1>6, <1>7 DEF FlightSound, NotResent, Rewritten
<1>12. QueueSound(queue)' /\ (crt <= Len(queue))'
  BY <1>2, <1>7 DEF QueueSound
<1> QED BY <1>9, <1>10, <1>11, <1>12 DEF IInv

-----------------------------------------------------------------------------
(* Adding a packet.                                                        *)

LEMMA AddKeeps ==
    ASSUME IInv, NEW p \in Packets, NEW prio \in Priorities,
           NEW dest \in Destinations, NEW age \in 0 .. MaxAge,
           Add(p, prio, dest, age),
           prio < COMMAND => Len(queue) < MaxBuffers - 1,
           xvr' = xvr \/ xvr' = "idle"
    PROVE  IInv'
<1> DEFINE e == [id |-> p, prio |-> prio, dest |-> dest,
                 retries |-> Retries(dest), age |-> age, marked |-> FALSE]
<1>1. /\ p \notin Queued /\ p # buffer
      /\ prio = ALARM => alarms < AlarmBound
      /\ Len(queue) < MaxBuffers
      /\ queue' = Append(queue, e)
      /\ alarms' = IF prio = ALARM THEN alarms + 1 ELSE alarms
      /\ modified' = TRUE
      /\ UNCHANGED <<crt, slot, buffer, leaving, left, disc, acked>>
  BY DEF Add
<1>2. Retries(dest) \in 0 .. MaxRetries
  BY LimitAssumption DEF Retries
<1>3. e \in Packet /\ e.id = p /\ e.prio = prio /\ e.marked = FALSE
  BY <1>2 DEF Packet
<1> HIDE DEF e
<1>4. \A i \in DOMAIN queue : queue[i].id # p
  BY <1>1 DEF Queued
<1>5. TypeOK /\ QueueSound(queue)
  BY DEF IInv
<1>6. /\ QueueSound(queue') /\ Len(queue') = Len(queue) + 1
      /\ queue'[Len(queue) + 1] = e
      /\ \A i \in DOMAIN queue : queue'[i] = queue[i]
  BY <1>1, <1>3, <1>4, <1>5, AppendSound
<1>7. /\ queue' \in Seq(Packet) /\ Len(queue') <= MaxBuffers
      /\ DOMAIN queue' = 1 .. Len(queue) + 1 /\ DOMAIN queue = 1 .. Len(queue)
      /\ Len(queue) \in Nat
  BY <1>5, <1>6 DEF QueueSound
<1>8. \A i \in DOMAIN queue' : i = Len(queue) + 1 \/ i \in DOMAIN queue
  BY <1>7
<1>9. Queued' = Queued \union {p}
  <2>1. Queued' = {queue'[i].id : i \in DOMAIN queue'}
    BY DEF Queued
  <2>2. DOMAIN queue \subseteq DOMAIN queue' /\ Len(queue) + 1 \in DOMAIN queue'
    BY <1>7
  <2> QED BY <1>3, <1>6, <1>8, <2>1, <2>2 DEF Queued
<1>10. TypeOK'
  <2>1. alarms' \in 0 .. AlarmBound
    BY <1>1, <1>5, LimitAssumption DEF TypeOK
  <2>2. xvr' \in {"idle", "rx", "tx", "rx_ack"}
    BY <1>5 DEF TypeOK
  <2> QED BY <1>1, <1>5, <1>7, <2>1, <2>2 DEF TypeOK
<1>11. DeletionsSound'
  <2>1. acked \subseteq Queued
        /\ \A i \in DOMAIN queue : queue[i].id \in acked => queue[i].marked
    BY DEF IInv, DeletionsSound
  <2>2. \A i \in DOMAIN queue' : queue'[i].id \in acked => queue'[i].marked
    BY <1>1, <1>3, <1>6, <1>8, <2>1
  <2> QED BY <1>1, <1>9, <2>1, <2>2 DEF DeletionsSound
<1>12. FlightSound'
  <2> SUFFICES ASSUME xvr' \in {"tx", "rx_ack"}
               PROVE  \/ slot'.q \in DOMAIN queue' /\ queue'[slot'.q].id = buffer'
                      \/ buffer' \notin Queued' /\ disc' \in {"packets", "reset"}
    BY DEF FlightSound
  <2>1. \/ slot.q \in DOMAIN queue /\ queue[slot.q].id = buffer
        \/ buffer \notin Queued /\ disc \in {"packets", "reset"}
    BY DEF IInv, FlightSound
  <2>2. DOMAIN queue \subseteq DOMAIN queue'
    BY <1>7
  <2> QED BY <1>1, <1>6, <1>9, <2>1, <2>2
<1>13. NotResent' /\ (crt <= Len(queue))'
  <2>1. crt <= Len(queue) + 1
    BY <1>5, <1>7 DEF IInv, TypeOK
  <2> QED BY <1>1, <1>6, <2>1 DEF IInv, NotResent
<1>14. QueueSound(queue)'
  BY <1>6 DEF QueueSound
<1> QED BY <1>10, <1>11, <1>12, <1>13, <1>14 DEF IInv

\* Whatever the limit of its kind, a packet that is no command leaves one buffer.
LEMMA OwnPacketKeeps ==
    ASSUME IInv, NEW p \in Packets, NEW prio \in Priorities,
           NEW dest \in Destinations, OwnPacket(p, prio, dest)
    PROVE  IInv'
<1>1. Len(queue) < OwnLimit(prio) /\ Add(p, prio, dest, MaxAge) /\ xvr' = xvr
  BY DEF OwnPacket
<1>2. ASSUME prio < COMMAND PROVE Len(queue) < MaxBuffers - 1
  <2>1. OwnLimit(prio) \in Nat /\ OwnLimit(prio) <= MaxBuffers - 1
    BY <1>2, LimitAssumption DEF OwnLimit, ALARM, COMMAND
  <2>2. Len(queue) \in Nat
    BY InvFacts
  <2> QED BY <1>1, <2>1, <2>2, LimitAssumption
<1>3. MaxAge \in 0 .. MaxAge
  BY LimitAssumption
<1> QED BY <1>1, <1>2, <1>3, AddKeeps

LEMMA ForwardKeeps ==
    ASSUME IInv, NEW p \in Packets, NEW prio \in Priorities,
           NEW dest \in Destinations, NEW age \in 0 .. MaxAge,
           Forward(p, prio, dest, age)
    PROVE  IInv'
<1>1. Accepts(prio) /\ Add(p, prio, dest, age) /\ xvr' = "idle"
  BY DEF Forward
<1>2. ASSUME prio < COMMAND PROVE Len(queue) < MaxBuffers - 1
  <2>1. prio \in {ALARM, NORMAL, DATA}
    BY <1>2, PriorityAssumption DEF ALARM, NORMAL, DATA, COMMAND
  <2>2. \/ Len(queue) < MaxBuffers - 1
        \/ Len(queue) < MaxBuffers \div 2
        \/ Len(queue) < (MaxBuffers * 3) \div 4
    <3>1. CASE prio = ALARM
      BY <1>1, <3>1 DEF Accepts, ALARM, NORMAL, DATA, COMMAND
    <3>2. CASE prio = NORMAL
      BY <1>1, <3>2 DEF Accepts, ALARM, NORMAL, DATA, COMMAND
    <3>3. CASE prio = DATA
      BY <1>1, <3>3 DEF Accepts, ALARM, NORMAL, DATA, COMMAND
    <3> QED BY <2>1, <3>1, <3>2, <3>3
  <2>3. Len(queue) \in Nat
    BY InvFacts
  <2> QED BY <2>2, <2>3, LimitAssumption
<1> QED BY <1>1, <1>2, AddKeeps

-----------------------------------------------------------------------------
(* What the radio reports.                                                 *)

LEMMA RemLemma ==
    ASSUME IInv, RemCrtPktFromQueue
    PROVE  /\ Rewritten(queue, queue')
           /\ \A i \in DOMAIN queue : queue[i].marked => queue'[i].marked
           /\ slot.q \in DOMAIN queue => queue'[slot.q].marked
           /\ modified' = TRUE
           /\ alarms' \in 0 .. AlarmBound
           /\ slot' \in [q : 0 .. MaxBuffers, ack : BOOLEAN]
<1>1. /\ queue \in Seq(Packet) /\ TypeOK
  BY InvFacts DEF IInv
<1>2. /\ queue' = IF slot.q \in DOMAIN queue
                  THEN [queue EXCEPT ![slot.q].marked = TRUE] ELSE queue
      /\ modified' = TRUE
      /\ slot' = [slot EXCEPT !.q = 0]
  BY DEF RemCrtPktFromQueue
<1>3. ASSUME NEW i \in DOMAIN queue
      PROVE  /\ queue'[i] \in Packet
             /\ queue'[i].id = queue[i].id /\ queue'[i].prio = queue[i].prio
             /\ queue[i].marked => queue'[i].marked
             /\ i = slot.q => queue'[i].marked
  <2>1. queue[i] \in Packet
    BY <1>1
  <2>2. queue'[i] = IF i = slot.q THEN [queue[i] EXCEPT !.marked = TRUE] ELSE queue[i]
    BY <1>1, <1>2
  <2> QED BY <2>1, <2>2 DEF Packet
<1>4. queue' \in [DOMAIN queue -> Packet]
  <2>1. queue' = [i \in DOMAIN queue |-> queue'[i]]
    <3>1. CASE slot.q \in DOMAIN queue
      BY <1>1, <1>2, <3>1
    <3>2. CASE slot.q \notin DOMAIN queue
      BY <1>1, <1>2, <3>2
    <3> QED BY <3>1, <3>2
  <2> QED BY <1>3, <2>1
<1>5. alarms' \in 0 .. AlarmBound
  BY <1>1, LimitAssumption DEF RemCrtPktFromQueue, TypeOK
<1>6. slot' \in [q : 0 .. MaxBuffers, ack : BOOLEAN]
  BY <1>1, <1>2, LimitAssumption DEF TypeOK
<1> QED BY <1>2, <1>3, <1>4, <1>5, <1>6 DEF Rewritten

LEMMA SentKeeps ==
    ASSUME IInv, Sent \/ Ack
    PROVE  IInv'
<1>1. /\ RemCrtPktFromQueue
      /\ xvr' = "idle" /\ buffer' = None
      /\ UNCHANGED <<crt, leaving, left, disc>>
      /\ \/ acked' = acked
         \/ xvr = "rx_ack" /\ acked' = acked \union ({buffer} \intersect Queued)
  BY DEF Sent, Ack
<1>2. TypeOK /\ QueueSound(queue) /\ crt <= Len(queue)
  BY DEF IInv
<1>3. /\ Rewritten(queue, queue')
      /\ \A i \in DOMAIN queue : queue[i].marked => queue'[i].marked
      /\ slot.q \in DOMAIN queue => queue'[slot.q].marked
      /\ modified' = TRUE
      /\ alarms' \in 0 .. AlarmBound
      /\ slot' \in [q : 0 .. MaxBuffers, ack : BOOLEAN]
  BY <1>1, RemLemma
<1>4. QueueSound(queue') /\ Len(queue') = Len(queue) /\ DOMAIN queue' = DOMAIN queue
  BY <1>2, <1>3, RewrittenSound
<1>5. \A i \in DOMAIN queue : queue'[i].id = queue[i].id
  BY <1>3 DEF Rewritten
<1>6. Queued' = Queued
  BY <1>4, <1>5 DEF Queued
<1>7. acked' \subseteq Queued /\ Queued \subseteq Packets
  <2>1. acked \subseteq Queued
    BY DEF IInv, DeletionsSound
  <2>2. Queued \subseteq Packets
    BY InvFacts DEF Queued, Packet
  <2> QED BY <1>1, <2>1, <2>2
<1>8. TypeOK'
  <2>1. queue' \in Seq(Packet) /\ Len(queue') <= MaxBuffers
    BY <1>4 DEF QueueSound
  <2> QED BY <1>1, <1>2, <1>3, <1>7, <2>1 DEF TypeOK
<1>9. \A i \in DOMAIN queue : queue[i].id \in acked' => queue'[i].marked
  <2> SUFFICES ASSUME NEW i \in DOMAIN queue, queue[i].id \in acked'
               PROVE  queue'[i].marked
    OBVIOUS
  <2>1. CASE queue[i].id \in acked
    BY <1>3, <2>1 DEF IInv, DeletionsSound
  <2>2. CASE queue[i].id \notin acked
    <3>1. xvr = "rx_ack" /\ queue[i].id = buffer /\ buffer \in Queued
      BY <1>1, <2>2
    <3>2. slot.q \in DOMAIN queue /\ queue[slot.q].id = buffer
      BY <3>1 DEF IInv, FlightSound
    <3>3. i = slot.q
      BY <1>2, <3>1, <3>2 DEF QueueSound
    <3> QED BY <1>3, <3>3
  <2> QED BY <2>1, <2>2
<1>10. DeletionsSound'
  BY <1>3, <1>4, <1>5, <1>6, <1>7, <1>9 DEF DeletionsSound
<1>11. FlightSound' /\ NotResent'
  BY <1>1 DEF FlightSound, NotResent
<1>12. QueueSound(queue)' /\ (crt <= Len(queue))'
  BY <1>1, <1>2, <1>4 DEF QueueSound
<1> QED BY <1>8, <1>10, <1>11, <1>12 DEF IInv

\* The other reports change neither the queue nor what has been acknowledged.
LEMMA ReportKeeps ==
    ASSUME IInv,
           \/ SentWaitAck \/ NotSent \/ NegativeAck
           \/ \E n \in Neighbors : NeighborDisconnects(n)
    PROVE  IInv'
<1>1. /\ UNCHANGED <<queue, crt, modified, slot, buffer, alarms, disc, acked>>
      /\ \/ xvr' = "idle"
         \/ xvr = "tx" /\ xvr' = "rx_ack"
      /\ \/ UNCHANGED <<leaving, left>>
         \/ left' = TRUE /\ \E n \in Neighbors : leaving' = leaving \union {n}
  BY DEF SentWaitAck, NotSent, NegativeAck, NeighborDisconnects
<1>2. TypeOK'
  <2>1. TypeOK
    BY DEF IInv
  <2>2. left' \in BOOLEAN /\ leaving' \subseteq Neighbors
    BY <1>1, <2>1 DEF TypeOK
  <2> QED BY <1>1, <2>1, <2>2 DEF TypeOK
<1>3. QueueSound(queue)' /\ DeletionsSound'
  BY <1>1 DEF IInv, QueueSound, DeletionsSound, Queued
<1>4. FlightSound' /\ NotResent'
  BY <1>1 DEF IInv, FlightSound, NotResent, Queued
<1> QED BY <1>1, <1>2, <1>3, <1>4 DEF IInv

-----------------------------------------------------------------------------
(* Leaving the network.                                                    *)

LEMMA EmptySound ==
    /\ QueueSound(<<>>) /\ <<>> \in Seq(Packet) /\ Len(<<>>) = 0
    /\ [q |-> 0, ack |-> FALSE] \in [q : 0 .. MaxBuffers, ack : BOOLEAN]
<1>1. {i \in DOMAIN <<>> : <<>>[i].prio < COMMAND} = {}
  OBVIOUS
<1>2. Cardinality({}) = 0
  BY FS_EmptySet
<1>3. \A i, j \in DOMAIN <<>> : <<>>[i].id = <<>>[j].id => i = j
  OBVIOUS
<1>4. [q |-> 0, ack |-> FALSE] \in [q : 0 .. MaxBuffers, ack : BOOLEAN]
  BY LimitAssumption
<1> QED BY <1>1, <1>2, <1>3, <1>4, LimitAssumption DEF QueueSound

LEMMA ClearedKeeps ==
    ASSUME IInv, Cleared, disc' = "packets"
    PROVE  IInv'
<1>1. /\ queue' = <<>> /\ crt' = 0 /\ acked' = {}
      /\ UNCHANGED <<modified, slot, buffer, xvr, alarms, leaving, left>>
  BY DEF Cleared
<1>2. TypeOK
  BY DEF IInv
<1>3. TypeOK'
  BY <1>1, <1>2, EmptySound, LimitAssumption DEF TypeOK
<1>4. Queued' = {} /\ DeletionsSound'
  BY <1>1 DEF Queued, DeletionsSound
<1>5. FlightSound' /\ NotResent'
  BY <1>1, <1>4 DEF FlightSound, NotResent
<1>6. QueueSound(queue)' /\ (crt <= Len(queue))'
  BY <1>1, EmptySound DEF QueueSound
<1> QED BY <1>3, <1>4, <1>5, <1>6 DEF IInv

LEMMA StageKeeps ==
    ASSUME IInv,
           UNCHANGED <<queue, crt, modified, slot, buffer, xvr, alarms, leaving, left, acked>>,
           \/ disc' \in {"packets", "reset"}
           \/ disc = "inactive" /\ disc' = "queue"
           \/ disc' = disc
    PROVE  IInv'
<1>1. TypeOK'
  BY DEF IInv, TypeOK
<1>2. QueueSound(queue)' /\ DeletionsSound'
  BY DEF IInv, QueueSound, DeletionsSound, Queued
<1>3. FlightSound' /\ NotResent'
  BY DEF IInv, FlightSound, NotResent, Queued
<1> QED BY <1>1, <1>2, <1>3 DEF IInv

LEMMA RestartKeeps ==
    ASSUME Restart
    PROVE  IInv'
<1>1. /\ queue' = <<>> /\ crt' = 0 /\ modified' = FALSE
      /\ slot' = [q |-> 0, ack |-> FALSE] /\ buffer' = None /\ xvr' = "idle"
      /\ alarms' = 0 /\ leaving' = {} /\ left' = FALSE
      /\ disc' = "inactive" /\ acked' = {}
  BY DEF Restart
<1>2. TypeOK'
  <2>1. queue' \in Seq(Packet) /\ Len(queue') <= MaxBuffers
    BY <1>1, EmptySound DEF QueueSound
  <2>2. slot' \in [q : 0 .. MaxBuffers, ack : BOOLEAN]
    BY <1>1, EmptySound
  <2>3. crt' \in 0 .. MaxBuffers /\ alarms' \in 0 .. AlarmBound
    BY <1>1, LimitAssumption
  <2> QED BY <1>1, <2>1, <2>2, <2>3 DEF TypeOK
<1>3. DeletionsSound' /\ FlightSound' /\ NotResent'
  BY <1>1 DEF DeletionsSound, FlightSound, NotResent, Queued
<1>4. QueueSound(queue)' /\ (crt <= Len(queue))'
  BY <1>1, EmptySound DEF QueueSound
<1> QED BY <1>2, <1>3, <1>4 DEF IInv

-----------------------------------------------------------------------------
(* The theorems.                                                           *)

LEMMA InitialIInv == Init => IInv
<1> SUFFICES ASSUME Init PROVE IInv
  OBVIOUS
<1>1. TypeOK
  <2>1. queue \in Seq(Packet) /\ Len(queue) <= MaxBuffers
    BY EmptySound DEF Init, QueueSound
  <2>2. slot \in [q : 0 .. MaxBuffers, ack : BOOLEAN]
    BY EmptySound DEF Init
  <2>3. crt \in 0 .. MaxBuffers /\ alarms \in 0 .. AlarmBound
    BY LimitAssumption DEF Init
  <2> QED BY <2>1, <2>2, <2>3 DEF Init, TypeOK
<1>2. QueueSound(queue) /\ crt <= Len(queue)
  BY EmptySound DEF Init
<1>3. DeletionsSound /\ FlightSound /\ NotResent
  BY DEF Init, DeletionsSound, FlightSound, NotResent, Queued
<1> QED BY <1>1, <1>2, <1>3 DEF IInv

LEMMA StepKeeps == IInv /\ [Next]_vars => IInv'
<1> SUFFICES ASSUME IInv, [Next]_vars PROVE IInv'
  OBVIOUS
<1>1. CASE \E p \in Packets, prio \in Priorities, dest \in Destinations :
              OwnPacket(p, prio, dest)
  BY <1>1, OwnPacketKeeps
<1>2. CASE \E p \in Packets, prio \in Priorities, dest \in Destinations :
              \E age \in 0 .. MaxAge : Forward(p, prio, dest, age)
  BY <1>2, ForwardKeeps
<1>3. CASE AnySlot
  BY <1>3, SlotKeeps DEF AnySlot
<1>4. CASE AsleepSlot
  BY <1>4, AsleepKeeps
<1>5. CASE Sent \/ Ack
  BY <1>5, SentKeeps
<1>6. CASE \/ SentWaitAck \/ NotSent \/ NegativeAck
           \/ \E n \in Neighbors : NeighborDisconnects(n)
  BY <1>6, ReportKeeps
<1>7. CASE Leave \/ LeaveAtOnce \/ PacketsSent
  <2>1. /\ UNCHANGED <<queue, crt, modified, slot, buffer, xvr, alarms, leaving,
                       left, acked>>
        /\ \/ disc' \in {"packets", "reset"}
           \/ disc = "inactive" /\ disc' = "queue"
    BY <1>7 DEF Leave, LeaveAtOnce, PacketsSent
  <2> QED BY <2>1, StageKeeps
<1>8. CASE LeaveNow \/ QueueSent
  BY <1>8, ClearedKeeps DEF LeaveNow, QueueSent
<1>9. CASE Restart
  BY <1>9, RestartKeeps
<1>10. CASE UNCHANGED vars
  BY <1>10, StageKeeps DEF vars
<1> QED BY <1>1, <1>2, <1>3, <1>4, <1>5, <1>6, <1>7, <1>8, <1>9, <1>10 DEF Next

LEMMA InvariantHolds == Spec => []IInv
BY InitialIInv, StepKeeps, PTL DEF Spec

\* The variables stay in their ranges: the queue within its buffers, the links' place
\* in it within the table (the bounds of g_aDllQueue that the interrupts rely on).
THEOREM TypeCorrect == Spec => []TypeOK
<1>1. IInv => TypeOK
  BY DEF IInv
<1> QED BY <1>1, InvariantHolds, PTL

\* While a packet is on the air or waits for its acknowledgement, m_pQueue is where
\* that very packet is (or the device has emptied the queue to leave).
THEOREM InFlightAlways == Spec => []InFlight
<1>1. IInv => InFlight
  BY DEF IInv, FlightSound, InFlight
<1> QED BY <1>1, InvariantHolds, PTL

\* A packet that its receiver has acknowledged is not put on the air again.
THEOREM NotResentAlways == Spec => []NotResent
<1>1. IInv => NotResent
  BY DEF IInv
<1> QED BY <1>1, InvariantHolds, PTL

\* Whoever queues the packets, one buffer is left for a command.
THEOREM CommandRoomAlways == Spec => []CommandRoom
<1>1. IInv => CommandRoom
  BY DEF IInv, QueueSound, CommandRoom
<1> QED BY <1>1, InvariantHolds, PTL

-----------------------------------------------------------------------------
(* LinkTables: the first entry that matches.                               *)

LEMMA LeastOf ==
    ASSUME NEW I, I \in SUBSET Nat
    PROVE  I # {} => Min(I) \in I /\ \A i \in I : Min(I) <= i
<1> SUFFICES ASSUME I # {} PROVE Min(I) \in I /\ \A i \in I : Min(I) <= i
  OBVIOUS
<1>1. PICK k \in I : \A i \in I : k <= i
  BY LeastLemma
<1>2. Min(I) = CHOOSE x \in I : \A y \in I : x <= y
  BY DEF Min
<1> QED BY <1>1, <1>2, Zenon

LEMMA FirstSuperframe ==
    ASSUME NEW E, NEW t \in Seq(E), NEW id
    PROVE  LET k == FindSuperframe(t, id) IN
           /\ k \in 0 .. Len(t)
           /\ k # 0 => t[k].id = id
           /\ k = 0 => \A i \in 1 .. Len(t) : t[i].id # id
<1> DEFINE I == {i \in 1 .. Len(t) : t[i].id = id}
           k == FindSuperframe(t, id)
<1>1. k = IF I # {} THEN Min(I) ELSE 0
  BY DEF FindSuperframe, SelectInSeq
<1>2. I \subseteq Nat
  OBVIOUS
<1>3. I # {} => Min(I) \in I
  BY <1>2, LeastOf
<1>4. 0 \notin I
  OBVIOUS
<1> HIDE DEF k
<1> QED BY <1>1, <1>3, <1>4 DEF k

LEMMA FirstNeighbor ==
    ASSUME NEW E, NEW t \in Seq(E), NEW a
    PROVE  LET k == FindShortNeighbor(t, a) IN
           /\ k \in 0 .. Len(t)
           /\ k # 0 => t[k].addr = a
           /\ k = 0 => \A i \in 1 .. Len(t) : ~ (t[i].addr = a)
<1> DEFINE I == {i \in 1 .. Len(t) : t[i].addr = a}
           k == FindShortNeighbor(t, a)
<1>1. k = IF I # {} THEN Min(I) ELSE 0
  BY DEF FindShortNeighbor, SelectInSeq
<1>2. I \subseteq Nat
  OBVIOUS
<1>3. I # {} => Min(I) \in I
  BY <1>2, LeastOf
<1>4. 0 \notin I
  OBVIOUS
<1> HIDE DEF k
<1> QED BY <1>1, <1>3, <1>4 DEF k

LEMMA FirstConnection ==
    ASSUME NEW E, NEW t \in Seq(E), NEW g, NEW a
    PROVE  LET k == FindConnection(t, g, a) IN
           /\ k \in 0 .. Len(t)
           /\ k # 0 => t[k].graph = g /\ t[k].nbr = a
           /\ k = 0 => \A i \in 1 .. Len(t) : ~ (t[i].graph = g /\ t[i].nbr = a)
<1> DEFINE I == {i \in 1 .. Len(t) : t[i].graph = g /\ t[i].nbr = a}
           k == FindConnection(t, g, a)
<1>1. k = IF I # {} THEN Min(I) ELSE 0
  BY DEF FindConnection, SelectInSeq
<1>2. I \subseteq Nat
  OBVIOUS
<1>3. I # {} => Min(I) \in I
  BY <1>2, LeastOf
<1>4. 0 \notin I
  OBVIOUS
<1> HIDE DEF k
<1> QED BY <1>1, <1>3, <1>4 DEF k

LEMMA FirstLink ==
    ASSUME NEW sf, NEW a, NEW ts, links \in Seq(Link)
    PROVE  LET k == FindLink(sf, a, ts) IN
           /\ k \in 0 .. Len(links)
           /\ k # 0 => links[k].sf = sf /\ links[k].nbr = a
<1> DEFINE I == {i \in 1 .. Len(links) :
                    links[i].sf = sf /\ links[i].nbr = a /\ links[i].slot = ts}
           k == FindLink(sf, a, ts)
<1>1. k = IF I # {} THEN Min(I) ELSE 0
  BY DEF FindLink, SelectInSeq
<1>2. I \subseteq Nat
  OBVIOUS
<1>3. I # {} => Min(I) \in I
  BY <1>2, LeastOf
<1> HIDE DEF k
<1> QED BY <1>1, <1>3 DEF k

-----------------------------------------------------------------------------
(* Entries that are taken out.                                             *)

\* s has the unmarked ones of the first n entries of t, in their order.
KeptOf(t, n, s) ==
    /\ Len(s) <= n
    /\ \A j \in 1 .. Len(s) : ~ s[j].deleted /\ \E i \in 1 .. n : s[j] = t[i]
    /\ \A i \in 1 .. n : ~ t[i].deleted => \E j \in 1 .. Len(s) : s[j] = t[i]
    /\ \A j, k \in 1 .. Len(s) :
          j < k => \E h, i \in 1 .. n : h < i /\ s[j] = t[h] /\ s[k] = t[i]

KeepStep(t, s, n) == IF t[n].deleted THEN s ELSE Append(s, t[n])

LEMMA KeepLemma ==
    ASSUME NEW E, NEW t \in Seq(E), NEW s \in Seq(E), NEW n \in 1 .. Len(t),
           KeptOf(t, n - 1, s)
    PROVE  KeepStep(t, s, n) \in Seq(E) /\ KeptOf(t, n, KeepStep(t, s, n))
<1> DEFINE r == KeepStep(t, s, n)
<1>1. t[n] \in E /\ n \in Nat /\ Len(s) \in Nat
  OBVIOUS
<1>2. CASE t[n].deleted
  <2>1. r = s
    BY <1>2 DEF KeepStep
  <2>2. KeptOf(t, n, s)
    <3>1. Len(s) <= n
      BY <1>1 DEF KeptOf
    <3>2. \A j \in 1 .. Len(s) : ~ s[j].deleted /\ \E i \in 1 .. n : s[j] = t[i]
      BY <1>1 DEF KeptOf
    <3>3. \A i \in 1 .. n : ~ t[i].deleted => \E j \in 1 .. Len(s) : s[j] = t[i]
      BY <1>1, <1>2 DEF KeptOf
    <3>4. \A j, k \in 1 .. Len(s) :
             j < k => \E h, i \in 1 .. n : h < i /\ s[j] = t[h] /\ s[k] = t[i]
      <4>1. 1 .. n - 1 \subseteq 1 .. n
        BY <1>1
      <4> QED BY <4>1 DEF KeptOf
    <3> QED BY <3>1, <3>2, <3>3, <3>4 DEF KeptOf
  <2> QED BY <2>1, <2>2
<1>3. CASE ~ t[n].deleted
  <2>1. r = Append(s, t[n])
    BY <1>3 DEF KeepStep
  <2>2. r \in Seq(E) /\ Len(r) = Len(s) + 1 /\ r[Len(s) + 1] = t[n]
        /\ \A j \in 1 .. Len(s) : r[j] = s[j]
    BY <1>1, <2>1
  <2> HIDE DEF r
  <2>3. \A j \in 1 .. Len(r) : j \in 1 .. Len(s) \/ j = Len(s) + 1
    BY <1>1, <2>2
  <2>4. 1 .. n - 1 \subseteq 1 .. n /\ n \in 1 .. n /\ 1 .. Len(s) \subseteq 1 .. Len(r)
        /\ Len(r) \in 1 .. Len(r)
    BY <1>1, <2>2
  <2>5. Len(r) <= n
    BY <1>1, <2>2 DEF KeptOf
  <2>6. ASSUME NEW j \in 1 .. Len(r)
        PROVE  ~ r[j].deleted /\ \E i \in 1 .. n : r[j] = t[i]
    <3>1. CASE j \in 1 .. Len(s)
      <4>1. ~ s[j].deleted /\ \E i \in 1 .. n - 1 : s[j] = t[i]
        BY <3>1 DEF KeptOf
      <4>2. r[j] = s[j]
        BY <2>2, <3>1
      <4>3. \A i \in 1 .. n - 1 : i \in 1 .. n
        BY <2>4
      <4> QED BY <4>1, <4>2, <4>3
    <3>2. CASE j = Len(s) + 1
      BY <3>2, <1>3, <2>2, <2>4
    <3> QED BY <2>3, <3>1, <3>2
  <2>7. ASSUME NEW i \in 1 .. n, ~ t[i].deleted
        PROVE  \E j \in 1 .. Len(r) : r[j] = t[i]
    <3>1. CASE i = n
      BY <3>1, <2>2, <2>4
    <3>2. CASE i # n
      <4>1. i \in 1 .. n - 1
        BY <3>2, <1>1
      <4>2. PICK j \in 1 .. Len(s) : s[j] = t[i]
        BY <4>1, <2>7 DEF KeptOf
      <4> QED BY <4>2, <2>2, <2>4
    <3> QED BY <3>1, <3>2
  <2>8. ASSUME NEW j \in 1 .. Len(r), NEW k \in 1 .. Len(r), j < k
        PROVE  \E h, i \in 1 .. n : h < i /\ r[j] = t[h] /\ r[k] = t[i]
    <3>1. j \in 1 .. Len(s)
      BY <2>8, <1>1, <2>2
    <3>2. CASE k \in 1 .. Len(s)
      <4>1. PICK h \in 1 .. n - 1, i \in 1 .. n - 1 : h < i /\ s[j] = t[h] /\ s[k] = t[i]
        BY <2>8, <3>1, <3>2 DEF KeptOf
      <4> QED BY <4>1, <3>1, <3>2, <2>2, <2>4
    <3>3. CASE k = Len(s) + 1
      <4>1. PICK h \in 1 .. n - 1 : s[j] = t[h]
        BY <3>1 DEF KeptOf
      <4>2. h < n
        BY <1>1
      <4> QED BY <4>1, <4>2, <3>1, <3>3, <2>2, <2>4
    <3> QED BY <2>3, <3>2, <3>3
  <2>9. KeptOf(t, n, r)
    BY <2>5, <2>6, <2>7, <2>8 DEF KeptOf
  <2> QED BY <2>2, <2>9 DEF r
<1> QED BY <1>2, <1>3

LEMMA UndeletedLemma ==
    ASSUME NEW E, NEW t \in Seq(E)
    PROVE  Undeleted(t) \in Seq(E) /\ KeptOf(t, Len(t), Undeleted(t))
<1> DEFINE n == Len(t)
           Solution(f) == f = [m \in 0 .. n |-> IF m = 0 THEN <<>> ELSE 
                       IF t[m].deleted THEN f[m - 1] ELSE Append(f[m - 1], t[m])]
           found == CHOOSE f : Solution(f)
           good  == [m \in 0 .. n |-> {s \in Seq(E) : KeptOf(t, m, s)}]
           step  == [x \in (1 .. n) \X Seq(E) |-> KeepStep(t, x[2], x[1])]
<1>1. n \in Nat
  OBVIOUS
<1>2. 0 \in 0 .. n /\ \A m \in 1 .. n : m \in 0 .. n /\ m - 1 \in 0 .. n /\ m # 0
  BY <1>1
<1>3. <<>> \in good[0]
  <2>1. KeptOf(t, 0, <<>>) /\ <<>> \in Seq(E)
    BY DEF KeptOf
  <2> QED BY <1>2, <2>1
<1>4. ASSUME NEW m \in 1 .. n, NEW s \in good[m - 1] PROVE KeepStep(t, s, m) \in good[m]
  <2>1. s \in Seq(E) /\ KeptOf(t, m - 1, s)
    BY <1>2, <1>4
  <2>2. KeepStep(t, s, m) \in Seq(E) /\ KeptOf(t, m, KeepStep(t, s, m))
    BY <2>1, KeepLemma
  <2> QED BY <1>2, <2>2
<1> HIDE DEF n
<1>5. \A m \in 1 .. n : \A s \in good[m - 1] : step[<<m, s>>] = KeepStep(t, s, m)
  BY <1>2
<1>6. StepsIn(step, good, n)
  <2> HIDE DEF good, step
  <2> QED BY <1>4, <1>5 DEF StepsIn
<1>7. PICK g : Follows(g, good, <<>>, n, step)
  <2> HIDE DEF good, step
  <2> QED BY <1>1, <1>3, <1>6, Recursion, Zenon
<1>8. \A m \in 1 .. n : g[m] = KeepStep(t, g[m - 1], m)
  <2> HIDE DEF good, step
  <2> QED BY <1>2, <1>5, <1>7 DEF Follows
<1>9. Solution(g)
  <2> HIDE DEF good, step
  <2>1. \A m \in 0 .. n : g[m] = IF m = 0 THEN <<>> ELSE 
                       IF t[m].deleted THEN g[m - 1] ELSE Append(g[m - 1], t[m])
    <3>1. \A m \in 0 .. n : m # 0 => m \in 1 .. n
      BY <1>1
    <3> QED BY <1>7, <1>8, <3>1 DEF Follows, KeepStep
  <2> QED BY <1>7, <2>1 DEF Follows
<1>10. Solution(found)
  <2> HIDE DEF Solution
  <2> QED BY <1>9, Zenon
<1>11. found[0] = <<>> /\ \A m \in 1 .. n : found[m] = KeepStep(t, found[m - 1], m)
  <2> HIDE DEF found
  <2>1. \A m \in 0 .. n : found[m] = IF m = 0 THEN <<>> ELSE 
                       IF t[m].deleted THEN found[m - 1] ELSE Append(found[m - 1], t[m])
    BY <1>10
  <2> HIDE DEF Solution
  <2> QED BY <1>2, <2>1 DEF KeepStep
<1>12. \A m \in 0 .. n : found[m] \in good[m]
  <2> DEFINE P == {m \in 0 .. n : found[m] \in good[m]}
  <2> HIDE DEF found, good
  <2>1. 0 \in P
    BY <1>2, <1>3, <1>11
  <2>2. ASSUME NEW m \in 0 .. n - 1, m \in P PROVE m + 1 \in P
    <3>1. m + 1 \in 1 .. n /\ (m + 1) - 1 = m
      BY <1>1
    <3>2. found[m + 1] = KeepStep(t, found[m], m + 1)
      BY <1>11, <3>1
    <3>3. found[m] \in good[(m + 1) - 1]
      BY <2>2, <3>1
    <3>4. KeepStep(t, found[m], m + 1) \in good[m + 1]
      BY <1>4, <3>1, <3>3
    <3> QED BY <1>2, <3>1, <3>2, <3>4
  <2> HIDE DEF P
  <2>3. \A m \in 0 .. n : m \in P
    BY <1>1, <2>1, <2>2, UptoInduction
  <2> QED BY <2>3 DEF P
<1>13. Undeleted(t) = found[n]
  BY DEF Undeleted, n
<1>14. found[n] \in Seq(E) /\ KeptOf(t, n, found[n])
  <2>1. n \in 0 .. n
    BY <1>1
  <2> HIDE DEF found
  <2> QED BY <1>12, <2>1
<1> QED BY <1>13, <1>14 DEF n

-----------------------------------------------------------------------------
(* Places in a sequence.                                                   *)

LEMMA ConcatLemma ==
    ASSUME NEW E, NEW a \in Seq(E), NEW b \in Seq(E)
    PROVE  /\ a \o b \in Seq(E) /\ Len(a \o b) = Len(a) + Len(b)
           /\ \A i \in 1 .. Len(a) : (a \o b)[i] = a[i]
           /\ \A i \in 1 .. Len(b) : (a \o b)[Len(a) + i] = b[i]
OBVIOUS

LEMMA RemoveLemma ==
    ASSUME NEW E, NEW t \in Seq(E), NEW p \in 1 .. Len(t)
    PROVE  /\ RemoveAt(t, p) \in Seq(E) /\ Len(RemoveAt(t, p)) = Len(t) - 1
           /\ \A i \in 1 .. Len(t) - 1 :
                 RemoveAt(t, p)[i] = t[IF i < p THEN i ELSE i + 1]
<1> DEFINE a == SubSeq(t, 1, p - 1)
           b == SubSeq(t, p + 1, Len(t))
<1>1. a \in Seq(E) /\ Len(a) = p - 1 /\ \A i \in 1 .. p - 1 : a[i] = t[i]
  OBVIOUS
<1>2. /\ b \in Seq(E) /\ Len(b) = Len(t) - p
      /\ \A i \in 1 .. Len(t) - p : b[i] = t[i + p]
  OBVIOUS
<1>3. RemoveAt(t, p) = a \o b
  BY DEF RemoveAt
<1>4. Len(t) \in Nat /\ p \in Nat
  OBVIOUS
<1> HIDE DEF a, b
<1>5. a \o b \in Seq(E) /\ Len(a \o b) = Len(t) - 1
  <2>1. a \o b \in Seq(E) /\ Len(a \o b) = Len(a) + Len(b)
    BY <1>1, <1>2, ConcatLemma
  <2> QED BY <1>1, <1>2, <1>4, <2>1
<1>6. ASSUME NEW i \in 1 .. Len(t) - 1
      PROVE  (a \o b)[i] = t[IF i < p THEN i ELSE i + 1]
  <2>1. CASE i < p
    <3>1. i \in 1 .. p - 1
      BY <2>1, <1>4
    <3>2. (a \o b)[i] = a[i]
      BY <1>1, <1>2, <3>1
    <3> QED BY <1>1, <2>1, <3>1, <3>2
  <2>2. CASE ~ (i < p)
    <3>1. i - (p - 1) \in 1 .. Len(t) - p /\ (i - (p - 1)) + p = i + 1
      BY <2>2, <1>4
    <3>2. (a \o b)[i] = b[i - (p - 1)]
      BY <1>1, <1>2, <1>4, <2>2, <3>1
    <3> QED BY <1>2, <2>2, <3>1, <3>2
  <2> QED BY <2>1, <2>2
<1> QED BY <1>3, <1>5, <1>6

LEMMA InsertLemma ==
    ASSUME NEW E, NEW t \in Seq(E), NEW k \in 1 .. Len(t), NEW e \in E
    PROVE  /\ InsertAt(t, k, e) \in Seq(E) /\ Len(InsertAt(t, k, e)) = Len(t) + 1
           /\ \A i \in 1 .. Len(t) + 1 :
                 InsertAt(t, k, e)[i]
                 = IF i < k THEN t[i] ELSE IF i = k THEN e ELSE t[i - 1]
<1> DEFINE a == SubSeq(t, 1, k - 1)
           b == SubSeq(t, k, Len(t))
           c == a \o <<e>>
<1>1. a \in Seq(E) /\ Len(a) = k - 1 /\ \A i \in 1 .. k - 1 : a[i] = t[i]
  OBVIOUS
<1>2. /\ b \in Seq(E) /\ Len(b) = Len(t) - k + 1
      /\ \A i \in 1 .. Len(t) - k + 1 : b[i] = t[i + (k - 1)]
  OBVIOUS
<1>3. InsertAt(t, k, e) = c \o b
  BY DEF InsertAt
<1>4. Len(t) \in Nat /\ k \in Nat
  OBVIOUS
<1> HIDE DEF a, b
<1>5. c \in Seq(E) /\ Len(c) = k /\ c[k] = e /\ \A i \in 1 .. k - 1 : c[i] = t[i]
  <2>1. <<e>> \in Seq(E) /\ Len(<<e>>) = 1 /\ <<e>>[1] = e
    OBVIOUS
  <2> DEFINE one == <<e>>
  <2> HIDE DEF one
  <2>2. one \in Seq(E) /\ Len(one) = 1 /\ one[1] = e
    BY <2>1 DEF one
  <2>3. /\ a \o one \in Seq(E) /\ Len(a \o one) = Len(a) + Len(one)
        /\ \A i \in 1 .. Len(a) : (a \o one)[i] = a[i]
        /\ (a \o one)[Len(a) + 1] = one[1]
    <3>1. 1 \in 1 .. Len(one)
      BY <2>2
    <3>2. a \in Seq(E) /\ one \in Seq(E)
      BY <1>1, <2>2
    <3>3. /\ a \o one \in Seq(E) /\ Len(a \o one) = Len(a) + Len(one)
          /\ \A i \in 1 .. Len(a) : (a \o one)[i] = a[i]
          /\ \A i \in 1 .. Len(one) : (a \o one)[Len(a) + i] = one[i]
      BY <3>2, ConcatLemma
    <3> QED BY <3>1, <3>3
  <2>4. Len(a) + 1 = k /\ Len(a) = k - 1
    BY <1>1, <1>4
  <2> QED BY <1>1, <2>2, <2>3, <2>4 DEF one
<1> HIDE DEF c
<1>6. c \o b \in Seq(E) /\ Len(c \o b) = Len(t) + 1
  <2>1. c \o b \in Seq(E) /\ Len(c \o b) = Len(c) + Len(b)
    BY <1>2, <1>5, ConcatLemma
  <2> QED BY <1>2, <1>4, <1>5, <2>1
<1>7. ASSUME NEW i \in 1 .. Len(t) + 1
      PROVE  (c \o b)[i] = IF i < k THEN t[i] ELSE IF i = k THEN e ELSE t[i - 1]
  <2>1. CASE i <= k
    <3>1. i \in 1 .. k /\ (i < k => i \in 1 .. k - 1)
      BY <2>1, <1>4
    <3>2. (c \o b)[i] = c[i]
      BY <1>2, <1>5, <3>1
    <3> QED BY <1>4, <1>5, <2>1, <3>1, <3>2
  <2>2. CASE i > k
    <3>1. i - k \in 1 .. Len(t) - k + 1 /\ (i - k) + (k - 1) = i - 1
      BY <2>2, <1>4
    <3>2. (c \o b)[i] = b[i - k]
      <4>1. i - k \in 1 .. Len(b) /\ Len(c) + (i - k) = i
        BY <1>2, <1>4, <1>5, <3>1
      <4> QED BY <1>2, <1>5, <4>1, ConcatLemma
    <3>3. ~ (i < k) /\ i # k
      BY <2>2, <1>4
    <3>4. b[i - k] = t[i - 1]
      BY <1>2, <3>1
    <3> QED BY <3>2, <3>3, <3>4
  <2>3. i <= k \/ i > k
    BY <1>4
  <2> QED BY <2>1, <2>2, <2>3
<1> QED BY <1>3, <1>6, <1>7

-----------------------------------------------------------------------------
(* DLL_RebuildNeighbors.                                                   *)

Unique(t) == \A i, j \in 1 .. Len(t) : t[i].addr = t[j].addr => i = j

Visited == [tab : Seq(Neighbor), size : Nat]

\* After position p: some of the neighbours there were, each once.
VisitOf(nbs, p, s) ==
    /\ Len(s.tab) <= Len(nbs) /\ s.size <= Len(s.tab) /\ s.size <= p
    /\ Unique(s.tab)
    /\ \A i \in 1 .. Len(s.tab) : \E j \in 1 .. Len(nbs) : s.tab[i] = nbs[j]

LEMMA VisitLemma ==
    ASSUME NEW nbs \in Seq(Neighbor), NEW p \in 1 .. Len(nbs), NEW s \in Visited,
           VisitOf(nbs, p - 1, s)
    PROVE  Visit(s, p) \in Visited /\ VisitOf(nbs, p, Visit(s, p))
<1> DEFINE n == Len(s.tab)
           r == Visit(s, p)
<1>1. s.tab \in Seq(Neighbor) /\ s.size \in Nat /\ n \in Nat /\ p \in Nat
      /\ s = [tab |-> s.tab, size |-> s.size]
  BY DEF Visited
<1>2. n <= Len(nbs) /\ s.size <= n /\ s.size <= p - 1
  BY DEF VisitOf
<1>3. CASE r = s
  BY <1>1, <1>2, <1>3 DEF VisitOf
<1>4. CASE /\ p <= n
           /\ r = [tab  |-> [s.tab EXCEPT ![s.size + 1] = s.tab[p], ![p] = s.tab[s.size + 1]],
                   size |-> s.size + 1]
  <2> DEFINE q == s.size + 1
             t == [s.tab EXCEPT ![q] = s.tab[p], ![p] = s.tab[q]]
  <2>1. q \in 1 .. n /\ p \in 1 .. n /\ q <= p
    BY <1>1, <1>2, <1>4
  <2>2. s.tab[p] \in Neighbor /\ s.tab[q] \in Neighbor
    BY <1>1, <2>1
  <2>3. t \in Seq(Neighbor) /\ Len(t) = n
    BY <1>1, <2>1, <2>2
  <2>4. \A i \in 1 .. n : t[i] = s.tab[IF i = p THEN q ELSE IF i = q THEN p ELSE i]
    BY <1>1, <2>1
  <2>5. r.tab = t /\ r.size = q /\ r = [tab |-> t, size |-> q]
    BY <1>4
  <2> HIDE DEF t, q, r
  <2>6. Unique(t)
    <3> SUFFICES ASSUME NEW i \in 1 .. n, NEW j \in 1 .. n, t[i].addr = t[j].addr
                 PROVE  i = j
      BY <2>3 DEF Unique
    <3> DEFINE f(k) == IF k = p THEN q ELSE IF k = q THEN p ELSE k
    <3>1. f(i) \in 1 .. n /\ f(j) \in 1 .. n
      BY <2>1
    <3>2. t[i] = s.tab[f(i)] /\ t[j] = s.tab[f(j)]
      BY <2>4
    <3>3. f(i) = f(j)
      <4> HIDE DEF f
      <4> QED BY <3>1, <3>2 DEF VisitOf, Unique
    <3> QED BY <3>3
  <2>7. ASSUME NEW i \in 1 .. n PROVE \E j \in 1 .. Len(nbs) : t[i] = nbs[j]
    BY <2>1, <2>4 DEF VisitOf
  <2>8. q <= n /\ q <= p /\ q \in Nat
    BY <2>1
  <2> QED BY <1>2, <2>3, <2>5, <2>6, <2>7, <2>8 DEF VisitOf, Visited, r
<1>5. CASE p <= n /\ r = [s EXCEPT !.tab = RemoveAt(s.tab, p)]
  <2> DEFINE t == RemoveAt(s.tab, p)
  <2>1. p \in 1 .. n
    BY <1>5
  <2>2. /\ t \in Seq(Neighbor) /\ Len(t) = n - 1
        /\ \A i \in 1 .. n - 1 : t[i] = s.tab[IF i < p THEN i ELSE i + 1]
    BY <1>1, <2>1, RemoveLemma
  <2>3. r.tab = t /\ r.size = s.size /\ r = [tab |-> t, size |-> s.size]
    BY <1>1, <1>5
  <2> HIDE DEF t, r
  <2>4. \A i \in 1 .. n - 1 : (IF i < p THEN i ELSE i + 1) \in 1 .. n
    BY <1>1
  <2>5. Unique(t)
    <3> SUFFICES ASSUME NEW i \in 1 .. n - 1, NEW j \in 1 .. n - 1, t[i].addr = t[j].addr
                 PROVE  i = j
      BY <2>2 DEF Unique
    <3> DEFINE f(k) == IF k < p THEN k ELSE k + 1
    <3>1. f(i) \in 1 .. n /\ f(j) \in 1 .. n
      BY <2>4
    <3>2. t[i] = s.tab[f(i)] /\ t[j] = s.tab[f(j)]
      BY <2>2
    <3>3. f(i) = f(j)
      <4> HIDE DEF f
      <4> QED BY <3>1, <3>2 DEF VisitOf, Unique
    <3> QED BY <3>3, <1>1
  <2>6. ASSUME NEW i \in 1 .. n - 1 PROVE \E j \in 1 .. Len(nbs) : t[i] = nbs[j]
    BY <2>2, <2>4 DEF VisitOf
  <2>7. s.size <= n - 1 /\ s.size <= p /\ n - 1 <= Len(nbs)
    BY <1>1, <1>2, <2>1
  <2> QED BY <1>1, <2>2, <2>3, <2>5, <2>6, <2>7 DEF VisitOf, Visited, r
<1> QED BY <1>1, <1>3, <1>4, <1>5 DEF Visit

LEMMA NeighborsLemma ==
    ASSUME NEW nbs \in Seq(Neighbor), Unique(nbs)
    PROVE  LET r == RebuildNeighbors(nbs) IN r \in Visited /\ VisitOf(nbs, Len(nbs), r)
<1> DEFINE n == Len(nbs)
           Solution(f) == f = [m \in 0 .. n |-> IF m = 0 THEN [tab |-> nbs, size |-> 0] ELSE Visit(f[m - 1], m)]
           found == CHOOSE f : Solution(f)
           good  == [m \in 0 .. n |-> {s \in Visited : VisitOf(nbs, m, s)}]
           step  == [x \in (1 .. n) \X Visited |-> Visit(x[2], x[1])]
<1>1. n \in Nat
  OBVIOUS
<1>2. 0 \in 0 .. n /\ \A m \in 1 .. n : m \in 0 .. n /\ m - 1 \in 0 .. n /\ m # 0
  BY <1>1
<1>3. [tab |-> nbs, size |-> 0] \in good[0]
  <2>1. VisitOf(nbs, 0, [tab |-> nbs, size |-> 0])
    BY DEF VisitOf
  <2>2. [tab |-> nbs, size |-> 0] \in Visited
    BY DEF Visited
  <2> QED BY <1>2, <2>1, <2>2
<1>4. ASSUME NEW m \in 1 .. n, NEW s \in good[m - 1] PROVE Visit(s, m) \in good[m]
  <2>1. s \in Visited /\ VisitOf(nbs, m - 1, s)
    BY <1>2, <1>4
  <2>2. Visit(s, m) \in Visited /\ VisitOf(nbs, m, Visit(s, m))
    BY <2>1, VisitLemma
  <2> QED BY <1>2, <2>2
<1> HIDE DEF n
<1>5. \A m \in 1 .. n : \A s \in good[m - 1] : step[<<m, s>>] = Visit(s, m)
  BY <1>2
<1>6. StepsIn(step, good, n)
  <2> HIDE DEF good, step
  <2> QED BY <1>4, <1>5 DEF StepsIn
<1>7. PICK g : Follows(g, good, [tab |-> nbs, size |-> 0], n, step)
  <2> HIDE DEF good, step
  <2> QED BY <1>1, <1>3, <1>6, Recursion, Zenon
<1>8. \A m \in 1 .. n : g[m] = Visit(g[m - 1], m)
  <2> HIDE DEF good, step
  <2> QED BY <1>2, <1>5, <1>7 DEF Follows
<1>9. Solution(g)
  <2> HIDE DEF good, step
  <2>1. \A m \in 0 .. n : g[m] = IF m = 0 THEN [tab |-> nbs, size |-> 0] ELSE Visit(g[m - 1], m)
    <3>1. \A m \in 0 .. n : m # 0 => m \in 1 .. n
      BY <1>1
    <3> QED BY <1>7, <1>8, <3>1 DEF Follows
  <2> QED BY <1>7, <2>1 DEF Follows
<1>10. Solution(found)
  <2> HIDE DEF Solution
  <2> QED BY <1>9, Zenon
<1>11. found[0] = [tab |-> nbs, size |-> 0] /\ \A m \in 1 .. n : found[m] = Visit(found[m - 1], m)
  <2> HIDE DEF found
  <2>1. \A m \in 0 .. n : found[m] = IF m = 0 THEN [tab |-> nbs, size |-> 0] ELSE Visit(found[m - 1], m)
    BY <1>10
  <2> HIDE DEF Solution
  <2> QED BY <1>2, <2>1
<1>12. \A m \in 0 .. n : found[m] \in good[m]
  <2> DEFINE P == {m \in 0 .. n : found[m] \in good[m]}
  <2> HIDE DEF found, good
  <2>1. 0 \in P
    BY <1>2, <1>3, <1>11
  <2>2. ASSUME NEW m \in 0 .. n - 1, m \in P PROVE m + 1 \in P
    <3>1. m + 1 \in 1 .. n /\ (m + 1) - 1 = m
      BY <1>1
    <3>2. found[m + 1] = Visit(found[m], m + 1)
      BY <1>11, <3>1
    <3>3. found[m] \in good[(m + 1) - 1]
      BY <2>2, <3>1
    <3>4. Visit(found[m], m + 1) \in good[m + 1]
      BY <1>4, <3>1, <3>3
    <3> QED BY <1>2, <3>1, <3>2, <3>4
  <2> HIDE DEF P
  <2>3. \A m \in 0 .. n : m \in P
    BY <1>1, <2>1, <2>2, UptoInduction
  <2> QED BY <2>3 DEF P
<1>13. RebuildNeighbors(nbs) = found[n]
  BY DEF RebuildNeighbors, n
<1>14. found[n] \in Visited /\ VisitOf(nbs, n, found[n])
  <2>1. n \in 0 .. n
    BY <1>1
  <2> HIDE DEF found
  <2> QED BY <1>12, <2>1
<1> QED BY <1>13, <1>14 DEF n

-----------------------------------------------------------------------------
(* DLL_RebuildConnections and DLL_RebuildHashGraphs.                       *)

Sorted(s) == \A i, j \in 1 .. Len(s) : i < j => ~ Before(s[j], s[i])

LEMMA ConnectionNumbers ==
    ASSUME NEW c \in Connection
    PROVE  c.graph \in Nat /\ c.nbr \in Nat
<1>1. c.graph \in Graphs \union Superframes /\ c.nbr \in Nicknames \union {Broadcast}
  BY DEF Connection
<1>2. Broadcast \in Nat
  BY DEF Broadcast
<1> QED BY <1>1, <1>2, NumbersAssumption

LEMMA BeforeOrder ==
    ASSUME NEW c \in Connection, NEW d \in Connection, NEW e \in Connection, Before(c, d)
    PROVE  ~ Before(d, c) /\ (~ Before(e, d) => ~ Before(e, c))
<1>1. /\ c.graph \in Nat /\ c.nbr \in Nat /\ d.graph \in Nat /\ d.nbr \in Nat
      /\ e.graph \in Nat /\ e.nbr \in Nat
  BY ConnectionNumbers
<1> QED BY <1>1 DEF Before

LEMMA InsertedLemma ==
    ASSUME NEW s \in Seq(Connection), Sorted(s), NEW c \in Connection
    PROVE  /\ Inserted(s, c) \in Seq(Connection) /\ Len(Inserted(s, c)) = Len(s) + 1
           /\ Sorted(Inserted(s, c))
<1> DEFINE I == {i \in 1 .. Len(s) : Before(c, s[i])}
           k == SelectInSeq(s, LAMBDA d : Before(c, d))
           r == Inserted(s, c)
<1>1. k = IF I # {} THEN Min(I) ELSE 0
  BY DEF SelectInSeq
<1>2. r = IF k = 0 THEN Append(s, c) ELSE InsertAt(s, k, c)
  BY DEF Inserted
<1>3. I \subseteq Nat /\ Len(s) \in Nat
  OBVIOUS
<1> HIDE DEF k, r
<1>4. CASE I = {}
  <2>1. r = Append(s, c)
    BY <1>1, <1>2, <1>4
  <2>2. /\ r \in Seq(Connection) /\ Len(r) = Len(s) + 1 /\ r[Len(s) + 1] = c
        /\ \A i \in 1 .. Len(s) : r[i] = s[i]
    BY <2>1
  <2>3. ASSUME NEW i \in 1 .. Len(r), NEW j \in 1 .. Len(r), i < j
        PROVE  ~ Before(r[j], r[i])
    <3>1. i \in 1 .. Len(s)
      BY <1>3, <2>2, <2>3
    <3>2. CASE j \in 1 .. Len(s)
      BY <2>2, <2>3, <3>1, <3>2 DEF Sorted
    <3>3. CASE j = Len(s) + 1
      BY <1>4, <2>2, <3>1, <3>3
    <3>4. j \in 1 .. Len(s) \/ j = Len(s) + 1
      BY <1>3, <2>2
    <3> QED BY <3>2, <3>3, <3>4
  <2> QED BY <2>2, <2>3 DEF Sorted, r
<1>5. CASE I # {}
  <2>1. k \in I /\ \A i \in I : k <= i
    BY <1>1, <1>3, <1>5, LeastOf
  <2>2. k \in 1 .. Len(s) /\ Before(c, s[k])
    BY <2>1
  <2>3. \A i \in 1 .. Len(s) : i < k => ~ Before(c, s[i])
    BY <2>1, <2>2
  <2>4. r = InsertAt(s, k, c)
    BY <1>2, <2>2
  <2>5. /\ r \in Seq(Connection) /\ Len(r) = Len(s) + 1
        /\ \A i \in 1 .. Len(s) + 1 :
              r[i] = IF i < k THEN s[i] ELSE IF i = k THEN c ELSE s[i - 1]
    BY <2>2, <2>4, InsertLemma
  <2>6. ASSUME NEW i \in 1 .. Len(r), NEW j \in 1 .. Len(r), i < j
        PROVE  ~ Before(r[j], r[i])
    <3>1. CASE j < k
      <4>1. r[j] = s[j] /\ r[i] = s[i] /\ i \in 1 .. Len(s) /\ j \in 1 .. Len(s)
        BY <1>3, <2>2, <2>5, <2>6, <3>1
      <4> QED BY <2>6, <4>1 DEF Sorted
    <3>2. CASE j = k
      <4>1. r[j] = c /\ r[i] = s[i] /\ i \in 1 .. Len(s) /\ i < k
        BY <1>3, <2>2, <2>5, <2>6, <3>2
      <4> QED BY <2>3, <4>1
    <3>3. CASE j > k /\ i = k
      <4>1. r[j] = s[j - 1] /\ r[i] = c /\ j - 1 \in 1 .. Len(s) /\ j - 1 >= k
        BY <1>3, <2>2, <2>5, <3>3
      <4>2. s[k] \in Connection /\ s[j - 1] \in Connection
        BY <2>2, <4>1
      <4>3. CASE j - 1 = k
        BY <2>2, <4>1, <4>2, <4>3, BeforeOrder
      <4>4. CASE j - 1 > k
        <5>1. ~ Before(s[j - 1], s[k])
          BY <2>2, <4>1, <4>4 DEF Sorted
        <5> QED BY <2>2, <4>1, <4>2, <5>1, BeforeOrder
      <4>5. j - 1 = k \/ j - 1 > k
        BY <4>1, <2>2
      <4> QED BY <4>3, <4>4, <4>5
    <3>4. CASE j > k /\ i < k
      <4>1. r[j] = s[j - 1] /\ r[i] = s[i] /\ j - 1 \in 1 .. Len(s) /\ i \in 1 .. Len(s)
            /\ i < j - 1
        BY <1>3, <2>2, <2>5, <3>4
      <4> QED BY <4>1 DEF Sorted
    <3>5. CASE j > k /\ i > k
      <4>1. r[j] = s[j - 1] /\ r[i] = s[i - 1] /\ j - 1 \in 1 .. Len(s)
            /\ i - 1 \in 1 .. Len(s) /\ i - 1 < j - 1
        BY <1>3, <2>2, <2>5, <2>6, <3>5
      <4> QED BY <4>1 DEF Sorted
    <3>6. i \in Nat /\ j \in Nat /\ k \in Nat
      BY <1>3, <2>2
    <3> QED BY <3>1, <3>2, <3>3, <3>4, <3>5, <3>6
  <2> QED BY <2>5, <2>6 DEF Sorted, r
<1> QED BY <1>4, <1>5

SortedUpto(cs, size) == \A i, j \in 1 .. size : i < j => ~ Before(cs[j], cs[i])

LEMMA ConnectionsLemma ==
    ASSUME NEW cs \in Seq(Connection), NEW size \in 0 .. Len(cs), SortedUpto(cs, size)
    PROVE  /\ RebuildConnections(cs, size) \in Seq(Connection)
           /\ Sorted(RebuildConnections(cs, size))
           /\ Len(RebuildConnections(cs, size)) <= Len(cs)
<1> DEFINE front == SubSeq(cs, 1, size)
           back  == SubSeq(cs, size + 1, Len(cs))
           old   == Undeleted(front)
           new   == Undeleted(back)
           n == Len(new)
           Solution(f) == f = [m \in 0 .. n |-> IF m = 0 THEN old ELSE Inserted(f[m - 1], new[m])]
           found == CHOOSE f : Solution(f)
           good  == [m \in 0 .. n |-> {s \in Seq(Connection) : Sorted(s) /\ Len(s) = Len(old) + m}]
           step  == [x \in (1 .. n) \X Seq(Connection) |-> Inserted(x[2], new[x[1]])]
<1>b. /\ front \in Seq(Connection) /\ Len(front) = size
      /\ \A i \in 1 .. size : front[i] = cs[i]
      /\ back \in Seq(Connection) /\ Len(back) = Len(cs) - size
      /\ Len(cs) \in Nat /\ size \in Nat
  OBVIOUS
<1>a. /\ old \in Seq(Connection) /\ KeptOf(front, size, old)
      /\ new \in Seq(Connection) /\ KeptOf(back, Len(cs) - size, new)
      /\ Len(old) \in Nat /\ Len(new) \in Nat
  <2> HIDE DEF front, back
  <2>1. old \in Seq(Connection) /\ KeptOf(front, Len(front), old)
    BY <1>b, UndeletedLemma
  <2>2. new \in Seq(Connection) /\ KeptOf(back, Len(back), new)
    BY <1>b, UndeletedLemma
  <2> QED BY <1>b, <2>1, <2>2
<1>c. Sorted(old)
  <2> HIDE DEF front, old
  <2> SUFFICES ASSUME NEW i \in 1 .. Len(old), NEW j \in 1 .. Len(old), i < j
               PROVE  ~ Before(old[j], old[i])
    BY DEF Sorted
  <2>1. PICK h \in 1 .. size, k \in 1 .. size : h < k /\ old[i] = front[h] /\ old[j] = front[k]
    BY <1>a DEF KeptOf
  <2> QED BY <1>b, <2>1 DEF SortedUpto
<1>1. n \in Nat
  BY <1>a
<1>2. 0 \in 0 .. n /\ \A m \in 1 .. n : m \in 0 .. n /\ m - 1 \in 0 .. n /\ m # 0
  BY <1>1
<1>3. old \in good[0]
  <2> HIDE DEF old, new
  <2>1. old \in Seq(Connection) /\ Sorted(old) /\ Len(old) = Len(old) + 0
    BY <1>a, <1>c
  <2> QED BY <1>2, <2>1
<1>4. ASSUME NEW m \in 1 .. n, NEW s \in good[m - 1] PROVE Inserted(s, new[m]) \in good[m]
  <2> HIDE DEF old, new
  <2>1. /\ s \in Seq(Connection) /\ Sorted(s) /\ Len(s) = Len(old) + (m - 1)
        /\ new[m] \in Connection
    <3>1. m - 1 \in 0 .. n
      BY <1>2
    <3>2. s \in Seq(Connection) /\ Sorted(s) /\ Len(s) = Len(old) + (m - 1)
      BY <1>4, <3>1
    <3>3. new[m] \in Connection
      BY <1>a
    <3> QED BY <3>2, <3>3
  <2>2. /\ Inserted(s, new[m]) \in Seq(Connection) /\ Sorted(Inserted(s, new[m]))
        /\ Len(Inserted(s, new[m])) = Len(s) + 1
    BY <2>1, InsertedLemma
  <2>3. Len(Inserted(s, new[m])) = Len(old) + m
    BY <1>a, <1>1, <2>1, <2>2
  <2> QED BY <1>2, <2>2, <2>3
<1> HIDE DEF n
<1>5. \A m \in 1 .. n : \A s \in good[m - 1] : step[<<m, s>>] = Inserted(s, new[m])
  BY <1>2
<1>6. StepsIn(step, good, n)
  <2> HIDE DEF good, step
  <2> QED BY <1>4, <1>5 DEF StepsIn
<1>7. PICK g : Follows(g, good, old, n, step)
  <2> HIDE DEF good, step
  <2> QED BY <1>1, <1>3, <1>6, Recursion, Zenon
<1>8. \A m \in 1 .. n : g[m] = Inserted(g[m - 1], new[m])
  <2> HIDE DEF good, step
  <2> QED BY <1>2, <1>5, <1>7 DEF Follows
<1>9. Solution(g)
  <2> HIDE DEF good, step
  <2>1. \A m \in 0 .. n : g[m] = IF m = 0 THEN old ELSE Inserted(g[m - 1], new[m])
    <3>1. \A m \in 0 .. n : m # 0 => m \in 1 .. n
      BY <1>1
    <3> QED BY <1>7, <1>8, <3>1 DEF Follows
  <2> QED BY <1>7, <2>1 DEF Follows
<1>10. Solution(found)
  <2> HIDE DEF Solution
  <2> QED BY <1>9, Zenon
<1>11. found[0] = old /\ \A m \in 1 .. n : found[m] = Inserted(found[m - 1], new[m])
  <2> HIDE DEF found
  <2>1. \A m \in 0 .. n : found[m] = IF m = 0 THEN old ELSE Inserted(found[m - 1], new[m])
    BY <1>10
  <2> HIDE DEF Solution
  <2> QED BY <1>2, <2>1
<1>12. \A m \in 0 .. n : found[m] \in good[m]
  <2> DEFINE P == {m \in 0 .. n : found[m] \in good[m]}
  <2> HIDE DEF found, good
  <2>1. 0 \in P
    BY <1>2, <1>3, <1>11
  <2>2. ASSUME NEW m \in 0 .. n - 1, m \in P PROVE m + 1 \in P
    <3>1. m + 1 \in 1 .. n /\ (m + 1) - 1 = m
      BY <1>1
    <3>2. found[m + 1] = Inserted(found[m], new[m + 1])
      BY <1>11, <3>1
    <3>3. found[m] \in good[(m + 1) - 1]
      BY <2>2, <3>1
    <3>4. Inserted(found[m], new[m + 1]) \in good[m + 1]
      BY <1>4, <3>1, <3>3
    <3> QED BY <1>2, <3>1, <3>2, <3>4
  <2> HIDE DEF P
  <2>3. \A m \in 0 .. n : m \in P
    BY <1>1, <2>1, <2>2, UptoInduction
  <2> QED BY <2>3 DEF P
<1>13. RebuildConnections(cs, size) = found[n]
  BY DEF RebuildConnections, n
<1>14. found[n] \in Seq(Connection) /\ Sorted(found[n]) /\ Len(found[n]) = Len(old) + n
  <2>1. n \in 0 .. n
    BY <1>1
  <2> HIDE DEF found
  <2> QED BY <1>12, <2>1
<1>15. Len(old) + Len(new) <= Len(cs)
  <2> HIDE DEF front, back, old, new
  <2>1. Len(old) <= size /\ Len(new) <= Len(cs) - size
    BY <1>a DEF KeptOf
  <2> QED BY <1>a, <1>b, <2>1
<1> HIDE DEF old, new, found
<1> QED BY <1>13, <1>14, <1>15 DEF n

Group == [graph : Graphs \union Superframes, idx : Nat, len : Nat]
Members(g) == g.idx .. g.idx + g.len - 1

\* h is the hash of the first n connections.
HashOf(cs, n, h) ==
    /\ n = 0 => Len(h) = 0
    /\ n # 0 => Len(h) # 0 /\ h[Len(h)].idx + h[Len(h)].len = n + 1
    /\ \A k \in 1 .. Len(h) : h[k].idx >= 1 /\ h[k].len >= 1 /\ h[k].idx + h[k].len <= n + 1
    /\ \A k \in 1 .. Len(h) : \A i \in Members(h[k]) : cs[i].graph = h[k].graph
    /\ \A i \in 1 .. n : \E k \in 1 .. Len(h) : i \in Members(h[k])
    /\ \A k, m \in 1 .. Len(h) : k < m => h[k].graph < h[m].graph

LEMMA LongerLemma ==
    ASSUME NEW g \in Group
    PROVE  LET e == [g EXCEPT !.len = @ + 1] IN
           e \in Group /\ e.graph = g.graph /\ e.idx = g.idx /\ e.len = g.len + 1
<1>1. g.graph \in Graphs \union Superframes /\ g.idx \in Nat /\ g.len \in Nat
  BY DEF Group
<1>2. [g EXCEPT !.len = @ + 1] = [graph |-> g.graph, idx |-> g.idx, len |-> g.len + 1]
  BY DEF Group
<1> QED BY <1>1, <1>2 DEF Group

LEMMA HashGraphLemma ==
    ASSUME NEW cs \in Seq(Connection), Sorted(cs), NEW n \in 1 .. Len(cs),
           NEW h \in Seq(Group), HashOf(cs, n - 1, h)
    PROVE  HashGraph(cs, h, n) \in Seq(Group) /\ HashOf(cs, n, HashGraph(cs, h, n))
<1> DEFINE r == HashGraph(cs, h, n)
           l == Len(h)
<1>1. /\ n \in Nat /\ n >= 1 /\ l \in Nat /\ Len(cs) \in Nat
      /\ cs[n] \in Connection /\ cs[n].graph \in Graphs \union Superframes
      /\ cs[n].graph \in Nat
  <2>1. cs[n] \in Connection
    OBVIOUS
  <2>2. cs[n].graph \in Graphs \union Superframes /\ cs[n].graph \in Nat
    BY <2>1, ConnectionNumbers DEF Connection
  <2> QED BY <2>1, <2>2
<1>2. \A k \in 1 .. l : /\ h[k] \in Group /\ h[k].idx \in Nat /\ h[k].len \in Nat
                        /\ h[k].graph \in Nat
  <2>1. \A k \in 1 .. l : h[k] \in Group
    OBVIOUS
  <2> HIDE DEF l
  <2> QED BY <2>1, NumbersAssumption DEF Group
<1>3. \A k \in 1 .. l : /\ h[k].idx >= 1 /\ h[k].len >= 1 /\ h[k].idx + h[k].len <= n
                        /\ \A i \in Members(h[k]) : cs[i].graph = h[k].graph
  BY <1>1, <1>2 DEF HashOf
<1>4. \A i \in 1 .. n - 1 : \E k \in 1 .. l : i \in Members(h[k])
  BY DEF HashOf
<1>5. \A k, m \in 1 .. l : k < m => h[k].graph < h[m].graph
  BY DEF HashOf
<1>6. l # 0 => h[l].idx + h[l].len = n
  <2>1. l # 0 => n - 1 # 0
    BY <1>1 DEF HashOf
  <2>2. n - 1 # 0 => h[l].idx + h[l].len = (n - 1) + 1
    BY DEF HashOf
  <2> QED BY <1>1, <2>1, <2>2
<1>7. n # 1 => l # 0
  BY <1>1 DEF HashOf
<1>8. h = <<>> <=> l = 0
  OBVIOUS
<1> HIDE DEF l
<1>9. CASE l # 0 /\ h[l].graph = cs[n].graph
  <2> DEFINE e == [h[l] EXCEPT !.len = @ + 1]
  <2>1. r = [h EXCEPT ![l] = e]
    BY <1>8, <1>9 DEF HashGraph, Last, l
  <2>2. l \in 1 .. l
    BY <1>1, <1>9
  <2>3. /\ e \in Group /\ e.graph = h[l].graph /\ e.idx = h[l].idx
        /\ e.len = h[l].len + 1
    <3>1. h[l] \in Group
      BY <1>2, <2>2
    <3> QED BY <3>1, LongerLemma, Zenon
  <2> HIDE DEF e, r
  <2>4. /\ r \in Seq(Group) /\ Len(r) = l
        /\ r[l] = e /\ \A k \in 1 .. l : k # l => r[k] = h[k]
    <3>1. h \in Seq(Group) /\ l = Len(h)
      BY DEF l
    <3> QED BY <2>1, <2>2, <2>3, <3>1
  <2>5. \A k \in 1 .. l : r[k].graph = h[k].graph /\ r[k].idx = h[k].idx
    BY <2>3, <2>4
  <2>6. /\ Members(e) = Members(h[l]) \union {n}
        /\ \A k \in 1 .. l : k # l => Members(r[k]) = Members(h[k])
    <3>1. h[l].idx \in Nat /\ h[l].len \in Nat /\ h[l].idx + h[l].len = n /\ h[l].len >= 1
      BY <1>2, <1>3, <1>6, <1>9, <2>2
    <3>2. e.idx .. e.idx + e.len - 1 = (h[l].idx .. h[l].idx + h[l].len - 1) \union {n}
      <4> DEFINE a == h[l].idx
                 b == h[l].len
      <4>1. a \in Nat /\ b \in Nat /\ b >= 1 /\ a + b = n
        BY <3>1
      <4> HIDE DEF a, b
      <4>2. a .. a + (b + 1) - 1 = (a .. a + b - 1) \union {n}
        BY <4>1
      <4> QED BY <2>3, <4>2 DEF a, b
    <3>3. \A k \in 1 .. l : k # l => Members(r[k]) = Members(h[k])
      BY <2>4
    <3> QED BY <3>2, <3>3 DEF Members
  <2>7. l # 0 /\ r[l].idx + r[l].len = n + 1
    <3>1. h[l].idx \in Nat /\ h[l].len \in Nat /\ h[l].idx + h[l].len = n
      BY <1>2, <1>6, <1>9, <2>2
    <3>2. h[l].idx + (h[l].len + 1) = n + 1
      <4> DEFINE a == h[l].idx
                 b == h[l].len
      <4>1. a \in Nat /\ b \in Nat /\ a + b = n
        BY <3>1
      <4> HIDE DEF a, b
      <4>2. a + (b + 1) = n + 1
        BY <4>1
      <4> QED BY <4>2 DEF a, b
    <3> QED BY <1>9, <2>3, <2>4, <3>2
  <2>8. ASSUME NEW k \in 1 .. l
        PROVE  r[k].idx >= 1 /\ r[k].len >= 1 /\ r[k].idx + r[k].len <= n + 1
    <3>1. CASE k = l
      <4>1. h[l].len \in Nat /\ h[l].idx >= 1
        BY <1>2, <1>3, <2>2
      <4>2. r[k].idx = h[l].idx /\ r[k].len = h[l].len + 1
        BY <2>3, <2>4, <3>1
      <4>3. h[l].len + 1 >= 1
        BY <4>1
      <4>4. r[k].idx + r[k].len = n + 1 /\ n + 1 <= n + 1
        BY <1>1, <2>7, <3>1
      <4> QED BY <4>1, <4>2, <4>3, <4>4
    <3>2. CASE k # l
      <4>1. r[k] = h[k] /\ h[k].idx + h[k].len <= n
        BY <1>3, <2>4, <3>2
      <4> QED BY <1>1, <1>2, <1>3, <4>1
    <3> QED BY <3>1, <3>2
  <2>9. ASSUME NEW k \in 1 .. l, NEW i \in Members(r[k])
        PROVE  cs[i].graph = r[k].graph
    <3>1. CASE k = l
      <4>1. i \in Members(h[l]) \/ i = n
        BY <2>4, <2>6, <2>9, <3>1
      <4> QED BY <1>3, <1>9, <2>2, <2>5, <3>1, <4>1
    <3>2. CASE k # l
      BY <1>3, <2>5, <2>6, <2>9, <3>2
    <3> QED BY <3>1, <3>2
  <2>10. ASSUME NEW i \in 1 .. n PROVE \E k \in 1 .. l : i \in Members(r[k])
    <3>1. CASE i = n
      BY <2>2, <2>4, <2>6, <3>1
    <3>2. CASE i # n
      <4>1. PICK k \in 1 .. l : i \in Members(h[k])
        BY <1>1, <1>4, <3>2
      <4>2. i \in Members(r[k])
        BY <2>4, <2>6, <4>1
      <4> QED BY <4>2
    <3> QED BY <3>1, <3>2
  <2>11. \A k, m \in 1 .. l : k < m => r[k].graph < r[m].graph
    BY <1>5, <2>5
  <2>12. HashOf(cs, n, r)
    <3>1. n # 0
      BY <1>1
    <3> QED BY <2>4, <2>7, <2>8, <2>9, <2>10, <2>11, <3>1 DEF HashOf
  <2> QED BY <2>4, <2>12 DEF r
<1>10. CASE ~ (l # 0 /\ h[l].graph = cs[n].graph)
  <2> DEFINE e == [graph |-> cs[n].graph, idx |-> n, len |-> 1]
  <2>1. r = Append(h, e)
    BY <1>8, <1>10 DEF HashGraph, Last, l
  <2>2. /\ e \in Group /\ e.graph = cs[n].graph /\ e.idx = n /\ e.len = 1
    BY <1>1 DEF Group
  <2> HIDE DEF e, r
  <2>3. /\ r \in Seq(Group) /\ Len(r) = l + 1
        /\ r[l + 1] = e /\ \A k \in 1 .. l : r[k] = h[k]
    <3>1. h \in Seq(Group) /\ l = Len(h)
      BY DEF l
    <3> QED BY <2>1, <2>2, <3>1
  <2>4. Members(e) = {n}
    BY <1>1, <2>2 DEF Members
  <2>5. \A k \in 1 .. l + 1 : k \in 1 .. l \/ k = l + 1
    BY <1>1
  <2>6. ASSUME NEW k \in 1 .. l PROVE h[k].graph < cs[n].graph
    <3>1. l # 0 /\ l \in 1 .. l
      BY <1>1
    <3>2. h[l].idx + h[l].len = n /\ h[l].len >= 1 /\ h[l].idx >= 1
      BY <1>3, <1>6, <3>1
    <3>3. n - 1 \in Members(h[l])
      BY <1>1, <1>2, <3>1, <3>2 DEF Members
    <3>4. cs[n - 1].graph = h[l].graph
      BY <1>3, <3>1, <3>3
    <3>5. n - 1 \in 1 .. Len(cs) /\ n - 1 < n
      BY <1>1, <1>2, <3>1, <3>2
    <3>6. ~ Before(cs[n], cs[n - 1])
      BY <3>5 DEF Sorted
    <3>7. h[l].graph \in Nat /\ ~ (cs[n].graph < h[l].graph)
      BY <1>2, <3>1, <3>4, <3>6 DEF Before
    <3>8. h[l].graph < cs[n].graph
      BY <1>1, <1>10, <3>1, <3>7
    <3>9. k = l \/ h[k].graph < h[l].graph
      BY <1>1, <1>5, <3>1
    <3> QED BY <1>1, <1>2, <3>1, <3>8, <3>9
  <2>7. r[l + 1].idx + r[l + 1].len = n + 1 /\ l + 1 # 0
    BY <1>1, <2>2, <2>3
  <2>8. ASSUME NEW k \in 1 .. l + 1
        PROVE  r[k].idx >= 1 /\ r[k].len >= 1 /\ r[k].idx + r[k].len <= n + 1
    <3>1. CASE k = l + 1
      BY <1>1, <2>2, <2>3, <3>1
    <3>2. CASE k \in 1 .. l
      <4>1. r[k] = h[k] /\ h[k].idx + h[k].len <= n
        BY <1>3, <2>3, <3>2
      <4> QED BY <1>1, <1>2, <1>3, <3>2, <4>1
    <3> QED BY <2>5, <3>1, <3>2
  <2>9. ASSUME NEW k \in 1 .. l + 1, NEW i \in Members(r[k])
        PROVE  cs[i].graph = r[k].graph
    <3>1. CASE k = l + 1
      BY <2>2, <2>3, <2>4, <2>9, <3>1
    <3>2. CASE k \in 1 .. l
      BY <1>3, <2>3, <2>9, <3>2
    <3> QED BY <2>5, <3>1, <3>2
  <2>10. ASSUME NEW i \in 1 .. n PROVE \E k \in 1 .. l + 1 : i \in Members(r[k])
    <3>1. l + 1 \in 1 .. l + 1 /\ 1 .. l \subseteq 1 .. l + 1
      BY <1>1
    <3>2. CASE i = n
      BY <2>3, <2>4, <3>1, <3>2
    <3>3. CASE i # n
      <4>1. PICK k \in 1 .. l : i \in Members(h[k])
        BY <1>1, <1>4, <3>3
      <4> QED BY <2>3, <3>1, <4>1
    <3> QED BY <3>2, <3>3
  <2>11. ASSUME NEW k \in 1 .. l + 1, NEW m \in 1 .. l + 1, k < m
         PROVE  r[k].graph < r[m].graph
    <3>1. k \in 1 .. l
      BY <1>1, <2>11
    <3>2. CASE m \in 1 .. l
      BY <1>5, <2>3, <2>11, <3>1, <3>2
    <3>3. CASE m = l + 1
      BY <2>2, <2>3, <2>6, <3>1, <3>3
    <3> QED BY <2>5, <3>2, <3>3
  <2>12. HashOf(cs, n, r)
    <3>1. n # 0
      BY <1>1
    <3> QED BY <2>3, <2>7, <2>8, <2>9, <2>10, <2>11, <3>1 DEF HashOf
  <2> QED BY <2>3, <2>12 DEF r
<1> QED BY <1>9, <1>10

LEMMA HashGraphsLemma ==
    ASSUME NEW cs \in Seq(Connection), Sorted(cs)
    PROVE  /\ RebuildHashGraphs(cs) \in Seq(Group)
           /\ HashOf(cs, Len(cs), RebuildHashGraphs(cs))
<1> DEFINE n == Len(cs)
           Solution(f) == f = [m \in 0 .. n |-> IF m = 0 THEN <<>> ELSE HashGraph(cs, f[m - 1], m)]
           found == CHOOSE f : Solution(f)
           good  == [m \in 0 .. n |-> {s \in Seq(Group) : HashOf(cs, m, s)}]
           step  == [x \in (1 .. n) \X Seq(Group) |-> HashGraph(cs, x[2], x[1])]
<1>1. n \in Nat
  OBVIOUS
<1>2. 0 \in 0 .. n /\ \A m \in 1 .. n : m \in 0 .. n /\ m - 1 \in 0 .. n /\ m # 0
  BY <1>1
<1>3. <<>> \in good[0]
  <2>1. HashOf(cs, 0, <<>>) /\ <<>> \in Seq(Group)
    BY DEF HashOf
  <2> QED BY <1>2, <2>1
<1>4. ASSUME NEW m \in 1 .. n, NEW s \in good[m - 1] PROVE HashGraph(cs, s, m) \in good[m]
  <2>1. s \in Seq(Group) /\ HashOf(cs, m - 1, s)
    BY <1>2, <1>4
  <2>2. HashGraph(cs, s, m) \in Seq(Group) /\ HashOf(cs, m, HashGraph(cs, s, m))
    BY <2>1, HashGraphLemma
  <2> QED BY <1>2, <2>2
<1> HIDE DEF n
<1>5. \A m \in 1 .. n : \A s \in good[m - 1] : step[<<m, s>>] = HashGraph(cs, s, m)
  BY <1>2
<1>6. StepsIn(step, good, n)
  <2> HIDE DEF good, step
  <2> QED BY <1>4, <1>5 DEF StepsIn
<1>7. PICK g : Follows(g, good, <<>>, n, step)
  <2> HIDE DEF good, step
  <2> QED BY <1>1, <1>3, <1>6, Recursion, Zenon
<1>8. \A m \in 1 .. n : g[m] = HashGraph(cs, g[m - 1], m)
  <2> HIDE DEF good, step
  <2> QED BY <1>2, <1>5, <1>7 DEF Follows
<1>9. Solution(g)
  <2> HIDE DEF good, step
  <2>1. \A m \in 0 .. n : g[m] = IF m = 0 THEN <<>> ELSE HashGraph(cs, g[m - 1], m)
    <3>1. \A m \in 0 .. n : m # 0 => m \in 1 .. n
      BY <1>1
    <3> QED BY <1>7, <1>8, <3>1 DEF Follows
  <2> QED BY <1>7, <2>1 DEF Follows
<1>10. Solution(found)
  <2> HIDE DEF Solution
  <2> QED BY <1>9, Zenon
<1>11. found[0] = <<>> /\ \A m \in 1 .. n : found[m] = HashGraph(cs, found[m - 1], m)
  <2> HIDE DEF found
  <2>1. \A m \in 0 .. n : found[m] = IF m = 0 THEN <<>> ELSE HashGraph(cs, found[m - 1], m)
    BY <1>10
  <2> HIDE DEF Solution
  <2> QED BY <1>2, <2>1
<1>12. \A m \in 0 .. n : found[m] \in good[m]
  <2> DEFINE P == {m \in 0 .. n : found[m] \in good[m]}
  <2> HIDE DEF found, good
  <2>1. 0 \in P
    BY <1>2, <1>3, <1>11
  <2>2. ASSUME NEW m \in 0 .. n - 1, m \in P PROVE m + 1 \in P
    <3>1. m + 1 \in 1 .. n /\ (m + 1) - 1 = m
      BY <1>1
    <3>2. found[m + 1] = HashGraph(cs, found[m], m + 1)
      BY <1>11, <3>1
    <3>3. found[m] \in good[(m + 1) - 1]
      BY <2>2, <3>1
    <3>4. HashGraph(cs, found[m], m + 1) \in good[m + 1]
      BY <1>4, <3>1, <3>3
    <3> QED BY <1>2, <3>1, <3>2, <3>4
  <2> HIDE DEF P
  <2>3. \A m \in 0 .. n : m \in P
    BY <1>1, <2>1, <2>2, UptoInduction
  <2> QED BY <2>3 DEF P
<1>13. RebuildHashGraphs(cs) = found[n]
  BY DEF RebuildHashGraphs, n
<1>14. found[n] \in Seq(Group) /\ HashOf(cs, n, found[n])
  <2>1. n \in 0 .. n
    BY <1>1
  <2> HIDE DEF found
  <2> QED BY <1>12, <2>1
<1> QED BY <1>13, <1>14 DEF n

-----------------------------------------------------------------------------
(* DLL_RebuildHashLinks and the connections of a route on a superframe.    *)

\* What the hash may say of a link that is served.
HashEntries(sfs, ls, nbs) ==
    {HashLink(sfs, ls, nbs, i) : i \in {j \in 1 .. Len(ls) : Served(sfs, ls[j])}}

HashStep(sfs, ls, nbs, s, i) ==
    IF ~Served(sfs, ls[i]) THEN s ELSE HashInserted(s, ls, HashLink(sfs, ls, nbs, i))

LEMMA HashInsertedLemma ==
    ASSUME NEW E, NEW ls, NEW s \in Seq(E), NEW h \in E
    PROVE  HashInserted(s, ls, h) \in Seq(E)
<1> DEFINE I == {i \in 1 .. Len(s) : ls[h.link].sf < ls[s[i].link].sf}
           k == SelectInSeq(s, LAMBDA g : ls[h.link].sf < ls[g.link].sf)
<1>1. k = IF I # {} THEN Min(I) ELSE 0
  BY DEF SelectInSeq
<1>2. I \subseteq 1 .. Len(s) /\ I \in SUBSET Nat
  OBVIOUS
<1> HIDE DEF I
<1>3. I # {} => Min(I) \in I
  BY <1>2, LeastOf
<1>4. k = 0 \/ k \in 1 .. Len(s)
  <2> HIDE DEF k
  <2> QED BY <1>1, <1>2, <1>3
<1>5. HashInserted(s, ls, h) = IF k = 0 THEN Append(s, h) ELSE InsertAt(s, k, h)
  BY DEF HashInserted
<1> HIDE DEF k
<1>6. CASE k = 0
  BY <1>5, <1>6
<1>7. CASE k \in 1 .. Len(s)
  <2>1. InsertAt(s, k, h) \in Seq(E) /\ k # 0
    BY <1>7, InsertLemma
  <2> QED BY <1>5, <2>1
<1> QED BY <1>4, <1>6, <1>7

LEMMA HashLinksLemma ==
    ASSUME NEW sfs, NEW ls \in Seq(Link), NEW nbs
    PROVE  RebuildHashLinks(sfs, ls, nbs) \in Seq(HashEntries(sfs, ls, nbs))
<1> DEFINE n == Len(ls)
           Solution(f) == f = [m \in 0 .. n |-> IF m = 0 THEN <<>> ELSE 
                       IF ~Served(sfs, ls[m]) THEN f[m - 1]
                       ELSE HashInserted(f[m - 1], ls, HashLink(sfs, ls, nbs, m))]
           found == CHOOSE f : Solution(f)
           good  == [m \in 0 .. n |-> {s \in Seq(HashEntries(sfs, ls, nbs)) : TRUE}]
           step  == [x \in (1 .. n) \X Seq(HashEntries(sfs, ls, nbs)) |-> HashStep(sfs, ls, nbs, x[2], x[1])]
<1>1. n \in Nat
  OBVIOUS
<1>2. 0 \in 0 .. n /\ \A m \in 1 .. n : m \in 0 .. n /\ m - 1 \in 0 .. n /\ m # 0
  BY <1>1
<1>3. <<>> \in good[0]
  BY <1>2
<1>4. ASSUME NEW m \in 1 .. n, NEW s \in good[m - 1] PROVE HashStep(sfs, ls, nbs, s, m) \in good[m]
  <2>1. s \in Seq(HashEntries(sfs, ls, nbs)) /\ m \in 1 .. Len(ls)
    BY <1>2, <1>4
  <2>2. Served(sfs, ls[m]) => HashLink(sfs, ls, nbs, m) \in HashEntries(sfs, ls, nbs)
    BY <2>1 DEF HashEntries
  <2>3. HashStep(sfs, ls, nbs, s, m) \in Seq(HashEntries(sfs, ls, nbs))
    <3>1. CASE Served(sfs, ls[m])
      BY <2>1, <2>2, <3>1, HashInsertedLemma, Zenon DEF HashStep
    <3>2. CASE ~Served(sfs, ls[m])
      BY <2>1, <3>2 DEF HashStep
    <3> QED BY <3>1, <3>2
  <2> QED BY <1>2, <2>3
<1> HIDE DEF n
<1>5. \A m \in 1 .. n : \A s \in good[m - 1] : step[<<m, s>>] = HashStep(sfs, ls, nbs, s, m)
  BY <1>2
<1>6. StepsIn(step, good, n)
  <2> HIDE DEF good, step
  <2> QED BY <1>4, <1>5 DEF StepsIn
<1>7. PICK g : Follows(g, good, <<>>, n, step)
  <2> HIDE DEF good, step
  <2> QED BY <1>1, <1>3, <1>6, Recursion, Zenon
<1>8. \A m \in 1 .. n : g[m] = HashStep(sfs, ls, nbs, g[m - 1], m)
  <2> HIDE DEF good, step
  <2> QED BY <1>2, <1>5, <1>7 DEF Follows
<1>9. Solution(g)
  <2> HIDE DEF good, step
  <2>1. \A m \in 0 .. n : g[m] = IF m = 0 THEN <<>> ELSE 
                       IF ~Served(sfs, ls[m]) THEN g[m - 1]
                       ELSE HashInserted(g[m - 1], ls, HashLink(sfs, ls, nbs, m))
    <3>1. \A m \in 0 .. n : m # 0 => m \in 1 .. n
      BY <1>1
    <3> QED BY <1>7, <1>8, <3>1 DEF Follows, HashStep
  <2> QED BY <1>7, <2>1 DEF Follows
<1>10. Solution(found)
  <2> HIDE DEF Solution
  <2> QED BY <1>9, Zenon
<1>11. found[0] = <<>> /\ \A m \in 1 .. n : found[m] = HashStep(sfs, ls, nbs, found[m - 1], m)
  <2> HIDE DEF found
  <2>1. \A m \in 0 .. n : found[m] = IF m = 0 THEN <<>> ELSE 
                       IF ~Served(sfs, ls[m]) THEN found[m - 1]
                       ELSE HashInserted(found[m - 1], ls, HashLink(sfs, ls, nbs, m))
    BY <1>10
  <2> HIDE DEF Solution
  <2> QED BY <1>2, <2>1 DEF HashStep
<1>12. \A m \in 0 .. n : found[m] \in good[m]
  <2> DEFINE P == {m \in 0 .. n : found[m] \in good[m]}
  <2> HIDE DEF found, good
  <2>1. 0 \in P
    BY <1>2, <1>3, <1>11
  <2>2. ASSUME NEW m \in 0 .. n - 1, m \in P PROVE m + 1 \in P
    <3>1. m + 1 \in 1 .. n /\ (m + 1) - 1 = m
      BY <1>1
    <3>2. found[m + 1] = HashStep(sfs, ls, nbs, found[m], m + 1)
      BY <1>11, <3>1
    <3>3. found[m] \in good[(m + 1) - 1]
      BY <2>2, <3>1
    <3>4. HashStep(sfs, ls, nbs, found[m], m + 1) \in good[m + 1]
      BY <1>4, <3>1, <3>3
    <3> QED BY <1>2, <3>1, <3>2, <3>4
  <2> HIDE DEF P
  <2>3. \A m \in 0 .. n : m \in P
    BY <1>1, <2>1, <2>2, UptoInduction
  <2> QED BY <2>3 DEF P
<1>13. RebuildHashLinks(sfs, ls, nbs) = found[n]
  BY DEF RebuildHashLinks, n
<1>14. found[n] \in Seq(HashEntries(sfs, ls, nbs)) /\ TRUE
  <2>1. n \in 0 .. n
    BY <1>1
  <2> HIDE DEF found
  <2> QED BY <1>12, <2>1
<1> QED BY <1>13, <1>14 DEF n

\* Entries are appended, none is moved, and what they connect stays.
ConnectionsGrown(s, t) ==
    /\ t \in Seq(Connection) /\ Len(s) <= Len(t) /\ Len(t) <= MaxConnections
    /\ \A i \in 1 .. Len(s) : t[i].graph = s[i].graph /\ t[i].nbr = s[i].nbr

LEMMA UnmarkConnection ==
    ASSUME NEW c \in Connection, NEW b \in BOOLEAN
    PROVE  LET d == [c EXCEPT !.deleted = b] IN
           d \in Connection /\ d.graph = c.graph /\ d.nbr = c.nbr
<1>1. /\ c.graph \in Graphs \union Superframes /\ c.nbr \in Nicknames \union {Broadcast}
      /\ [c EXCEPT !.deleted = b] = [graph |-> c.graph, nbr |-> c.nbr, deleted |-> b]
  BY DEF Connection
<1> QED BY <1>1 DEF Connection

LEMMA ConnectedLemma ==
    ASSUME NEW s \in Seq(Connection), NEW t, ConnectionsGrown(s, t),
           NEW g \in Graphs \union Superframes, NEW a \in Nicknames \union {Broadcast}
    PROVE  ConnectionsGrown(s, Connected(t, g, a))
<1> DEFINE k == FindConnection(t, g, a)
<1>1. t \in Seq(Connection) /\ Len(s) <= Len(t) /\ Len(t) <= MaxConnections
      /\ Len(s) \in Nat /\ Len(t) \in Nat /\ MaxConnections \in Nat
  BY SizeAssumption DEF ConnectionsGrown
<1>2. k \in 0 .. Len(t)
  BY <1>1, FirstConnection
<1> HIDE DEF k
<1>3. CASE k # 0
  <2> DEFINE e == [t[k] EXCEPT !.deleted = FALSE]
             r == [t EXCEPT ![k] = e]
  <2>1. k \in 1 .. Len(t) /\ t[k] \in Connection
    BY <1>1, <1>2, <1>3
  <2>2. e \in Connection /\ e.graph = t[k].graph /\ e.nbr = t[k].nbr
    BY <2>1, UnmarkConnection, Zenon
  <2>3. Connected(t, g, a) = r
    BY <1>3 DEF Connected, k
  <2> HIDE DEF e
  <2>4. /\ r \in Seq(Connection) /\ Len(r) = Len(t)
        /\ r[k] = e /\ \A i \in 1 .. Len(t) : i # k => r[i] = t[i]
    BY <1>1, <2>1, <2>2
  <2> HIDE DEF r
  <2>5. \A i \in 1 .. Len(t) : r[i].graph = t[i].graph /\ r[i].nbr = t[i].nbr
    BY <2>2, <2>4
  <2>6. \A i \in 1 .. Len(s) : i \in 1 .. Len(t)
    BY <1>1
  <2>7. ConnectionsGrown(s, r)
    BY <1>1, <2>4, <2>5, <2>6 DEF ConnectionsGrown
  <2> QED BY <2>3, <2>7
<1>4. CASE k = 0 /\ Len(t) < MaxConnections
  <2> DEFINE e == NewConnection(g, a)
             r == Append(t, e)
  <2>1. e \in Connection
    BY DEF NewConnection, Connection
  <2>2. Connected(t, g, a) = r
    BY <1>4 DEF Connected, k
  <2> HIDE DEF e
  <2>3. /\ r \in Seq(Connection) /\ Len(r) = Len(t) + 1
        /\ \A i \in 1 .. Len(t) : r[i] = t[i]
    BY <1>1, <2>1
  <2> HIDE DEF r
  <2>4. \A i \in 1 .. Len(s) : i \in 1 .. Len(t)
    BY <1>1
  <2>5. Len(r) <= MaxConnections /\ Len(s) <= Len(r)
    BY <1>1, <1>4, <2>3
  <2>6. ConnectionsGrown(s, r)
    BY <2>3, <2>4, <2>5 DEF ConnectionsGrown
  <2> QED BY <2>2, <2>6
<1>5. CASE k = 0 /\ ~ (Len(t) < MaxConnections)
  BY <1>5 DEF Connected, k
<1> QED BY <1>3, <1>4, <1>5

RouteStep(sf, s, i) == IF Leads(sf, links[i]) THEN Connected(s, sf, links[i].nbr) ELSE s

LEMMA AllConnectedLemma ==
    ASSUME links \in Seq(Link), connections \in Seq(Connection),
           Len(connections) <= MaxConnections, NEW sf \in Superframes
    PROVE  ConnectionsGrown(connections, AllConnected(sf))
<1> DEFINE n == Len(links)
           Solution(f) == f = [m \in 0 .. n |-> IF m = 0 THEN connections ELSE 
                       IF Leads(sf, links[m]) THEN Connected(f[m - 1], sf, links[m].nbr)
                       ELSE f[m - 1]]
           found == CHOOSE f : Solution(f)
           good  == [m \in 0 .. n |-> {s \in Seq(Connection) : ConnectionsGrown(connections, s)}]
           step  == [x \in (1 .. n) \X Seq(Connection) |-> RouteStep(sf, x[2], x[1])]
<1>1. n \in Nat
  OBVIOUS
<1>2. 0 \in 0 .. n /\ \A m \in 1 .. n : m \in 0 .. n /\ m - 1 \in 0 .. n /\ m # 0
  BY <1>1
<1>3. connections \in good[0]
  <2>1. ConnectionsGrown(connections, connections)
    BY DEF ConnectionsGrown
  <2> QED BY <1>2, <2>1
<1>4. ASSUME NEW m \in 1 .. n, NEW s \in good[m - 1] PROVE RouteStep(sf, s, m) \in good[m]
  <2>1. s \in Seq(Connection) /\ ConnectionsGrown(connections, s)
    BY <1>2, <1>4
  <2>2. links[m].nbr \in Nicknames \union {Broadcast} /\ sf \in Graphs \union Superframes
    <3>1. links[m] \in Link
      BY <1>4
    <3> QED BY <3>1 DEF Link
  <2>3. ConnectionsGrown(connections, RouteStep(sf, s, m))
    <3>1. CASE Leads(sf, links[m])
      <4>1. ConnectionsGrown(connections, Connected(s, sf, links[m].nbr))
        BY <2>1, <2>2, ConnectedLemma
      <4> QED BY <3>1, <4>1 DEF RouteStep
    <3>2. CASE ~ Leads(sf, links[m])
      BY <2>1, <3>2 DEF RouteStep
    <3> QED BY <3>1, <3>2
  <2>4. RouteStep(sf, s, m) \in Seq(Connection)
    BY <2>3 DEF ConnectionsGrown
  <2> QED BY <1>2, <2>3, <2>4
<1> HIDE DEF n
<1>5. \A m \in 1 .. n : \A s \in good[m - 1] : step[<<m, s>>] = RouteStep(sf, s, m)
  BY <1>2
<1>6. StepsIn(step, good, n)
  <2> HIDE DEF good, step
  <2> QED BY <1>4, <1>5 DEF StepsIn
<1>7. PICK g : Follows(g, good, connections, n, step)
  <2> HIDE DEF good, step
  <2> QED BY <1>1, <1>3, <1>6, Recursion, Zenon
<1>8. \A m \in 1 .. n : g[m] = RouteStep(sf, g[m - 1], m)
  <2> HIDE DEF good, step
  <2> QED BY <1>2, <1>5, <1>7 DEF Follows
<1>9. Solution(g)
  <2> HIDE DEF good, step
  <2>1. \A m \in 0 .. n : g[m] = IF m = 0 THEN connections ELSE 
                       IF Leads(sf, links[m]) THEN Connected(g[m - 1], sf, links[m].nbr)
                       ELSE g[m - 1]
    <3>1. \A m \in 0 .. n : m # 0 => m \in 1 .. n
      BY <1>1
    <3> QED BY <1>7, <1>8, <3>1 DEF Follows, RouteStep
  <2> QED BY <1>7, <2>1 DEF Follows
<1>10. Solution(found)
  <2> HIDE DEF Solution
  <2> QED BY <1>9, Zenon
<1>11. found[0] = connections /\ \A m \in 1 .. n : found[m] = RouteStep(sf, found[m - 1], m)
  <2> HIDE DEF found
  <2>1. \A m \in 0 .. n : found[m] = IF m = 0 THEN connections ELSE 
                       IF Leads(sf, links[m]) THEN Connected(found[m - 1], sf, links[m].nbr)
                       ELSE found[m - 1]
    BY <1>10
  <2> HIDE DEF Solution
  <2> QED BY <1>2, <2>1 DEF RouteStep
<1>12. \A m \in 0 .. n : found[m] \in good[m]
  <2> DEFINE P == {m \in 0 .. n : found[m] \in good[m]}
  <2> HIDE DEF found, good
  <2>1. 0 \in P
    BY <1>2, <1>3, <1>11
  <2>2. ASSUME NEW m \in 0 .. n - 1, m \in P PROVE m + 1 \in P
    <3>1. m + 1 \in 1 .. n /\ (m + 1) - 1 = m
      BY <1>1
    <3>2. found[m + 1] = RouteStep(sf, found[m], m + 1)
      BY <1>11, <3>1
    <3>3. found[m] \in good[(m + 1) - 1]
      BY <2>2, <3>1
    <3>4. RouteStep(sf, found[m], m + 1) \in good[m + 1]
      BY <1>4, <3>1, <3>3
    <3> QED BY <1>2, <3>1, <3>2, <3>4
  <2> HIDE DEF P
  <2>3. \A m \in 0 .. n : m \in P
    BY <1>1, <2>1, <2>2, UptoInduction
  <2> QED BY <2>3 DEF P
<1>13. AllConnected(sf) = found[n]
  BY DEF AllConnected, n
<1>14. found[n] \in Seq(Connection) /\ ConnectionsGrown(connections, found[n])
  <2>1. n \in 0 .. n
    BY <1>1
  <2> HIDE DEF found
  <2> QED BY <1>12, <2>1
<1> QED BY <1>13, <1>14 DEF n

-----------------------------------------------------------------------------
(* Marked entries.                                                         *)

LEMMA MarkedSuperframes ==
    ASSUME NEW t \in Seq(Superframe), NEW which
    PROVE  LET m == Marked(t, which) IN
           /\ m \in Seq(Superframe) /\ Len(m) = Len(t)
           /\ \A i \in 1 .. Len(t) :
                 /\ m[i].id = t[i].id /\ m[i].active = t[i].active
                 /\ m[i].modify = t[i].modify /\ m[i].setOff = t[i].setOff
<1> DEFINE e(i) == [t[i] EXCEPT !.deleted = TRUE]
           m == Marked(t, which)
<1>1. \A i \in 1 .. Len(t) : t[i] \in Superframe
  OBVIOUS
<1>2. \A f \in Superframe : [f EXCEPT !.deleted = TRUE] \in Superframe
  BY DEF Superframe
<1>3. \A f \in Superframe : LET d == [f EXCEPT !.deleted = TRUE] IN
         d.id = f.id /\ d.active = f.active /\ d.modify = f.modify /\ d.setOff = f.setOff
  BY DEF Superframe
<1>4. \A i \in 1 .. Len(t) :
         /\ e(i) \in Superframe /\ e(i).id = t[i].id /\ e(i).active = t[i].active
         /\ e(i).modify = t[i].modify /\ e(i).setOff = t[i].setOff
  BY <1>1, <1>2, <1>3
<1> HIDE DEF e
<1>5. m = [i \in 1 .. Len(t) |-> IF i \in which THEN e(i) ELSE t[i]]
  BY DEF Marked, e
<1> HIDE DEF m
<1>6. m \in Seq(Superframe) /\ Len(m) = Len(t)
  BY <1>1, <1>4, <1>5
<1> QED BY <1>4, <1>5, <1>6 DEF m

LEMMA MarkedLinks ==
    ASSUME NEW t \in Seq(Link), NEW which
    PROVE  LET m == Marked(t, which) IN
           /\ m \in Seq(Link) /\ Len(m) = Len(t)
           /\ \A i \in 1 .. Len(t) :
                 /\ m[i].sf = t[i].sf /\ m[i].nbr = t[i].nbr /\ m[i].join = t[i].join
                 /\ m[i].options = t[i].options
                 /\ i \in which => m[i].deleted
                 /\ i \notin which => m[i] = t[i]
<1> DEFINE e(i) == [t[i] EXCEPT !.deleted = TRUE]
           m == Marked(t, which)
<1>1. \A i \in 1 .. Len(t) : t[i] \in Link
  OBVIOUS
<1>2. \A f \in Link : [f EXCEPT !.deleted = TRUE] \in Link
  BY DEF Link
<1>3. \A f \in Link : LET d == [f EXCEPT !.deleted = TRUE] IN
         /\ d.sf = f.sf /\ d.nbr = f.nbr /\ d.join = f.join /\ d.options = f.options
         /\ d.deleted
  BY DEF Link
<1>4. \A i \in 1 .. Len(t) :
         /\ e(i) \in Link /\ e(i).sf = t[i].sf /\ e(i).nbr = t[i].nbr
         /\ e(i).join = t[i].join /\ e(i).options = t[i].options /\ e(i).deleted
  BY <1>1, <1>2, <1>3
<1> HIDE DEF e
<1>5. m = [i \in 1 .. Len(t) |-> IF i \in which THEN e(i) ELSE t[i]]
  BY DEF Marked, e
<1> HIDE DEF m
<1>6. m \in Seq(Link) /\ Len(m) = Len(t)
  BY <1>1, <1>4, <1>5
<1> QED BY <1>4, <1>5, <1>6 DEF m

LEMMA MarkedConnections ==
    ASSUME NEW t \in Seq(Connection), NEW which
    PROVE  LET m == Marked(t, which) IN
           /\ m \in Seq(Connection) /\ Len(m) = Len(t)
           /\ \A i \in 1 .. Len(t) : m[i].graph = t[i].graph /\ m[i].nbr = t[i].nbr
<1> DEFINE e(i) == [t[i] EXCEPT !.deleted = TRUE]
           m == Marked(t, which)
<1>1. \A i \in 1 .. Len(t) : t[i] \in Connection
  OBVIOUS
<1>4. \A i \in 1 .. Len(t) :
         /\ e(i) \in Connection /\ e(i).graph = t[i].graph /\ e(i).nbr = t[i].nbr
  BY <1>1, UnmarkConnection, Zenon
<1> HIDE DEF e
<1>5. m = [i \in 1 .. Len(t) |-> IF i \in which THEN e(i) ELSE t[i]]
  BY DEF Marked, e
<1> HIDE DEF m
<1>6. m \in Seq(Connection) /\ Len(m) = Len(t)
  BY <1>1, <1>4, <1>5
<1> QED BY <1>4, <1>5, <1>6 DEF m

-----------------------------------------------------------------------------
(* The neighbours' m_bLinked.                                              *)

\* Every neighbour but the proxies is linked only as links say.
LinkedSound(nbs, ls) ==
    \A i \in 1 .. Len(nbs) :
        nbs[i].addr \notin Proxies => nbs[i].linked \subseteq LinkedBy(ls, nbs[i].addr)

LEMMA LinkedByOptions ==
    ASSUME NEW ls \in Seq(Link), NEW a
    PROVE  /\ LinkedBy(ls, a) \in SUBSET {"tx", "rx"}
           /\ \A o : o \in LinkedBy(ls, a) <=>
                 \E i \in 1 .. Len(ls) : ls[i].nbr = a /\ ~ls[i].deleted /\ o \in ls[i].options
<1>1. \A i \in 1 .. Len(ls) : ls[i].options \in Options
  <2>1. \A i \in 1 .. Len(ls) : ls[i] \in Link
    OBVIOUS
  <2> QED BY <2>1 DEF Link
<1>2. DOMAIN ls = 1 .. Len(ls)
  OBVIOUS
<1>3. \A o : o \in LinkedBy(ls, a) <=>
         \E i \in 1 .. Len(ls) : ls[i].nbr = a /\ ~ls[i].deleted /\ o \in ls[i].options
  BY <1>2 DEF LinkedBy
<1> QED BY <1>1, <1>3 DEF Options

\* The neighbours are those there were, at their places.
NeighborsKept(s, t) ==
    /\ t \in Seq(Neighbor) /\ Len(t) = Len(s)
    /\ \A i \in 1 .. Len(s) : t[i].addr = s[i].addr

LEMMA RelinkedNeighbor ==
    ASSUME NEW n \in Neighbor, NEW o \in SUBSET {"tx", "rx"}
    PROVE  LET d == [n EXCEPT !.linked = o] IN
           d \in Neighbor /\ d.addr = n.addr /\ d.linked = o
BY DEF Neighbor

LEMMA RecountedLemma ==
    ASSUME NEW nbs \in Seq(Neighbor), NEW ls \in Seq(Link), NEW addrs
    PROVE  LET r == Recounted(nbs, ls, addrs) IN
           /\ NeighborsKept(nbs, r)
           /\ \A i \in 1 .. Len(nbs) :
                 r[i].linked = IF nbs[i].addr \in addrs THEN LinkedBy(ls, nbs[i].addr)
                               ELSE nbs[i].linked
<1> DEFINE e(i) == [nbs[i] EXCEPT !.linked = LinkedBy(ls, nbs[i].addr)]
           r == Recounted(nbs, ls, addrs)
<1>1. \A i \in 1 .. Len(nbs) : nbs[i] \in Neighbor
  OBVIOUS
<1>2. \A i \in 1 .. Len(nbs) : /\ e(i) \in Neighbor /\ e(i).addr = nbs[i].addr
                               /\ e(i).linked = LinkedBy(ls, nbs[i].addr)
  <2> TAKE i \in 1 .. Len(nbs)
  <2>1. LinkedBy(ls, nbs[i].addr) \in SUBSET {"tx", "rx"}
    BY LinkedByOptions
  <2> QED BY <1>1, <2>1, RelinkedNeighbor, Zenon
<1> HIDE DEF e
<1>3. r = [i \in 1 .. Len(nbs) |-> IF nbs[i].addr \in addrs THEN e(i) ELSE nbs[i]]
  BY DEF Recounted, e
<1> HIDE DEF r
<1>4. r \in Seq(Neighbor) /\ Len(r) = Len(nbs)
  BY <1>1, <1>2, <1>3
<1>5. \A i \in 1 .. Len(nbs) : r[i].addr = nbs[i].addr
  BY <1>2, <1>3
<1>6. \A i \in 1 .. Len(nbs) :
         r[i].linked = IF nbs[i].addr \in addrs THEN LinkedBy(ls, nbs[i].addr)
                       ELSE nbs[i].linked
  BY <1>2, <1>3
<1>7. NeighborsKept(nbs, r)
  BY <1>4, <1>5 DEF NeighborsKept
<1> QED BY <1>6, <1>7 DEF r

\* DLL_DeleteLink keeps LinkedSound.
LEMMA RecountedSound ==
    ASSUME NEW nbs \in Seq(Neighbor), NEW ls \in Seq(Link), NEW rest \in Seq(Link), NEW addrs,
           LinkedSound(nbs, ls), Len(rest) = Len(ls),
           \A i \in 1 .. Len(ls) : ls[i].nbr \notin addrs => rest[i] = ls[i]
    PROVE  LET r == Recounted(nbs, rest, addrs) IN
           NeighborsKept(nbs, r) /\ LinkedSound(r, rest)
<1> DEFINE r == Recounted(nbs, rest, addrs)
<1>1. /\ NeighborsKept(nbs, r)
      /\ \A i \in 1 .. Len(nbs) :
            r[i].linked = IF nbs[i].addr \in addrs THEN LinkedBy(rest, nbs[i].addr)
                          ELSE nbs[i].linked
  BY RecountedLemma
<1> HIDE DEF r
<1>2. ASSUME NEW i \in 1 .. Len(r), r[i].addr \notin Proxies,
             NEW o \in r[i].linked
      PROVE  o \in LinkedBy(rest, r[i].addr)
  <2>1. i \in 1 .. Len(nbs) /\ r[i].addr = nbs[i].addr
    BY <1>1 DEF NeighborsKept
  <2>2. CASE nbs[i].addr \in addrs
    BY <1>1, <1>2, <2>1, <2>2
  <2>3. CASE nbs[i].addr \notin addrs
    <3>1. o \in LinkedBy(ls, nbs[i].addr)
      BY <1>1, <1>2, <2>1, <2>3 DEF LinkedSound
    <3>2. PICK k \in 1 .. Len(ls) : ls[k].nbr = nbs[i].addr /\ ~ls[k].deleted /\ o \in ls[k].options
      BY <3>1, LinkedByOptions
    <3>3. rest[k] = ls[k] /\ k \in 1 .. Len(rest)
      BY <2>3, <3>2
    <3> QED BY <2>1, <3>2, <3>3, LinkedByOptions
  <2> QED BY <2>2, <2>3
<1> QED BY <1>1, <1>2 DEF LinkedSound, r

LEMMA UnlinkedLemma ==
    ASSUME NEW nbs \in Seq(Neighbor), NEW ls \in Seq(Link), NEW which \in SUBSET (1 .. Len(ls)),
           LinkedSound(nbs, ls)
    PROVE  LET r == Unlinked(nbs, ls, which) IN
           NeighborsKept(nbs, r) /\ LinkedSound(r, Marked(ls, which))
<1> DEFINE addrs == {ls[j].nbr : j \in which}
           rest == Marked(ls, which)
<1>1. /\ rest \in Seq(Link) /\ Len(rest) = Len(ls)
      /\ \A i \in 1 .. Len(ls) : i \notin which => rest[i] = ls[i]
  BY MarkedLinks
<1>2. \A i \in 1 .. Len(ls) : ls[i].nbr \notin addrs => rest[i] = ls[i]
  BY <1>1
<1>3. Unlinked(nbs, ls, which) = Recounted(nbs, rest, addrs)
  BY DEF Unlinked
<1> HIDE DEF rest, addrs
<1>4. LET r == Recounted(nbs, rest, addrs) IN NeighborsKept(nbs, r) /\ LinkedSound(r, rest)
  BY <1>1, <1>2, RecountedSound
<1> QED BY <1>3, <1>4 DEF rest

LEMMA LinkedToLemma ==
    ASSUME NEW nbs \in Seq(Neighbor), NEW a, NEW options \in SUBSET {"tx", "rx"}
    PROVE  LET r == LinkedTo(nbs, a, options) IN
           /\ NeighborsKept(nbs, r)
           /\ \A i \in 1 .. Len(nbs) :
                 \/ r[i].linked = nbs[i].linked
                 \/ nbs[i].addr = a /\ r[i].linked = nbs[i].linked \union options
<1> DEFINE k == FindShortNeighbor(nbs, a)
           e(i) == [nbs[i] EXCEPT !.linked = @ \union options]
           r == LinkedTo(nbs, a, options)
<1>1. \A i \in 1 .. Len(nbs) : nbs[i] \in Neighbor
  OBVIOUS
<1>2. \A i \in 1 .. Len(nbs) : nbs[i].linked \union options \in SUBSET {"tx", "rx"}
  BY <1>1 DEF Neighbor
<1>3. \A i \in 1 .. Len(nbs) : /\ e(i) \in Neighbor /\ e(i).addr = nbs[i].addr
                               /\ e(i).linked = nbs[i].linked \union options
  BY <1>1, <1>2, RelinkedNeighbor, Zenon
<1>4. k \in 0 .. Len(nbs) /\ (k # 0 => nbs[k].addr = a)
  BY FirstNeighbor
<1> HIDE DEF e, k
<1>5. r = [i \in 1 .. Len(nbs) |-> IF i = k THEN e(i) ELSE nbs[i]]
  BY DEF LinkedTo, e, k
<1> HIDE DEF r
<1>6. r \in Seq(Neighbor) /\ Len(r) = Len(nbs)
  BY <1>1, <1>3, <1>5
<1>7. \A i \in 1 .. Len(nbs) : r[i].addr = nbs[i].addr
  BY <1>3, <1>5
<1>8. \A i \in 1 .. Len(nbs) :
         \/ r[i].linked = nbs[i].linked
         \/ nbs[i].addr = a /\ r[i].linked = nbs[i].linked \union options
  BY <1>3, <1>4, <1>5
<1>9. NeighborsKept(nbs, r)
  BY <1>6, <1>7 DEF NeighborsKept
<1> QED BY <1>8, <1>9 DEF r

-----------------------------------------------------------------------------
(* DLL_AddShortNeighbor.                                                   *)

\* No neighbour moves as long as there is room for all of them.
NeighborsGrown(s, t) ==
    /\ t \in Seq(Neighbor) /\ Len(s) <= Len(t) /\ Len(t) <= MaxNeighbors
    /\ Room => \A i \in 1 .. Len(s) : t[i].addr = s[i].addr

LEMMA RoomLemma ==
    ASSUME NEW nbs \in Seq(Neighbor), Unique(nbs), Room, Len(nbs) = MaxNeighbors,
           NEW a \in Nicknames
    PROVE  FindShortNeighbor(nbs, a) # 0
<1> SUFFICES ASSUME FindShortNeighbor(nbs, a) = 0 PROVE FALSE
  OBVIOUS
<1>1. \A i \in 1 .. Len(nbs) : ~ (nbs[i].addr = a)
  BY FirstNeighbor
<1> DEFINE f == [i \in 1 .. Len(nbs) |-> nbs[i].addr]
           N == Nicknames \ {a}
<1>2. IsFiniteSet(Nicknames)
  BY NumbersAssumption
<1>3. IsFiniteSet(N) /\ Cardinality(N) = Cardinality(Nicknames) - 1
  BY <1>2, FS_RemoveElement
<1>4. IsFiniteSet(1 .. Len(nbs)) /\ Cardinality(1 .. Len(nbs)) = Len(nbs)
  <2>1. Len(nbs) \in Nat
    OBVIOUS
  <2> DEFINE n == Len(nbs)
  <2>2. n \in Int /\ 1 \in Int
    BY <2>1
  <2> HIDE DEF n
  <2>3. IsFiniteSet(1 .. n) /\ Cardinality(1 .. n) = IF 1 > n THEN 0 ELSE n - 1 + 1
    BY <2>2, FS_Interval, Zenon
  <2> QED BY <2>1, <2>3 DEF n
<1>5. Cardinality(Nicknames) \in Nat /\ Cardinality(Nicknames) <= Len(nbs)
  BY <1>2, FS_CardinalityType DEF Room
<1>6. Cardinality(N) < Cardinality(1 .. Len(nbs))
  BY <1>3, <1>4, <1>5
<1>7. f \in [1 .. Len(nbs) -> N]
  <2>1. \A i \in 1 .. Len(nbs) : nbs[i] \in Neighbor
    OBVIOUS
  <2> QED BY <1>1, <2>1 DEF Neighbor
<1> HIDE DEF f, N
<1>8. \E i, j \in 1 .. Len(nbs) : i # j /\ f[i] = f[j]
  BY <1>3, <1>4, <1>6, <1>7, FS_PigeonHole
<1> QED BY <1>8 DEF Unique, f

LEMMA AddedLemma ==
    ASSUME NEW nbs \in Seq(Neighbor), Unique(nbs), Len(nbs) <= MaxNeighbors,
           linkedSize \in 0 .. Len(nbs), NEW a \in Nicknames, NEW t \in Added(nbs, a)
    PROVE  /\ NeighborsGrown(nbs, t) /\ Unique(t)
           /\ \A i \in 1 .. Len(t) :
                 \/ i \in 1 .. Len(nbs) /\ t[i] = nbs[i]
                 \/ t[i] = NewNeighbor(a)
<1> DEFINE k == FindShortNeighbor(nbs, a)
           e == NewNeighbor(a)
<1>1. k = 0 => \A i \in 1 .. Len(nbs) : ~ (nbs[i].addr = a)
  BY FirstNeighbor
<1>2. e \in Neighbor /\ e.addr = a
  BY DEF NewNeighbor, Neighbor
<1>3. Len(nbs) \in Nat /\ MaxNeighbors \in Nat
  BY SizeAssumption
<1>4. CASE k # 0
  <2>1. t = nbs
    BY <1>4 DEF Added
  <2> QED BY <1>3, <2>1 DEF NeighborsGrown
<1>5. CASE k = 0 /\ Len(nbs) < MaxNeighbors
  <2>1. t = Append(nbs, e)
    BY <1>5 DEF Added
  <2> HIDE DEF e, k
  <2>2. /\ t \in Seq(Neighbor) /\ Len(t) = Len(nbs) + 1 /\ t[Len(nbs) + 1] = e
        /\ \A i \in 1 .. Len(nbs) : t[i] = nbs[i]
    BY <1>2, <2>1
  <2>3. \A i \in 1 .. Len(t) : i \in 1 .. Len(nbs) \/ i = Len(nbs) + 1
    BY <1>3, <2>2
  <2>4. Unique(t)
    BY <1>1, <1>2, <1>5, <2>2, <2>3 DEF Unique
  <2>5. NeighborsGrown(nbs, t)
    BY <1>3, <1>5, <2>2 DEF NeighborsGrown
  <2>6. \A i \in 1 .. Len(t) : (i \in 1 .. Len(nbs) /\ t[i] = nbs[i]) \/ t[i] = e
    BY <2>2, <2>3
  <2> QED BY <2>4, <2>5, <2>6 DEF e
<1>6. CASE k = 0 /\ ~ (Len(nbs) < MaxNeighbors)
  <2>1. PICK p \in linkedSize + 1 .. MaxNeighbors : t = ReplaceAt(nbs, p, e)
    BY <1>6 DEF Added
  <2>2. p \in 1 .. Len(nbs)
    BY <1>3, <1>6, <2>1
  <2>3. t = [nbs EXCEPT ![p] = e]
    BY <2>1 DEF ReplaceAt
  <2> HIDE DEF e
  <2>4. /\ t \in Seq(Neighbor) /\ Len(t) = Len(nbs) /\ t[p] = e
        /\ \A i \in 1 .. Len(nbs) : i # p => t[i] = nbs[i]
    BY <1>2, <2>2, <2>3
  <2>5. Unique(t)
    <3>1. \A i \in 1 .. Len(nbs) : i # p => t[i].addr # a
      BY <1>1, <1>6, <2>4
    <3> QED BY <1>2, <2>4, <3>1 DEF Unique
  <2>6. ~ Room
    <3>1. Len(nbs) = MaxNeighbors
      BY <1>3, <1>6
    <3> QED BY <1>6, <3>1, RoomLemma DEF k
  <2>7. NeighborsGrown(nbs, t)
    BY <1>3, <2>4, <2>6 DEF NeighborsGrown
  <2>8. \A i \in 1 .. Len(t) : (i \in 1 .. Len(nbs) /\ t[i] = nbs[i]) \/ t[i] = e
    BY <2>4
  <2> QED BY <2>5, <2>7, <2>8 DEF e
<1> QED BY <1>4, <1>5, <1>6

\* A new neighbour is not linked.
LEMMA AddedSound ==
    ASSUME NEW nbs \in Seq(Neighbor), Unique(nbs), Len(nbs) <= MaxNeighbors,
           linkedSize \in 0 .. Len(nbs), NEW a \in Nicknames, NEW t \in Added(nbs, a),
           NEW ls, LinkedSound(nbs, ls)
    PROVE  LinkedSound(t, ls)
<1>1. \A i \in 1 .. Len(t) : (i \in 1 .. Len(nbs) /\ t[i] = nbs[i]) \/ t[i] = NewNeighbor(a)
  BY AddedLemma
<1>2. NewNeighbor(a).linked = {}
  BY DEF NewNeighbor
<1> QED BY <1>1, <1>2 DEF LinkedSound

-----------------------------------------------------------------------------
(* The inductive invariant.                                                *)

\* Join links are with a proxy, until they are with everybody.
JoinSound(ls) == \A i \in 1 .. Len(ls) : ls[i].join => ls[i].nbr \in Proxies \union {Broadcast}

GroupsSound ==
    /\ SortedUpto(connections, crtConns)
    /\ hashGraphs \in Seq(Group) /\ HashOf(connections, crtConns, hashGraphs)

ScalarsOK ==
    /\ structs \in {0, 1, 3} /\ disconnect \in BOOLEAN /\ reset \in BOOLEAN
    /\ net \in {"joining", "quarantined", "operational"} /\ changes \in 0 .. MaxChanges

TablesInv ==
    /\ TablesTypeOK
    /\ Unique(neighbors) /\ JoinSound(links) /\ LinkedSound(neighbors, links)
    /\ ResizedOnlyDisabled /\ SuperframeOrRestart
    /\ HashSound /\ GroupsSound

\* What a step between two slots leaves alone.
SuperframesGrown(s, t) ==
    /\ t \in Seq(Superframe) /\ Len(s) <= Len(t) /\ Len(t) <= MaxSuperframes
    /\ \A i \in 1 .. Len(s) : t[i].id = s[i].id /\ t[i].active = s[i].active

LinksGrown(s, t) ==
    /\ t \in Seq(Link) /\ Len(s) <= Len(t) /\ Len(t) <= MaxLinks
    /\ \A i \in 1 .. Len(s) : t[i].sf = s[i].sf /\ t[i].nbr = s[i].nbr

Between ==
    /\ SuperframesGrown(superframes, superframes') /\ LinksGrown(links, links')
    /\ NeighborsGrown(neighbors, neighbors') /\ ConnectionsGrown(connections, connections')
    /\ UNCHANGED committed

LEMMA SameTables ==
    ASSUME TablesTypeOK
    PROVE  /\ UNCHANGED superframes => SuperframesGrown(superframes, superframes')
           /\ UNCHANGED links => LinksGrown(links, links')
           /\ UNCHANGED neighbors => NeighborsGrown(neighbors, neighbors')
           /\ UNCHANGED connections => ConnectionsGrown(connections, connections')
<1>1. UNCHANGED superframes => SuperframesGrown(superframes, superframes')
  BY DEF TablesTypeOK, SuperframesGrown
<1>2. UNCHANGED links => LinksGrown(links, links')
  BY DEF TablesTypeOK, LinksGrown
<1>3. UNCHANGED neighbors => NeighborsGrown(neighbors, neighbors')
  BY DEF TablesTypeOK, NeighborsGrown
<1>4. UNCHANGED connections => ConnectionsGrown(connections, connections')
  BY DEF TablesTypeOK, ConnectionsGrown
<1> QED BY <1>1, <1>2, <1>3, <1>4

\* What has been committed stays true of the tables until the next slot.
LEMMA BetweenSlots ==
    ASSUME TablesInv, Between, ScalarsOK',
           Unique(neighbors'), JoinSound(links'), LinkedSound(neighbors', links'),
           ResizedOnlyDisabled', SuperframeOrRestart'
    PROVE  TablesInv'
<1>1. /\ UNCHANGED <<crtLinks, linkedSize, crtConns, hashLinks, hashGraphs>>
      /\ superframes \in Seq(Superframe) /\ links \in Seq(Link)
      /\ neighbors \in Seq(Neighbor) /\ connections \in Seq(Connection)
      /\ crtLinks \in 0 .. Len(links) /\ linkedSize \in 0 .. Len(neighbors)
      /\ crtConns \in 0 .. Len(connections)
  BY DEF TablesInv, TablesTypeOK, Between, committed
<1>2. TablesTypeOK'
  <2>1. superframes' \in Seq(Superframe) /\ Len(superframes') <= MaxSuperframes
    BY DEF Between, SuperframesGrown
  <2>2. /\ links' \in Seq(Link) /\ Len(links') <= MaxLinks /\ Len(links) <= Len(links')
        /\ neighbors' \in Seq(Neighbor) /\ Len(neighbors') <= MaxNeighbors
        /\ Len(neighbors) <= Len(neighbors')
        /\ connections' \in Seq(Connection) /\ Len(connections') <= MaxConnections
        /\ Len(connections) <= Len(connections')
    BY DEF Between, LinksGrown, NeighborsGrown, ConnectionsGrown
  <2>3. /\ crtLinks' \in 0 .. Len(links') /\ linkedSize' \in 0 .. Len(neighbors')
        /\ crtConns' \in 0 .. Len(connections')
    BY <1>1, <2>2
  <2> QED BY <2>1, <2>2, <2>3 DEF TablesTypeOK, ScalarsOK
<1>3. HashSound'
  <2> SUFFICES ASSUME NEW k \in DOMAIN hashLinks
               PROVE  LET h == hashLinks[k] IN
                      /\ h.link \in 1 .. crtLinks
                      /\ h.sf \in DOMAIN superframes'
                      /\ superframes'[h.sf].id = links'[h.link].sf
                      /\ superframes'[h.sf].active
                      /\ Room /\ h.nbr # NoIndex =>
                            h.nbr \in DOMAIN neighbors' /\ neighbors'[h.nbr].addr = links'[h.link].nbr
    BY <1>1 DEF HashSound
  <2> DEFINE h == hashLinks[k]
  <2>1. /\ h.link \in 1 .. crtLinks /\ h.sf \in DOMAIN superframes
        /\ superframes[h.sf].id = links[h.link].sf /\ superframes[h.sf].active
        /\ Room /\ h.nbr # NoIndex =>
              h.nbr \in DOMAIN neighbors /\ neighbors[h.nbr].addr = links[h.link].nbr
    BY DEF TablesInv, HashSound
  <2> HIDE DEF h
  <2>2. h.link \in 1 .. Len(links) /\ h.sf \in 1 .. Len(superframes)
    BY <1>1, <2>1
  <2>3. /\ links'[h.link].sf = links[h.link].sf /\ links'[h.link].nbr = links[h.link].nbr
    BY <2>2 DEF Between, LinksGrown
  <2>4. /\ superframes'[h.sf].id = superframes[h.sf].id
        /\ superframes'[h.sf].active = superframes[h.sf].active
        /\ h.sf \in DOMAIN superframes'
    <3>1. /\ superframes' \in Seq(Superframe) /\ Len(superframes) <= Len(superframes')
          /\ superframes'[h.sf].id = superframes[h.sf].id
          /\ superframes'[h.sf].active = superframes[h.sf].active
      BY <2>2 DEF Between, SuperframesGrown
    <3> QED BY <1>1, <2>2, <3>1
  <2>5. ASSUME Room, h.nbr # NoIndex
        PROVE  h.nbr \in DOMAIN neighbors' /\ neighbors'[h.nbr].addr = links'[h.link].nbr
    <3>1. h.nbr \in 1 .. Len(neighbors) /\ neighbors[h.nbr].addr = links[h.link].nbr
      BY <1>1, <2>1, <2>5
    <3>2. /\ neighbors' \in Seq(Neighbor) /\ Len(neighbors) <= Len(neighbors')
          /\ neighbors'[h.nbr].addr = neighbors[h.nbr].addr
      BY <2>5, <3>1 DEF Between, NeighborsGrown
    <3>3. h.nbr \in 1 .. Len(neighbors')
      BY <1>1, <3>1, <3>2
    <3> QED BY <2>3, <3>1, <3>2, <3>3
  <2> QED BY <2>1, <2>3, <2>4, <2>5 DEF h
<1>4. GroupsSound'
  <2>1. /\ hashGraphs \in Seq(Group) /\ HashOf(connections, crtConns, hashGraphs)
        /\ SortedUpto(connections, crtConns)
    BY DEF TablesInv, GroupsSound
  <2>2. \A i \in 1 .. crtConns : /\ connections'[i].graph = connections[i].graph
                                 /\ connections'[i].nbr = connections[i].nbr
    <3>1. \A i \in 1 .. crtConns : i \in 1 .. Len(connections)
      BY <1>1
    <3> QED BY <3>1 DEF Between, ConnectionsGrown
  <2>3. SortedUpto(connections', crtConns)
    BY <2>1, <2>2 DEF SortedUpto, Before
  <2>4. \A k \in 1 .. Len(hashGraphs) : \A i \in Members(hashGraphs[k]) : i \in 1 .. crtConns
    <3> TAKE k \in 1 .. Len(hashGraphs)
    <3>1. hashGraphs[k] \in Group /\ crtConns \in Nat
      BY <1>1, <2>1
    <3>2. hashGraphs[k].idx \in Nat /\ hashGraphs[k].len \in Nat
      BY <3>1 DEF Group
    <3>3. hashGraphs[k].idx >= 1 /\ hashGraphs[k].idx + hashGraphs[k].len <= crtConns + 1
      BY <2>1 DEF HashOf
    <3> QED BY <3>1, <3>2, <3>3 DEF Members
  <2>5. HashOf(connections', crtConns, hashGraphs)
    BY <2>1, <2>2, <2>4 DEF HashOf
  <2> QED BY <1>1, <2>1, <2>3, <2>5 DEF GroupsSound
<1> QED BY <1>1, <1>2, <1>3, <1>4 DEF TablesInv

-----------------------------------------------------------------------------
(* What the actions are made of.                                           *)

LEMMA KeptNeighbors ==
    ASSUME NEW s \in Seq(Neighbor), Len(s) <= MaxNeighbors, Unique(s),
           NEW t, NeighborsKept(s, t)
    PROVE  NeighborsGrown(s, t) /\ Unique(t)
<1>1. /\ t \in Seq(Neighbor) /\ Len(t) = Len(s)
      /\ \A i \in 1 .. Len(s) : t[i].addr = s[i].addr
  BY DEF NeighborsKept
<1>2. Unique(t)
  BY <1>1 DEF Unique
<1>3. Len(s) <= Len(t) /\ Len(t) <= MaxNeighbors
  <2>1. Len(s) \in Nat
    OBVIOUS
  <2> QED BY <1>1, <2>1
<1> QED BY <1>1, <1>2, <1>3 DEF NeighborsGrown

LEMMA GrownKept ==
    ASSUME NEW s \in Seq(Neighbor), NEW t, NeighborsGrown(s, t), Unique(t),
           NEW u, NeighborsKept(t, u)
    PROVE  NeighborsGrown(s, u) /\ Unique(u)
<1>1. /\ t \in Seq(Neighbor) /\ Len(s) <= Len(t) /\ Len(t) <= MaxNeighbors
      /\ Room => \A i \in 1 .. Len(s) : t[i].addr = s[i].addr
      /\ Len(s) \in Nat /\ Len(t) \in Nat
  BY DEF NeighborsGrown
<1>2. NeighborsGrown(t, u) /\ Unique(u)
  BY <1>1, KeptNeighbors
<1>3. /\ u \in Seq(Neighbor) /\ Len(u) = Len(t)
      /\ \A i \in 1 .. Len(t) : u[i].addr = t[i].addr
  BY DEF NeighborsKept
<1>4. \A i \in 1 .. Len(s) : i \in 1 .. Len(t)
  BY <1>1
<1>5. Room => \A i \in 1 .. Len(s) : u[i].addr = s[i].addr
  BY <1>1, <1>3, <1>4
<1> QED BY <1>1, <1>2, <1>3, <1>5 DEF NeighborsGrown

LEMMA AppendedSuperframe ==
    ASSUME NEW s \in Seq(Superframe), NEW t, SuperframesGrown(s, t),
           Len(t) < MaxSuperframes, NEW f \in Superframe
    PROVE  /\ SuperframesGrown(s, Append(t, f)) /\ Len(Append(t, f)) = Len(t) + 1
           /\ Append(t, f)[Len(t) + 1] = f /\ \A i \in 1 .. Len(t) : Append(t, f)[i] = t[i]
<1> DEFINE r == Append(t, f)
<1>1. /\ t \in Seq(Superframe) /\ Len(s) <= Len(t) /\ Len(s) \in Nat /\ Len(t) \in Nat
      /\ \A i \in 1 .. Len(s) : t[i].id = s[i].id /\ t[i].active = s[i].active
      /\ MaxSuperframes \in Nat
  BY SizeAssumption DEF SuperframesGrown
<1>2. /\ r \in Seq(Superframe) /\ Len(r) = Len(t) + 1 /\ r[Len(t) + 1] = f
      /\ \A i \in 1 .. Len(t) : r[i] = t[i]
  BY <1>1
<1> HIDE DEF r
<1>3. \A i \in 1 .. Len(s) : i \in 1 .. Len(t)
  BY <1>1
<1>4. Len(r) <= MaxSuperframes /\ Len(s) <= Len(r)
  BY <1>1, <1>2
<1>5. SuperframesGrown(s, r)
  BY <1>1, <1>2, <1>3, <1>4 DEF SuperframesGrown
<1> QED BY <1>2, <1>5 DEF r

LEMMA AppendedConnection ==
    ASSUME NEW s \in Seq(Connection), NEW t, ConnectionsGrown(s, t),
           Len(t) < MaxConnections, NEW c \in Connection
    PROVE  ConnectionsGrown(s, Append(t, c))
<1> DEFINE r == Append(t, c)
<1>1. /\ t \in Seq(Connection) /\ Len(s) <= Len(t) /\ Len(s) \in Nat /\ Len(t) \in Nat
      /\ \A i \in 1 .. Len(s) : t[i].graph = s[i].graph /\ t[i].nbr = s[i].nbr
      /\ MaxConnections \in Nat
  BY SizeAssumption DEF ConnectionsGrown
<1>2. /\ r \in Seq(Connection) /\ Len(r) = Len(t) + 1
      /\ \A i \in 1 .. Len(t) : r[i] = t[i]
  BY <1>1
<1> HIDE DEF r
<1>3. \A i \in 1 .. Len(s) : i \in 1 .. Len(t)
  BY <1>1
<1>4. Len(r) <= MaxConnections /\ Len(s) <= Len(r)
  BY <1>1, <1>2
<1>5. ConnectionsGrown(s, r)
  BY <1>1, <1>2, <1>3, <1>4 DEF ConnectionsGrown
<1> QED BY <1>5 DEF r

LEMMA AppendedLinks ==
    ASSUME NEW s \in Seq(Link), NEW t, LinksGrown(s, t), JoinSound(t),
           NEW new \in Seq(Link), JoinSound(new), Len(t) + Len(new) <= MaxLinks
    PROVE  /\ LinksGrown(s, t \o new) /\ JoinSound(t \o new)
           /\ \A i \in 1 .. Len(t) : (t \o new)[i] = t[i]
           /\ \A i \in 1 .. Len(new) : (t \o new)[Len(t) + i] = new[i]
           /\ Len(t \o new) = Len(t) + Len(new)
<1> DEFINE r == t \o new
<1>1. /\ t \in Seq(Link) /\ Len(s) <= Len(t) /\ Len(s) \in Nat /\ Len(t) \in Nat
      /\ \A i \in 1 .. Len(s) : t[i].sf = s[i].sf /\ t[i].nbr = s[i].nbr
      /\ MaxLinks \in Nat /\ Len(new) \in Nat
  BY SizeAssumption DEF LinksGrown
<1>2. /\ r \in Seq(Link) /\ Len(r) = Len(t) + Len(new)
      /\ \A i \in 1 .. Len(t) : r[i] = t[i]
      /\ \A i \in 1 .. Len(new) : r[Len(t) + i] = new[i]
  BY <1>1, ConcatLemma
<1> HIDE DEF r
<1>3. \A i \in 1 .. Len(s) : i \in 1 .. Len(t)
  BY <1>1
<1>4. Len(r) <= MaxLinks /\ Len(s) <= Len(r)
  BY <1>1, <1>2
<1>5. LinksGrown(s, r)
  BY <1>1, <1>2, <1>3, <1>4 DEF LinksGrown
<1>6. \A i \in 1 .. Len(r) :
         i \in 1 .. Len(t) \/ (i - Len(t) \in 1 .. Len(new) /\ Len(t) + (i - Len(t)) = i)
  BY <1>1, <1>2
<1>7. \A i \in 1 .. Len(r) :
         i \in 1 .. Len(t) \/ (i - Len(t) \in 1 .. Len(new) /\ r[i] = new[i - Len(t)])
  <2> TAKE i \in 1 .. Len(r)
  <2>1. CASE i - Len(t) \in 1 .. Len(new) /\ Len(t) + (i - Len(t)) = i
    <3>1. r[Len(t) + (i - Len(t))] = new[i - Len(t)]
      BY <1>2, <2>1
    <3> QED BY <2>1, <3>1
  <2> QED BY <1>6, <2>1
<1>8. JoinSound(r)
  BY <1>2, <1>7 DEF JoinSound
<1> QED BY <1>2, <1>5, <1>8 DEF r

LEMMA MarkedGrown ==
    ASSUME TablesTypeOK, JoinSound(links), NEW which
    PROVE  /\ SuperframesGrown(superframes, Marked(superframes, which))
           /\ LinksGrown(links, Marked(links, which)) /\ JoinSound(Marked(links, which))
           /\ ConnectionsGrown(connections, Marked(connections, which))
<1>1. /\ superframes \in Seq(Superframe) /\ links \in Seq(Link)
      /\ connections \in Seq(Connection)
      /\ Len(superframes) <= MaxSuperframes /\ Len(links) <= MaxLinks
      /\ Len(connections) <= MaxConnections
  BY DEF TablesTypeOK
<1>2. SuperframesGrown(superframes, Marked(superframes, which))
  <2> DEFINE m == Marked(superframes, which)
  <2>1. /\ m \in Seq(Superframe) /\ Len(m) = Len(superframes)
        /\ \A i \in 1 .. Len(superframes) : m[i].id = superframes[i].id /\ m[i].active = superframes[i].active
    BY <1>1, MarkedSuperframes
  <2> HIDE DEF m
  <2>2. Len(superframes) <= Len(m)
    BY <1>1, <2>1
  <2> QED BY <1>1, <2>1, <2>2 DEF SuperframesGrown, m
<1>3. LinksGrown(links, Marked(links, which)) /\ JoinSound(Marked(links, which))
  <2> DEFINE m == Marked(links, which)
  <2>1. /\ m \in Seq(Link) /\ Len(m) = Len(links)
        /\ \A i \in 1 .. Len(links) : /\ m[i].sf = links[i].sf /\ m[i].nbr = links[i].nbr
                                      /\ m[i].join = links[i].join
    BY <1>1, MarkedLinks
  <2> HIDE DEF m
  <2>2. Len(links) <= Len(m)
    BY <1>1, <2>1
  <2> QED BY <1>1, <2>1, <2>2 DEF LinksGrown, JoinSound, m
<1>4. ConnectionsGrown(connections, Marked(connections, which))
  <2> DEFINE m == Marked(connections, which)
  <2>1. /\ m \in Seq(Connection) /\ Len(m) = Len(connections)
        /\ \A i \in 1 .. Len(connections) : m[i].graph = connections[i].graph /\ m[i].nbr = connections[i].nbr
    BY <1>1, MarkedConnections
  <2> HIDE DEF m
  <2>2. Len(connections) <= Len(m)
    BY <1>1, <2>1
  <2> QED BY <1>1, <2>1, <2>2 DEF ConnectionsGrown, m
<1> QED BY <1>2, <1>3, <1>4

LEMMA MoreLinks ==
    ASSUME NEW nbs, NEW ls \in Seq(Link), LinkedSound(nbs, ls),
           NEW more \in Seq(Link), Len(ls) <= Len(more),
           \A i \in 1 .. Len(ls) : more[i] = ls[i]
    PROVE  LinkedSound(nbs, more)
<1>1. \A i \in 1 .. Len(ls) : i \in 1 .. Len(more)
  <2>1. Len(ls) \in Nat /\ Len(more) \in Nat
    OBVIOUS
  <2> QED BY <2>1
<1>2. ASSUME NEW a, NEW o \in LinkedBy(ls, a) PROVE o \in LinkedBy(more, a)
  <2>1. PICK i \in 1 .. Len(ls) : ls[i].nbr = a /\ ~ls[i].deleted /\ o \in ls[i].options
    BY LinkedByOptions
  <2>2. i \in 1 .. Len(more) /\ more[i].nbr = a /\ ~more[i].deleted /\ o \in more[i].options
    BY <1>1, <2>1
  <2> QED BY <2>2, LinkedByOptions
<1> QED BY <1>2 DEF LinkedSound

LEMMA LinkedToSound ==
    ASSUME NEW nbs \in Seq(Neighbor), NEW ls \in Seq(Link), LinkedSound(nbs, ls), NEW a,
           NEW options \in SUBSET {"tx", "rx"}, a \in Proxies \/ options \subseteq LinkedBy(ls, a)
    PROVE  LinkedSound(LinkedTo(nbs, a, options), ls)
<1> DEFINE r == LinkedTo(nbs, a, options)
<1>1. /\ NeighborsKept(nbs, r)
      /\ \A i \in 1 .. Len(nbs) :
            \/ r[i].linked = nbs[i].linked
            \/ nbs[i].addr = a /\ r[i].linked = nbs[i].linked \union options
  BY LinkedToLemma
<1> HIDE DEF r
<1>2. /\ Len(r) = Len(nbs) /\ \A i \in 1 .. Len(nbs) : r[i].addr = nbs[i].addr
  BY <1>1 DEF NeighborsKept
<1>3. LinkedSound(r, ls)
  BY <1>1, <1>2 DEF LinkedSound
<1> QED BY <1>3 DEF r

LEMMA RestartLemma ==
    ASSUME CheckSuperframes(superframes')
    PROVE  SuperframeOrRestart' /\ (reset \in BOOLEAN => reset' \in BOOLEAN)
<1>1. reset' = (reset \/ ~\E i \in DOMAIN superframes' : Live(superframes'[i]))
  BY DEF CheckSuperframes
<1>2. CASE \E i \in DOMAIN superframes' : Live(superframes'[i])
  BY <1>1, <1>2, Zenon DEF SuperframeOrRestart
<1>3. CASE ~\E i \in DOMAIN superframes' : Live(superframes'[i])
  <2>1. reset' = TRUE
    BY <1>1, <1>3, Zenon
  <2> QED BY <2>1 DEF SuperframeOrRestart
<1> QED BY <1>1, <1>2, <1>3

LEMMA SuperframeAdded ==
    ASSUME NEW id \in Superframes, NEW n \in Nat, NEW on \in BOOLEAN
    PROVE  LET f == NewSuperframe(id, n, on) IN
           /\ f \in Superframe /\ ~f.modify /\ ~f.setOff /\ ~f.active /\ ~f.deleted
           /\ f.setOn = on
BY DEF NewSuperframe, Superframe

LEMMA LinkAdded ==
    ASSUME NEW sf \in Superframes, NEW a \in Nicknames, NEW ts \in Slots,
           NEW o \in Options, NEW j \in BOOLEAN
    PROVE  LET l == NewLink(sf, a, ts, o, j) IN
           l \in Link /\ l.join = j /\ l.nbr = a /\ l.options = o /\ ~l.deleted
BY DEF NewLink, Link

LEMMA ConnectionAdded ==
    ASSUME NEW g \in Graphs \union Superframes, NEW a \in Nicknames \union {Broadcast}
    PROVE  NewConnection(g, a) \in Connection
BY DEF NewConnection, Connection

-----------------------------------------------------------------------------
(* The steps between two slots.                                            *)

LEMMA Facts ==
    ASSUME TablesInv
    PROVE  /\ superframes \in Seq(Superframe) /\ Len(superframes) <= MaxSuperframes
           /\ links \in Seq(Link) /\ Len(links) <= MaxLinks
           /\ neighbors \in Seq(Neighbor) /\ Len(neighbors) <= MaxNeighbors
           /\ connections \in Seq(Connection) /\ Len(connections) <= MaxConnections
           /\ crtLinks \in 0 .. Len(links) /\ linkedSize \in 0 .. Len(neighbors)
           /\ crtConns \in 0 .. Len(connections)
           /\ DOMAIN superframes = 1 .. Len(superframes) /\ DOMAIN links = 1 .. Len(links)
           /\ DOMAIN neighbors = 1 .. Len(neighbors)
           /\ DOMAIN connections = 1 .. Len(connections)
           /\ TablesTypeOK /\ ScalarsOK /\ Unique(neighbors) /\ JoinSound(links)
           /\ LinkedSound(neighbors, links) /\ ResizedOnlyDisabled /\ SuperframeOrRestart
<1>1. TablesTypeOK /\ ScalarsOK /\ Unique(neighbors) /\ JoinSound(links)
      /\ LinkedSound(neighbors, links) /\ ResizedOnlyDisabled /\ SuperframeOrRestart
  BY DEF TablesInv, TablesTypeOK, ScalarsOK
<1>2. /\ superframes \in Seq(Superframe) /\ links \in Seq(Link)
      /\ neighbors \in Seq(Neighbor) /\ connections \in Seq(Connection)
  BY <1>1 DEF TablesTypeOK
<1>3. /\ DOMAIN superframes = 1 .. Len(superframes) /\ DOMAIN links = 1 .. Len(links)
      /\ DOMAIN neighbors = 1 .. Len(neighbors)
      /\ DOMAIN connections = 1 .. Len(connections)
  BY <1>2
<1> QED BY <1>1, <1>2, <1>3 DEF TablesTypeOK

LEMMA JoinLinksLemma ==
    ASSUME NEW proxy \in Proxies
    PROVE  JoinLinks(proxy) \in Seq(Link) /\ Len(JoinLinks(proxy)) = 2 /\ JoinSound(JoinLinks(proxy))
<1> DEFINE one  == NewLink(0, proxy, 0, {"tx"}, TRUE)
           two  == NewLink(0, proxy, 1, {"rx"}, TRUE)
           pair == JoinLinks(proxy)
<1>1. /\ {"tx"} \in Options /\ {"rx"} \in Options /\ TRUE \in BOOLEAN /\ proxy \in Nicknames
      /\ 0 \in Superframes /\ 0 \in Slots /\ 1 \in Slots
  BY JoinAssumption DEF Options
<1>2. one \in Link /\ one.join = TRUE /\ one.nbr = proxy /\ one.options = {"tx"} /\ ~one.deleted
  BY <1>1, LinkAdded, Zenon
<1>3. two \in Link /\ two.join = TRUE /\ two.nbr = proxy /\ two.options = {"rx"} /\ ~two.deleted
  BY <1>1, LinkAdded, Zenon
<1>4. pair = <<one, two>>
  BY DEF JoinLinks
<1> HIDE DEF one, two, pair
<1>5. pair \in Seq(Link) /\ Len(pair) = 2 /\ pair[1] = one /\ pair[2] = two
  BY <1>2, <1>3, <1>4
<1>6. \A i \in 1 .. Len(pair) : pair[i].nbr = proxy
  <2>1. \A i \in 1 .. Len(pair) : i = 1 \/ i = 2
    BY <1>5
  <2> QED BY <1>2, <1>3, <1>5, <2>1
<1> QED BY <1>5, <1>6 DEF JoinSound, pair

LEMMA JoinRetryStep ==
    ASSUME TablesInv, NEW proxy \in Proxies, JoinRetry(proxy)
    PROVE  TablesInv'
<1> USE Facts
<1> DEFINE sfs == Marked(superframes, DOMAIN superframes)
           ls  == Marked(links, DOMAIN links)
           cs  == Marked(connections, DOMAIN connections)
           nbs == Unlinked(neighbors, links, DOMAIN links)
           f   == NewSuperframe(0, 2, TRUE)
           pair == JoinLinks(proxy)
<1>1. /\ superframes' = Append(sfs, f) /\ links' = ls \o pair
      /\ neighbors' = LinkedTo(nbs, proxy, {"tx", "rx"})
      /\ connections' = Append(cs, NewConnection(JoinGraph, proxy))
      /\ structs' = 1 /\ UNCHANGED <<committed, disconnect, net, reset, changes>>
      /\ Len(superframes) < MaxSuperframes /\ Len(links) + 2 <= MaxLinks
      /\ Len(connections) < MaxConnections
  BY DEF JoinRetry
<1>2. proxy \in Nicknames /\ JoinGraph \in Graphs /\ 0 \in Superframes /\ 0 \in Slots /\ 1 \in Slots
  BY JoinAssumption
<1>3. /\ SuperframesGrown(superframes, sfs) /\ LinksGrown(links, ls) /\ JoinSound(ls)
      /\ ConnectionsGrown(connections, cs)
  BY MarkedGrown
<1>4. /\ Len(sfs) = Len(superframes) /\ Len(ls) = Len(links) /\ Len(cs) = Len(connections)
      /\ \A i \in 1 .. Len(superframes) : /\ sfs[i].modify = superframes[i].modify
                                          /\ sfs[i].active = superframes[i].active
                                          /\ sfs[i].setOff = superframes[i].setOff
  BY MarkedSuperframes, MarkedLinks, MarkedConnections
<1>5. /\ f \in Superframe /\ ~f.modify /\ f.setOn /\ ~f.setOff /\ ~f.deleted
  <2>1. f \in Superframe /\ ~f.modify /\ ~f.setOff /\ ~f.active /\ ~f.deleted /\ f.setOn = TRUE
    <3>1. 2 \in Nat /\ TRUE \in BOOLEAN
      OBVIOUS
    <3> QED BY <1>2, <3>1, SuperframeAdded, Zenon
  <2> HIDE DEF f
  <2> QED BY <2>1
<1>6. /\ pair \in Seq(Link) /\ Len(pair) = 2 /\ JoinSound(pair)
  BY <1>2, JoinLinksLemma
<1>7. /\ NeighborsKept(neighbors, nbs) /\ LinkedSound(nbs, ls)
  <2>1. DOMAIN links \in SUBSET (1 .. Len(links))
    OBVIOUS
  <2> QED BY <2>1, UnlinkedLemma
<1>8. nbs \in Seq(Neighbor) /\ ls \in Seq(Link)
  BY <1>3, <1>7 DEF NeighborsKept, LinksGrown
<1> HIDE DEF sfs, ls, cs, nbs, f, pair
<1>9. /\ SuperframesGrown(superframes, superframes')
      /\ superframes'[Len(sfs) + 1] = f /\ \A i \in 1 .. Len(sfs) : superframes'[i] = sfs[i]
      /\ Len(superframes') = Len(sfs) + 1
  BY <1>1, <1>3, <1>4, <1>5, AppendedSuperframe
<1>10. superframes' \in Seq(Superframe)
  BY <1>9 DEF SuperframesGrown
<1>11. DOMAIN superframes' = 1 .. Len(superframes) + 1
  BY <1>4, <1>9, <1>10
<1>12. SuperframeOrRestart'
  <2>1. Len(sfs) + 1 \in DOMAIN superframes'
    BY <1>4, <1>11
  <2> QED BY <1>5, <1>9, <2>1 DEF SuperframeOrRestart, Live
<1>13. ResizedOnlyDisabled'
  <2>1. ASSUME NEW i \in DOMAIN superframes', superframes'[i].modify
        PROVE  ~superframes'[i].active \/ superframes'[i].setOff
    <3>1. i \in 1 .. Len(superframes) \/ i = Len(superframes) + 1
      BY <1>11
    <3>2. i \in 1 .. Len(superframes)
      BY <1>4, <1>5, <1>9, <2>1, <3>1
    <3> QED BY <1>4, <1>9, <2>1, <3>2 DEF ResizedOnlyDisabled
  <2> QED BY <2>1 DEF ResizedOnlyDisabled
<1>14. /\ LinksGrown(links, links') /\ JoinSound(links')
       /\ \A i \in 1 .. Len(ls) : links'[i] = ls[i]
       /\ Len(links') = Len(ls) + 2
  <2>1. Len(ls) + Len(pair) <= MaxLinks
    BY <1>1, <1>4, <1>6
  <2>2. /\ LinksGrown(links, ls \o pair) /\ JoinSound(ls \o pair)
        /\ \A i \in 1 .. Len(ls) : (ls \o pair)[i] = ls[i]
        /\ \A i \in 1 .. Len(pair) : (ls \o pair)[Len(ls) + i] = pair[i]
        /\ Len(ls \o pair) = Len(ls) + Len(pair)
    <3>1. links \in Seq(Link)
      OBVIOUS
    <3>2. LinksGrown(links, ls)
      BY <1>3
    <3>3. JoinSound(ls)
      BY <1>3
    <3>4. pair \in Seq(Link)
      BY <1>6
    <3>5. JoinSound(pair)
      BY <1>6
    <3> QED BY <2>1, <3>1, <3>2, <3>3, <3>4, <3>5, AppendedLinks, Zenon
  <2> QED BY <1>1, <1>6, <2>2
<1>15. ConnectionsGrown(connections, connections')
  <2>1. NewConnection(JoinGraph, proxy) \in Connection
    BY <1>2, ConnectionAdded
  <2> QED BY <1>1, <1>3, <1>4, <2>1, AppendedConnection
<1>16. NeighborsGrown(neighbors, nbs) /\ Unique(nbs)
  BY <1>7, KeptNeighbors
<1>17. NeighborsGrown(neighbors, neighbors') /\ Unique(neighbors')
  <2>1. NeighborsKept(nbs, neighbors')
    BY <1>1, <1>8, LinkedToLemma
  <2> QED BY <1>16, <2>1, GrownKept
<1>18. LinkedSound(neighbors', links')
  <2>1. links' \in Seq(Link) /\ Len(ls) <= Len(links')
    BY <1>8, <1>14 DEF LinksGrown
  <2>2. LinkedSound(nbs, links')
    BY <1>7, <1>8, <1>14, <2>1, MoreLinks
  <2> QED BY <1>1, <1>8, <2>1, <2>2, LinkedToSound
<1>19. Between
  BY <1>1, <1>9, <1>14, <1>15, <1>17 DEF Between
<1>20. ScalarsOK'
  BY <1>1 DEF ScalarsOK
<1> QED BY <1>12, <1>13, <1>14, <1>17, <1>18, <1>19, <1>20, BetweenSlots

\* The steps that leave superframes, links and neighbours as they are.
LEMMA ConnectionSteps ==
    ASSUME TablesInv, UNCHANGED <<superframes, links, neighbors, committed, reset>>,
           ConnectionsGrown(connections, connections'), ScalarsOK'
    PROVE  TablesInv'
<1> USE Facts
<1>1. Between
  BY SameTables DEF Between
<1>2. Unique(neighbors') /\ JoinSound(links') /\ LinkedSound(neighbors', links')
  OBVIOUS
<1>3. ResizedOnlyDisabled' /\ SuperframeOrRestart'
  BY DEF ResizedOnlyDisabled, SuperframeOrRestart
<1> QED BY <1>1, <1>2, <1>3, BetweenSlots

\* The steps that leave superframes as they are.
LEMMA LinkSteps ==
    ASSUME TablesInv, UNCHANGED <<superframes, connections, committed, reset>>, ScalarsOK',
           LinksGrown(links, links'), JoinSound(links'), NeighborsGrown(neighbors, neighbors'),
           Unique(neighbors'), LinkedSound(neighbors', links')
    PROVE  TablesInv'
<1> USE Facts
<1>1. Between
  BY SameTables DEF Between
<1>2. ResizedOnlyDisabled' /\ SuperframeOrRestart'
  BY DEF ResizedOnlyDisabled, SuperframeOrRestart
<1> QED BY <1>1, <1>2, BetweenSlots

\* DLL_DeleteLink for some of the links.
LEMMA DeleteLinksStep ==
    ASSUME TablesInv, NEW which \in SUBSET (1 .. Len(links)), DeleteLinks(which)
    PROVE  /\ LinksGrown(links, links') /\ JoinSound(links')
           /\ NeighborsGrown(neighbors, neighbors') /\ Unique(neighbors')
           /\ LinkedSound(neighbors', links')
<1> USE Facts
<1>1. links' = Marked(links, which) /\ neighbors' = Unlinked(neighbors, links, which)
  BY DEF DeleteLinks
<1>2. LinksGrown(links, links') /\ JoinSound(links')
  BY <1>1, MarkedGrown
<1>3. NeighborsKept(neighbors, neighbors') /\ LinkedSound(neighbors', links')
  BY <1>1, UnlinkedLemma
<1>4. NeighborsGrown(neighbors, neighbors') /\ Unique(neighbors')
  BY <1>3, KeptNeighbors
<1> QED BY <1>2, <1>3, <1>4

LEMMA JoinedStep ==
    ASSUME TablesInv, Quarantined \/ Operational
    PROVE  TablesInv'
<1> USE Facts
<1>1. UNCHANGED <<superframes, links, neighbors, connections, committed, reset>>
  BY DEF Quarantined, Operational, tables
<1>2. ConnectionsGrown(connections, connections')
  BY <1>1, SameTables
<1>3. ScalarsOK'
  BY DEF Quarantined, Operational, ScalarsOK
<1> QED BY <1>1, <1>2, <1>3, ConnectionSteps

LEMMA CountedLemma ==
    ASSUME TablesInv, Counted
    PROVE  changes' \in 0 .. MaxChanges
<1>1. changes \in 0 .. MaxChanges /\ MaxChanges \in Nat
  BY Facts, SizeAssumption DEF ScalarsOK
<1> QED BY <1>1 DEF Counted

LEMMA WriteConnectionStep ==
    ASSUME TablesInv, NEW g \in Graphs, NEW a \in Nicknames, WriteConnection(g, a)
    PROVE  TablesInv'
<1> USE Facts
<1>1. /\ UNCHANGED <<superframes, links, neighbors, committed, reset, net, disconnect>>
      /\ connections' = Connected(connections, g, a) /\ structs' \in {structs, 1}
  BY DEF WriteConnection
<1>2. ConnectionsGrown(connections, connections')
  <2>1. ConnectionsGrown(connections, connections)
    BY DEF ConnectionsGrown
  <2> QED BY <1>1, <2>1, ConnectedLemma
<1>3. ScalarsOK'
  <2>1. changes' \in 0 .. MaxChanges
    BY CountedLemma DEF WriteConnection
  <2> QED BY <1>1, <2>1 DEF ScalarsOK
<1> QED BY <1>1, <1>2, <1>3, ConnectionSteps

LEMMA RouteOnSuperframeStep ==
    ASSUME TablesInv, NEW sf \in Superframes, RouteOnSuperframe(sf)
    PROVE  TablesInv'
<1> USE Facts
<1>1. /\ UNCHANGED <<superframes, links, neighbors, committed, reset, net, disconnect>>
      /\ connections' = AllConnected(sf) /\ structs' \in {structs, 1}
  BY DEF RouteOnSuperframe
<1>2. ConnectionsGrown(connections, connections')
  BY <1>1, AllConnectedLemma
<1>3. ScalarsOK'
  <2>1. changes' \in 0 .. MaxChanges
    BY CountedLemma DEF RouteOnSuperframe
  <2> QED BY <1>1, <2>1 DEF ScalarsOK
<1> QED BY <1>1, <1>2, <1>3, ConnectionSteps

LEMMA RouteRemovedStep ==
    ASSUME TablesInv, NEW g, RouteRemoved(g)
    PROVE  TablesInv'
<1> USE Facts
<1>1. /\ UNCHANGED <<superframes, links, neighbors, committed, reset, net, disconnect>>
      /\ structs' = 1
      /\ connections' = Marked(connections, {i \in DOMAIN connections : connections[i].graph = g})
  BY DEF RouteRemoved
<1>2. ConnectionsGrown(connections, connections')
  BY <1>1, MarkedGrown
<1>3. ScalarsOK'
  <2>1. changes' \in 0 .. MaxChanges
    BY CountedLemma DEF RouteRemoved
  <2> QED BY <1>1, <2>1 DEF ScalarsOK
<1> QED BY <1>1, <1>2, <1>3, ConnectionSteps

LEMMA DeleteConnectionStep ==
    ASSUME TablesInv, NEW g \in Graphs, NEW a \in Nicknames, DeleteConnection(g, a)
    PROVE  TablesInv'
<1> USE Facts
<1> DEFINE k == FindConnection(connections, g, a)
           e == [connections[k] EXCEPT !.deleted = TRUE]
<1>1. /\ UNCHANGED <<superframes, links, neighbors, committed, reset, net, disconnect>>
      /\ structs' = 1 /\ k # 0
      /\ connections' = [connections EXCEPT ![k] = e]
  BY DEF DeleteConnection
<1>2. k \in 1 .. Len(connections)
  <2>1. k \in 0 .. Len(connections)
    BY FirstConnection
  <2> HIDE DEF k
  <2> QED BY <1>1, <2>1
<1> HIDE DEF k
<1>3. /\ connections[k] \in Connection
      /\ e \in Connection /\ e.graph = connections[k].graph /\ e.nbr = connections[k].nbr
  <2>1. connections[k] \in Connection
    BY <1>2
  <2> QED BY <2>1, UnmarkConnection, Zenon
<1> HIDE DEF e
<1>4. /\ connections' \in Seq(Connection) /\ Len(connections') = Len(connections)
      /\ connections'[k] = e
      /\ \A i \in 1 .. Len(connections) : i # k => connections'[i] = connections[i]
  BY <1>1, <1>2, <1>3
<1>5. ConnectionsGrown(connections, connections')
  <2>1. \A i \in 1 .. Len(connections) : /\ connections'[i].graph = connections[i].graph
                                         /\ connections'[i].nbr = connections[i].nbr
    BY <1>3, <1>4
  <2>2. Len(connections) <= Len(connections')
    BY <1>4
  <2> QED BY <1>4, <2>1, <2>2 DEF ConnectionsGrown
<1>6. ScalarsOK'
  <2>1. changes' \in 0 .. MaxChanges
    BY CountedLemma DEF DeleteConnection
  <2> QED BY <1>1, <2>1 DEF ScalarsOK
<1> QED BY <1>1, <1>5, <1>6, ConnectionSteps

\* The steps of commands 965 and 966, which may delete links too.
LEMMA SuperframeSteps ==
    ASSUME TablesInv, UNCHANGED <<connections, committed, disconnect, net>>,
           structs' = 1, changes' \in 0 .. MaxChanges,
           SuperframesGrown(superframes, superframes'), CheckSuperframes(superframes'),
           \A i \in 1 .. Len(superframes') : superframes'[i].modify =>
                ~superframes'[i].active \/ superframes'[i].setOff,
           \/ UNCHANGED <<links, neighbors>>
           \/ \E which \in SUBSET (1 .. Len(links)) : DeleteLinks(which)
    PROVE  TablesInv'
<1> USE Facts
<1>1. /\ LinksGrown(links, links') /\ JoinSound(links')
      /\ NeighborsGrown(neighbors, neighbors') /\ Unique(neighbors')
      /\ LinkedSound(neighbors', links')
  <2>1. CASE UNCHANGED <<links, neighbors>>
    BY <2>1, SameTables
  <2>2. CASE \E which \in SUBSET (1 .. Len(links)) : DeleteLinks(which)
    BY <2>2, DeleteLinksStep
  <2> QED BY <2>1, <2>2
<1>2. ConnectionsGrown(connections, connections')
  BY SameTables
<1>3. Between
  BY <1>1, <1>2 DEF Between
<1>4. ResizedOnlyDisabled'
  <2>1. superframes' \in Seq(Superframe)
    BY DEF SuperframesGrown
  <2>2. DOMAIN superframes' = 1 .. Len(superframes')
    BY <2>1
  <2> QED BY <2>2 DEF ResizedOnlyDisabled
<1>5. SuperframeOrRestart' /\ reset' \in BOOLEAN
  BY RestartLemma DEF ScalarsOK
<1>6. ScalarsOK'
  BY <1>5 DEF ScalarsOK
<1> QED BY <1>1, <1>3, <1>4, <1>5, <1>6, BetweenSlots

LEMMA WriteSuperframeStep ==
    ASSUME TablesInv, NEW id \in Superframes, NEW n \in {s + 1 : s \in Slots},
           NEW on \in BOOLEAN, WriteSuperframe(id, n, on)
    PROVE  TablesInv'
<1> USE Facts
<1> DEFINE k == FindSuperframe(superframes, id)
           f == superframes[k]
           off == f.setOff \/ ~on
           resize == (~f.active \/ off) /\ f.slots # n
           g == [f EXCEPT !.deleted = FALSE, !.setOff = off,
                          !.newSlots = IF resize THEN n ELSE @,
                          !.modify = f.modify \/ resize,
                          !.setOn = f.setOn \/ on]
<1>1. /\ UNCHANGED <<connections, committed, disconnect, net>>
      /\ structs' = 1 /\ Counted /\ CheckSuperframes(superframes')
  BY DEF WriteSuperframe
<1>2. changes' \in 0 .. MaxChanges
  BY <1>1, CountedLemma
<1>3. k \in 0 .. Len(superframes)
  BY FirstSuperframe
<1>4. n \in Nat
  BY NumbersAssumption
<1>5. CASE k = 0
  <2> DEFINE e == NewSuperframe(id, n, on)
  <2>1. /\ Len(superframes) < MaxSuperframes /\ superframes' = Append(superframes, e)
        /\ UNCHANGED <<links, neighbors>>
    BY <1>5 DEF WriteSuperframe
  <2>2. e \in Superframe /\ ~e.modify /\ ~e.setOff /\ ~e.active /\ ~e.deleted /\ e.setOn = on
    BY <1>4, SuperframeAdded, Zenon
  <2> HIDE DEF e, k
  <2>3. SuperframesGrown(superframes, superframes)
    BY DEF SuperframesGrown
  <2>4. /\ SuperframesGrown(superframes, superframes')
        /\ Len(superframes') = Len(superframes) + 1
        /\ superframes'[Len(superframes) + 1] = e
        /\ \A i \in 1 .. Len(superframes) : superframes'[i] = superframes[i]
    BY <2>1, <2>2, <2>3, AppendedSuperframe
  <2>5. ASSUME NEW i \in 1 .. Len(superframes'), superframes'[i].modify
        PROVE  ~superframes'[i].active \/ superframes'[i].setOff
    <3>1. i \in 1 .. Len(superframes) \/ i = Len(superframes) + 1
      BY <2>4
    <3>2. i \in 1 .. Len(superframes)
      BY <2>2, <2>4, <2>5, <3>1
    <3> QED BY <2>4, <2>5, <3>2 DEF ResizedOnlyDisabled
  <2> QED BY <1>1, <1>2, <2>1, <2>4, <2>5, SuperframeSteps
<1>6. CASE k # 0
  <2>1. /\ superframes' = [superframes EXCEPT ![k] = g]
        /\ \/ DeleteLinks({i \in DOMAIN links : links[i].sf = id /\ links[i].slot >= n})
           \/ UNCHANGED <<links, neighbors>>
    <3>1. superframes' = [superframes EXCEPT ![k] = g]
      BY <1>6 DEF WriteSuperframe
    <3>2. IF resize THEN DeleteLinks({i \in DOMAIN links : links[i].sf = id /\ links[i].slot >= n})
          ELSE UNCHANGED <<links, neighbors>>
      BY <1>6 DEF WriteSuperframe
    <3> QED BY <3>1, <3>2
  <2> HIDE DEF k
  <2>2. k \in 1 .. Len(superframes) /\ f \in Superframe
    BY <1>3, <1>6
  <2>3. off \in BOOLEAN /\ resize \in BOOLEAN
    OBVIOUS
  <2>4. /\ g \in Superframe /\ g.id = f.id /\ g.active = f.active
        /\ g.modify = (f.modify \/ resize) /\ g.setOff = off
    <3> HIDE DEF f, off, resize
    <3> DEFINE z  == IF resize THEN n ELSE f.newSlots
               m  == f.modify \/ resize
               st == f.setOn \/ on
    <3>1. z \in Nat /\ m \in BOOLEAN /\ st \in BOOLEAN
      BY <1>4, <2>2 DEF Superframe
    <3> HIDE DEF z, m, st
    <3>2. LET h == [f EXCEPT !.deleted = FALSE, !.setOff = off, !.newSlots = z,
                             !.modify = m, !.setOn = st] IN
          h \in Superframe /\ h.id = f.id /\ h.active = f.active /\ h.modify = m /\ h.setOff = off
      BY <2>2, <2>3, <3>1 DEF Superframe
    <3> QED BY <3>2, Zenon DEF z, m, st
  <2>5. g.modify => ~g.active \/ g.setOff
    <3>1. CASE f.modify
      <4>1. ~f.active \/ f.setOff
        BY <2>2, <3>1 DEF ResizedOnlyDisabled
      <4>2. ~f.active \/ off
        BY <4>1
      <4> HIDE DEF g, f, off, resize
      <4> QED BY <2>4, <4>2
    <3>2. CASE ~f.modify
      <4>1. resize => ~f.active \/ off
        OBVIOUS
      <4> HIDE DEF g, f, off, resize
      <4> QED BY <2>4, <3>2, <4>1
    <3> QED BY <3>1, <3>2
  <2> HIDE DEF g, f, off, resize
  <2>6. /\ superframes' \in Seq(Superframe) /\ Len(superframes') = Len(superframes)
        /\ superframes'[k] = g
        /\ \A i \in 1 .. Len(superframes) : i # k => superframes'[i] = superframes[i]
    BY <2>1, <2>2, <2>4
  <2>7. f = superframes[k]
    BY DEF f
  <2>8. SuperframesGrown(superframes, superframes')
    <3>1. \A i \in 1 .. Len(superframes) : /\ superframes'[i].id = superframes[i].id
                                           /\ superframes'[i].active = superframes[i].active
      BY <2>4, <2>6, <2>7
    <3>2. Len(superframes) <= Len(superframes')
      BY <2>6
    <3> QED BY <2>6, <3>1, <3>2 DEF SuperframesGrown
  <2>9. \A i \in 1 .. Len(superframes') : superframes'[i].modify =>
            ~superframes'[i].active \/ superframes'[i].setOff
    BY <2>5, <2>6 DEF ResizedOnlyDisabled
  <2>10. \/ UNCHANGED <<links, neighbors>>
         \/ \E which \in SUBSET (1 .. Len(links)) : DeleteLinks(which)
    <3>1. {i \in DOMAIN links : links[i].sf = id /\ links[i].slot >= n} \in SUBSET (1 .. Len(links))
      OBVIOUS
    <3> QED BY <2>1, <3>1
  <2> QED BY <1>1, <1>2, <2>8, <2>9, <2>10, SuperframeSteps
<1> QED BY <1>5, <1>6

LEMMA DeleteSuperframeStep ==
    ASSUME TablesInv, NEW id \in Superframes, DeleteSuperframe(id)
    PROVE  TablesInv'
<1> USE Facts
<1> DEFINE k == FindSuperframe(superframes, id)
           g == [superframes[k] EXCEPT !.deleted = TRUE]
<1>1. /\ UNCHANGED <<connections, committed, disconnect, net>>
      /\ structs' = 1 /\ Counted /\ CheckSuperframes(superframes') /\ k # 0
      /\ superframes' = [superframes EXCEPT ![k] = g]
      /\ DeleteLinks({i \in DOMAIN links : links[i].sf = id})
  BY DEF DeleteSuperframe
<1>2. changes' \in 0 .. MaxChanges
  BY <1>1, CountedLemma
<1>3. k \in 1 .. Len(superframes)
  <2>1. k \in 0 .. Len(superframes)
    BY FirstSuperframe
  <2> HIDE DEF k
  <2> QED BY <1>1, <2>1
<1> HIDE DEF k
<1>4. /\ g \in Superframe /\ g.id = superframes[k].id /\ g.active = superframes[k].active
      /\ g.modify = superframes[k].modify /\ g.setOff = superframes[k].setOff
  <2>1. superframes[k] \in Superframe
    BY <1>3
  <2> QED BY <2>1 DEF Superframe
<1> HIDE DEF g
<1>5. /\ superframes' \in Seq(Superframe) /\ Len(superframes') = Len(superframes)
      /\ superframes'[k] = g
      /\ \A i \in 1 .. Len(superframes) : i # k => superframes'[i] = superframes[i]
  BY <1>1, <1>3, <1>4
<1>6. SuperframesGrown(superframes, superframes')
  <2>1. \A i \in 1 .. Len(superframes) : /\ superframes'[i].id = superframes[i].id
                                         /\ superframes'[i].active = superframes[i].active
    BY <1>4, <1>5
  <2>2. Len(superframes) <= Len(superframes')
    BY <1>5
  <2> QED BY <1>5, <2>1, <2>2 DEF SuperframesGrown
<1>7. \A i \in 1 .. Len(superframes') : superframes'[i].modify =>
          ~superframes'[i].active \/ superframes'[i].setOff
  BY <1>3, <1>4, <1>5 DEF ResizedOnlyDisabled
<1>8. \E which \in SUBSET (1 .. Len(links)) : DeleteLinks(which)
  <2>1. {i \in DOMAIN links : links[i].sf = id} \in SUBSET (1 .. Len(links))
    OBVIOUS
  <2> QED BY <1>1, <2>1
<1> QED BY <1>1, <1>2, <1>6, <1>7, <1>8, SuperframeSteps

LEMMA WriteLinkStep ==
    ASSUME TablesInv, NEW sf \in Superframes, NEW a \in Nicknames, NEW ts \in Slots,
           NEW options \in Options, WriteLink(sf, a, ts, options)
    PROVE  TablesInv'
<1> USE Facts
<1> DEFINE e == NewLink(sf, a, ts, options, FALSE)
           one == <<e>>
<1>1. /\ UNCHANGED <<superframes, connections, committed, reset, disconnect, net>>
      /\ structs' = 1 /\ Counted /\ Len(links) < MaxLinks /\ links' = Append(links, e)
      /\ \E nbs \in Added(neighbors, a) : neighbors' = LinkedTo(nbs, a, options)
  BY DEF WriteLink
<1>2. PICK nbs \in Added(neighbors, a) : neighbors' = LinkedTo(nbs, a, options)
  BY <1>1
<1>3. e \in Link /\ e.join = FALSE /\ e.nbr = a /\ e.options = options /\ ~e.deleted
  <2>1. FALSE \in BOOLEAN
    OBVIOUS
  <2> QED BY <2>1, LinkAdded, Zenon
<1> HIDE DEF e
<1>4. /\ links' \in Seq(Link) /\ Len(links') = Len(links) + 1 /\ links'[Len(links) + 1] = e
      /\ \A i \in 1 .. Len(links) : links'[i] = links[i]
  BY <1>1, <1>3
<1>5. Len(links) \in Nat /\ MaxLinks \in Nat
  BY SizeAssumption
<1>6. LinksGrown(links, links')
  <2>1. Len(links) <= Len(links') /\ Len(links') <= MaxLinks
    BY <1>1, <1>4, <1>5
  <2> QED BY <1>4, <2>1 DEF LinksGrown
<1>7. JoinSound(links')
  <2>1. \A i \in 1 .. Len(links') : i \in 1 .. Len(links) \/ i = Len(links) + 1
    BY <1>4, <1>5
  <2> QED BY <1>3, <1>4, <2>1 DEF JoinSound
<1>8. NeighborsGrown(neighbors, nbs) /\ Unique(nbs)
  BY AddedLemma
<1>9. nbs \in Seq(Neighbor) /\ options \in SUBSET {"tx", "rx"}
  BY <1>8 DEF NeighborsGrown, Options
<1>10. NeighborsGrown(neighbors, neighbors') /\ Unique(neighbors')
  <2>1. NeighborsKept(nbs, neighbors')
    BY <1>2, <1>9, LinkedToLemma
  <2> QED BY <1>8, <2>1, GrownKept
<1>11. LinkedSound(neighbors', links')
  <2>1. LinkedSound(nbs, links)
    BY AddedSound
  <2>2. LinkedSound(nbs, links')
    <3>1. Len(links) <= Len(links')
      BY <1>4, <1>5
    <3> QED BY <1>4, <2>1, <3>1, MoreLinks
  <2>3. options \subseteq LinkedBy(links', a)
    <3>1. Len(links) + 1 \in 1 .. Len(links')
      BY <1>4, <1>5
    <3>2. \A o \in options : \E i \in 1 .. Len(links') :
             links'[i].nbr = a /\ ~links'[i].deleted /\ o \in links'[i].options
      BY <1>3, <1>4, <3>1
    <3> QED BY <1>4, <3>2, LinkedByOptions
  <2> QED BY <1>2, <1>4, <1>9, <2>2, <2>3, LinkedToSound
<1>12. ScalarsOK'
  <2>1. changes' \in 0 .. MaxChanges
    BY <1>1, CountedLemma
  <2> QED BY <1>1, <2>1 DEF ScalarsOK
<1> QED BY <1>1, <1>6, <1>7, <1>10, <1>11, <1>12, LinkSteps

LEMMA DeleteLinkStep ==
    ASSUME TablesInv, NEW sf \in Superframes, NEW a \in Nicknames, NEW ts \in Slots,
           DeleteLink(sf, a, ts)
    PROVE  TablesInv'
<1> USE Facts
<1> DEFINE k == FindLink(sf, a, ts)
           e == [links[k] EXCEPT !.deleted = TRUE]
<1>1. /\ UNCHANGED <<superframes, connections, committed, reset, disconnect, net>>
      /\ structs' = 1 /\ Counted /\ k # 0 /\ links' = [links EXCEPT ![k] = e]
      /\ neighbors' = Recounted(neighbors, [links EXCEPT ![k] = e], {a})
  BY DEF DeleteLink
<1>2. k \in 1 .. Len(links) /\ links[k].nbr = a
  <2>1. k \in 0 .. Len(links) /\ (k # 0 => links[k].nbr = a)
    BY FirstLink
  <2> HIDE DEF k
  <2> QED BY <1>1, <2>1
<1> HIDE DEF k
<1>3. e \in Link /\ e.sf = links[k].sf /\ e.nbr = links[k].nbr /\ e.join = links[k].join
  <2>1. links[k] \in Link
    BY <1>2
  <2> QED BY <2>1 DEF Link
<1> HIDE DEF e
<1>4. /\ links' \in Seq(Link) /\ Len(links') = Len(links) /\ links'[k] = e
      /\ \A i \in 1 .. Len(links) : i # k => links'[i] = links[i]
  BY <1>1, <1>2, <1>3
<1>5. LinksGrown(links, links')
  <2>1. \A i \in 1 .. Len(links) : links'[i].sf = links[i].sf /\ links'[i].nbr = links[i].nbr
    BY <1>3, <1>4
  <2>2. Len(links) <= Len(links')
    BY <1>4
  <2> QED BY <1>4, <2>1, <2>2 DEF LinksGrown
<1>6. JoinSound(links')
  BY <1>2, <1>3, <1>4 DEF JoinSound
<1>7. NeighborsKept(neighbors, neighbors') /\ LinkedSound(neighbors', links')
  <2>1. \A i \in 1 .. Len(links) : links[i].nbr \notin {a} => links'[i] = links[i]
    BY <1>2, <1>4
  <2>2. neighbors' = Recounted(neighbors, links', {a})
    BY <1>1
  <2> QED BY <1>4, <2>1, <2>2, RecountedSound
<1>8. NeighborsGrown(neighbors, neighbors') /\ Unique(neighbors')
  BY <1>7, KeptNeighbors
<1>9. ScalarsOK'
  <2>1. changes' \in 0 .. MaxChanges
    BY <1>1, CountedLemma
  <2> QED BY <1>1, <2>1 DEF ScalarsOK
<1> QED BY <1>1, <1>5, <1>6, <1>7, <1>8, <1>9, LinkSteps

LEMMA ReceiveStep ==
    ASSUME TablesInv, NEW a \in Nicknames, Receive(a)
    PROVE  TablesInv'
<1> USE Facts
<1>1. /\ UNCHANGED <<superframes, links, connections, committed, reset, structs, disconnect,
                     net, changes>>
      /\ neighbors' \in Added(neighbors, a)
  BY DEF Receive
<1>2. NeighborsGrown(neighbors, neighbors') /\ Unique(neighbors')
  BY <1>1, AddedLemma
<1>3. LinkedSound(neighbors', links')
  BY <1>1, AddedSound
<1>4. LinksGrown(links, links') /\ JoinSound(links')
  BY <1>1, SameTables
<1>5. ScalarsOK'
  BY <1>1 DEF ScalarsOK
<1> QED BY <1>1, <1>2, <1>3, <1>4, <1>5, LinkSteps

LEMMA ReceiveDisconnectStep ==
    ASSUME TablesInv, NEW a \in Nicknames, ReceiveDisconnect(a)
    PROVE  TablesInv'
<1> USE Facts
<1>1. /\ UNCHANGED <<superframes, links, connections, committed, reset, structs, net>>
      /\ Counted /\ disconnect' = TRUE
  BY DEF ReceiveDisconnect
<1>2. PICK nbs \in Added(neighbors, a) :
         neighbors' = [nbs EXCEPT ![FindShortNeighbor(nbs, a)].gone = TRUE]
  BY DEF ReceiveDisconnect
<1> DEFINE k == FindShortNeighbor(nbs, a)
           e == [nbs[k] EXCEPT !.gone = TRUE]
<1>3. NeighborsGrown(neighbors, nbs) /\ Unique(nbs)
  BY AddedLemma
<1>4. nbs \in Seq(Neighbor)
  BY <1>3 DEF NeighborsGrown
<1>5. LinkedSound(nbs, links)
  BY AddedSound
<1>6. k \in 0 .. Len(nbs)
  BY <1>4, FirstNeighbor
<1>7. neighbors' = [nbs EXCEPT ![k] = e]
  BY <1>2
<1> HIDE DEF k
<1>8. ASSUME k # 0
      PROVE  /\ NeighborsGrown(neighbors, neighbors') /\ Unique(neighbors')
             /\ LinkedSound(neighbors', links)
  <2>1. e \in Neighbor /\ e.addr = nbs[k].addr /\ e.linked = nbs[k].linked
    <3>1. nbs[k] \in Neighbor
      BY <1>4, <1>6, <1>8
    <3> QED BY <3>1 DEF Neighbor
  <2> HIDE DEF e
  <2>2. /\ neighbors' \in Seq(Neighbor) /\ Len(neighbors') = Len(nbs) /\ neighbors'[k] = e
        /\ \A i \in 1 .. Len(nbs) : i # k => neighbors'[i] = nbs[i]
    BY <1>4, <1>6, <1>7, <1>8, <2>1
  <2>3. \A i \in 1 .. Len(nbs) : /\ neighbors'[i].addr = nbs[i].addr
                                 /\ neighbors'[i].linked = nbs[i].linked
    BY <2>1, <2>2
  <2>4. NeighborsKept(nbs, neighbors')
    BY <2>2, <2>3 DEF NeighborsKept
  <2>5. NeighborsGrown(neighbors, neighbors') /\ Unique(neighbors')
    BY <1>3, <2>4, GrownKept
  <2>6. LinkedSound(neighbors', links)
    BY <1>5, <2>2, <2>3 DEF LinkedSound
  <2> QED BY <2>5, <2>6
<1>9. ASSUME k = 0
      PROVE  /\ NeighborsGrown(neighbors, neighbors') /\ Unique(neighbors')
             /\ LinkedSound(neighbors', links)
  <2>1. neighbors' = nbs
    <3>1. 0 \notin DOMAIN nbs
      BY <1>4
    <3> HIDE DEF e
    <3> QED BY <1>4, <1>7, <1>9, <3>1
  <2> QED BY <1>3, <1>5, <2>1
<1>10. /\ NeighborsGrown(neighbors, neighbors') /\ Unique(neighbors')
       /\ LinkedSound(neighbors', links)
  BY <1>8, <1>9
<1>11. LinksGrown(links, links') /\ JoinSound(links') /\ LinkedSound(neighbors', links')
  BY <1>1, <1>10, SameTables
<1>12. ScalarsOK'
  <2>1. changes' \in 0 .. MaxChanges
    BY <1>1, CountedLemma
  <2> QED BY <1>1, <2>1 DEF ScalarsOK
<1> QED BY <1>1, <1>10, <1>11, <1>12, LinkSteps

-----------------------------------------------------------------------------
(* The start of a slot.                                                    *)

LEMMA AppliedLemma ==
    ASSUME NEW f \in Superframe
    PROVE  /\ Applied(f) \in Superframe /\ ~Applied(f).modify
           /\ Live(f) => Live(Applied(f))
<1> DEFINE on == IF f.setOn THEN TRUE ELSE IF f.setOff THEN FALSE ELSE f.active
           slots == IF f.modify THEN f.newSlots ELSE f.slots
           rest == IF f.modify THEN 0 ELSE f.newSlots
<1>1. on \in BOOLEAN /\ slots \in Nat /\ rest \in Nat
  BY DEF Superframe
<1>2. (f.active \/ f.setOn) /\ ~f.setOff => on
  BY DEF Superframe
<1>3. Applied(f) = [f EXCEPT !.active = on, !.slots = slots, !.newSlots = rest,
                             !.setOn = FALSE, !.setOff = FALSE, !.modify = FALSE]
  BY Zenon DEF Applied
<1> HIDE DEF on, slots, rest
<1>4. LET g == [f EXCEPT !.active = on, !.slots = slots, !.newSlots = rest,
                         !.setOn = FALSE, !.setOff = FALSE, !.modify = FALSE]
      IN  g \in Superframe /\ ~g.modify /\ ~g.setOff /\ g.active = on /\ g.deleted = f.deleted
  BY <1>1 DEF Superframe
<1> DEFINE g == Applied(f)
<1>5. g \in Superframe /\ ~g.modify /\ ~g.setOff /\ g.active = on /\ g.deleted = f.deleted
  BY <1>3, <1>4, Zenon
<1> HIDE DEF g
<1>6. ASSUME Live(f) PROVE Live(g)
  <2>1. on /\ ~f.deleted
    BY <1>2, <1>6 DEF Live
  <2> QED BY <1>5, <2>1 DEF Live
<1> QED BY <1>5, <1>6 DEF g

EntrySound(sfs, ls, nbs, h) ==
    /\ h.link \in 1 .. Len(ls) /\ h.sf \in DOMAIN sfs
    /\ sfs[h.sf].id = ls[h.link].sf /\ sfs[h.sf].active
    /\ h.nbr # NoIndex => h.nbr \in DOMAIN nbs /\ nbs[h.nbr].addr = ls[h.link].nbr

LEMMA EntryLemma ==
    ASSUME NEW sfs \in Seq(Superframe), NEW ls, NEW nbs \in Seq(Neighbor),
           NEW h \in HashEntries(sfs, ls, nbs)
    PROVE  EntrySound(sfs, ls, nbs, h)
<1>1. PICK i \in 1 .. Len(ls) : Served(sfs, ls[i]) /\ h = HashLink(sfs, ls, nbs, i)
  BY DEF HashEntries
<1> DEFINE f == FindSuperframe(sfs, ls[i].sf)
           n == FindShortNeighbor(nbs, ls[i].nbr)
<1>2. h = [link |-> i, sf |-> f, nbr |-> n]
  BY <1>1 DEF HashLink
<1>3. f # 0 /\ sfs[f].active
  BY <1>1 DEF Served
<1>4. f \in 0 .. Len(sfs) /\ (f # 0 => sfs[f].id = ls[i].sf)
  BY FirstSuperframe
<1>5. n \in 0 .. Len(nbs) /\ (n # 0 => nbs[n].addr = ls[i].nbr)
  BY FirstNeighbor
<1>6. DOMAIN nbs = 1 .. Len(nbs) /\ DOMAIN sfs = 1 .. Len(sfs)
  OBVIOUS
<1> HIDE DEF f, n
<1> QED BY <1>2, <1>3, <1>4, <1>5, <1>6 DEF NoIndex, EntrySound

\* DLL_Configure makes the tables and the hashes agree again.
LEMMA ConfigureStep ==
    ASSUME TablesInv, NEW flag,
           NEW ls \in Seq(Link), Len(ls) <= MaxLinks, JoinSound(ls),
           NEW nbs \in Seq(Neighbor), Len(nbs) <= MaxNeighbors, Unique(nbs),
           LinkedSound(nbs, ls),
           NEW cs \in Seq(Connection), Len(cs) <= MaxConnections,
           crtConns \in 0 .. Len(cs), SortedUpto(cs, crtConns),
           Configure(flag, ls, nbs, cs), ScalarsOK', UNCHANGED reset
    PROVE  TablesInv'
<1> DEFINE sup   == Undeleted(superframes)
           sfs   == [i \in DOMAIN sup |-> Applied(sup[i])]
           kept  == Undeleted(ls)
           renamed(l) == IF flag = 3 /\ l.join THEN [l EXCEPT !.nbr = Broadcast] ELSE l
           named == [i \in DOMAIN kept |->
                        IF flag = 3 /\ kept[i].join
                        THEN [kept[i] EXCEPT !.nbr = Broadcast] ELSE kept[i]]
           nb    == RebuildNeighbors(nbs)
           conns == RebuildConnections(cs, crtConns)
<1>1. /\ superframes' = sfs /\ links' = named /\ crtLinks' = Len(named)
      /\ neighbors' = nb.tab /\ linkedSize' = nb.size
      /\ hashLinks' = RebuildHashLinks(sfs, named, nb.tab)
      /\ connections' = conns /\ crtConns' = Len(conns)
      /\ hashGraphs' = RebuildHashGraphs(conns)
  BY DEF Configure
<1>2. /\ sup \in Seq(Superframe) /\ KeptOf(superframes, Len(superframes), sup)
      /\ superframes \in Seq(Superframe) /\ Len(superframes) <= MaxSuperframes
      /\ MaxSuperframes \in Nat
  BY Facts, UndeletedLemma, SizeAssumption
<1>3. kept \in Seq(Link) /\ KeptOf(ls, Len(ls), kept)
  BY UndeletedLemma
<1>4. /\ sfs \in Seq(Superframe) /\ Len(sfs) = Len(sup)
      /\ \A i \in 1 .. Len(sup) : sfs[i] = Applied(sup[i]) /\ ~sfs[i].modify
      /\ DOMAIN sfs = 1 .. Len(sup)
  <2> HIDE DEF sup
  <2>1. DOMAIN sup = 1 .. Len(sup) /\ Len(sup) \in Nat /\ \A i \in 1 .. Len(sup) : sup[i] \in Superframe
    BY <1>2
  <2>2. \A i \in 1 .. Len(sup) : Applied(sup[i]) \in Superframe /\ ~Applied(sup[i]).modify
    BY <2>1, AppliedLemma
  <2>3. sfs \in Seq(Superframe) /\ Len(sfs) = Len(sup)
    BY <2>1, <2>2
  <2> QED BY <2>1, <2>2, <2>3
<1>5. SuperframeOrRestart'
  <2> SUFFICES ASSUME ~reset PROVE \E i \in DOMAIN sfs : Live(sfs[i])
    BY <1>1 DEF SuperframeOrRestart
  <2>1. PICK i \in DOMAIN superframes : Live(superframes[i])
    BY Facts DEF SuperframeOrRestart
  <2>2. i \in 1 .. Len(superframes) /\ ~superframes[i].deleted
    BY <2>1, Facts DEF Live
  <2>3. PICK j \in 1 .. Len(sup) : sup[j] = superframes[i]
    <3> HIDE DEF sup
    <3> QED BY <1>2, <2>2 DEF KeptOf
  <2>4. superframes[i] \in Superframe
    BY <1>2, <2>2
  <2> HIDE DEF sfs, sup
  <2>5. Live(sfs[j])
    BY <1>4, <2>1, <2>3, <2>4, AppliedLemma
  <2> QED BY <1>4, <2>5
<1>6. ResizedOnlyDisabled'
  <2> HIDE DEF sfs, sup
  <2> QED BY <1>1, <1>4 DEF ResizedOnlyDisabled
<1>7. /\ nb.tab \in Seq(Neighbor) /\ nb.size \in 0 .. Len(nb.tab)
      /\ Len(nb.tab) <= Len(nbs) /\ Unique(nb.tab)
      /\ \A i \in 1 .. Len(nb.tab) : \E j \in 1 .. Len(nbs) : nb.tab[i] = nbs[j]
  <2>1. nb \in Visited /\ VisitOf(nbs, Len(nbs), nb)
    BY NeighborsLemma
  <2> HIDE DEF nb
  <2>2. nb.tab \in Seq(Neighbor) /\ nb.size \in Nat
    BY <2>1 DEF Visited
  <2> QED BY <2>1, <2>2 DEF VisitOf
<1>8. /\ named \in Seq(Link) /\ Len(named) = Len(kept) /\ Len(kept) <= Len(ls)
      /\ DOMAIN named = 1 .. Len(kept)
      /\ \A i \in 1 .. Len(kept) : /\ named[i].join = kept[i].join
                                   /\ named[i].nbr \in {kept[i].nbr, Broadcast}
                                   /\ ~kept[i].join => named[i] = kept[i]
  <2>1. \A l \in Link : /\ renamed(l) \in Link /\ renamed(l).join = l.join
                        /\ renamed(l).nbr \in {l.nbr, Broadcast}
                        /\ ~l.join => renamed(l) = l
    <3> TAKE l \in Link
    <3> DEFINE m == [l EXCEPT !.nbr = Broadcast]
    <3>1. m \in Link /\ m.join = l.join /\ m.nbr = Broadcast
      BY DEF Link
    <3> HIDE DEF m
    <3>2. renamed(l) = IF flag = 3 /\ l.join THEN m ELSE l
      BY DEF m
    <3> QED BY <3>1, <3>2
  <2> HIDE DEF kept
  <2>2. DOMAIN kept = 1 .. Len(kept) /\ Len(kept) \in Nat /\ \A i \in 1 .. Len(kept) : kept[i] \in Link
    BY <1>3
  <2>3. named = [i \in 1 .. Len(kept) |-> renamed(kept[i])]
    BY <2>2
  <2> HIDE DEF named, renamed
  <2>4. named \in Seq(Link) /\ Len(named) = Len(kept)
    BY <2>1, <2>2, <2>3
  <2>5. Len(kept) <= Len(ls)
    BY <1>3 DEF KeptOf
  <2> QED BY <2>1, <2>2, <2>3, <2>4, <2>5
<1> HIDE DEF sup, sfs, kept, renamed, named, nb, conns
<1>9. JoinSound(named)
  <2> SUFFICES ASSUME NEW i \in 1 .. Len(kept), named[i].join
               PROVE  named[i].nbr \in Proxies \union {Broadcast}
    BY <1>8 DEF JoinSound
  <2>1. PICK k \in 1 .. Len(ls) : kept[i] = ls[k]
    BY <1>3 DEF KeptOf
  <2>2. ls[k].join
    BY <1>8, <2>1
  <2> QED BY <1>8, <2>1, <2>2 DEF JoinSound
<1>10. LinkedSound(nb.tab, named)
  <2> SUFFICES ASSUME NEW i \in 1 .. Len(nb.tab), nb.tab[i].addr \notin Proxies,
                      NEW o \in nb.tab[i].linked
               PROVE  o \in LinkedBy(named, nb.tab[i].addr)
    BY DEF LinkedSound
  <2> DEFINE a == nb.tab[i].addr
  <2>1. PICK j \in 1 .. Len(nbs) : nb.tab[i] = nbs[j]
    BY <1>7
  <2>2. o \in LinkedBy(ls, a)
    BY <2>1 DEF LinkedSound
  <2>3. a # Broadcast
    <3>1. nbs[j] \in Neighbor
      OBVIOUS
    <3> QED BY <2>1, <3>1, NumbersAssumption DEF Neighbor
  <2> HIDE DEF a
  <2>4. PICK k \in 1 .. Len(ls) : ls[k].nbr = a /\ ~ls[k].deleted /\ o \in ls[k].options
    BY <2>2, LinkedByOptions
  <2>5. ~ls[k].join
    BY <2>3, <2>4 DEF JoinSound, a
  <2>6. PICK h \in 1 .. Len(kept) : kept[h] = ls[k]
    BY <1>3, <2>4 DEF KeptOf
  <2>7. h \in 1 .. Len(named) /\ named[h] = ls[k]
    BY <1>8, <2>5, <2>6
  <2>8. o \in LinkedBy(named, a)
    BY <1>8, <2>4, <2>7, LinkedByOptions
  <2> QED BY <2>8 DEF a
<1>11. /\ conns \in Seq(Connection) /\ Sorted(conns) /\ Len(conns) <= Len(cs)
  BY ConnectionsLemma DEF conns
<1>12. TablesTypeOK'
  <2>1. /\ Len(sup) <= MaxSuperframes /\ Len(named) <= MaxLinks
        /\ Len(nb.tab) <= MaxNeighbors /\ Len(conns) <= MaxConnections
    <3>1. Len(sup) <= Len(superframes)
      BY <1>2 DEF KeptOf
    <3>2. Len(sup) \in Nat /\ Len(superframes) \in Nat /\ Len(ls) \in Nat /\ Len(nbs) \in Nat
          /\ Len(cs) \in Nat /\ Len(kept) \in Nat /\ Len(nb.tab) \in Nat /\ Len(conns) \in Nat
      BY <1>2, <1>3, <1>7, <1>11
    <3>3. Len(sup) <= MaxSuperframes
      BY <1>2, <3>1, <3>2, SizeAssumption
    <3>4. Len(named) <= MaxLinks
      BY <1>2, <1>8, <3>2, SizeAssumption
    <3>5. Len(nb.tab) <= MaxNeighbors
      BY <1>2, <1>7, <3>2, SizeAssumption
    <3>6. Len(conns) <= MaxConnections
      BY <1>2, <1>11, <3>2, SizeAssumption
    <3> QED BY <3>3, <3>4, <3>5, <3>6
  <2>2. Len(named) \in 0 .. Len(named) /\ Len(conns) \in 0 .. Len(conns)
    BY <1>8, <1>11
  <2> QED BY <1>1, <1>4, <1>7, <1>8, <1>11, <2>1, <2>2 DEF TablesTypeOK, ScalarsOK
<1>13. HashSound'
  <2> DEFINE hash == RebuildHashLinks(sfs, named, nb.tab)
  <2>1. hash \in Seq(HashEntries(sfs, named, nb.tab))
    BY <1>8, HashLinksLemma
  <2>2. hashLinks' = hash
    BY <1>1
  <2> HIDE DEF hash
  <2>3. ASSUME NEW k \in DOMAIN hash
        PROVE  EntrySound(sfs, named, nb.tab, hash[k])
    <3>1. hash[k] \in HashEntries(sfs, named, nb.tab)
      BY <2>1, <2>3
    <3>2. sfs \in Seq(Superframe) /\ nb.tab \in Seq(Neighbor)
      BY <1>4, <1>7
    <3> QED BY <3>1, <3>2, EntryLemma
  <2> QED BY <1>1, <2>2, <2>3 DEF HashSound, EntrySound
<1>14. GroupsSound'
  <2>1. /\ RebuildHashGraphs(conns) \in Seq(Group)
        /\ HashOf(conns, Len(conns), RebuildHashGraphs(conns))
    BY <1>11, HashGraphsLemma
  <2>2. SortedUpto(conns, Len(conns))
    BY <1>11 DEF Sorted, SortedUpto
  <2> QED BY <1>1, <2>1, <2>2 DEF GroupsSound
<1> QED BY <1>1, <1>5, <1>6, <1>7, <1>9, <1>10, <1>12, <1>13, <1>14 DEF TablesInv

LEMMA TimeslotStartStep ==
    ASSUME TablesInv, TimeslotStart
    PROVE  TablesInv'
<1> USE Facts
<1> DEFINE toLost(t) == {i \in DOMAIN t : t[i].nbr \in LostLinked}
           ls  == Marked(links, toLost(links))
           cs  == Marked(connections, toLost(connections))
           nbs == [i \in DOMAIN neighbors |->
                    IF neighbors[i].gone
                    THEN [neighbors[i] EXCEPT !.linked = {}, !.deleted = TRUE]
                    ELSE neighbors[i]]
<1>1. structs' = 0 /\ disconnect' = FALSE /\ UNCHANGED <<net, reset, changes>>
  BY DEF TimeslotStart
<1>2. ScalarsOK'
  BY <1>1 DEF ScalarsOK
<1>3. SortedUpto(connections, crtConns)
  BY DEF TablesInv, GroupsSound
<1>4. CASE disconnect /\ Lost # {}
  <2>1. Configure(1, ls, nbs, cs)
    BY <1>4 DEF TimeslotStart
  <2>2. /\ ls \in Seq(Link) /\ Len(ls) = Len(links) /\ JoinSound(ls)
        /\ \A i \in 1 .. Len(links) : i \notin toLost(links) => ls[i] = links[i]
    BY MarkedLinks, MarkedGrown
  <2>3. /\ cs \in Seq(Connection) /\ Len(cs) = Len(connections)
        /\ \A i \in 1 .. Len(connections) : /\ cs[i].graph = connections[i].graph
                                            /\ cs[i].nbr = connections[i].nbr
    BY MarkedConnections
  <2>4. /\ nbs \in Seq(Neighbor) /\ Len(nbs) = Len(neighbors)
        /\ \A i \in 1 .. Len(neighbors) :
              /\ nbs[i].addr = neighbors[i].addr
              /\ nbs[i].linked = IF neighbors[i].gone THEN {} ELSE neighbors[i].linked
    <3> DEFINE e(i) == [neighbors[i] EXCEPT !.linked = {}, !.deleted = TRUE]
    <3>1. \A n \in Neighbor : LET d == [n EXCEPT !.linked = {}, !.deleted = TRUE] IN
             d \in Neighbor /\ d.addr = n.addr /\ d.linked = {}
      BY DEF Neighbor
    <3>2. \A i \in 1 .. Len(neighbors) :
             /\ neighbors[i] \in Neighbor
             /\ e(i) \in Neighbor /\ e(i).addr = neighbors[i].addr /\ e(i).linked = {}
      <4> TAKE i \in 1 .. Len(neighbors)
      <4>1. neighbors[i] \in Neighbor
        OBVIOUS
      <4> QED BY <3>1, <4>1, Zenon
    <3> HIDE DEF e
    <3>3. nbs = [i \in 1 .. Len(neighbors) |-> IF neighbors[i].gone THEN e(i) ELSE neighbors[i]]
      BY DEF e
    <3> HIDE DEF nbs
    <3>4. nbs \in Seq(Neighbor) /\ Len(nbs) = Len(neighbors)
      BY <3>2, <3>3
    <3> QED BY <3>2, <3>3, <3>4
  <2>5. Unique(nbs)
    <3> HIDE DEF nbs
    <3> QED BY <2>4 DEF Unique
  <2>6. LinkedSound(nbs, ls)
    <3> SUFFICES ASSUME NEW i \in 1 .. Len(neighbors), neighbors[i].addr \notin Proxies,
                        NEW o \in nbs[i].linked
                 PROVE  o \in LinkedBy(ls, neighbors[i].addr)
      <4> HIDE DEF nbs, ls
      <4> QED BY <2>4 DEF LinkedSound
    <3>1. ~neighbors[i].gone /\ o \in neighbors[i].linked
      <4> HIDE DEF nbs
      <4> QED BY <2>4
    <3>2. neighbors[i].addr \notin LostLinked
      <4> SUFFICES ASSUME NEW j \in DOMAIN neighbors, neighbors[j].addr = neighbors[i].addr,
                          neighbors[j].gone
                   PROVE  FALSE
        BY DEF LostLinked
      <4>1. j = i
        BY DEF Unique
      <4> QED BY <3>1, <4>1
    <3>3. o \in LinkedBy(links, neighbors[i].addr)
      BY <3>1 DEF LinkedSound
    <3>4. PICK k \in 1 .. Len(links) :
             links[k].nbr = neighbors[i].addr /\ ~links[k].deleted /\ o \in links[k].options
      BY <3>3, LinkedByOptions
    <3>5. k \notin toLost(links)
      BY <3>2, <3>4
    <3>6. ls[k] = links[k] /\ k \in 1 .. Len(ls)
      <4> HIDE DEF ls, toLost
      <4> QED BY <2>2, <3>5
    <3> HIDE DEF ls
    <3> QED BY <2>2, <3>4, <3>6, LinkedByOptions
  <2>7. crtConns \in 0 .. Len(cs) /\ SortedUpto(cs, crtConns)
    <3> HIDE DEF cs
    <3>1. \A i \in 1 .. crtConns : i \in 1 .. Len(connections)
      OBVIOUS
    <3> QED BY <1>3, <2>3, <3>1 DEF SortedUpto, Before
  <2> HIDE DEF ls, cs, nbs
  <2>8. Len(ls) <= MaxLinks /\ Len(nbs) <= MaxNeighbors /\ Len(cs) <= MaxConnections
    BY <2>2, <2>3, <2>4
  <2> QED BY <1>1, <1>2, <2>1, <2>2, <2>3, <2>4, <2>5, <2>6, <2>7, <2>8, ConfigureStep
<1>5. CASE ~ (disconnect /\ Lost # {}) /\ structs # 0
  <2>1. Configure(structs, links, neighbors, connections)
    BY <1>5 DEF TimeslotStart
  <2> QED BY <1>1, <1>2, <1>3, <2>1, ConfigureStep
<1>6. CASE ~ (disconnect /\ Lost # {}) /\ structs = 0
  <2>1. UNCHANGED <<tables, committed>>
    BY <1>6 DEF TimeslotStart
  <2>2. UNCHANGED <<superframes, links, neighbors, connections, committed, reset>>
    BY <1>1, <2>1 DEF tables
  <2>3. ConnectionsGrown(connections, connections')
    BY <2>2, SameTables
  <2> QED BY <1>2, <2>2, <2>3, ConnectionSteps
<1> QED BY <1>4, <1>5, <1>6

-----------------------------------------------------------------------------
(* The theorems.                                                           *)

LEMMA InitInv == TablesInit => TablesInv
<1> SUFFICES ASSUME TablesInit PROVE TablesInv
  OBVIOUS
<1> DEFINE f == NewSuperframe(0, 2, TRUE)
<1>1. PICK proxy \in Proxies :
         /\ superframes = <<Applied(f)>>
         /\ links = JoinLinks(proxy) /\ crtLinks = 2
         /\ neighbors = LinkedTo(<<NewNeighbor(proxy)>>, proxy, {"tx", "rx"})
         /\ linkedSize = 1
         /\ connections = <<NewConnection(JoinGraph, proxy)>> /\ crtConns = 1
         /\ hashLinks = RebuildHashLinks(superframes, links, neighbors)
         /\ hashGraphs = RebuildHashGraphs(connections)
         /\ structs = 0 /\ disconnect = FALSE
         /\ net = "joining" /\ reset = FALSE /\ changes = 0
  BY DEF TablesInit
<1>2. /\ proxy \in Nicknames /\ JoinGraph \in Graphs /\ 0 \in Superframes /\ 0 \in Slots
      /\ 1 \in Slots /\ TRUE \in BOOLEAN /\ 2 \in Nat
  BY JoinAssumption
<1>3. /\ f \in Superframe /\ ~f.modify /\ ~f.setOff /\ ~f.active /\ ~f.deleted /\ f.setOn = TRUE
  BY <1>2, SuperframeAdded, Zenon
<1>4. /\ Applied(f) \in Superframe /\ ~Applied(f).modify /\ Live(Applied(f))
  <2> HIDE DEF f
  <2>1. Live(f)
    BY <1>3 DEF Live
  <2> QED BY <1>3, <2>1, AppliedLemma
<1> HIDE DEF f
<1>5. /\ superframes \in Seq(Superframe) /\ Len(superframes) = 1
      /\ superframes[1] = Applied(f) /\ DOMAIN superframes = {1}
  <2> DEFINE g == Applied(f)
  <2> HIDE DEF g
  <2>1. g \in Superframe /\ superframes = <<g>>
    BY <1>1, <1>4 DEF g
  <2>2. superframes \in Seq(Superframe) /\ Len(superframes) = 1 /\ superframes[1] = g
    BY <2>1
  <2>3. DOMAIN superframes = 1 .. 1
    BY <2>2
  <2> QED BY <2>2, <2>3 DEF g
<1>6. links \in Seq(Link) /\ Len(links) = 2 /\ JoinSound(links)
  BY <1>1, <1>2, JoinLinksLemma
<1>7. /\ neighbors \in Seq(Neighbor) /\ Len(neighbors) = 1 /\ neighbors[1].addr = proxy
  <2> DEFINE e == NewNeighbor(proxy)
             s == <<e>>
  <2>1. e \in Neighbor /\ e.addr = proxy
    BY <1>2 DEF NewNeighbor, Neighbor
  <2> HIDE DEF e
  <2>2. s \in Seq(Neighbor) /\ Len(s) = 1 /\ s[1] = e
    BY <2>1
  <2>3. neighbors = LinkedTo(s, proxy, {"tx", "rx"})
    BY <1>1 DEF e
  <2> HIDE DEF s
  <2>4. NeighborsKept(s, neighbors)
    BY <2>2, <2>3, LinkedToLemma
  <2> QED BY <2>1, <2>2, <2>4 DEF NeighborsKept
<1>8. connections \in Seq(Connection) /\ Len(connections) = 1
  <2> DEFINE c == NewConnection(JoinGraph, proxy)
  <2>1. c \in Connection
    BY <1>2, ConnectionAdded
  <2> HIDE DEF c
  <2>2. connections = <<c>>
    BY <1>1 DEF c
  <2> QED BY <2>1, <2>2
<1>9. /\ MaxSuperframes \in Nat \ {0} /\ MaxLinks \in Nat \ {0, 1}
      /\ MaxConnections \in Nat \ {0} /\ MaxNeighbors \in Nat \ {0} /\ MaxChanges \in Nat
  BY SizeAssumption
<1>10. TablesTypeOK
  <2>1. /\ Len(superframes) <= MaxSuperframes /\ Len(links) <= MaxLinks
        /\ Len(neighbors) <= MaxNeighbors /\ Len(connections) <= MaxConnections
    BY <1>5, <1>6, <1>7, <1>8, <1>9
  <2>2. crtLinks \in 0 .. Len(links) /\ linkedSize \in 0 .. Len(neighbors)
        /\ crtConns \in 0 .. Len(connections)
    BY <1>1, <1>6, <1>7, <1>8
  <2>3. ScalarsOK
    <3>1. structs = 0 /\ disconnect = FALSE /\ net = "joining" /\ reset = FALSE /\ changes = 0
      BY <1>1
    <3>2. changes \in 0 .. MaxChanges
      BY <1>9, <3>1
    <3> QED BY <3>1, <3>2 DEF ScalarsOK
  <2> QED BY <1>5, <1>6, <1>7, <1>8, <2>1, <2>2, <2>3 DEF TablesTypeOK, ScalarsOK
<1>11. Unique(neighbors) /\ LinkedSound(neighbors, links)
  <2>1. \A i \in 1 .. Len(neighbors) : i = 1
    BY <1>7
  <2> QED BY <1>7, <2>1 DEF Unique, LinkedSound
<1>12. ResizedOnlyDisabled /\ SuperframeOrRestart
  BY <1>4, <1>5 DEF ResizedOnlyDisabled, SuperframeOrRestart
<1>13. HashSound
  <2>1. hashLinks \in Seq(HashEntries(superframes, links, neighbors))
    BY <1>1, <1>6, HashLinksLemma
  <2> SUFFICES ASSUME NEW k \in DOMAIN hashLinks
               PROVE  EntrySound(superframes, links, neighbors, hashLinks[k])
    BY <1>1, <1>6 DEF HashSound, EntrySound
  <2>2. hashLinks[k] \in HashEntries(superframes, links, neighbors)
    BY <2>1
  <2>3. superframes \in Seq(Superframe) /\ neighbors \in Seq(Neighbor)
    BY <1>5, <1>7
  <2> QED BY <2>2, <2>3, EntryLemma
<1>14. GroupsSound
  <2>1. Sorted(connections) /\ SortedUpto(connections, crtConns)
    BY <1>1, <1>8 DEF Sorted, SortedUpto
  <2>2. /\ hashGraphs \in Seq(Group) /\ HashOf(connections, Len(connections), hashGraphs)
    BY <1>1, <1>8, <2>1, HashGraphsLemma
  <2> QED BY <1>1, <1>8, <2>1, <2>2 DEF GroupsSound
<1> QED BY <1>6, <1>10, <1>11, <1>12, <1>13, <1>14 DEF TablesInv

LEMMA NextInv == TablesInv /\ [TablesNext]_tableVars => TablesInv'
<1> SUFFICES ASSUME TablesInv, [TablesNext]_tableVars PROVE TablesInv'
  OBVIOUS
<1>1. CASE TimeslotStart
  BY <1>1, TimeslotStartStep
<1>2. CASE \E proxy \in Proxies : JoinRetry(proxy)
  BY <1>2, JoinRetryStep
<1>3. CASE Quarantined \/ Operational
  BY <1>3, JoinedStep
<1>4. ASSUME NEW id \in Superframes,
             \/ \E n \in {s + 1 : s \in Slots}, on \in BOOLEAN : WriteSuperframe(id, n, on)
             \/ DeleteSuperframe(id)
             \/ RouteOnSuperframe(id)
             \/ \E a \in Nicknames, ts \in Slots :
                 \/ \E options \in Options : WriteLink(id, a, ts, options)
                 \/ DeleteLink(id, a, ts)
      PROVE  TablesInv'
  <2>1. CASE \E n \in {s + 1 : s \in Slots}, on \in BOOLEAN : WriteSuperframe(id, n, on)
    BY <2>1, WriteSuperframeStep
  <2>2. CASE DeleteSuperframe(id)
    BY <2>2, DeleteSuperframeStep
  <2>3. CASE RouteOnSuperframe(id)
    BY <2>3, RouteOnSuperframeStep
  <2>4. ASSUME NEW a \in Nicknames, NEW ts \in Slots,
               NEW options \in Options, WriteLink(id, a, ts, options)
        PROVE  TablesInv'
    BY <2>4, WriteLinkStep
  <2>5. ASSUME NEW a \in Nicknames, NEW ts \in Slots, DeleteLink(id, a, ts)
        PROVE  TablesInv'
    BY <2>5, DeleteLinkStep
  <2> QED BY <1>4, <2>1, <2>2, <2>3, <2>4, <2>5
<1>5. ASSUME NEW g \in Graphs, NEW a \in Nicknames,
             WriteConnection(g, a) \/ DeleteConnection(g, a)
      PROVE  TablesInv'
  BY <1>5, WriteConnectionStep, DeleteConnectionStep
<1>6. ASSUME NEW g \in Graphs \union Superframes, RouteRemoved(g) PROVE TablesInv'
  BY <1>6, RouteRemovedStep
<1>7. ASSUME NEW a \in Nicknames, Receive(a) \/ ReceiveDisconnect(a) PROVE TablesInv'
  BY <1>7, ReceiveStep, ReceiveDisconnectStep
<1>8. CASE UNCHANGED tableVars
  <2>1. /\ UNCHANGED <<superframes, links, neighbors, connections, committed, reset>>
        /\ UNCHANGED <<structs, disconnect, net, changes>>
    BY <1>8 DEF tableVars, tables
  <2>2. ConnectionsGrown(connections, connections')
    BY <2>1, Facts, SameTables
  <2>3. ScalarsOK'
    BY <2>1, Facts DEF ScalarsOK
  <2> QED BY <2>1, <2>2, <2>3, ConnectionSteps
<1> QED BY <1>1, <1>2, <1>3, <1>4, <1>5, <1>6, <1>7, <1>8 DEF TablesNext

LEMMA AlwaysInv == TablesSpec => []TablesInv
BY InitInv, NextInv, PTL DEF TablesSpec

\* The tables stay within their sizes, and the committed parts within the tables.
THEOREM TablesTypeCorrect == TablesSpec => []TablesTypeOK
<1>1. TablesInv => TablesTypeOK
  BY DEF TablesInv
<1> QED BY <1>1, AlwaysInv, PTL

\* Whatever is written, deleted or received between two slots, what a slot is served
\* from refers to committed links, to their enabled superframes and to their neighbours.
THEOREM HashSoundAlways == TablesSpec => []HashSound
<1>1. TablesInv => HashSound
  BY DEF TablesInv
<1> QED BY <1>1, AlwaysInv, PTL

\* A packet on a graph always finds all the neighbours of the graph, and no others.
THEOREM GraphsSortedAlways == TablesSpec => []GraphsSorted
<1>1. TablesInv => GraphsSorted
  <2> SUFFICES ASSUME TablesInv PROVE GraphsSorted
    OBVIOUS
  <2>1. /\ SortedUpto(connections, crtConns)
        /\ hashGraphs \in Seq(Group) /\ HashOf(connections, crtConns, hashGraphs)
        /\ crtConns \in Nat
    BY Facts DEF TablesInv, GroupsSound
  <2>2. DOMAIN hashGraphs = 1 .. Len(hashGraphs) /\ Len(hashGraphs) \in Nat
    BY <2>1
  <2>3. \A k \in 1 .. Len(hashGraphs) : \A i \in Members(hashGraphs[k]) : i \in 1 .. crtConns
    <3> TAKE k \in 1 .. Len(hashGraphs)
    <3>1. hashGraphs[k] \in Group
      BY <2>1
    <3>2. hashGraphs[k].idx \in Nat /\ hashGraphs[k].len \in Nat
      BY <3>1 DEF Group
    <3>3. hashGraphs[k].idx >= 1 /\ hashGraphs[k].idx + hashGraphs[k].len <= crtConns + 1
      BY <2>1 DEF HashOf
    <3> QED BY <2>1, <3>2, <3>3 DEF Members
  <2>4. \A i \in 1 .. crtConns : \E k \in DOMAIN hashGraphs :
           /\ hashGraphs[k].graph = connections[i].graph
           /\ i \in Members(hashGraphs[k])
    BY <2>1, <2>2 DEF HashOf
  <2>5. \A k \in DOMAIN hashGraphs : \A i \in Members(hashGraphs[k]) :
           i \in 1 .. crtConns /\ connections[i].graph = hashGraphs[k].graph
    BY <2>1, <2>2, <2>3 DEF HashOf
  <2>6. ASSUME NEW k \in DOMAIN hashGraphs, NEW m \in DOMAIN hashGraphs,
               hashGraphs[k].graph = hashGraphs[m].graph
        PROVE  k = m
    <3>1. hashGraphs[k] \in Group
      BY <2>1, <2>2
    <3>2. hashGraphs[k].graph \in Nat
      BY <3>1, NumbersAssumption DEF Group
    <3>3. ~ (k < m) /\ ~ (m < k)
      BY <2>1, <2>2, <2>6, <3>2 DEF HashOf
    <3> QED BY <2>2, <3>3
  <2> QED BY <2>1, <2>4, <2>5, <2>6 DEF GraphsSorted, SortedUpto, Members
<1> QED BY <1>1, AlwaysInv, PTL

\* A neighbour to which packets are routed directly has a link to it that stays.
THEOREM LinkedMeansLinkAlways == TablesSpec => []LinkedMeansLink
<1>1. TablesInv => LinkedMeansLink
  BY Facts DEF LinkedSound, LinkedMeansLink
<1> QED BY <1>1, AlwaysInv, PTL

\* A superframe that is resized is not served, or is about not to be.
THEOREM ResizedOnlyDisabledAlways == TablesSpec => []ResizedOnlyDisabled
<1>1. TablesInv => ResizedOnlyDisabled
  BY DEF TablesInv
<1> QED BY <1>1, AlwaysInv, PTL

\* The device can be reached, or has asked for a restart.
THEOREM SuperframeOrRestartAlways == TablesSpec => []SuperframeOrRestart
<1>1. TablesInv => SuperframeOrRestart
  BY DEF TablesInv
<1> QED BY <1>1, AlwaysInv, PTL
=============================================================================
