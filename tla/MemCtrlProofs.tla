--------------------------- MODULE MemCtrlProofs ---------------------------
(***************************************************************************)
(* Proofs about MemCtrl, for every set of packets and ranks, every size of *)
(* the buffers and both scheduling policies.                               *)
(***************************************************************************)
EXTENDS MemCtrl, SetLemmas, SequenceTheorems, TLAPS

----------------------------------------------------------------------------
(* Sequences *)

(* What Select picks, it picks from different positions of keep. *)
LEMMA SelectFacts ==
    ASSUME NEW S, NEW s \in Seq(S), NEW keep \in SUBSET DOMAIN s
    PROVE  /\ Select(s, keep) \in Seq(S)
           /\ Len(Select(s, keep)) = Cardinality(keep)
           /\ DOMAIN Select(s, keep) = 1 .. Cardinality(keep)
           /\ Cardinality(keep) \in 0 .. Len(s)
           /\ \E f \in [1 .. Cardinality(keep) -> keep] :
                 /\ \A n \in 1 .. Cardinality(keep) : Select(s, keep)[n] = s[f[n]]
                 /\ \A m, n \in 1 .. Cardinality(keep) : f[m] = f[n] => m = n
<1> DEFINE N == Cardinality(keep)
           Upto(i) == {j \in keep : j <= i}
           pos == [i \in keep |-> Cardinality(Upto(i))]
<1>1. DOMAIN s = 1 .. Len(s) /\ Len(s) \in Nat
  BY LenProperties
<1>2. IsFiniteSet(1 .. Len(s)) /\ Cardinality(1 .. Len(s)) = Len(s)
  BY <1>1, FirstN
<1>3. IsFiniteSet(keep) /\ N \in Nat /\ N <= Len(s)
  BY <1>1, <1>2, FS_Subset, FS_CardinalityType
<1>4. \A i \in keep : i \in Nat
  BY <1>1
<1>5. ASSUME NEW i \in keep
      PROVE  /\ IsFiniteSet(Upto(i)) /\ Cardinality(Upto(i)) \in Nat
             /\ Cardinality(Upto(i)) <= N /\ Cardinality(Upto(i)) # 0
  <2>1. Upto(i) \in SUBSET keep /\ i \in Upto(i)
    BY <1>4
  <2> HIDE DEF Upto
  <2> QED
    BY <1>3, <2>1, FS_Subset, FS_CardinalityType, FS_EmptySet
<1>6. ASSUME NEW i \in keep, NEW k \in keep, i < k
      PROVE  Cardinality(Upto(i)) # Cardinality(Upto(k))
  <2>1. Upto(i) \in SUBSET Upto(k) /\ k \in Upto(k) /\ k \notin Upto(i)
    BY <1>4, <1>6
  <2> HIDE DEF Upto
  <2> QED
    BY <1>5, <2>1, FS_Subset
<1> HIDE DEF N, Upto
<1>7. pos \in [keep -> 1 .. N]
  BY <1>3, <1>5
<1>8. \A i, k \in keep : pos[i] = pos[k] => i = k
  BY <1>4, <1>6
<1>9. pos \in Injection(keep, 1 .. N)
  BY <1>7, <1>8 DEF Injection, IsInjective
<1>10. IsFiniteSet(1 .. N) /\ Cardinality(1 .. N) = N
  BY <1>3, FirstN
<1>11. pos \in Surjection(keep, 1 .. N)
  BY <1>9, <1>10, FS_Injection DEF N
<1>12. \A n \in 1 .. N : \E i \in keep : Cardinality(Upto(i)) = n
  BY <1>11 DEF Surjection
<1> DEFINE f == [n \in 1 .. N |-> CHOOSE i \in keep : Cardinality(Upto(i)) = n]
<1>13. \A n \in 1 .. N : f[n] \in keep /\ Cardinality(Upto(f[n])) = n
  BY <1>12
<1>14. Select(s, keep) = [n \in 1 .. N |-> s[f[n]]]
  BY DEF Select, N, Upto
<1> HIDE DEF f
<1>15. f \in [1 .. N -> keep] /\ \A m, n \in 1 .. N : f[m] = f[n] => m = n
  BY <1>13 DEF f
<1>16. \A n \in 1 .. N : s[f[n]] \in S
  BY <1>1, <1>13, ElementOfSeq
<1>17. Select(s, keep) \in Seq(S) /\ Len(Select(s, keep)) = N
  BY <1>3, <1>14, <1>16
<1>18. DOMAIN Select(s, keep) = 1 .. N /\ N \in 0 .. Len(s)
  BY <1>1, <1>3, <1>14
<1>19. \A n \in 1 .. N : Select(s, keep)[n] = s[f[n]]
  BY <1>14
<1> QED
  BY <1>15, <1>17, <1>18, <1>19 DEF N

(* RemoveAt closes the gap. *)
LEMMA RemoveAtFacts ==
    ASSUME NEW S, NEW q \in Seq(S), NEW i \in DOMAIN q
    PROVE  /\ RemoveAt(q, i) \in Seq(S)
           /\ Len(RemoveAt(q, i)) = Len(q) - 1
           /\ \A j \in 1 .. Len(q) - 1 :
                 RemoveAt(q, i)[j] = q[IF j < i THEN j ELSE j + 1]
<1>1. DOMAIN q = 1 .. Len(q) /\ Len(q) \in Nat /\ i \in Nat
  BY LenProperties
<1>2. \A j \in 1 .. Len(q) : q[j] \in S
  BY ElementOfSeq
<1> DEFINE a == SubSeq(q, 1, i - 1)
           b == SubSeq(q, i + 1, Len(q))
<1>3. a \in Seq(S) /\ Len(a) = i - 1 /\ \A j \in 1 .. i - 1 : a[j] = q[j]
  <2>1. 1 \in Int /\ i - 1 \in Int /\ \A j \in 1 .. i - 1 : q[j] \in S
    BY <1>1, <1>2
  <2>2. /\ a \in Seq(S) /\ Len(a) = IF 1 <= i - 1 THEN (i - 1) - 1 + 1 ELSE 0
        /\ \A j \in 1 .. (i - 1) - 1 + 1 : a[j] = q[1 + j - 1]
    BY <2>1, SubSeqProperties
  <2> QED
    BY <1>1, <2>2
<1>4. b \in Seq(S) /\ Len(b) = Len(q) - i /\ \A j \in 1 .. Len(q) - i : b[j] = q[i + j]
  <2>1. i + 1 \in Int /\ Len(q) \in Int /\ \A j \in i + 1 .. Len(q) : q[j] \in S
    BY <1>1, <1>2
  <2>2. /\ b \in Seq(S) /\ Len(b) = IF i + 1 <= Len(q) THEN Len(q) - (i + 1) + 1 ELSE 0
        /\ \A j \in 1 .. Len(q) - (i + 1) + 1 : b[j] = q[(i + 1) + j - 1]
    BY <2>1, SubSeqProperties
  <2>3. /\ (IF i + 1 <= Len(q) THEN Len(q) - (i + 1) + 1 ELSE 0) = Len(q) - i
        /\ Len(q) - (i + 1) + 1 = Len(q) - i
        /\ \A j \in 1 .. Len(q) - i : (i + 1) + j - 1 = i + j
    BY <1>1
  <2> HIDE DEF b
  <2> QED
    BY <2>2, <2>3
<1>5. RemoveAt(q, i) = a \o b
  BY DEF RemoveAt
<1> HIDE DEF a, b
<1>6. /\ a \o b \in Seq(S) /\ Len(a \o b) = Len(a) + Len(b)
      /\ \A j \in 1 .. Len(a) + Len(b) :
            (a \o b)[j] = IF j <= Len(a) THEN a[j] ELSE b[j - Len(a)]
  BY <1>3, <1>4, ConcatProperties
<1>7. Len(a) + Len(b) = Len(q) - 1
  BY <1>1, <1>3, <1>4
<1>8. ASSUME NEW j \in 1 .. Len(q) - 1
      PROVE  (a \o b)[j] = q[IF j < i THEN j ELSE j + 1]
  <2>1. CASE j < i
    BY <1>1, <1>3, <1>6, <1>7, <2>1
  <2>2. CASE ~(j < i)
    <3>1. j - (i - 1) \in 1 .. Len(q) - i /\ i + (j - (i - 1)) = j + 1 /\ ~(j <= i - 1)
      BY <1>1, <2>2
    <3>2. (a \o b)[j] = b[j - (i - 1)]
      BY <1>3, <1>6, <1>7, <3>1
    <3> QED
      BY <1>4, <2>2, <3>1, <3>2
  <2> QED
    BY <2>1, <2>2
<1> QED
  BY <1>5, <1>6, <1>7, <1>8

----------------------------------------------------------------------------
(* The bursts of a packet in a queue *)

Entry == [pkt : Reads, burst : Bursts]

(* They are finitely many. *)
LEMMA InFlightFinite ==
    ASSUME NEW q \in Seq(Entry), NEW p
    PROVE  /\ IsFiniteSet({i \in DOMAIN q : q[i].pkt = p})
           /\ InFlight(q, p) \in Nat
           /\ InFlight(q, p) <= Len(q)
<1>1. DOMAIN q = 1 .. Len(q) /\ Len(q) \in Nat
  BY LenProperties
<1>2. IsFiniteSet(DOMAIN q) /\ Cardinality(DOMAIN q) = Len(q)
  BY <1>1, FirstN
<1> DEFINE P == {i \in DOMAIN q : q[i].pkt = p}
<1>3. P \in SUBSET DOMAIN q /\ InFlight(q, p) = Cardinality(P)
  BY DEF InFlight
<1> HIDE DEF P
<1>4. IsFiniteSet(P) /\ Cardinality(P) \in Nat /\ Cardinality(P) <= Len(q)
  BY <1>2, <1>3, FS_Subset, FS_CardinalityType
<1> QED
  BY <1>3, <1>4 DEF P

(* r is q without its entry i; r is q with n entries of packet p after it; *)
(* the part of n entries of packet p that are packet x's.                  *)
Shorter(q, r, i) ==
    /\ q \in Seq(Entry) /\ i \in DOMAIN q
    /\ r \in Seq(Entry) /\ Len(r) = Len(q) - 1
    /\ \A j \in 1 .. Len(q) - 1 : r[j] = q[IF j < i THEN j ELSE j + 1]
Longer(q, r, n, p) ==
    /\ q \in Seq(Entry) /\ n \in Nat
    /\ r \in Seq(Entry) /\ Len(r) = Len(q) + n
    /\ \A j \in 1 .. Len(q) : r[j] = q[j]
    /\ \A j \in Len(q) + 1 .. Len(q) + n : r[j].pkt = p
Share(x, p, n) == IF x = p THEN n ELSE 0

(* One entry less. *)
LEMMA OneLess ==
    ASSUME NEW q, NEW r, NEW i, Shorter(q, r, i), NEW x
    PROVE  InFlight(q, x) = InFlight(r, x) + Share(x, q[i].pkt, 1)
<1>0. /\ q \in Seq(Entry) /\ i \in DOMAIN q
      /\ r \in Seq(Entry) /\ Len(r) = Len(q) - 1
      /\ \A j \in 1 .. Len(q) - 1 : r[j] = q[IF j < i THEN j ELSE j + 1]
  BY DEF Shorter
<1>1. /\ DOMAIN q = 1 .. Len(q) /\ Len(q) \in Nat /\ i \in Nat
      /\ DOMAIN r = 1 .. Len(q) - 1
  BY <1>0, LenProperties
<1> DEFINE P == {j \in DOMAIN q : q[j].pkt = x}
           Q == {j \in DOMAIN r : r[j].pkt = x}
           T == P \ {i}
           f == [j \in Q |-> IF j < i THEN j ELSE j + 1]
<1>2. IsFiniteSet(P) /\ Cardinality(P) \in Nat
  BY <1>0, InFlightFinite DEF InFlight
<1>3. IsFiniteSet(T) /\ Cardinality(T) = IF i \in P THEN Cardinality(P) - 1 ELSE Cardinality(P)
  BY <1>2, FS_RemoveElement
<1>4. f \in [Q -> T]
  BY <1>0, <1>1
<1>5. \A y, z \in Q : f[y] = f[z] => y = z
  BY <1>1
<1>6. ASSUME NEW z \in T PROVE \E y \in Q : f[y] = z
  <2>1. CASE z < i
    <3>1. z \in Q /\ f[z] = z
      BY <1>0, <1>1, <2>1
    <3> QED
      BY <3>1
  <2>2. CASE z > i
    <3>0. z \in 1 .. Len(q) /\ q[z].pkt = x /\ i \in 1 .. Len(q)
      BY <1>0, <1>1
    <3>1. z - 1 \in 1 .. Len(q) - 1 /\ ~(z - 1 < i) /\ (z - 1) + 1 = z
      <4> HIDE DEF P, Q, T, f
      <4> QED
        BY <1>1, <2>2, <3>0
    <3>2. r[z - 1] = q[z]
      BY <1>0, <3>1
    <3>3. z - 1 \in Q
      BY <1>1, <3>0, <3>1, <3>2
    <3>4. f[z - 1] = z
      BY <3>1, <3>3
    <3> QED
      BY <3>3, <3>4
  <2>3. z < i \/ z > i
    BY <1>1
  <2> HIDE DEF Q, T, f
  <2> QED
    BY <2>1, <2>2, <2>3
<1>7. i \in P <=> q[i].pkt = x
  BY <1>0
<1>8. InFlight(q, x) = Cardinality(P) /\ InFlight(r, x) = Cardinality(Q)
  BY DEF InFlight
<1> HIDE DEF P, Q, T, f
<1>9. Cardinality(Q) = Cardinality(T)
  BY <1>3, <1>4, <1>5, <1>6, SameSize
<1> QED
  BY <1>2, <1>3, <1>7, <1>8, <1>9 DEF Share

(* Entries of one packet more. *)
LEMMA SomeMore ==
    ASSUME NEW q, NEW r, NEW n, NEW p, Longer(q, r, n, p), NEW x
    PROVE  InFlight(r, x) = InFlight(q, x) + Share(x, p, n)
<1>0. /\ q \in Seq(Entry) /\ n \in Nat
      /\ r \in Seq(Entry) /\ Len(r) = Len(q) + n
      /\ \A j \in 1 .. Len(q) : r[j] = q[j]
      /\ \A j \in Len(q) + 1 .. Len(q) + n : r[j].pkt = p
  BY DEF Longer
<1>1. /\ DOMAIN q = 1 .. Len(q) /\ Len(q) \in Nat
      /\ DOMAIN r = 1 .. Len(q) + n
  BY <1>0, LenProperties
<1> DEFINE Q == {j \in DOMAIN q : q[j].pkt = x}
           R == {j \in DOMAIN r : r[j].pkt = x}
           N == IF x = p THEN Len(q) + 1 .. Len(q) + n ELSE {}
<1>2. IsFiniteSet(Q) /\ Cardinality(Q) \in Nat
  BY <1>0, InFlightFinite DEF InFlight
<1>3. IsFiniteSet(N) /\ Cardinality(N) = IF x = p THEN n ELSE 0
  <2>1. CASE x = p
    <3>1. PICK a \in Int : a = Len(q) + 1
      BY <1>0, <1>1
    <3>2. PICK b \in Int : b = Len(q) + n
      BY <1>0, <1>1
    <3>3. IsFiniteSet(a .. b) /\ Cardinality(a .. b) = IF a > b THEN 0 ELSE b - a + 1
      BY FS_Interval
    <3> QED
      BY <1>0, <1>1, <2>1, <3>1, <3>2, <3>3
  <2>2. CASE x # p
    BY <2>2, FS_EmptySet
  <2> QED
    BY <2>1, <2>2
<1>4. R = Q \cup N /\ Q \cap N = {}
  BY <1>0, <1>1
<1>5. InFlight(q, x) = Cardinality(Q) /\ InFlight(r, x) = Cardinality(R)
  BY DEF InFlight
<1> HIDE DEF Q, R, N
<1>6. Cardinality(Q \cup N) = Cardinality(Q) + Cardinality(N) - Cardinality(Q \cap N)
  BY <1>2, <1>3, FS_Union
<1> QED
  <2>1. Cardinality(Q \cap N) = 0
    BY <1>4, FS_EmptySet
  <2> QED
    BY <1>2, <1>3, <1>4, <1>5, <1>6, <2>1, <1>0 DEF Share

----------------------------------------------------------------------------
(* The inductive invariant *)

(* The queues fit, and the set of write addresses is in step. *)
QueuesOK ==
    /\ Len(readQueue) + Len(respQueue) <= readBufferSize
    /\ Len(writeQueue) <= writeBufferSize
    /\ \A i, j \in DOMAIN writeQueue : writeQueue[i].burst = writeQueue[j].burst => i = j
    /\ isInWriteQueue = {writeQueue[i].burst : i \in DOMAIN writeQueue}
    /\ respondEvent <=> respQueue # <<>>

(* A refused read leaves reads to answer, a refused write leaves more      *)
(* writes than the low threshold; each is the packet that the port holds.  *)
Asleep == ~nextReqEvent /\ \A r \in Ranks : refresh[r] = "idle"
RetriesOK ==
    /\ Asleep => readQueue = <<>> /\ Len(writeQueue) <= writeLowThreshold
    /\ retryRdReq => waitRetry /\ refused \in Reads /\ (readQueue # <<>> \/ respQueue # <<>>)
    /\ retryWrReq => waitRetry /\ refused \notin Reads /\ Len(writeQueue) > writeLowThreshold
    /\ waitRetry => retryRdReq \/ retryWrReq

(* A packet is owed one answer or none, a write none; one that is owed an  *)
(* answer has a burst in a queue.                                          *)
AnswersOK ==
    /\ BurstsAccounted
    /\ \A p \in Reads : owed[p] # 0 => burstsServiced[p] < Len(Pieces[p])
    /\ owed \in [Packets -> {0, 1}]
    /\ \A p \in Packets \ Reads : owed[p] = 0

Inv == TypeOK /\ QueuesOK /\ WriteTurnHasWork /\ RetriesOK /\ AnswersOK

----------------------------------------------------------------------------
(* What the operations do to the queues *)

(* The types of the queues and of a packet's pieces. *)
LEMMA QueueTypes ==
    ASSUME TypeOK
    PROVE  /\ readQueue \in Seq(Entry) /\ respQueue \in Seq(Entry) /\ writeQueue \in Seq(Piece)
           /\ Len(readQueue) \in Nat /\ Len(respQueue) \in Nat /\ Len(writeQueue) \in Nat
           /\ DOMAIN readQueue = 1 .. Len(readQueue)
           /\ DOMAIN respQueue = 1 .. Len(respQueue)
           /\ DOMAIN writeQueue = 1 .. Len(writeQueue)
           /\ readQueue = <<>> <=> Len(readQueue) = 0
           /\ respQueue = <<>> <=> Len(respQueue) = 0
           /\ writeQueue = <<>> <=> Len(writeQueue) = 0
<1>1. readQueue \in Seq(Entry) /\ respQueue \in Seq(Entry) /\ writeQueue \in Seq(Piece)
  BY DEF TypeOK, Entry
<1> QED
  BY <1>1, LenProperties, EmptySeq

(* A packet's pieces. *)
LEMMA PieceTypes ==
    ASSUME NEW p \in Packets
    PROVE  /\ Pieces[p] \in Seq(Piece) /\ Len(Pieces[p]) \in Nat \ {0}
           /\ DOMAIN Pieces[p] = 1 .. Len(Pieces[p])
           /\ \A i \in DOMAIN Pieces[p] : Pieces[p][i].burst \in Bursts
           /\ \A i, j \in DOMAIN Pieces[p] :
                 Pieces[p][i].burst = Pieces[p][j].burst => i = j
           /\ IsSplit(p) <=> Len(Pieces[p]) # 1
<1>1. Pieces[p] \in Seq(Piece) /\ Pieces[p] # <<>>
  BY MemCtrlAssumption
<1>2. Len(Pieces[p]) \in Nat \ {0} /\ DOMAIN Pieces[p] = 1 .. Len(Pieces[p])
  BY <1>1, LenProperties, EmptySeq
<1>3. \A i \in DOMAIN Pieces[p] : Pieces[p][i].burst \in Bursts
  BY <1>1, <1>2, ElementOfSeq DEF Bursts
<1>4. \A i, j \in DOMAIN Pieces[p] : Pieces[p][i].burst = Pieces[p][j].burst => i = j
  BY MemCtrlAssumption
<1>5. IsSplit(p) <=> Len(Pieces[p]) # 1
  <2>1. PICK n \in Nat \ {0} : n = Len(Pieces[p])
    BY <1>2
  <2>2. n > 1 <=> n # 1
    OBVIOUS
  <2> QED
    BY <2>1, <2>2 DEF IsSplit
<1> QED
  BY <1>1, <1>2, <1>3, <1>4, <1>5

(* addToReadQueue: all the pieces are covered by the write queue, or some  *)
(* go to the read queue and the helper counts the others.                  *)
LEMMA ReadAdded ==
    ASSUME Inv, NEW p \in Reads, addToReadQueue(p)
    PROVE  \/ UNCHANGED <<readQueue, burstsServiced, nextReqEvent, owed>>
           \/ \E n \in 1 .. Len(Pieces[p]) :
                 /\ readQueue' \in Seq(Entry) /\ Len(readQueue') = Len(readQueue) + n
                 /\ \A x : InFlight(readQueue', x) =
                               InFlight(readQueue, x) + Share(x, p, n)
                 /\ burstsServiced' = [burstsServiced EXCEPT ![p] = Len(Pieces[p]) - n]
                 /\ owed' = [owed EXCEPT ![p] = @ + 1]
                 /\ nextReqEvent' = TRUE
<1> DEFINE s == Pieces[p]
           keep == {i \in DOMAIN s : ~FoundInWrQ(s[i])}
           missing == Select(s, keep)
           n == Len(missing)
           new == [i \in DOMAIN missing |-> [pkt |-> p, burst |-> missing[i].burst]]
<1>1. p \in Packets /\ TypeOK
  BY MemCtrlAssumption DEF Inv
<1>2. /\ s \in Seq(Piece) /\ Len(s) \in Nat \ {0}
      /\ \A i \in DOMAIN s : s[i].burst \in Bursts
      /\ IsSplit(p) <=> Len(s) # 1
  BY <1>1, PieceTypes
<1>3. CASE missing = <<>>
  BY <1>3 DEF addToReadQueue
<1>4. CASE missing # <<>>
  <2>1. /\ readQueue' = readQueue \o new
        /\ burstsServiced' = [burstsServiced EXCEPT ![p] = HelperStart(p, Len(s) - n)]
        /\ nextReqEvent' = TRUE
        /\ owed' = [owed EXCEPT ![p] = @ + 1]
    BY <1>4 DEF addToReadQueue, Accept
  <2>2. keep \in SUBSET DOMAIN s
    OBVIOUS
  <2> HIDE DEF s, keep
  <2>3. /\ missing \in Seq(Piece) /\ n \in Nat /\ n <= Len(s)
        /\ DOMAIN missing = 1 .. n
        /\ \A i \in 1 .. n : missing[i].burst \in Bursts
    <3>1. /\ missing \in Seq(Piece) /\ n = Cardinality(keep)
          /\ DOMAIN missing = 1 .. Cardinality(keep)
          /\ Cardinality(keep) \in 0 .. Len(s)
          /\ \E f \in [1 .. Cardinality(keep) -> keep] :
                \A i \in 1 .. Cardinality(keep) : missing[i] = s[f[i]]
      BY <1>2, <2>2, SelectFacts
    <3> HIDE DEF missing, n
    <3>2. \A i \in 1 .. n : missing[i].burst \in Bursts
      BY <1>2, <2>2, <3>1
    <3> QED
      BY <1>2, <3>1, <3>2
  <2>4. n \in 1 .. Len(s)
    BY <1>2, <1>4, <2>3, EmptySeq
  <2> HIDE DEF missing, n
  <2>5. new \in Seq(Entry) /\ Len(new) = n /\ \A i \in 1 .. n : new[i].pkt = p
    BY <2>3 DEF Entry
  <2> HIDE DEF new
  <2>6. readQueue \in Seq(Entry) /\ Len(readQueue) \in Nat
    BY <1>1, QueueTypes
  <2>7. /\ readQueue' \in Seq(Entry) /\ Len(readQueue') = Len(readQueue) + n
        /\ \A j \in 1 .. Len(readQueue) + n :
              readQueue'[j] = IF j <= Len(readQueue) THEN readQueue[j]
                              ELSE new[j - Len(readQueue)]
    BY <2>1, <2>5, <2>6, ConcatProperties
  <2>8. /\ \A j \in 1 .. Len(readQueue) : readQueue'[j] = readQueue[j]
        /\ \A j \in Len(readQueue) + 1 .. Len(readQueue) + n : readQueue'[j].pkt = p
    BY <2>3, <2>5, <2>6, <2>7
  <2>9. \A x : InFlight(readQueue', x) = InFlight(readQueue, x) + Share(x, p, n)
    <3> SUFFICES ASSUME NEW x
                 PROVE InFlight(readQueue', x)
                         = InFlight(readQueue, x) + Share(x, p, n)
      OBVIOUS
    <3>1. PICK q : q = readQueue
      OBVIOUS
    <3>2. PICK r : r = readQueue'
      OBVIOUS
    <3>3. PICK m : m = n
      OBVIOUS
    <3>4. Longer(q, r, m, p)
      BY <2>3, <2>6, <2>7, <2>8, <3>1, <3>2, <3>3 DEF Longer
    <3>5. InFlight(r, x) = InFlight(q, x) + Share(x, p, m)
      BY <3>4, SomeMore
    <3> QED
      BY <3>1, <3>2, <3>3, <3>5
  <2>10. HelperStart(p, Len(s) - n) = Len(s) - n
    BY <1>2, <2>4 DEF HelperStart
  <2> QED
    BY <2>1, <2>4, <2>7, <2>9, <2>10 DEF s
<1> QED
  BY <1>3, <1>4

(* addToWriteQueue: the pieces that are not merged are new addresses. *)
LEMMA WritesAdded ==
    ASSUME Inv, NEW p \in Packets, addToWriteQueue(p)
    PROVE  /\ writeQueue' \in Seq(Piece)
           /\ Len(writeQueue') \in Len(writeQueue) .. writeBufferSize
           /\ \A i, j \in DOMAIN writeQueue' :
                 writeQueue'[i].burst = writeQueue'[j].burst => i = j
           /\ isInWriteQueue' = {writeQueue'[i].burst : i \in DOMAIN writeQueue'}
<1> DEFINE s == Pieces[p]
           keep == {i \in DOMAIN s : s[i].burst \notin isInWriteQueue}
           new == Select(s, keep)
           n == Cardinality(keep)
<1>1. TypeOK /\ QueuesOK
  BY DEF Inv
<1>2. /\ s \in Seq(Piece) /\ Len(s) \in Nat \ {0}
      /\ \A i, j \in DOMAIN s : s[i].burst = s[j].burst => i = j
  BY PieceTypes
<1>3. /\ writeQueue' = writeQueue \o new
      /\ isInWriteQueue' = isInWriteQueue \cup {new[i].burst : i \in DOMAIN new}
      /\ ~(Len(writeQueue) + Len(s) > writeBufferSize)
  BY DEF addToWriteQueue, writeQueueFull, totalWriteQueueSize
<1>4. keep \in SUBSET DOMAIN s /\ \A i \in keep : s[i].burst \notin isInWriteQueue
  OBVIOUS
<1> HIDE DEF s, keep
<1>5. /\ new \in Seq(Piece) /\ Len(new) = n /\ DOMAIN new = 1 .. n /\ n \in 0 .. Len(s)
      /\ \E f \in [1 .. n -> keep] : /\ \A i \in 1 .. n : new[i] = s[f[i]]
                                   /\ \A i, j \in 1 .. n : f[i] = f[j] => i = j
  BY <1>2, <1>4, SelectFacts, SMTT(30)
<1> HIDE DEF new, n
<1>6. /\ \A i \in 1 .. n : new[i].burst \notin isInWriteQueue
      /\ \A i, j \in 1 .. n : new[i].burst = new[j].burst => i = j
  <2>1. PICK f \in [1 .. n -> keep] : /\ \A i \in 1 .. n : new[i] = s[f[i]]
                                      /\ \A i, j \in 1 .. n : f[i] = f[j] => i = j
    BY <1>5
  <2>2. \A i \in 1 .. n : f[i] \in keep /\ f[i] \in DOMAIN s
    BY <1>4
  <2> QED
    BY <1>2, <1>4, <2>1, <2>2
<1>7. PICK q : q = writeQueue
  OBVIOUS
<1>8. PICK r : r = writeQueue'
  OBVIOUS
<1>9. /\ q \in Seq(Piece) /\ Len(q) \in Nat /\ DOMAIN q = 1 .. Len(q)
      /\ \A i, j \in DOMAIN q : q[i].burst = q[j].burst => i = j
      /\ isInWriteQueue = {q[i].burst : i \in DOMAIN q}
  BY <1>1, <1>7, QueueTypes DEF QueuesOK
<1>10. /\ r \in Seq(Piece) /\ Len(r) = Len(q) + n /\ n \in Nat
       /\ \A j \in 1 .. Len(q) + n : r[j] = IF j <= Len(q) THEN q[j] ELSE new[j - Len(q)]
  <2>1. r = q \o new /\ n \in Nat
    BY <1>2, <1>3, <1>5, <1>7, <1>8
  <2>2. PICK e : e = new
    OBVIOUS
  <2>3. q \in Seq(Piece) /\ e \in Seq(Piece)
    BY <1>5, <1>9, <2>2
  <2>4. /\ q \o e \in Seq(Piece) /\ Len(q \o e) = Len(q) + Len(e)
        /\ \A j \in 1 .. Len(q) + Len(e) :
              (q \o e)[j] = IF j <= Len(q) THEN q[j] ELSE e[j - Len(q)]
    BY <2>3, ConcatProperties
  <2> QED
    BY <1>5, <2>1, <2>2, <2>4
<1>11. DOMAIN r = 1 .. Len(q) + n
  BY <1>10, LenProperties
<1>12. /\ \A j \in 1 .. Len(q) : r[j] = q[j]
       /\ \A j \in 1 .. n : r[Len(q) + j] = new[j]
       /\ \A j \in DOMAIN r : j \in 1 .. Len(q) \/ \E k \in 1 .. n : j = Len(q) + k
  <2>1. \A j \in 1 .. Len(q) : r[j] = q[j]
    BY <1>9, <1>10
  <2>2. ASSUME NEW j \in 1 .. n PROVE r[Len(q) + j] = new[j]
    <3>1. /\ Len(q) + j \in 1 .. Len(q) + n /\ ~(Len(q) + j <= Len(q))
          /\ (Len(q) + j) - Len(q) = j
      BY <1>9, <1>10
    <3> QED
      BY <1>10, <3>1
  <2>3. ASSUME NEW j \in DOMAIN r, j \notin 1 .. Len(q)
        PROVE  \E k \in 1 .. n : j = Len(q) + k
    <3>1. j - Len(q) \in 1 .. n /\ j = Len(q) + (j - Len(q))
      BY <1>9, <1>10, <1>11, <2>3
    <3> QED
      BY <3>1
  <2> QED
    BY <2>1, <2>2, <2>3
<1>13. ASSUME NEW i \in DOMAIN r, NEW j \in DOMAIN r, r[i].burst = r[j].burst
       PROVE  i = j
  <2>1. CASE i \in 1 .. Len(q) /\ j \in 1 .. Len(q)
    BY <1>9, <1>12, <1>13, <2>1
  <2>2. ASSUME NEW a \in 1 .. Len(q), NEW b \in 1 .. n, r[a].burst = r[Len(q) + b].burst
        PROVE  FALSE
    BY <1>6, <1>9, <1>12, <2>2
  <2>3. ASSUME NEW a \in 1 .. n, NEW b \in 1 .. n, r[Len(q) + a].burst = r[Len(q) + b].burst
        PROVE  a = b
    BY <1>6, <1>12, <2>3
  <2>4. /\ i \in 1 .. Len(q) \/ \E k \in 1 .. n : i = Len(q) + k
        /\ j \in 1 .. Len(q) \/ \E k \in 1 .. n : j = Len(q) + k
    BY <1>12
  <2>5. CASE i \in 1 .. Len(q) /\ \E k \in 1 .. n : j = Len(q) + k
    BY <1>13, <2>2, <2>5
  <2>6. CASE j \in 1 .. Len(q) /\ \E k \in 1 .. n : i = Len(q) + k
    BY <1>13, <2>2, <2>6
  <2>7. CASE (\E k \in 1 .. n : i = Len(q) + k) /\ \E k \in 1 .. n : j = Len(q) + k
    <3>1. PICK a \in 1 .. n : i = Len(q) + a
      BY <2>7
    <3>2. PICK b \in 1 .. n : j = Len(q) + b
      BY <2>7
    <3>3. a = b
      BY <1>13, <2>3, <3>1, <3>2
    <3> QED
      BY <3>1, <3>2, <3>3
  <2> QED
    BY <2>1, <2>4, <2>5, <2>6, <2>7
<1>14. isInWriteQueue' = {r[i].burst : i \in DOMAIN r}
  <2>1. ASSUME NEW b PROVE b \in isInWriteQueue' <=> \E i \in DOMAIN r : b = r[i].burst
    <3>1. b \in isInWriteQueue' <=> \/ \E i \in 1 .. Len(q) : b = q[i].burst
                                  \/ \E i \in 1 .. n : b = new[i].burst
      <4>1. b \in isInWriteQueue' <=> \/ b \in isInWriteQueue
                                    \/ b \in {new[i].burst : i \in DOMAIN new}
        BY <1>3
      <4>2. b \in isInWriteQueue <=> \E i \in 1 .. Len(q) : b = q[i].burst
        BY <1>9
      <4>3. b \in {new[i].burst : i \in DOMAIN new} <=> \E i \in 1 .. n : b = new[i].burst
        BY <1>5
      <4> QED
        BY <4>1, <4>2, <4>3
    <3>2. ASSUME NEW i \in 1 .. n PROVE Len(q) + i \in DOMAIN r
      BY <1>9, <1>10, <1>11
    <3>3. ASSUME NEW i \in 1 .. Len(q) PROVE i \in DOMAIN r
      BY <1>9, <1>10, <1>11
    <3> QED
      BY <1>12, <3>1, <3>2, <3>3
  <2> QED
    BY <2>1
<1>15. Len(r) \in Len(q) .. writeBufferSize
  BY <1>2, <1>3, <1>5, <1>7, <1>9, <1>10, MemCtrlAssumption
<1> QED
  BY <1>7, <1>8, <1>10, <1>13, <1>14, <1>15

(* IssueRead: the entry moves from the read queue to the response queue. *)
LEMMA ReadMoves ==
    ASSUME TypeOK, NEW i \in DOMAIN readQueue,
           readQueue' = RemoveAt(readQueue, i),
           respQueue' = Append(respQueue, readQueue[i])
    PROVE  /\ readQueue' \in Seq(Entry) /\ Len(readQueue') = Len(readQueue) - 1
           /\ respQueue' \in Seq(Entry) /\ Len(respQueue') = Len(respQueue) + 1
           /\ \A x : InFlight(readQueue', x) + InFlight(respQueue', x)
                        = InFlight(readQueue, x) + InFlight(respQueue, x)
<1>1. PICK q : q = readQueue
  OBVIOUS
<1>2. PICK r : r = readQueue'
  OBVIOUS
<1>3. PICK u : u = respQueue
  OBVIOUS
<1>4. PICK v : v = respQueue'
  OBVIOUS
<1>5. /\ q \in Seq(Entry) /\ u \in Seq(Entry) /\ Len(u) \in Nat /\ i \in DOMAIN q
      /\ q[i] \in Entry
  BY <1>1, <1>3, QueueTypes, ElementOfSeq
<1>6. Shorter(q, r, i)
  <2>1. r = RemoveAt(q, i)
    BY <1>1, <1>2
  <2> QED
    BY <1>5, <2>1, RemoveAtFacts DEF Shorter
<1>7. Longer(u, v, 1, q[i].pkt)
  <2>1. v = Append(u, q[i])
    BY <1>1, <1>3, <1>4
  <2>2. /\ v \in Seq(Entry) /\ Len(v) = Len(u) + 1
        /\ \A j \in 1 .. Len(u) : v[j] = u[j]
        /\ v[Len(u) + 1] = q[i]
    BY <1>5, <2>1, AppendProperties
  <2> QED
    BY <1>5, <2>2 DEF Longer
<1>8. ASSUME NEW x PROVE InFlight(r, x) + InFlight(v, x) = InFlight(q, x) + InFlight(u, x)
  <2>1. InFlight(q, x) = InFlight(r, x) + Share(x, q[i].pkt, 1)
    BY <1>6, OneLess
  <2>2. InFlight(v, x) = InFlight(u, x) + Share(x, q[i].pkt, 1)
    BY <1>7, SomeMore
  <2>3. InFlight(r, x) \in Nat /\ InFlight(u, x) \in Nat
    BY <1>6, <1>7, InFlightFinite DEF Shorter, Longer
  <2>4. Share(x, q[i].pkt, 1) \in Nat
    BY DEF Share
  <2> QED
    BY <2>1, <2>2, <2>3, <2>4
<1> QED
  BY <1>1, <1>2, <1>3, <1>4, <1>6, <1>7, <1>8 DEF Shorter, Longer

(* processRespondEvent: the oldest response leaves. *)
LEMMA ResponseLeaves ==
    ASSUME TypeOK, respQueue # <<>>, respQueue' = Tail(respQueue)
    PROVE  /\ respQueue' \in Seq(Entry) /\ Len(respQueue') = Len(respQueue) - 1
           /\ Head(respQueue).pkt \in Reads
           /\ \A x : InFlight(respQueue, x)
                        = InFlight(respQueue', x) + Share(x, Head(respQueue).pkt, 1)
<1>1. PICK u : u = respQueue
  OBVIOUS
<1>2. PICK v : v = respQueue'
  OBVIOUS
<1>3. u \in Seq(Entry) /\ u # <<>> /\ Len(u) \in Nat \ {0} /\ DOMAIN u = 1 .. Len(u)
  BY <1>1, QueueTypes
<1>4. Head(u) = u[1] /\ 1 \in DOMAIN u /\ Head(u) \in Entry
  BY <1>3, HeadTailProperties
<1>5. Shorter(u, v, 1)
  <2>1. v = Tail(u)
    BY <1>1, <1>2
  <2>2. /\ v \in Seq(Entry) /\ Len(v) = Len(u) - 1
        /\ \A j \in 1 .. Len(v) : v[j] = u[j + 1]
    BY <1>3, <2>1, HeadTailProperties
  <2> QED
    BY <1>3, <1>4, <2>2 DEF Shorter
<1>6. \A x : InFlight(u, x) = InFlight(v, x) + Share(x, u[1].pkt, 1)
  BY <1>5, OneLess
<1> QED
  BY <1>1, <1>2, <1>4, <1>5, <1>6 DEF Shorter, Entry

(* IssueWrite: the write and its address leave. *)
LEMMA WriteLeaves ==
    ASSUME TypeOK, QueuesOK, NEW i \in DOMAIN writeQueue,
           writeQueue' = RemoveAt(writeQueue, i),
           isInWriteQueue' = isInWriteQueue \ {writeQueue[i].burst}
    PROVE  /\ writeQueue' \in Seq(Piece) /\ Len(writeQueue') = Len(writeQueue) - 1
           /\ \A j, k \in DOMAIN writeQueue' :
                 writeQueue'[j].burst = writeQueue'[k].burst => j = k
           /\ isInWriteQueue' = {writeQueue'[j].burst : j \in DOMAIN writeQueue'}
<1>1. PICK q : q = writeQueue
  OBVIOUS
<1>2. PICK r : r = writeQueue'
  OBVIOUS
<1>3. /\ q \in Seq(Piece) /\ Len(q) \in Nat /\ DOMAIN q = 1 .. Len(q) /\ i \in DOMAIN q
      /\ \A j, k \in DOMAIN q : q[j].burst = q[k].burst => j = k
      /\ isInWriteQueue = {q[j].burst : j \in DOMAIN q}
      /\ isInWriteQueue' = isInWriteQueue \ {q[i].burst}
      /\ r = RemoveAt(q, i)
  BY <1>1, <1>2, QueueTypes DEF QueuesOK
<1>4. /\ r \in Seq(Piece) /\ Len(r) = Len(q) - 1
      /\ \A j \in 1 .. Len(q) - 1 : r[j] = q[IF j < i THEN j ELSE j + 1]
  <2>1. q \in Seq(Piece) /\ i \in DOMAIN q /\ r = RemoveAt(q, i)
    BY <1>3
  <2>2. /\ RemoveAt(q, i) \in Seq(Piece) /\ Len(RemoveAt(q, i)) = Len(q) - 1
        /\ \A j \in 1 .. Len(q) - 1 : RemoveAt(q, i)[j] = q[IF j < i THEN j ELSE j + 1]
    BY <2>1, RemoveAtFacts
  <2> QED
    BY <2>1, <2>2, Zenon
<1>5. DOMAIN r = 1 .. Len(q) - 1
  BY <1>4, LenProperties
<1> DEFINE g(j) == IF j < i THEN j ELSE j + 1
<1>6. \A j \in DOMAIN r : g(j) \in DOMAIN q /\ g(j) # i /\ r[j] = q[g(j)]
  BY <1>3, <1>4, <1>5
<1>7. \A j, k \in DOMAIN r : g(j) = g(k) => j = k
  BY <1>3, <1>5
<1>8. ASSUME NEW m \in DOMAIN q, m # i PROVE \E j \in DOMAIN r : g(j) = m
  <2>1. CASE m < i
    <3>1. m \in DOMAIN r /\ g(m) = m
      BY <1>3, <1>5, <2>1
    <3> QED
      BY <3>1
  <2>2. CASE m > i
    <3>1. m - 1 \in DOMAIN r /\ g(m - 1) = m
      BY <1>3, <1>5, <2>2
    <3> QED
      BY <3>1
  <2> QED
    BY <1>3, <1>8, <2>1, <2>2
<1> HIDE DEF g
<1>9. \A j, k \in DOMAIN r : r[j].burst = r[k].burst => j = k
  BY <1>3, <1>6, <1>7
<1>10. ASSUME NEW b PROVE b \in isInWriteQueue' <=> \E j \in DOMAIN r : b = r[j].burst
  <2>1. b \in isInWriteQueue' <=> (\E m \in DOMAIN q : b = q[m].burst) /\ b # q[i].burst
    BY <1>3
  <2>2. (\E m \in DOMAIN q : b = q[m].burst) /\ b # q[i].burst
           <=> \E m \in DOMAIN q : b = q[m].burst /\ m # i
    BY <1>3
  <2>3. (\E m \in DOMAIN q : b = q[m].burst /\ m # i) <=> \E j \in DOMAIN r : b = r[j].burst
    BY <1>6, <1>8
  <2> QED
    BY <2>1, <2>2, <2>3
<1>11. isInWriteQueue' = {r[j].burst : j \in DOMAIN r}
  BY <1>10
<1> QED
  BY <1>1, <1>2, <1>4, <1>9, <1>11

(* chooseNext finds an entry unless the ranks of all of them refresh. *)
LEMMA ChosenEntry ==
    ASSUME NEW q, DOMAIN q \in SUBSET Nat, \A i \in DOMAIN q : q[i].burst \in Bursts
    PROVE  /\ chooseNext(q) \subseteq DOMAIN q
           /\ chooseNext(q) = {} /\ DOMAIN q # {} => \E r \in Ranks : refresh[r] # "idle"
<1> DEFINE ready == {i \in DOMAIN q : Ready(q[i].burst)}
<1>1. chooseNext(q) \subseteq ready
  BY DEF chooseNext
<1>2. ready \in SUBSET Nat
  OBVIOUS
<1>3. ASSUME ready # {} PROVE chooseNext(q) # {}
  <2>1. Min(ready) \in ready /\ \A j \in ready : Min(ready) <= j
    BY <1>2, <1>3, MinIsMember
  <2>2. Min(ready) \in chooseNext(q)
    BY <2>1 DEF chooseNext
  <2> QED
    BY <2>2
<1>4. ASSUME ready = {}, NEW i \in DOMAIN q PROVE \E r \in Ranks : refresh[r] # "idle"
  <2>1. ~Ready(q[i].burst) /\ RankOf[q[i].burst] \in Ranks
    BY <1>4, MemCtrlAssumption
  <2> QED
    BY <2>1 DEF Ready
<1> QED
  BY <1>1, <1>3, <1>4

----------------------------------------------------------------------------
(* The invariant is kept: the port *)

(* The buffers, as numbers. *)
LEMMA Sizes ==
    /\ readBufferSize \in Nat /\ writeBufferSize \in Nat /\ minWritesPerSwitch \in Nat
    /\ writeLowThreshold \in Nat /\ writeHighThreshold \in Nat
    /\ writeLowThreshold < writeHighThreshold /\ writeHighThreshold <= writeBufferSize
    /\ \A p \in Reads : Len(Pieces[p]) <= readBufferSize
    /\ \A p \in Packets \ Reads : Len(Pieces[p]) <= writeBufferSize - writeLowThreshold
BY MemCtrlAssumption

(* A queue with the same bursts keeps the accounts. *)
LEMMA SameAnswers ==
    ASSUME AnswersOK, UNCHANGED <<queues, owed>>
    PROVE  AnswersOK'
BY DEF AnswersOK, BurstsAccounted, Pending, queues, InFlight

(* Queues that do not change stay in step. *)
LEMMA SameQueues ==
    ASSUME QueuesOK, UNCHANGED <<queues, respondEvent>>
    PROVE  QueuesOK'
BY DEF QueuesOK, queues

(* A read is refused: there are reads to answer, or it would fit. *)
LEMMA ReadRefusedInv ==
    ASSUME Inv, NEW p \in Reads, CanSend(p), ReadRefused(p)
    PROVE  Inv'
<1>1. TypeOK /\ QueuesOK /\ WriteTurnHasWork /\ RetriesOK /\ AnswersOK /\ p \in Packets
  BY MemCtrlAssumption DEF Inv
<1>2. /\ Len(readQueue) \in Nat /\ Len(respQueue) \in Nat
      /\ readQueue = <<>> <=> Len(readQueue) = 0
      /\ respQueue = <<>> <=> Len(respQueue) = 0
  BY <1>1, QueueTypes
<1>3. UNCHANGED <<queues, bus, ranks, retryWrReq, nextReqEvent, respondEvent, drainState, owed>>
  BY DEF ReadRefused
<1>4. retryRdReq' = TRUE /\ refused' = p /\ waitRetry' = TRUE /\ ~waitRetry
  BY DEF ReadRefused, Refuse, CanSend
<1>5. TypeOK'
  BY <1>1, <1>3, <1>4 DEF TypeOK, queues, bus, ranks
<1>6. QueuesOK' /\ AnswersOK'
  BY <1>1, <1>3, SameQueues, SameAnswers
<1>7. WriteTurnHasWork'
  BY <1>1, <1>3 DEF WriteTurnHasWork, queues, bus
<1>8. readQueue # <<>> \/ respQueue # <<>>
  <2>1. Len(Pieces[p]) \in Nat /\ Len(Pieces[p]) <= readBufferSize /\ readBufferSize \in Nat
    BY <1>1, PieceTypes, Sizes
  <2>2. Len(readQueue) + Len(respQueue) + Len(Pieces[p]) > readBufferSize
    BY DEF ReadRefused, readQueueFull, totalReadQueueSize
  <2>3. Len(readQueue) # 0 \/ Len(respQueue) # 0
    <3>1. ASSUME NEW a \in Nat, NEW b \in Nat, NEW n \in Nat, NEW m \in Nat,
                 n <= m, a + b + n > m
          PROVE  a # 0 \/ b # 0
      BY <3>1
    <3> QED
      BY <1>2, <2>1, <2>2, <3>1
  <2> QED
    BY <1>2, <2>3, Zenon
<1>9. ~retryWrReq /\ (Asleep' <=> Asleep)
  BY <1>1, <1>3, <1>4 DEF RetriesOK, Asleep, ranks
<1>10. RetriesOK'
  BY <1>1, <1>3, <1>4, <1>8, <1>9 DEF RetriesOK, queues
<1> QED
  BY <1>5, <1>6, <1>7, <1>10 DEF Inv

(* A write is refused: more writes than the low threshold are queued. *)
LEMMA WriteRefusedInv ==
    ASSUME Inv, NEW p \in Packets \ Reads, CanSend(p), WriteRefused(p)
    PROVE  Inv'
<1>1. TypeOK /\ QueuesOK /\ WriteTurnHasWork /\ RetriesOK /\ AnswersOK
  BY DEF Inv
<1>2. Len(writeQueue) \in Nat
  BY <1>1, QueueTypes
<1>3. UNCHANGED <<queues, bus, ranks, retryRdReq, nextReqEvent, respondEvent, drainState, owed>>
  BY DEF WriteRefused
<1>4. retryWrReq' = TRUE /\ refused' = p /\ waitRetry' = TRUE /\ ~waitRetry
  BY DEF WriteRefused, Refuse, CanSend
<1>5. TypeOK'
  BY <1>1, <1>3, <1>4 DEF TypeOK, queues, bus, ranks
<1>6. QueuesOK' /\ AnswersOK'
  BY <1>1, <1>3, SameQueues, SameAnswers
<1>7. WriteTurnHasWork'
  BY <1>1, <1>3 DEF WriteTurnHasWork, queues, bus
<1>8. Len(writeQueue) > writeLowThreshold
  <2>1. /\ Len(Pieces[p]) \in Nat /\ Len(Pieces[p]) <= writeBufferSize - writeLowThreshold
        /\ writeBufferSize \in Nat /\ writeLowThreshold \in Nat
    BY PieceTypes, Sizes
  <2>2. Len(writeQueue) + Len(Pieces[p]) > writeBufferSize
    BY DEF WriteRefused, writeQueueFull, totalWriteQueueSize
  <2> QED
    BY <1>2, <2>1, <2>2
<1>9. ~retryRdReq /\ (Asleep' <=> Asleep)
  BY <1>1, <1>3, <1>4 DEF RetriesOK, Asleep, ranks
<1>10. RetriesOK'
  BY <1>1, <1>3, <1>4, <1>8, <1>9 DEF RetriesOK, queues
<1> QED
  BY <1>5, <1>6, <1>7, <1>10 DEF Inv

(* A read is accepted: its bursts are queued or counted by the helper. *)
LEMMA addToReadQueueInv ==
    ASSUME Inv, NEW p \in Reads, CanSend(p), addToReadQueue(p)
    PROVE  Inv'
<1>1. TypeOK /\ QueuesOK /\ WriteTurnHasWork /\ RetriesOK /\ AnswersOK /\ p \in Packets
  BY MemCtrlAssumption DEF Inv
<1>2. /\ refused' = None /\ UNCHANGED waitRetry /\ ~waitRetry
      /\ UNCHANGED <<respQueue, writeQueue, isInWriteQueue, bus, ranks, retryRdReq,
                     retryWrReq, respondEvent, drainState>>
      /\ ~(Len(readQueue) + Len(respQueue) + Len(Pieces[p]) > readBufferSize)
  BY DEF addToReadQueue, Taken, CanSend, readQueueFull, totalReadQueueSize
<1>3. ~retryRdReq /\ ~retryWrReq
  BY <1>1, <1>2 DEF RetriesOK
<1>4. WriteTurnHasWork'
  BY <1>1, <1>2 DEF WriteTurnHasWork, bus
<1>5. CASE UNCHANGED <<readQueue, burstsServiced, nextReqEvent, owed>>
  <2>1. UNCHANGED queues
    BY <1>2, <1>5 DEF queues
  <2>2. TypeOK'
    BY <1>1, <1>2, <1>5 DEF TypeOK, bus, ranks
  <2>3. QueuesOK' /\ AnswersOK'
    BY <1>1, <1>2, <1>5, <2>1, SameQueues, SameAnswers
  <2>4. Asleep' <=> Asleep
    BY <1>2, <1>5 DEF Asleep, ranks
  <2>5. RetriesOK'
    BY <1>1, <1>2, <1>3, <1>5, <2>4 DEF RetriesOK
  <2> QED
    BY <1>4, <2>2, <2>3, <2>5 DEF Inv
<1>6. ASSUME NEW n \in 1 .. Len(Pieces[p]),
             /\ readQueue' \in Seq(Entry) /\ Len(readQueue') = Len(readQueue) + n
             /\ \A x : InFlight(readQueue', x) = InFlight(readQueue, x) + Share(x, p, n)
             /\ burstsServiced' = [burstsServiced EXCEPT ![p] = Len(Pieces[p]) - n]
             /\ owed' = [owed EXCEPT ![p] = @ + 1]
             /\ nextReqEvent' = TRUE
      PROVE  Inv'
  <2>1. /\ Len(Pieces[p]) \in Nat /\ n \in Nat /\ n <= Len(Pieces[p])
        /\ Len(readQueue) \in Nat /\ Len(respQueue) \in Nat /\ readBufferSize \in Nat
    BY <1>1, PieceTypes, QueueTypes, Sizes
  <2>2. owed \in [Packets -> {0, 1}] /\ owed[p] = 0 /\ p \notin Pending
    BY <1>1 DEF AnswersOK, CanSend, Pending
  <2>3. Len(Pieces[p]) - n \in Nat
    BY <2>1
  <2>4. owed' \in [Packets -> {0, 1}]
    <3>1. owed' = [owed EXCEPT ![p] = 1]
      BY <1>6, <2>2
    <3> QED
      BY <2>2, <3>1
  <2>5. TypeOK'
    <3>1. burstsServiced' \in [Packets -> Nat]
      BY <1>1, <1>6, <2>3 DEF TypeOK
    <3>2. owed' \in [Packets -> Int]
      BY <2>4
    <3> QED
      BY <1>1, <1>2, <1>6, <3>1, <3>2 DEF TypeOK, bus, ranks, Entry
  <2>6. QueuesOK'
    <3>1. Len(readQueue') + Len(respQueue') <= readBufferSize
      <4>1. Len(readQueue') = Len(readQueue) + n /\ Len(respQueue') = Len(respQueue)
        BY <1>2, <1>6
      <4>2. ~(Len(readQueue) + Len(respQueue) + Len(Pieces[p]) > readBufferSize)
        BY <1>2
      <4>3. ASSUME NEW a \in Nat, NEW b \in Nat, NEW c \in Nat, NEW m \in Nat,
                   n \in Nat, n <= c, ~(a + b + c > m)
            PROVE  (a + n) + b <= m
        BY <4>3
      <4> QED
        BY <2>1, <4>1, <4>2, <4>3
    <3> QED
      BY <1>1, <1>2, <3>1 DEF QueuesOK
  <2>7. RetriesOK'
    BY <1>2, <1>3, <1>6 DEF RetriesOK, Asleep
  <2>8. ASSUME NEW x \in Reads
        PROVE  InFlight(readQueue', x) + InFlight(respQueue', x) + burstsServiced'[x]
                  = IF owed'[x] # 0 THEN Len(Pieces[x]) ELSE 0
    <3>1. /\ InFlight(readQueue, x) \in Nat /\ InFlight(respQueue, x) \in Nat
          /\ burstsServiced[x] \in Nat /\ x \in Packets
      BY <1>1, QueueTypes, InFlightFinite, MemCtrlAssumption DEF TypeOK
    <3>2. InFlight(readQueue, x) + InFlight(respQueue, x) + burstsServiced[x]
             = IF owed[x] # 0 THEN Len(Pieces[x]) ELSE 0
      BY <1>1, <3>1 DEF AnswersOK, BurstsAccounted, Pending
    <3>3. InFlight(respQueue', x) = InFlight(respQueue, x)
      BY <1>2
    <3>4. CASE x = p
      <4>1. burstsServiced'[x] = Len(Pieces[p]) - n /\ owed'[x] = 1
        BY <1>1, <1>6, <2>2, <3>4 DEF TypeOK
      <4>2. /\ InFlight(readQueue, x) = 0 /\ InFlight(respQueue, x) = 0
        BY <2>2, <3>1, <3>2, <3>4
      <4>3. InFlight(readQueue', x) = n
        BY <1>6, <2>1, <3>4, <4>2 DEF Share
      <4> QED
        BY <2>1, <3>3, <3>4, <4>1, <4>2, <4>3
    <3>5. CASE x # p
      <4>1. burstsServiced'[x] = burstsServiced[x] /\ owed'[x] = owed[x]
        BY <1>1, <1>6, <2>2, <3>1, <3>5 DEF TypeOK
      <4>2. InFlight(readQueue', x) = InFlight(readQueue, x)
        BY <1>6, <3>1, <3>5 DEF Share
      <4> QED
        BY <3>2, <3>3, <4>1, <4>2
    <3> QED
      BY <3>4, <3>5
  <2>9. \A x \in Packets \ Reads : owed'[x] = 0
    BY <1>1, <1>6, <2>2 DEF AnswersOK
  <2>10. ASSUME NEW x \in Reads, owed'[x] # 0 PROVE burstsServiced'[x] < Len(Pieces[x])
    <3>1. x \in Packets
      BY MemCtrlAssumption
    <3>2. CASE x = p
      <4>1. burstsServiced'[x] = Len(Pieces[p]) - n
        BY <1>1, <1>6, <3>2 DEF TypeOK
      <4> QED
        BY <2>1, <3>2, <4>1
    <3>3. CASE x # p
      <4>1. burstsServiced'[x] = burstsServiced[x] /\ owed'[x] = owed[x]
        BY <1>1, <1>6, <2>2, <3>1, <3>3 DEF TypeOK
      <4> QED
        BY <1>1, <2>10, <4>1 DEF AnswersOK
    <3> QED
      BY <3>2, <3>3
  <2>11. AnswersOK'
    BY <2>4, <2>8, <2>9, <2>10, MemCtrlAssumption DEF AnswersOK, BurstsAccounted, Pending
  <2> QED
    BY <1>4, <2>5, <2>6, <2>7, <2>11 DEF Inv
<1> QED
  BY <1>5, <1>6, ReadAdded

(* A write is accepted. *)
LEMMA addToWriteQueueInv ==
    ASSUME Inv, NEW p \in Packets, CanSend(p), addToWriteQueue(p)
    PROVE  Inv'
<1>1. TypeOK /\ QueuesOK /\ WriteTurnHasWork /\ RetriesOK /\ AnswersOK
  BY DEF Inv
<1>2. /\ refused' = None /\ UNCHANGED waitRetry /\ ~waitRetry /\ nextReqEvent' = TRUE
      /\ UNCHANGED <<readQueue, respQueue, burstsServiced, bus, ranks, retryRdReq,
                     retryWrReq, respondEvent, drainState, owed>>
  BY DEF addToWriteQueue, Taken, CanSend
<1>3. /\ writeQueue' \in Seq(Piece)
      /\ Len(writeQueue') \in Len(writeQueue) .. writeBufferSize
      /\ \A i, j \in DOMAIN writeQueue' : writeQueue'[i].burst = writeQueue'[j].burst => i = j
      /\ isInWriteQueue' = {writeQueue'[i].burst : i \in DOMAIN writeQueue'}
  BY WritesAdded
<1>4. isInWriteQueue' \subseteq Bursts
  BY <1>3, LenProperties, ElementOfSeq DEF Bursts
<1>5. TypeOK'
  BY <1>1, <1>2, <1>3, <1>4 DEF TypeOK, bus, ranks
<1>6. QueuesOK'
  <2>1. Len(writeQueue') <= writeBufferSize
    BY <1>1, <1>3, QueueTypes, Sizes
  <2> QED
    BY <1>1, <1>2, <1>3, <2>1 DEF QueuesOK
<1>7. WriteTurnHasWork'
  <2>1. writeQueue # <<>> => writeQueue' # <<>>
    <3>1. writeQueue # <<>> => Len(writeQueue') # 0
      BY <1>1, <1>3, QueueTypes, Sizes
    <3> QED
      BY <3>1, EmptySeq
  <2> QED
    BY <1>1, <1>2, <2>1 DEF WriteTurnHasWork, bus
<1>8. RetriesOK'
  BY <1>1, <1>2 DEF RetriesOK, Asleep
<1>9. AnswersOK'
  BY <1>1, <1>2 DEF AnswersOK, BurstsAccounted, Pending, InFlight
<1> QED
  BY <1>5, <1>6, <1>7, <1>8, <1>9 DEF Inv

----------------------------------------------------------------------------
(* The invariant is kept: respondEvent *)

(* A burst is answered; the last one of its packet answers the packet, and *)
(* no burst of the packet is left.                                         *)
LEMMA processRespondEventInv ==
    ASSUME Inv, processRespondEvent
    PROVE  Inv'
<1> DEFINE p == Head(respQueue).pkt
           last == LastBurst(p)
           k == burstsServiced[p]
<1>1. TypeOK /\ QueuesOK /\ WriteTurnHasWork /\ RetriesOK /\ AnswersOK
  BY DEF Inv
<1>2. /\ respQueue # <<>> /\ respQueue' = Tail(respQueue)
      /\ respondEvent' = (respQueue' # <<>>)
      /\ retryRdReq' = FALSE /\ waitRetry' = (waitRetry /\ ~retryRdReq)
      /\ UNCHANGED <<readQueue, writeQueue, isInWriteQueue, bus, ranks, retryWrReq, refused,
                     nextReqEvent>>
      /\ drainState' \in {drainState, "Drained"}
  BY <1>1 DEF processRespondEvent, QueuesOK, SignalDrainDone
<1>3. /\ burstsServiced' = [burstsServiced EXCEPT ![p] = IF last THEN 0 ELSE k + 1]
      /\ owed' = IF last THEN [owed EXCEPT ![p] = owed[p] - 1] ELSE owed
  BY DEF processRespondEvent, Respond
<1>4. /\ respQueue' \in Seq(Entry) /\ Len(respQueue') = Len(respQueue) - 1
      /\ p \in Reads
      /\ \A x : InFlight(respQueue, x) = InFlight(respQueue', x) + Share(x, p, 1)
  BY <1>1, <1>2, ResponseLeaves
<1>5. ASSUME NEW x \in Reads
      PROVE  /\ InFlight(readQueue, x) \in Nat /\ InFlight(respQueue, x) \in Nat
             /\ InFlight(respQueue', x) \in Nat
             /\ burstsServiced[x] \in Nat /\ x \in Packets
             /\ InFlight(readQueue, x) + InFlight(respQueue, x) + burstsServiced[x]
                   = IF owed[x] # 0 THEN Len(Pieces[x]) ELSE 0
             /\ owed[x] \in {0, 1} /\ Len(Pieces[x]) \in Nat
  <2>1. x \in Packets
    BY MemCtrlAssumption
  <2>2. InFlight(readQueue, x) \in Nat /\ InFlight(respQueue, x) \in Nat
    BY <1>1, QueueTypes, InFlightFinite
  <2>3. InFlight(respQueue', x) \in Nat
    <3>1. PICK v : v = respQueue'
      OBVIOUS
    <3>2. v \in Seq(Entry)
      BY <1>4, <3>1
    <3>3. InFlight(v, x) \in Nat
      BY <3>2, InFlightFinite
    <3> QED
      BY <3>1, <3>3
  <2>4. burstsServiced[x] \in Nat /\ owed[x] \in {0, 1}
    BY <1>1, <2>1 DEF TypeOK, AnswersOK
  <2>5. InFlight(readQueue, x) + InFlight(respQueue, x) + burstsServiced[x]
           = IF owed[x] # 0 THEN Len(Pieces[x]) ELSE 0
    BY <1>1, <2>1 DEF AnswersOK, BurstsAccounted, Pending
  <2>6. Len(Pieces[x]) \in Nat
    BY <2>1, PieceTypes
  <2> QED
    BY <2>1, <2>2, <2>3, <2>4, <2>5, <2>6
<1>6. InFlight(respQueue, p) = InFlight(respQueue', p) + 1
  BY <1>4 DEF Share
<1>7. owed[p] = 1 /\ p \in Packets
  BY <1>4, <1>5, <1>6
<1>8. last <=> Len(Pieces[p]) = 1 \/ k + 1 = Len(Pieces[p])
  BY <1>7, PieceTypes DEF LastBurst
<1> HIDE DEF p, last
<1>9. InFlight(readQueue, p) + InFlight(respQueue', p) + k + 1 = Len(Pieces[p])
  BY <1>4, <1>5, <1>6, <1>7
<1>10. k \in Nat
  BY <1>4, <1>5
<1>11. last => /\ InFlight(readQueue, p) = 0 /\ InFlight(respQueue', p) = 0
  <2>1. InFlight(readQueue, p) \in Nat /\ InFlight(respQueue', p) \in Nat
    BY <1>4, <1>5
  <2>2. ASSUME NEW a \in Nat, NEW b \in Nat, NEW c \in Nat, NEW n, a + b + c + 1 = n,
               n = 1 \/ c + 1 = n
        PROVE  a = 0 /\ b = 0
    BY <2>2
  <2> HIDE DEF k
  <2> QED
    BY <1>8, <1>9, <1>10, <2>1, <2>2
<1>12. owed' \in [Packets -> {0, 1}] /\ owed'[p] = (IF last THEN 0 ELSE 1)
  <2>1. owed \in [Packets -> {0, 1}]
    BY <1>1 DEF AnswersOK
  <2>2. owed' = IF last THEN [owed EXCEPT ![p] = 0] ELSE owed
    BY <1>3, <1>7
  <2> QED
    BY <1>7, <2>1, <2>2
<1>13. burstsServiced' \in [Packets -> Nat]
  <2>1. burstsServiced \in [Packets -> Nat]
    BY <1>1 DEF TypeOK
  <2>2. (IF last THEN 0 ELSE k + 1) \in Nat
    BY <1>10
  <2> HIDE DEF k
  <2> QED
    BY <1>3, <2>1, <2>2
<1>14. TypeOK'
  <2>1. {retryRdReq', retryWrReq', nextReqEvent', respondEvent', waitRetry'} \subseteq BOOLEAN
    BY <1>1, <1>2 DEF TypeOK
  <2>2. owed' \in [Packets -> Int]
    BY <1>12
  <2>3. drainState' \in {"Running", "Draining", "Drained"}
    BY <1>1, <1>2 DEF TypeOK
  <2> QED
    BY <1>1, <1>2, <1>4, <1>13, <2>1, <2>2, <2>3 DEF TypeOK, bus, ranks, Entry
<1>15. QueuesOK'
  <2>1. Len(readQueue') + Len(respQueue') <= readBufferSize
    <3>1. /\ Len(readQueue) \in Nat /\ Len(respQueue) \in Nat /\ readBufferSize \in Nat
          /\ Len(readQueue) + Len(respQueue) <= readBufferSize
      BY <1>1, QueueTypes, Sizes DEF QueuesOK
    <3>2. Len(readQueue') = Len(readQueue)
      BY <1>2
    <3> QED
      BY <1>4, <3>1, <3>2
  <2> QED
    BY <1>1, <1>2, <2>1 DEF QueuesOK
<1>16. WriteTurnHasWork'
  BY <1>1, <1>2 DEF WriteTurnHasWork, bus
<1>17. RetriesOK'
  <2>1. Asleep' <=> Asleep
    BY <1>2 DEF Asleep, ranks
  <2> QED
    BY <1>1, <1>2, <2>1 DEF RetriesOK
<1>18. ASSUME NEW x \in Reads
       PROVE  InFlight(readQueue', x) + InFlight(respQueue', x) + burstsServiced'[x]
                 = IF owed'[x] # 0 THEN Len(Pieces[x]) ELSE 0
  <2>1. InFlight(readQueue', x) = InFlight(readQueue, x)
    BY <1>2
  <2>2. CASE x = p /\ last
    <3>1. burstsServiced'[x] = 0 /\ owed'[x] = 0
      BY <1>1, <1>3, <1>7, <1>12, <2>2 DEF TypeOK
    <3> QED
      BY <1>11, <2>1, <2>2, <3>1
  <2>3. CASE x = p /\ ~last
    <3>1. burstsServiced'[x] = k + 1 /\ owed'[x] = 1
      BY <1>1, <1>3, <1>7, <1>12, <2>3 DEF TypeOK
    <3> QED
      BY <1>5, <1>9, <1>10, <2>1, <2>3, <3>1
  <2>4. CASE x # p
    <3>1. burstsServiced'[x] = burstsServiced[x]
      BY <1>1, <1>3, <1>5, <2>4 DEF TypeOK
    <3>2. owed'[x] = owed[x]
      BY <1>1, <1>3, <1>5, <2>4 DEF TypeOK
    <3>3. InFlight(respQueue', x) = InFlight(respQueue, x)
      BY <1>4, <1>5, <2>4 DEF Share
    <3> QED
      BY <1>5, <2>1, <3>1, <3>2, <3>3
  <2> QED
    BY <2>2, <2>3, <2>4
<1>19. \A x \in Packets \ Reads : owed'[x] = 0
  BY <1>1, <1>3, <1>4 DEF AnswersOK
<1>20. ASSUME NEW x \in Reads, owed'[x] # 0 PROVE burstsServiced'[x] < Len(Pieces[x])
  <2>1. CASE x = p
    <3>1. ~last /\ burstsServiced'[x] = k + 1
      BY <1>1, <1>3, <1>7, <1>12, <1>20, <2>1 DEF TypeOK
    <3>2. k < Len(Pieces[p]) /\ Len(Pieces[p]) \in Nat /\ k + 1 # Len(Pieces[p])
      BY <1>1, <1>4, <1>5, <1>7, <1>8, <3>1 DEF AnswersOK
    <3> QED
      BY <1>10, <2>1, <3>1, <3>2
  <2>2. CASE x # p
    <3>1. burstsServiced'[x] = burstsServiced[x]
      BY <1>1, <1>3, <1>5, <2>2 DEF TypeOK
    <3>2. owed'[x] = owed[x]
      BY <1>1, <1>3, <1>5, <2>2 DEF TypeOK
    <3> QED
      BY <1>1, <1>20, <3>1, <3>2 DEF AnswersOK
  <2> QED
    BY <2>1, <2>2
<1>21. AnswersOK'
  BY <1>12, <1>18, <1>19, <1>20, MemCtrlAssumption DEF AnswersOK, BurstsAccounted, Pending
<1> QED
  BY <1>14, <1>15, <1>16, <1>17, <1>21 DEF Inv

----------------------------------------------------------------------------
(* The invariant is kept: nextReqEvent *)

(* The start of a turn. *)
LEMMA TurnStarts ==
    ASSUME TypeOK, StartTurn
    PROVE  /\ busState' \in {"READ", "WRITE"}
           /\ refresh' \in [Ranks -> {"idle", "drain", "busy"}]
           /\ WritesSoFar \in 0 .. minWritesPerSwitch
           /\ (\E r \in Ranks : refresh[r] # "idle") => ~Asleep'
<1>1. busState' \in {"READ", "WRITE"}
  BY DEF StartTurn, TurnAround, TypeOK
<1>2. refresh' = [r \in Ranks |-> IF refresh[r] = "drain" THEN "busy" ELSE refresh[r]]
  BY DEF StartTurn, checkDrainDone
<1>3. refresh' \in [Ranks -> {"idle", "drain", "busy"}]
  BY <1>2 DEF TypeOK
<1>4. WritesSoFar \in 0 .. minWritesPerSwitch
  BY Sizes DEF TypeOK, WritesSoFar
<1>5. ASSUME NEW r \in Ranks, refresh[r] # "idle" PROVE refresh'[r] # "idle"
  BY <1>2, <1>5
<1> QED
  BY <1>1, <1>3, <1>4, <1>5 DEF Asleep

(* A turn that stops the loop, with nothing to do or a rank refreshing. *)
LEMMA StopLoopInv ==
    ASSUME Inv, StartTurn, StopLoop, drainState' \in {drainState, "Drained"},
           Asleep' => readQueue = <<>> /\ Len(writeQueue) <= writeLowThreshold
    PROVE  Inv'
<1>1. TypeOK /\ QueuesOK /\ WriteTurnHasWork /\ RetriesOK /\ AnswersOK
  BY DEF Inv
<1>2. /\ nextReqEvent' = FALSE /\ writesThisTime' = WritesSoFar
      /\ UNCHANGED <<queues, busStateNext, pwrIdle, opening, activeRank, port, respondEvent,
                     owed>>
  BY DEF StopLoop
<1>3. /\ busState' \in {"READ", "WRITE"}
      /\ refresh' \in [Ranks -> {"idle", "drain", "busy"}]
      /\ WritesSoFar \in 0 .. minWritesPerSwitch
  BY <1>1, TurnStarts
<1>4. TypeOK'
  BY <1>1, <1>2, <1>3 DEF TypeOK, queues, port
<1>5. QueuesOK' /\ AnswersOK'
  BY <1>1, <1>2, SameQueues, SameAnswers
<1>6. WriteTurnHasWork'
  BY <1>1, <1>2 DEF WriteTurnHasWork, queues
<1>7. RetriesOK'
  BY <1>1, <1>2 DEF RetriesOK, queues, port
<1> QED
  BY <1>4, <1>5, <1>6, <1>7 DEF Inv

(* The retries at the end of a turn that goes on. *)
LEMMA EndTurnRetries ==
    ASSUME Inv, EndTurn, Len(writeQueue') \in Nat,
           readQueue # <<>> \/ respQueue # <<>> => readQueue' # <<>> \/ respQueue' # <<>>
    PROVE  /\ RetriesOK'
           /\ {retryRdReq', retryWrReq', nextReqEvent', waitRetry'} \subseteq BOOLEAN
           /\ refused' = refused /\ owed' = owed
<1>1. TypeOK /\ RetriesOK
  BY DEF Inv
<1>2. /\ nextReqEvent' = TRUE
      /\ retryWrReq' = (retryWrReq /\ ~RetryWrite)
      /\ waitRetry'  = (waitRetry /\ ~RetryWrite)
      /\ UNCHANGED <<retryRdReq, refused, owed>>
  BY DEF EndTurn
<1>3. ~RetryWrite /\ retryWrReq => Len(writeQueue') > writeLowThreshold
  BY Sizes DEF RetryWrite
<1>4. RetryWrite => retryWrReq
  BY DEF RetryWrite
<1> HIDE DEF RetryWrite
<1>5. RetriesOK'
  BY <1>1, <1>2, <1>3, <1>4 DEF RetriesOK, Asleep
<1>6. {retryRdReq', retryWrReq', nextReqEvent', waitRetry'} \subseteq BOOLEAN
  BY <1>1, <1>2 DEF TypeOK
<1> QED
  BY <1>2, <1>5, <1>6

(* The bus turns to the writes, of which there are some. *)
LEMMA SwitchToWritesInv ==
    ASSUME Inv, SwitchToWrites
    PROVE  Inv'
<1>1. TypeOK /\ QueuesOK /\ WriteTurnHasWork /\ RetriesOK /\ AnswersOK
  BY DEF Inv
<1>2. /\ StartTurn /\ EndTurn /\ Len(writeQueue) # 0
      /\ busStateNext' = "WRITE" /\ writesThisTime' = WritesSoFar
      /\ UNCHANGED <<queues, pwrIdle, opening, activeRank, respondEvent, drainState>>
  BY DEF SwitchToWrites, ReadTurn, WritesDue, totalWriteQueueSize
<1>3. /\ busState' \in {"READ", "WRITE"}
      /\ refresh' \in [Ranks -> {"idle", "drain", "busy"}]
      /\ WritesSoFar \in 0 .. minWritesPerSwitch
  BY <1>1, <1>2, TurnStarts
<1>4. UNCHANGED <<readQueue, respQueue, writeQueue>> /\ Len(writeQueue') \in Nat
  BY <1>1, <1>2, QueueTypes DEF queues
<1>5. /\ RetriesOK'
      /\ {retryRdReq', retryWrReq', nextReqEvent', waitRetry'} \subseteq BOOLEAN
      /\ refused' = refused /\ owed' = owed
  BY <1>2, <1>4, EndTurnRetries
<1>6. TypeOK'
  BY <1>1, <1>2, <1>3, <1>5 DEF TypeOK, queues
<1>7. QueuesOK' /\ AnswersOK'
  BY <1>1, <1>2, <1>5, SameQueues, SameAnswers
<1>8. WriteTurnHasWork'
  BY <1>1, <1>2, <1>4, QueueTypes DEF WriteTurnHasWork
<1> QED
  BY <1>5, <1>6, <1>7, <1>8 DEF Inv

(* The burst that is issued opens a row of one of the ranks. *)
LEMMA RowOpens ==
    ASSUME TypeOK, NEW b \in Bursts, doBurstAccess(b)
    PROVE  activeRank' \in Ranks /\ {pwrIdle', opening'} \subseteq [Ranks -> BOOLEAN]
BY MemCtrlAssumption DEF TypeOK, doBurstAccess

(* A read is issued, and the bus may turn to the writes. *)
LEMMA IssueReadInv ==
    ASSUME Inv, NEW i \in DOMAIN readQueue, IssueRead(i)
    PROVE  Inv'
<1>1. TypeOK /\ QueuesOK /\ WriteTurnHasWork /\ RetriesOK /\ AnswersOK
  BY DEF Inv
<1>2. /\ StartTurn /\ EndTurn /\ busStateNext = "READ"
      /\ doBurstAccess(readQueue[i].burst) /\ respondEvent' = TRUE
      /\ writesThisTime' = WritesSoFar
      /\ busStateNext' = IF Len(writeQueue) > writeHighThreshold THEN "WRITE" ELSE busStateNext
      /\ UNCHANGED <<writeQueue, isInWriteQueue, burstsServiced, drainState>>
  BY DEF IssueRead, ReadTurn, totalWriteQueueSize
<1>3. /\ busState' \in {"READ", "WRITE"}
      /\ refresh' \in [Ranks -> {"idle", "drain", "busy"}]
      /\ WritesSoFar \in 0 .. minWritesPerSwitch
  BY <1>1, <1>2, TurnStarts
<1>4. /\ readQueue' \in Seq(Entry) /\ Len(readQueue') = Len(readQueue) - 1
      /\ respQueue' \in Seq(Entry) /\ Len(respQueue') = Len(respQueue) + 1
      /\ \A x : InFlight(readQueue', x) + InFlight(respQueue', x)
                   = InFlight(readQueue, x) + InFlight(respQueue, x)
  <2>1. readQueue' = RemoveAt(readQueue, i) /\ respQueue' = Append(respQueue, readQueue[i])
    BY DEF IssueRead
  <2> QED
    BY <1>1, <2>1, ReadMoves
<1>5. /\ Len(readQueue) \in Nat /\ Len(respQueue) \in Nat /\ Len(writeQueue) \in Nat
      /\ DOMAIN readQueue = 1 .. Len(readQueue) /\ readQueue \in Seq(Entry)
      /\ writeQueue = <<>> <=> Len(writeQueue) = 0
  BY <1>1, QueueTypes
<1>6. respQueue' # <<>>
  BY <1>4, <1>5, EmptySeq
<1>7. /\ RetriesOK'
      /\ {retryRdReq', retryWrReq', nextReqEvent', waitRetry'} \subseteq BOOLEAN
      /\ refused' = refused /\ owed' = owed
  <2>1. Len(writeQueue') \in Nat
    BY <1>2, <1>5
  <2> QED
    BY <1>2, <1>6, <2>1, EndTurnRetries
<1>8. activeRank' \in Ranks /\ {pwrIdle', opening'} \subseteq [Ranks -> BOOLEAN]
  <2>1. readQueue[i].burst \in Bursts
    <3>1. readQueue[i] \in Entry
      BY <1>5, ElementOfSeq
    <3> QED
      BY <3>1 DEF Entry
  <2> QED
    BY <1>1, <1>2, <2>1, RowOpens
<1>9. TypeOK'
  BY <1>1, <1>2, <1>3, <1>4, <1>7, <1>8 DEF TypeOK, Entry
<1>10. QueuesOK'
  <2>1. Len(readQueue') + Len(respQueue') <= readBufferSize
    BY <1>1, <1>4, <1>5, Sizes DEF QueuesOK
  <2> QED
    BY <1>1, <1>2, <1>6, <2>1 DEF QueuesOK
<1>11. WriteTurnHasWork'
  BY <1>2, <1>5, Sizes DEF WriteTurnHasWork
<1>12. AnswersOK'
  BY <1>1, <1>2, <1>4, <1>7 DEF AnswersOK, BurstsAccounted, Pending
<1> QED
  BY <1>7, <1>9, <1>10, <1>11, <1>12 DEF Inv

(* A write is issued; the bus turns back when the queue is empty. *)
LEMMA IssueWriteInv ==
    ASSUME Inv, NEW i \in DOMAIN writeQueue, IssueWrite(i)
    PROVE  Inv'
<1> DEFINE wrote == IF WritesSoFar < minWritesPerSwitch THEN WritesSoFar + 1
                                                        ELSE WritesSoFar
<1>1. TypeOK /\ QueuesOK /\ WriteTurnHasWork /\ RetriesOK /\ AnswersOK
  BY DEF Inv
<1>2. /\ StartTurn /\ EndTurn /\ busStateNext = "WRITE"
      /\ doBurstAccess(writeQueue[i].burst)
      /\ writesThisTime' = wrote
      /\ busStateNext' = IF BackToReads(Len(writeQueue) - 1, wrote)
                         THEN "READ" ELSE busStateNext
      /\ UNCHANGED <<readQueue, respQueue, burstsServiced, respondEvent, drainState>>
  BY DEF IssueWrite, WriteTurn, totalWriteQueueSize
<1>3. /\ busState' \in {"READ", "WRITE"}
      /\ refresh' \in [Ranks -> {"idle", "drain", "busy"}]
      /\ WritesSoFar \in 0 .. minWritesPerSwitch
  BY <1>1, <1>2, TurnStarts
<1>4. wrote \in 0 .. minWritesPerSwitch
  BY <1>3, Sizes
<1>5. /\ writeQueue' \in Seq(Piece) /\ Len(writeQueue') = Len(writeQueue) - 1
      /\ \A j, k \in DOMAIN writeQueue' : writeQueue'[j].burst = writeQueue'[k].burst => j = k
      /\ isInWriteQueue' = {writeQueue'[j].burst : j \in DOMAIN writeQueue'}
  <2>1. /\ writeQueue' = RemoveAt(writeQueue, i)
        /\ isInWriteQueue' = isInWriteQueue \ {writeQueue[i].burst}
    BY DEF IssueWrite
  <2> QED
    BY <1>1, <2>1, WriteLeaves
<1>6. /\ Len(writeQueue) \in Nat /\ DOMAIN writeQueue = 1 .. Len(writeQueue)
      /\ writeQueue \in Seq(Piece) /\ Len(writeQueue') \in Nat
  BY <1>1, <1>5, QueueTypes, LenProperties
<1>7. /\ RetriesOK'
      /\ {retryRdReq', retryWrReq', nextReqEvent', waitRetry'} \subseteq BOOLEAN
      /\ refused' = refused /\ owed' = owed
  BY <1>2, <1>6, EndTurnRetries
<1>8. activeRank' \in Ranks /\ {pwrIdle', opening'} \subseteq [Ranks -> BOOLEAN]
  <2>1. writeQueue[i].burst \in Bursts
    BY <1>6, ElementOfSeq DEF Bursts
  <2> QED
    BY <1>1, <1>2, <2>1, RowOpens
<1>9. isInWriteQueue' \subseteq Bursts
  BY <1>5, LenProperties, ElementOfSeq DEF Bursts
<1> HIDE DEF wrote
<1>10. TypeOK'
  BY <1>1, <1>2, <1>3, <1>4, <1>5, <1>7, <1>8, <1>9 DEF TypeOK
<1>11. QueuesOK'
  <2>1. Len(writeQueue') <= writeBufferSize
    BY <1>1, <1>5, <1>6, Sizes DEF QueuesOK
  <2> QED
    BY <1>1, <1>2, <1>5, <2>1 DEF QueuesOK
<1>12. WriteTurnHasWork'
  <2>1. busStateNext' = "WRITE" => Len(writeQueue) - 1 # 0
    BY <1>2 DEF BackToReads
  <2>2. Len(writeQueue') # 0 => writeQueue' # <<>>
    BY EmptySeq
  <2> QED
    BY <1>5, <2>1, <2>2 DEF WriteTurnHasWork
<1>13. AnswersOK'
  BY <1>1, <1>2, <1>7 DEF AnswersOK, BurstsAccounted, Pending, InFlight
<1> QED
  BY <1>7, <1>10, <1>11, <1>12, <1>13 DEF Inv

(* Nothing to do, or no burst for a rank that is not refreshing. *)
LEMMA StopsInv ==
    ASSUME Inv, AllRanksBusy \/ NothingToDo \/ NoReadFound \/ NoWriteFound
    PROVE  Inv'
<1>1. TypeOK /\ QueuesOK /\ WriteTurnHasWork /\ RetriesOK /\ AnswersOK
  BY DEF Inv
<1>2. /\ readQueue \in Seq(Entry) /\ writeQueue \in Seq(Piece)
      /\ Len(readQueue) \in Nat /\ Len(writeQueue) \in Nat
      /\ DOMAIN readQueue = 1 .. Len(readQueue) /\ DOMAIN writeQueue = 1 .. Len(writeQueue)
      /\ readQueue = <<>> <=> Len(readQueue) = 0
      /\ writeQueue = <<>> <=> Len(writeQueue) = 0
  BY <1>1, QueueTypes
<1>3. CASE AllRanksBusy
  <2>1. StartTurn /\ StopLoop /\ drainState' = drainState
    BY <1>3 DEF AllRanksBusy
  <2>2. \E r \in Ranks : refresh[r] # "idle"
    BY <1>1, <1>3 DEF AllRanksBusy, AllBusy, TypeOK
  <2> QED
    BY <1>1, <2>1, <2>2, TurnStarts, StopLoopInv
<1>4. CASE NothingToDo
  <2>1. StartTurn /\ StopLoop /\ drainState' \in {drainState, "Drained"}
    BY <1>4 DEF NothingToDo, ReadTurn, SignalDrainDone
  <2>2. Len(readQueue) = 0 /\ (Len(writeQueue) = 0 \/ ~(Len(writeQueue) > writeLowThreshold))
    BY <1>4 DEF NothingToDo, WritesDue, totalReadQueueSize, totalWriteQueueSize
  <2>3. readQueue = <<>> /\ Len(writeQueue) <= writeLowThreshold
    BY <1>2, <2>2, Sizes
  <2> QED
    BY <2>1, <2>3, StopLoopInv
<1>5. CASE NoReadFound
  <2>1. /\ StartTurn /\ StopLoop /\ drainState' = drainState
        /\ Len(readQueue) # 0 /\ chooseNext(readQueue) = {}
    BY <1>5 DEF NoReadFound, ReadTurn, totalReadQueueSize
  <2>2. \A i \in DOMAIN readQueue : readQueue[i].burst \in Bursts
    <3> SUFFICES ASSUME NEW i \in 1 .. Len(readQueue) PROVE readQueue[i].burst \in Bursts
      BY <1>2
    <3>1. readQueue[i] \in Entry
      BY <1>2, ElementOfSeq
    <3> QED
      BY <3>1 DEF Entry
  <2>3. DOMAIN readQueue \in SUBSET Nat /\ DOMAIN readQueue # {}
    <3>1. 1 .. Len(readQueue) \in SUBSET Nat /\ 1 \in 1 .. Len(readQueue)
      BY <1>2, <2>1
    <3> QED
      BY <1>2, <3>1
  <2>4. \E r \in Ranks : refresh[r] # "idle"
    BY <2>1, <2>2, <2>3, ChosenEntry
  <2> QED
    BY <1>1, <2>1, <2>4, TurnStarts, StopLoopInv
<1>6. CASE NoWriteFound
  <2>1. /\ StartTurn /\ StopLoop /\ drainState' = drainState
        /\ busStateNext = "WRITE" /\ chooseNext(writeQueue) = {}
    BY <1>6 DEF NoWriteFound, WriteTurn
  <2>2. \A i \in DOMAIN writeQueue : writeQueue[i].burst \in Bursts
    BY <1>2, ElementOfSeq DEF Bursts
  <2>3. DOMAIN writeQueue \in SUBSET Nat /\ DOMAIN writeQueue # {}
    <3>1. Len(writeQueue) # 0
      BY <1>1, <1>2, <2>1 DEF WriteTurnHasWork
    <3>2. 1 .. Len(writeQueue) \in SUBSET Nat /\ 1 \in 1 .. Len(writeQueue)
      BY <1>2, <3>1
    <3> QED
      BY <1>2, <3>2
  <2>4. \E r \in Ranks : refresh[r] # "idle"
    BY <2>1, <2>2, <2>3, ChosenEntry
  <2> QED
    BY <1>1, <2>1, <2>4, TurnStarts, StopLoopInv
<1> QED
  BY <1>3, <1>4, <1>5, <1>6

----------------------------------------------------------------------------
(* The invariant is kept: the ranks and the drain manager *)

(* A step that leaves the queues, the bus, the port and the accounts alone *)
(* and puts no loop to sleep.                                              *)
LEMMA OutsideInv ==
    ASSUME Inv, UNCHANGED <<queues, bus, activeRank, port, respondEvent, owed>>,
           refresh' \in [Ranks -> {"idle", "drain", "busy"}],
           {pwrIdle', opening'} \subseteq [Ranks -> BOOLEAN], nextReqEvent' \in BOOLEAN,
           drainState' \in {"Running", "Draining", "Drained"},
           Asleep' => Asleep
    PROVE  Inv'
<1>1. TypeOK /\ QueuesOK /\ WriteTurnHasWork /\ RetriesOK /\ AnswersOK
  BY DEF Inv
<1>2. TypeOK'
  BY <1>1 DEF TypeOK, queues, bus, port
<1>3. QueuesOK' /\ AnswersOK'
  BY <1>1, SameQueues, SameAnswers
<1>4. WriteTurnHasWork'
  BY <1>1 DEF WriteTurnHasWork, queues, bus
<1>5. RetriesOK'
  BY <1>1 DEF RetriesOK, queues, port
<1> QED
  BY <1>2, <1>3, <1>4, <1>5 DEF Inv

(* A refresh begins or ends, or the first row opens or the last one closes. *)
LEMMA RanksInv ==
    ASSUME Inv, NEW r \in Ranks,
           RefreshDue(r) \/ RefreshDone(r) \/ RankOpens(r) \/ BanksClose(r)
    PROVE  Inv'
<1>1. TypeOK
  BY DEF Inv
<1>2. /\ refresh \in [Ranks -> {"idle", "drain", "busy"}]
      /\ {pwrIdle, opening} \subseteq [Ranks -> BOOLEAN] /\ nextReqEvent \in BOOLEAN
      /\ drainState \in {"Running", "Draining", "Drained"}
  BY <1>1 DEF TypeOK
<1>3. CASE RefreshDue(r)
  <2>1. /\ UNCHANGED <<queues, bus, activeRank, port, respondEvent, owed>>
        /\ UNCHANGED <<pwrIdle, opening, nextReqEvent, drainState>>
        /\ refresh' = [refresh EXCEPT ![r] =
                          IF r = activeRank /\ nextReqEvent THEN "drain" ELSE "busy"]
    BY <1>3 DEF RefreshDue
  <2>2. refresh' \in [Ranks -> {"idle", "drain", "busy"}] /\ refresh'[r] # "idle"
    BY <1>2, <2>1
  <2>3. ~Asleep'
    BY <2>2 DEF Asleep
  <2> QED
    BY <1>2, <2>1, <2>2, <2>3, OutsideInv
<1>4. CASE RefreshDone(r)
  <2>1. /\ UNCHANGED <<queues, bus, activeRank, port, respondEvent, owed>>
        /\ UNCHANGED <<opening, drainState>> /\ nextReqEvent' = TRUE
        /\ refresh' = [refresh EXCEPT ![r] = "idle"]
        /\ pwrIdle' = [pwrIdle EXCEPT ![r] = TRUE]
    BY <1>4 DEF RefreshDone, restartScheduler
  <2>2. /\ refresh' \in [Ranks -> {"idle", "drain", "busy"}]
        /\ {pwrIdle', opening'} \subseteq [Ranks -> BOOLEAN]
    BY <1>2, <2>1
  <2>3. ~Asleep'
    BY <2>1 DEF Asleep
  <2> QED
    BY <1>2, <2>1, <2>2, <2>3, OutsideInv
<1>5. CASE BanksClose(r)
  <2>1. /\ UNCHANGED <<queues, bus, activeRank, port, respondEvent, owed>>
        /\ UNCHANGED <<refresh, opening, nextReqEvent, drainState>>
        /\ pwrIdle' = [pwrIdle EXCEPT ![r] = TRUE]
    BY <1>5 DEF BanksClose
  <2>2. {pwrIdle', opening'} \subseteq [Ranks -> BOOLEAN]
    BY <1>2, <2>1
  <2>3. Asleep' => Asleep
    BY <2>1 DEF Asleep
  <2> QED
    BY <1>2, <2>1, <2>2, <2>3, OutsideInv
<1>6. CASE RankOpens(r)
  <2>1. /\ UNCHANGED <<queues, bus, activeRank, port, respondEvent, owed>>
        /\ UNCHANGED <<refresh, nextReqEvent, drainState>>
        /\ opening' = [opening EXCEPT ![r] = FALSE]
        /\ pwrIdle' = [pwrIdle EXCEPT ![r] = FALSE]
    BY <1>6 DEF RankOpens
  <2>2. {pwrIdle', opening'} \subseteq [Ranks -> BOOLEAN]
    BY <1>2, <2>1
  <2>3. Asleep' => Asleep
    BY <2>1 DEF Asleep
  <2> QED
    BY <1>2, <2>1, <2>2, <2>3, OutsideInv
<1> QED
  BY <1>3, <1>4, <1>5, <1>6

(* The drain manager may start the loop but never stops it. *)
LEMMA DrainInv ==
    ASSUME Inv, drain \/ drainResume
    PROVE  Inv'
<1>1. TypeOK
  BY DEF Inv
<1>2. UNCHANGED <<queues, bus, ranks, port, respondEvent, owed>>
  BY DEF drain, drainResume
<1>3. /\ drainState' \in {"Running", "Draining", "Drained"}
      /\ \/ nextReqEvent' = nextReqEvent
         \/ nextReqEvent' = (nextReqEvent \/ totalWriteQueueSize = 0)
  BY DEF drain, drainResume
<1>4. nextReqEvent' \in BOOLEAN /\ (nextReqEvent => nextReqEvent')
  <2>1. nextReqEvent \in BOOLEAN
    BY <1>1 DEF TypeOK
  <2>2. CASE nextReqEvent' = nextReqEvent
    BY <2>1, <2>2
  <2>3. CASE nextReqEvent' = (nextReqEvent \/ totalWriteQueueSize = 0)
    <3>1. nextReqEvent' \in BOOLEAN
      BY <2>3
    <3>2. nextReqEvent => nextReqEvent'
      BY <2>3
    <3> QED
      BY <3>1, <3>2
  <2> QED
    BY <1>3, <2>2, <2>3
<1>5. UNCHANGED <<refresh, pwrIdle, opening, activeRank>> /\ (Asleep' => Asleep)
  BY <1>2, <1>4 DEF ranks, Asleep
<1>6. /\ refresh' \in [Ranks -> {"idle", "drain", "busy"}]
      /\ {pwrIdle', opening'} \subseteq [Ranks -> BOOLEAN]
  BY <1>1, <1>5 DEF TypeOK
<1> QED
  BY <1>2, <1>3, <1>4, <1>5, <1>6, OutsideInv

----------------------------------------------------------------------------
(* The theorems *)

(* The invariant holds in the beginning, and every step keeps it. *)
LEMMA InitInv ==
    Init => Inv
<1> SUFFICES ASSUME Init PROVE Inv
  OBVIOUS
<1>1. \A S : <<>> \in Seq(S) /\ Len(<<>>) = 0 /\ DOMAIN <<>> = {}
  BY EmptySeq
<1>2. TypeOK
  <2>1. /\ burstsServiced \in [Packets -> Nat] /\ owed \in [Packets -> Int]
        /\ refresh \in [Ranks -> {"idle", "drain", "busy"}]
    BY DEF Init
  <2>2. pwrIdle \in [Ranks -> BOOLEAN] /\ opening \in [Ranks -> BOOLEAN]
    BY DEF Init
  <2>3. /\ {retryRdReq, retryWrReq, nextReqEvent, respondEvent, waitRetry} \subseteq BOOLEAN
        /\ {busState, busStateNext} \subseteq {"READ", "WRITE"}
        /\ drainState \in {"Running", "Draining", "Drained"}
    BY DEF Init
  <2>4. writesThisTime \in 0 .. minWritesPerSwitch
    BY Sizes DEF Init
  <2>5. activeRank \in Ranks /\ refused \in Packets \cup {None} /\ isInWriteQueue \subseteq Bursts
    BY DEF Init
  <2>6. /\ readQueue \in Seq([pkt : Reads, burst : Bursts])
        /\ respQueue \in Seq([pkt : Reads, burst : Bursts])
        /\ writeQueue \in Seq(Piece)
    BY <1>1 DEF Init
  <2> QED
    BY <2>1, <2>2, <2>3, <2>4, <2>5, <2>6 DEF TypeOK
<1>3. QueuesOK /\ WriteTurnHasWork
  BY <1>1, Sizes DEF Init, QueuesOK, WriteTurnHasWork
<1>4. RetriesOK
  BY <1>1, Sizes DEF Init, RetriesOK
<1>5. \A p : InFlight(<<>>, p) = 0
  BY <1>1, FS_EmptySet DEF InFlight
<1>6. AnswersOK
  BY <1>5, MemCtrlAssumption DEF Init, AnswersOK, BurstsAccounted, Pending
<1> QED
  BY <1>2, <1>3, <1>4, <1>6 DEF Inv

(* One case for each action of Next. *)
LEMMA NextInv ==
    Inv /\ [Next]_vars => Inv'
<1> SUFFICES ASSUME Inv, [Next]_vars PROVE Inv'
  OBVIOUS
<1>1. ASSUME NEW p \in Packets, recvTimingReq(p) PROVE Inv'
  BY <1>1, ReadRefusedInv, WriteRefusedInv, addToReadQueueInv, addToWriteQueueInv
  DEF recvTimingReq
<1>2. CASE processRespondEvent
  BY <1>2, processRespondEventInv
<1>3. CASE processNextReqEvent
  BY <1>3, StopsInv, SwitchToWritesInv, IssueReadInv, IssueWriteInv DEF processNextReqEvent
<1>4. ASSUME NEW r \in Ranks,
             RefreshDue(r) \/ RefreshDone(r) \/ RankOpens(r) \/ BanksClose(r)
      PROVE  Inv'
  BY <1>4, RanksInv
<1>5. CASE drain \/ drainResume
  BY <1>5, DrainInv
<1>6. CASE UNCHANGED vars
  <2>1. /\ UNCHANGED <<queues, bus, activeRank, port, respondEvent, owed>>
        /\ UNCHANGED <<refresh, pwrIdle, opening, nextReqEvent, drainState>>
    BY <1>6 DEF vars, ranks
  <2>2. /\ refresh' \in [Ranks -> {"idle", "drain", "busy"}]
        /\ {pwrIdle', opening'} \subseteq [Ranks -> BOOLEAN] /\ nextReqEvent' \in BOOLEAN
        /\ drainState' \in {"Running", "Draining", "Drained"}
    BY <2>1 DEF Inv, TypeOK
  <2>3. Asleep' => Asleep
    BY <2>1 DEF Asleep
  <2> QED
    BY <2>1, <2>2, <2>3, OutsideInv
<1> QED
  BY <1>1, <1>2, <1>3, <1>4, <1>5, <1>6 DEF Next

(* The invariant holds always. *)
LEMMA InvCorrect ==
    Spec => []Inv
BY InitInv, NextInv, PTL DEF Spec

(* The state has its type: a queue holds the bursts of packets, and the    *)
(* count of writes of a turn stays below its minimum.                      *)
THEOREM TypeCorrect ==
    Spec => []TypeOK
<1>1. Inv => TypeOK
  BY DEF Inv
<1> QED
  BY <1>1, InvCorrect, PTL

(* A different address for every write queued: as many as there are. *)
LEMMA AddressesCounted ==
    ASSUME TypeOK, QueuesOK
    PROVE  Len(writeQueue) = Cardinality(isInWriteQueue)
<1> DEFINE n == Len(writeQueue)
           f == [b \in isInWriteQueue |->
                    CHOOSE j \in 1 .. n : writeQueue[j].burst = b]
<1>1. n \in Nat /\ DOMAIN writeQueue = 1 .. n
  BY QueueTypes
<1>2. /\ \A i, j \in 1 .. n : writeQueue[i].burst = writeQueue[j].burst => i = j
      /\ isInWriteQueue = {writeQueue[i].burst : i \in 1 .. n}
  BY <1>1 DEF QueuesOK
<1> HIDE DEF n
<1>3. \A b \in isInWriteQueue : f[b] \in 1 .. n /\ writeQueue[f[b]].burst = b
  BY <1>2
<1>4. \A j \in 1 .. n : \E b \in isInWriteQueue : f[b] = j
  <2> SUFFICES ASSUME NEW j \in 1 .. n PROVE \E b \in isInWriteQueue : f[b] = j
    OBVIOUS
  <2>1. writeQueue[j].burst \in isInWriteQueue
    BY <1>2
  <2> HIDE DEF f
  <2>2. f[writeQueue[j].burst] = j
    BY <1>2, <1>3, <2>1
  <2> QED
    BY <2>1, <2>2
<1>5. f \in [isInWriteQueue -> 1 .. n]
  BY <1>3
<1> HIDE DEF f
<1>6. IsFiniteSet(1 .. n) /\ Cardinality(1 .. n) = n
  BY <1>1, FirstN
<1>7. \A b, c \in isInWriteQueue : f[b] = f[c] => b = c
  BY <1>3
<1>8. Cardinality(isInWriteQueue) = Cardinality(1 .. n)
  BY <1>4, <1>5, <1>6, <1>7, SameSize
<1> QED
  BY <1>6, <1>8 DEF n

(* The asserts of the controller: no queue outgrows its buffer, the write  *)
(* addresses are in step with the write queue, and respondEvent is         *)
(* scheduled exactly while a burst waits for its answer.                   *)
THEOREM AssertsNeverFail ==
    Spec => []AssertsHold
<1>1. Inv => AssertsHold
  BY AddressesCounted DEF Inv, QueuesOK, AssertsHold
<1> QED
  BY <1>1, InvCorrect, PTL

(* Every burst of an accepted read is in one place, and an answered packet *)
(* has left nothing behind, whatever order the scheduler picks.            *)
THEOREM BurstsKept ==
    Spec => []BurstsAccounted
<1>1. Inv => BurstsAccounted
  BY DEF Inv, AnswersOK
<1> QED
  BY <1>1, InvCorrect, PTL

(* The loop never turns to an empty write queue. *)
THEOREM WritesToIssue ==
    Spec => []WriteTurnHasWork
<1>1. Inv => WriteTurnHasWork
  BY DEF Inv
<1> QED
  BY <1>1, InvCorrect, PTL

(* No wakeup is lost: with the loop and the ranks at rest there is no read *)
(* to issue, no more writes than the low threshold and no refused write; a *)
(* refused packet is owed the retry of its kind.                           *)
THEOREM NoWakeupLost ==
    Spec => []NoLostWakeup
<1>1. Inv => NoLostWakeup
  <2> SUFFICES ASSUME Inv PROVE NoLostWakeup
    OBVIOUS
  <2>1. RetriesOK /\ Len(writeQueue) \in Nat /\ writeLowThreshold \in Nat
    BY QueueTypes, Sizes DEF Inv
  <2>2. Asleep => ~retryWrReq
    BY <2>1 DEF RetriesOK
  <2> QED
    BY <2>1, <2>2 DEF RetriesOK, NoLostWakeup, Asleep
<1> QED
  BY <1>1, InvCorrect, PTL

(* With the queues empty nothing is owed: an unanswered read would have    *)
(* all its bursts in its helper, which answers it at the last; and a       *)
(* refused request leaves entries in the queue that refused it.            *)
LEMMA EmptyOwesNothing ==
    Inv /\ QueuesEmpty => OwesNothing
<1> SUFFICES ASSUME Inv, QueuesEmpty PROVE OwesNothing
  OBVIOUS
<1>1. TypeOK /\ QueuesOK /\ RetriesOK /\ AnswersOK
  BY DEF Inv
<1>2. readQueue = <<>> /\ respQueue = <<>> /\ writeQueue = <<>>
  BY DEF QueuesEmpty
<1>3. DOMAIN <<>> = {} /\ Len(<<>>) = 0 /\ \A p : InFlight(<<>>, p) = 0
  <2>1. Len(<<>>) = 0 /\ DOMAIN <<>> = {}
    BY EmptySeq
  <2> QED
    BY <2>1, FS_EmptySet DEF InFlight
<1>4. ASSUME NEW p \in Reads PROVE owed[p] = 0 /\ burstsServiced[p] = 0
  <2>1. p \in Packets /\ burstsServiced[p] \in Nat /\ Len(Pieces[p]) \in Nat
    BY <1>1, MemCtrlAssumption, LenProperties DEF TypeOK
  <2>2. 0 + 0 + burstsServiced[p] = IF owed[p] # 0 THEN Len(Pieces[p]) ELSE 0
    BY <1>1, <1>2, <1>3, <2>1 DEF AnswersOK, BurstsAccounted, Pending
  <2>3. owed[p] # 0 => burstsServiced[p] < Len(Pieces[p])
    BY <1>1 DEF AnswersOK
  <2> QED
    BY <2>1, <2>2, <2>3
<1>5. Pending = {}
  BY <1>1, <1>4 DEF Pending, AnswersOK
<1>6. ~retryRdReq /\ ~retryWrReq /\ ~waitRetry
  <2>1. ~(Len(writeQueue) > writeLowThreshold)
    BY <1>2, <1>3, Sizes
  <2> QED
    BY <1>1, <1>2, <2>1 DEF RetriesOK
<1>7. isInWriteQueue = {}
  BY <1>1, <1>2, <1>3 DEF QueuesOK
<1> QED
  BY <1>4, <1>5, <1>6, <1>7 DEF OwesNothing

(* drain() and signalDrainDone() leave no answer, no retry, no write       *)
(* address and no burst helper behind.                                     *)
THEOREM DrainsSettled ==
    Spec => DrainedOwesNothing
<1> DEFINE A == drainState' = "Drained" /\ drainState # "Drained" => OwesNothing'
<1>1. Inv /\ [Next]_vars => [drainState' = "Drained" /\ drainState # "Drained"
                                => QueuesEmpty']_vars
  <2> SUFFICES ASSUME Inv, Next, drainState' = "Drained", drainState # "Drained"
               PROVE  QueuesEmpty'
    OBVIOUS
  <2>1. /\ readQueue = <<>> <=> Len(readQueue) = 0
        /\ writeQueue = <<>> <=> Len(writeQueue) = 0
    BY QueueTypes DEF Inv
  <2>2. processRespondEvent \/ NothingToDo \/ drain
    BY DEF Next, recvTimingReq, ReadRefused, addToReadQueue, WriteRefused, addToWriteQueue,
           processNextReqEvent, AllRanksBusy, SwitchToWrites, NoReadFound, IssueRead,
           NoWriteFound, IssueWrite, RefreshDue, RefreshDone, RankOpens, BanksClose,
           drainResume
  <2>3. CASE processRespondEvent
    <3>1. /\ Len(readQueue) = 0 /\ Len(writeQueue) = 0 /\ respQueue' = <<>>
          /\ UNCHANGED <<readQueue, writeQueue>>
      BY <2>3 DEF processRespondEvent, SignalDrainDone, totalReadQueueSize,
                  totalWriteQueueSize
    <3> QED
      BY <2>1, <3>1 DEF QueuesEmpty
  <2>4. CASE NothingToDo
    <3>1. /\ drainState = "Draining" /\ respQueue = <<>>
          /\ Len(readQueue) = 0 /\ ~WritesDue /\ UNCHANGED queues
      BY <2>4 DEF NothingToDo, SignalDrainDone, ReadTurn, StartTurn, StopLoop,
                  totalReadQueueSize
    <3>2. Len(writeQueue) = 0
      BY <3>1 DEF WritesDue, totalWriteQueueSize
    <3> QED
      BY <2>1, <3>1, <3>2 DEF QueuesEmpty, queues
  <2>5. CASE drain
    BY <2>5 DEF drain, QueuesEmpty, queues
  <2> QED
    BY <2>2, <2>3, <2>4, <2>5
<1>2. Inv' /\ QueuesEmpty' => OwesNothing'
  BY EmptyOwesNothing, PTL
<1>3. Inv /\ Inv' /\ [Next]_vars => [A]_vars
  BY <1>1, <1>2
<1> QED
  BY <1>3, InvCorrect, PTL DEF Spec, DrainedOwesNothing

(* The packets that are owed an answer have different entries. *)
LEMMA PendingFits ==
    ASSUME Inv
    PROVE  Cardinality(Pending) \in 0 .. Len(readQueue) + Len(respQueue)
<1> DEFINE a == Len(readQueue)
           b == Len(respQueue)
           At(j) == IF j <= a THEN readQueue[j].pkt ELSE respQueue[j - a].pkt
           f == [p \in Pending |-> CHOOSE j \in 1 .. a + b : At(j) = p]
<1>1. /\ TypeOK /\ AnswersOK
  BY DEF Inv
<1>2. /\ a \in Nat /\ b \in Nat /\ DOMAIN readQueue = 1 .. a /\ DOMAIN respQueue = 1 .. b
      /\ readQueue \in Seq(Entry) /\ respQueue \in Seq(Entry)
  BY <1>1, QueueTypes
<1> HIDE DEF a, b
<1>3. \A q, p : InFlight(q, p) # 0 => \E i \in DOMAIN q : q[i].pkt = p
  <2> SUFFICES ASSUME NEW q, NEW p, ~\E i \in DOMAIN q : q[i].pkt = p
               PROVE  InFlight(q, p) = 0
    OBVIOUS
  <2>1. {i \in DOMAIN q : q[i].pkt = p} = {}
    OBVIOUS
  <2> QED
    BY <2>1, FS_EmptySet DEF InFlight
<1>4. ASSUME NEW p \in Pending PROVE \E j \in 1 .. a + b : At(j) = p
  <2>1. p \in Reads /\ p \in Packets /\ owed[p] # 0
    BY <1>1 DEF AnswersOK, Pending
  <2>2. /\ InFlight(readQueue, p) \in Nat /\ InFlight(respQueue, p) \in Nat
        /\ burstsServiced[p] \in Nat /\ Len(Pieces[p]) \in Nat
    BY <1>1, <1>2, <2>1, InFlightFinite, PieceTypes DEF TypeOK
  <2>3. /\ InFlight(readQueue, p) + InFlight(respQueue, p) + burstsServiced[p] = Len(Pieces[p])
        /\ burstsServiced[p] < Len(Pieces[p])
    BY <1>1, <1>4, <2>1 DEF AnswersOK, BurstsAccounted
  <2>4. InFlight(readQueue, p) # 0 \/ InFlight(respQueue, p) # 0
    <3>1. ASSUME NEW x \in Nat, NEW y \in Nat, NEW k \in Nat, NEW n \in Nat,
                 x + y + k = n, k < n
          PROVE  x # 0 \/ y # 0
      BY <3>1
    <3> HIDE DEF At, f
    <3> QED
      BY <2>2, <2>3, <3>1
  <2>5. CASE InFlight(readQueue, p) # 0
    <3>1. PICK i \in 1 .. a : readQueue[i].pkt = p
      BY <1>2, <1>3, <2>5
    <3>2. i \in 1 .. a + b /\ i <= a
      BY <1>2
    <3> QED
      BY <3>1, <3>2
  <2>6. CASE InFlight(respQueue, p) # 0
    <3>1. PICK i \in 1 .. b : respQueue[i].pkt = p
      BY <1>2, <1>3, <2>6
    <3>2. a + i \in 1 .. a + b /\ ~(a + i <= a) /\ (a + i) - a = i
      BY <1>2
    <3>3. At(a + i) = p
      BY <3>1, <3>2
    <3> QED
      BY <3>2, <3>3
  <2> QED
    BY <2>4, <2>5, <2>6
<1> HIDE DEF At
<1>5. \A p \in Pending : f[p] \in 1 .. a + b /\ At(f[p]) = p
  BY <1>4
<1> HIDE DEF f
<1>6. f \in [Pending -> 1 .. a + b]
  BY <1>5 DEF f
<1>7. f \in Injection(Pending, 1 .. a + b)
  BY <1>5, <1>6 DEF Injection, IsInjective
<1>8. PICK n \in Nat : n = a + b
  BY <1>2
<1>9. IsFiniteSet(1 .. n) /\ Cardinality(1 .. n) = n
  BY FirstN
<1>10. IsFiniteSet(Pending) /\ Cardinality(Pending) <= n
  BY <1>7, <1>8, <1>9, FS_Injection
<1>11. Cardinality(Pending) \in Nat
  BY <1>10, FS_CardinalityType
<1> QED
  BY <1>8, <1>10, <1>11 DEF a, b

(* The safety part of ServiceSpec: a request accepted is answered at most  *)
(* once, no other is answered, and no more are held than the read buffer   *)
(* has entries.                                                            *)
ServiceSafety == Service!Init /\ [][Service!Next]_owed

(* The controller's steps are the service's, for both scheduling policies  *)
(* and any split of the packets: the queues, the bus turnarounds and the   *)
(* refreshes neither lose nor repeat an answer.                            *)
THEOREM AnswersOnce ==
    Spec => ServiceSafety
<1>1. Init => Service!Init
  BY DEF Init, Service!Init
<1>2. Inv /\ [Next]_vars => [Service!Next]_owed
  <2> SUFFICES ASSUME Inv, Next, owed' # owed PROVE Service!Next
    BY DEF vars
  <2>1. TypeOK /\ QueuesOK /\ AnswersOK /\ owed \in [Packets -> {0, 1}]
    BY DEF Inv, AnswersOK
  <2>2. (\E p \in Reads : CanSend(p) /\ addToReadQueue(p)) \/ processRespondEvent
    BY DEF Next, recvTimingReq, ReadRefused, addToReadQueue, WriteRefused, addToWriteQueue,
           processNextReqEvent, AllRanksBusy, NothingToDo, SwitchToWrites, NoReadFound,
           IssueRead, NoWriteFound, IssueWrite, StopLoop, EndTurn, RefreshDue, RefreshDone,
           RankOpens, BanksClose, drain, drainResume
  <2>3. ASSUME NEW p \in Reads, CanSend(p), addToReadQueue(p) PROVE Service!Next
    <3>1. p \in Packets /\ owed[p] = 0
      BY <2>3, MemCtrlAssumption DEF CanSend, Pending
    <3>2. owed' = [owed EXCEPT ![p] = 1]
      <4>1. owed' = [owed EXCEPT ![p] = owed[p] + 1]
        BY <2>3, ReadAdded
      <4> QED
        BY <3>1, <4>1
    <3>3. Cardinality(Pending) < readBufferSize
      <4>1. Len(Pieces[p]) \in Nat \ {0} /\ readBufferSize \in Nat
        BY <3>1, PieceTypes, Sizes
      <4>2. Len(readQueue) \in Nat /\ Len(respQueue) \in Nat
        BY <2>1, QueueTypes
      <4>3. ~(Len(readQueue) + Len(respQueue) + Len(Pieces[p]) > readBufferSize)
        BY <2>3 DEF addToReadQueue, readQueueFull, totalReadQueueSize
      <4>4. Cardinality(Pending) \in 0 .. Len(readQueue) + Len(respQueue)
        BY PendingFits
      <4>5. ASSUME NEW a \in Nat, NEW b \in Nat, NEW n \in Nat \ {0}, NEW m \in Nat,
                   ~(a + b + n > m), NEW c \in 0 .. a + b
            PROVE  c < m
        BY <4>5
      <4> QED
        BY <4>1, <4>2, <4>3, <4>4, <4>5
    <3>4. Service!Cardinality(Service!Pending) < readBufferSize
      <4>1. Service!Pending = Pending
        BY <2>1 DEF Service!Pending, Pending
      <4>2. \A S : Service!Cardinality(S) = Cardinality(S)
        BY DEF Service!Cardinality, Cardinality
      <4> QED
        BY <3>3, <4>1, <4>2
    <3>5. Service!Accept(p)
      BY <3>1, <3>2, <3>4 DEF Service!Accept
    <3> QED
      BY <3>1, <3>5 DEF Service!Next
  <2>4. CASE processRespondEvent
    <3> DEFINE p == Head(respQueue).pkt
    <3>1. /\ respQueue # <<>> /\ respQueue' = Tail(respQueue)
          /\ owed' = [owed EXCEPT ![p] = owed[p] - 1]
      BY <2>1, <2>4 DEF processRespondEvent, Respond, QueuesOK
    <3>2. p \in Packets
      BY <2>1, <3>1, ResponseLeaves, MemCtrlAssumption
    <3>3. Inv'
      BY <2>4, processRespondEventInv
    <3>4. owed' \in [Packets -> {0, 1}]
      BY <3>3 DEF Inv, AnswersOK
    <3> HIDE DEF p
    <3>5. owed'[p] = owed[p] - 1 /\ owed'[p] \in {0, 1} /\ owed[p] \in {0, 1}
      BY <2>1, <3>1, <3>2, <3>4
    <3>6. owed[p] = 1
      BY <3>5
    <3>7. Service!Answer(p)
      BY <3>1, <3>6 DEF Service!Answer
    <3> QED
      BY <3>2, <3>7 DEF Service!Next
  <2> QED
    BY <2>2, <2>3, <2>4
<1> QED
  BY <1>1, <1>2, InvCorrect, PTL DEF Spec, ServiceSafety
=============================================================================
