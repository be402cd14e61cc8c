---------------------------- MODULE QueueProofs ----------------------------
(***************************************************************************)
(* Proofs about the queues of fastfat: the requests posted to the worker   *)
(* threads and the overflow queue of the volume (OverflowQueue), and the   *)
(* deferred closes with their two pairs of lists (CloseQueue).             *)
(***************************************************************************)
EXTENDS OverflowQueue, CloseQueue, FiniteSetTheorems, SequenceTheorems, TLAPS

-----------------------------------------------------------------------------
(* Lists: sequences without repetition *)

LEMMA ListPositions ==
    ASSUME NEW S, NEW s \in Seq(S)
    PROVE  /\ DOMAIN s = 1 .. Len(s) /\ Len(s) \in Nat
           /\ ToSet(s) \subseteq S
           /\ \A x : x \in ToSet(s) <=> \E k \in 1 .. Len(s) : s[k] = x
BY DEF ToSet

LEMMA EmptyList ==
    /\ \A S : << >> \in Seq(S)
    /\ ToSet(<< >>) = {} /\ IsInjective(<< >>) /\ Len(<< >>) = 0
    /\ \A c, d : ~ Before(<< >>, c, d)
<1>1. DOMAIN << >> = {}
  OBVIOUS
<1> QED
  BY <1>1 DEF ToSet, IsInjective, Before

LEMMA ListEmpty ==
    ASSUME NEW S, NEW s \in Seq(S)
    PROVE  s = << >> <=> ToSet(s) = {}
BY ListPositions

\* A new entry at the end.
LEMMA AppendList ==
    ASSUME NEW S, NEW s \in Seq(S), NEW x \in S
    PROVE  /\ Append(s, x) \in Seq(S) /\ Len(Append(s, x)) = Len(s) + 1
           /\ ToSet(Append(s, x)) = ToSet(s) \cup {x}
           /\ IsInjective(s) /\ x \notin ToSet(s) => IsInjective(Append(s, x))
           /\ \A c, d : Before(Append(s, x), c, d) <=>
                            Before(s, c, d) \/ (c \in ToSet(s) /\ d = x)
<1> DEFINE t == Append(s, x)
           n == Len(s)
<1>1. /\ t \in Seq(S) /\ Len(t) = n + 1 /\ n \in Nat
      /\ \A k \in 1 .. n : t[k] = s[k]
      /\ t[n + 1] = x
  BY AppendProperties
<1>2. DOMAIN t = 1 .. n + 1 /\ DOMAIN s = 1 .. n
  BY <1>1
<1> HIDE DEF t, n
<1>3. \A k \in 1 .. n + 1 : k \in 1 .. n \/ k = n + 1
  BY <1>1
<1>4. ToSet(t) = ToSet(s) \cup {x}
  <2>1. ASSUME NEW y \in ToSet(t) PROVE y \in ToSet(s) \cup {x}
    BY <1>1, <1>2, <1>3 DEF ToSet
  <2>2. ASSUME NEW y \in ToSet(s) \cup {x} PROVE y \in ToSet(t)
    <3>1. \A k \in 1 .. n : k \in 1 .. n + 1
      BY <1>1
    <3>2. n + 1 \in 1 .. n + 1
      BY <1>1
    <3> QED
      BY <1>1, <1>2, <3>1, <3>2 DEF ToSet
  <2> QED
    BY <2>1, <2>2
<1>5. ASSUME IsInjective(s), x \notin ToSet(s) PROVE IsInjective(t)
  <2>1. SUFFICES ASSUME NEW a \in 1 .. n + 1, NEW b \in 1 .. n + 1, t[a] = t[b]
                 PROVE  a = b
    BY <1>2 DEF IsInjective
  <2>2. \A k \in 1 .. n : s[k] # x
    BY <1>2, <1>5 DEF ToSet
  <2> QED
    BY <1>1, <1>2, <1>3, <1>5, <2>1, <2>2 DEF IsInjective
<1>6. ASSUME NEW c, NEW d
      PROVE  Before(t, c, d) <=> Before(s, c, d) \/ (c \in ToSet(s) /\ d = x)
  <2>1. ASSUME NEW a \in 1 .. n + 1, NEW b \in 1 .. n + 1, a < b, t[a] = c, t[b] = d
        PROVE  Before(s, c, d) \/ (c \in ToSet(s) /\ d = x)
    <3>1. a \in 1 .. n
      BY <1>1, <2>1
    <3>2. CASE b \in 1 .. n
      BY <1>1, <1>2, <2>1, <3>1, <3>2 DEF Before
    <3>3. CASE b = n + 1
      BY <1>1, <1>2, <2>1, <3>1, <3>3 DEF ToSet
    <3> QED
      BY <1>3, <3>2, <3>3
  <2>2. ASSUME NEW a \in 1 .. n, NEW b \in 1 .. n, a < b, s[a] = c, s[b] = d
        PROVE  Before(t, c, d)
    <3>1. a \in 1 .. n + 1 /\ b \in 1 .. n + 1 /\ t[a] = c /\ t[b] = d
      BY <1>1, <2>2
    <3> QED
      BY <1>2, <2>2, <3>1 DEF Before
  <2>3. ASSUME NEW a \in 1 .. n, s[a] = c, d = x PROVE Before(t, c, d)
    <3>1. /\ a \in 1 .. n + 1 /\ n + 1 \in 1 .. n + 1 /\ a < n + 1
          /\ t[a] = c /\ t[n + 1] = d
      BY <1>1, <2>3
    <3> QED
      BY <1>2, <3>1 DEF Before
  <2> QED
    BY <1>2, <2>1, <2>2, <2>3 DEF Before, ToSet
<1> QED
  BY <1>1, <1>4, <1>5, <1>6 DEF t, n

\* The list without its k-th entry, where nothing comes twice.
Cut(s, k) == [i \in 1 .. Len(s) - 1 |-> IF i < k THEN s[i] ELSE s[i + 1]]

LEMMA CutList ==
    ASSUME NEW S, NEW s \in Seq(S), IsInjective(s), NEW k \in 1 .. Len(s),
           NEW t, t = Cut(s, k)
    PROVE  /\ t \in Seq(S) /\ Len(t) = Len(s) - 1 /\ s[k] \in ToSet(s)
           /\ ToSet(t) = ToSet(s) \ {s[k]}
           /\ IsInjective(t)
           /\ \A c, d : Before(t, c, d) <=> Before(s, c, d) /\ c # s[k] /\ d # s[k]
<1> DEFINE n == Len(s)
           from(i) == IF i < k THEN i ELSE i + 1
           to(i) == IF i < k THEN i ELSE i - 1
<1>1. n \in Nat /\ k \in 1 .. n /\ n - 1 \in Nat /\ DOMAIN s = 1 .. n
  OBVIOUS
<1>2. \A i \in 1 .. n - 1 : t[i] = s[from(i)]
  BY DEF Cut
<1>3. t \in Seq(S) /\ Len(t) = n - 1 /\ DOMAIN t = 1 .. n - 1
  <2>1. \A i \in 1 .. n - 1 : (IF i < k THEN s[i] ELSE s[i + 1]) \in S
    BY <1>1
  <2>2. t \in [1 .. n - 1 -> S]
    BY <2>1 DEF Cut
  <2> HIDE DEF n
  <2> QED
    BY <1>1, <2>2
<1> HIDE DEF n
<1>4. \A i \in 1 .. n - 1 : from(i) \in 1 .. n /\ from(i) # k /\ to(from(i)) = i
  BY <1>1
<1>5. \A j \in 1 .. n : j # k => to(j) \in 1 .. n - 1 /\ from(to(j)) = j
  BY <1>1
<1>6. \A i, j \in 1 .. n - 1 : i < j => from(i) < from(j)
  BY <1>1
<1>7. \A i, j \in 1 .. n : i # k /\ j # k /\ i < j => to(i) < to(j)
  BY <1>1
<1> HIDE DEF from, to
<1>8. \A i, j \in 1 .. n : s[i] = s[j] => i = j
  BY <1>1 DEF IsInjective
<1>9. ToSet(t) = ToSet(s) \ {s[k]}
  <2>1. ASSUME NEW i \in 1 .. n - 1 PROVE t[i] \in ToSet(s) \ {s[k]}
    BY <1>1, <1>2, <1>4, <1>8 DEF ToSet
  <2>2. ASSUME NEW j \in 1 .. n, s[j] # s[k] PROVE s[j] \in ToSet(t)
    <3>1. to(j) \in 1 .. n - 1 /\ from(to(j)) = j
      BY <1>5, <2>2
    <3>2. t[to(j)] = s[j]
      BY <1>2, <3>1
    <3> QED
      BY <1>3, <3>1, <3>2 DEF ToSet
  <2>3. ToSet(t) \subseteq ToSet(s) \ {s[k]}
    BY <1>3, <2>1 DEF ToSet
  <2>4. ToSet(s) \ {s[k]} \subseteq ToSet(t)
    BY <1>1, <2>2 DEF ToSet
  <2> QED
    BY <2>3, <2>4
<1>10. IsInjective(t)
  <2>1. ASSUME NEW i \in 1 .. n - 1, NEW j \in 1 .. n - 1, t[i] = t[j] PROVE i = j
    <3>1. from(i) = from(j)
      BY <1>2, <1>4, <1>8, <2>1
    <3> QED
      BY <1>4, <3>1
  <2> QED
    BY <1>3, <2>1 DEF IsInjective
<1>11. ASSUME NEW c, NEW d
       PROVE  Before(t, c, d) <=> Before(s, c, d) /\ c # s[k] /\ d # s[k]
  <2>1. ASSUME NEW i \in 1 .. n - 1, NEW j \in 1 .. n - 1, i < j, t[i] = c, t[j] = d
        PROVE  Before(s, c, d) /\ c # s[k] /\ d # s[k]
    <3>1. /\ from(i) \in 1 .. n /\ from(j) \in 1 .. n /\ from(i) < from(j)
          /\ from(i) # k /\ from(j) # k /\ s[from(i)] = c /\ s[from(j)] = d
      BY <1>2, <1>4, <1>6, <2>1
    <3> QED
      BY <1>1, <1>8, <3>1 DEF Before
  <2>2. ASSUME NEW i \in 1 .. n, NEW j \in 1 .. n, i < j, s[i] = c, s[j] = d,
               c # s[k], d # s[k]
        PROVE  Before(t, c, d)
    <3>1. i # k /\ j # k
      BY <2>2
    <3>2. /\ to(i) \in 1 .. n - 1 /\ to(j) \in 1 .. n - 1 /\ to(i) < to(j)
          /\ t[to(i)] = c /\ t[to(j)] = d
      BY <1>2, <1>5, <1>7, <2>2, <3>1
    <3> QED
      BY <1>3, <3>2 DEF Before
  <2> QED
    BY <1>1, <1>3, <2>1, <2>2 DEF Before
<1>12. s[k] \in ToSet(s)
  BY <1>1 DEF ToSet
<1> QED
  BY <1>3, <1>9, <1>10, <1>11, <1>12 DEF n

\* Without its head.
LEMMA TailList ==
    ASSUME NEW S, NEW s \in Seq(S), s # << >>, IsInjective(s)
    PROVE  /\ Tail(s) \in Seq(S) /\ Len(Tail(s)) = Len(s) - 1
           /\ Head(s) \in S /\ Head(s) \in ToSet(s)
           /\ ToSet(Tail(s)) = ToSet(s) \ {Head(s)}
           /\ IsInjective(Tail(s))
           /\ \A c, d : Before(Tail(s), c, d) <=>
                            Before(s, c, d) /\ c # Head(s) /\ d # Head(s)
<1>1. Len(s) \in Nat \ {0} /\ 1 \in 1 .. Len(s) /\ Head(s) = s[1]
  OBVIOUS
<1>2. Tail(s) = Cut(s, 1)
  <2>1. /\ Tail(s) \in Seq(S) /\ Len(Tail(s)) = Len(s) - 1
        /\ \A i \in 1 .. Len(s) - 1 : Tail(s)[i] = s[i + 1]
    BY HeadTailProperties
  <2>2. Cut(s, 1) \in Seq(S) /\ Len(Cut(s, 1)) = Len(s) - 1
    BY <1>1, CutList
  <2>3. \A i \in 1 .. Len(s) - 1 : Cut(s, 1)[i] = s[i + 1]
    BY <1>1 DEF Cut
  <2> QED
    BY <2>1, <2>2, <2>3, SeqEqual
<1>3. Head(s) \in S
  BY <1>1
<1> DEFINE t == Tail(s)
           first == Head(s)
<1>4. t = Cut(s, 1) /\ first = s[1]
  BY <1>1, <1>2
<1> HIDE DEF t, first
<1>5. /\ t \in Seq(S) /\ Len(t) = Len(s) - 1 /\ first \in ToSet(s)
      /\ ToSet(t) = ToSet(s) \ {first} /\ IsInjective(t)
      /\ \A c, d : Before(t, c, d) <=> Before(s, c, d) /\ c # first /\ d # first
  BY <1>1, <1>4, CutList
<1> QED
  BY <1>3, <1>5 DEF t, first

\* Without an entry of it.
LEMMA WithoutList ==
    ASSUME NEW S, NEW s \in Seq(S), IsInjective(s), NEW x \in ToSet(s)
    PROVE  /\ Without(s, x) \in Seq(S) /\ Len(Without(s, x)) = Len(s) - 1
           /\ ToSet(Without(s, x)) = ToSet(s) \ {x}
           /\ IsInjective(Without(s, x))
           /\ \A c, d : Before(Without(s, x), c, d) <=>
                            Before(s, c, d) /\ c # x /\ d # x
<1> DEFINE k == CHOOSE i \in DOMAIN s : s[i] = x
           head == SubSeq(s, 1, k - 1)
           tail == SubSeq(s, k + 1, Len(s))
<1>1. k \in 1 .. Len(s) /\ s[k] = x /\ Len(s) \in Nat
  <2>1. \E i \in DOMAIN s : s[i] = x
    BY DEF ToSet
  <2> QED
    BY <2>1
<1>2. Without(s, x) = head \o tail
  BY DEF Without, RemoveAt
<1> HIDE DEF k
<1>3. /\ head \in Seq(S) /\ Len(head) = k - 1
      /\ \A i \in 1 .. k - 1 : head[i] = s[i]
  <2>1. \A i \in 1 .. k - 1 : s[i] \in S
    BY <1>1
  <2>2. /\ head \in Seq(S) /\ Len(head) = IF 1 <= k - 1 THEN k - 1 - 1 + 1 ELSE 0
        /\ \A i \in 1 .. k - 1 - 1 + 1 : head[i] = s[1 + i - 1]
    BY <1>1, <2>1, SubSeqProperties
  <2>3. /\ k - 1 - 1 + 1 = k - 1
        /\ (IF 1 <= k - 1 THEN k - 1 - 1 + 1 ELSE 0) = k - 1
        /\ \A i \in 1 .. k - 1 : 1 + i - 1 = i
    BY <1>1
  <2> HIDE DEF head
  <2> QED
    BY <2>2, <2>3
<1>4. /\ tail \in Seq(S) /\ Len(tail) = Len(s) - k
      /\ \A i \in 1 .. Len(s) - k : tail[i] = s[k + i]
  <2>1. \A i \in k + 1 .. Len(s) : s[i] \in S
    BY <1>1
  <2>2. /\ tail \in Seq(S)
        /\ Len(tail) = IF k + 1 <= Len(s) THEN Len(s) - (k + 1) + 1 ELSE 0
        /\ \A i \in 1 .. Len(s) - (k + 1) + 1 : tail[i] = s[(k + 1) + i - 1]
    BY <1>1, <2>1, SubSeqProperties
  <2>3. /\ Len(s) - (k + 1) + 1 = Len(s) - k
        /\ (IF k + 1 <= Len(s) THEN Len(s) - (k + 1) + 1 ELSE 0) = Len(s) - k
        /\ \A i \in 1 .. Len(s) - k : (k + 1) + i - 1 = k + i
    BY <1>1
  <2> HIDE DEF tail
  <2> QED
    BY <2>2, <2>3
<1> HIDE DEF head, tail
<1>5. /\ head \o tail \in Seq(S) /\ Len(head \o tail) = Len(s) - 1
      /\ \A i \in 1 .. Len(s) - 1 :
             (head \o tail)[i] = IF i < k THEN s[i] ELSE s[i + 1]
  <2>1. /\ head \o tail \in Seq(S) /\ Len(head \o tail) = Len(head) + Len(tail)
        /\ \A i \in 1 .. Len(head) + Len(tail) :
               (head \o tail)[i] = IF i <= Len(head) THEN head[i] ELSE tail[i - Len(head)]
    BY <1>3, <1>4, ConcatProperties
  <2>2. Len(head) + Len(tail) = Len(s) - 1
    BY <1>1, <1>3, <1>4
  <2>3. ASSUME NEW i \in 1 .. Len(s) - 1
        PROVE  (head \o tail)[i] = IF i < k THEN s[i] ELSE s[i + 1]
    <3>1. CASE i < k
      <4>1. i \in 1 .. k - 1 /\ i <= Len(head)
        BY <1>1, <1>3, <3>1
      <4> QED
        BY <1>3, <2>1, <2>2, <3>1, <4>1
    <3>2. CASE ~ (i < k)
      <4>1. /\ i - (k - 1) \in 1 .. Len(s) - k /\ ~ (i <= Len(head))
            /\ k + (i - (k - 1)) = i + 1
        BY <1>1, <1>3, <3>2
      <4> QED
        BY <1>3, <1>4, <2>1, <2>2, <3>2, <4>1
    <3> QED
      BY <3>1, <3>2
  <2> QED
    BY <2>1, <2>2, <2>3
<1>6. head \o tail = Cut(s, k)
  <2>1. Cut(s, k) \in Seq(S) /\ Len(Cut(s, k)) = Len(s) - 1
    BY <1>1, CutList
  <2>2. \A i \in 1 .. Len(s) - 1 : Cut(s, k)[i] = IF i < k THEN s[i] ELSE s[i + 1]
    BY DEF Cut
  <2> QED
    BY <1>5, <2>1, <2>2, SeqEqual
<1> QED
  BY <1>1, <1>2, <1>6, CutList

-----------------------------------------------------------------------------
(* The inductive invariant of OverflowQueue *)

TypeOKOverflow ==
    /\ place \in [Requests -> RequestPlaces]
    /\ again \subseteq Requests
    /\ criticalQueue \in Seq(Requests)
    /\ overflow \in [queue : Seq(Requests), count : Nat]
    /\ posted \in Int
    /\ after \in [bound : Nat, unbound : Nat]

\* A queued request is in one of the queues, once, and a mount never in the overflow queue.
QueuedOnce ==
    /\ IsInjective(criticalQueue) /\ IsInjective(overflow.queue)
    /\ ToSet(criticalQueue) \cap ToSet(overflow.queue) = {}
    /\ ToSet(criticalQueue) \cup ToSet(overflow.queue) =
           {r \in Requests : place[r] = "queued"}
    /\ ToSet(overflow.queue) \cap Unbound = {}

WaitingBound == Cardinality(ToSet(criticalQueue) \ Unbound)

CountsAgree ==
    /\ posted = WaitingBound + BoundRuns
    /\ posted <= Threshold + 1
    /\ overflow.count = Len(overflow.queue)
    /\ overflow.queue # << >> => posted > 0

OInv == TypeOKOverflow /\ QueuedOnce /\ CountsAgree

-----------------------------------------------------------------------------
(* Counting requests *)

LEMMA RequestSets ==
    ASSUME NEW S \in SUBSET Requests
    PROVE  /\ IsFiniteSet(S) /\ Cardinality(S) \in Nat
           /\ Cardinality(S) = 0 <=> S = {}
           /\ \A x : x \in S => Cardinality(S \ {x}) = Cardinality(S) - 1
           /\ \A x : x \notin S => Cardinality(S \cup {x}) = Cardinality(S) + 1
<1>1. IsFiniteSet(S)
  BY OverflowAssumption, FS_Subset
<1>2. Cardinality(S) \in Nat /\ (Cardinality(S) = 0 <=> S = {})
  BY <1>1, FS_CardinalityType, FS_EmptySet
<1>3. ASSUME NEW x, x \in S PROVE Cardinality(S \ {x}) = Cardinality(S) - 1
  BY <1>1, <1>3, FS_RemoveElement
<1>4. ASSUME NEW x, x \notin S PROVE Cardinality(S \cup {x}) = Cardinality(S) + 1
  BY <1>1, <1>4, FS_AddElement
<1> QED
  BY <1>1, <1>2, <1>3, <1>4

LEMMA OverflowSets ==
    ASSUME OInv
    PROVE  /\ ToSet(criticalQueue) \ Unbound \in SUBSET Requests
           /\ HandledNow \ Unbound \in SUBSET Requests
           /\ WaitingBound \in Nat /\ Cardinality(HandledNow \ Unbound) \in Nat
           /\ after.bound \in Nat /\ BoundRuns \in Nat
           /\ Threshold \in Nat
<1>1. /\ ToSet(criticalQueue) \ Unbound \in SUBSET Requests
      /\ HandledNow \ Unbound \in SUBSET Requests
  BY ListPositions DEF OInv, TypeOKOverflow, HandledNow
<1>2. after.bound \in Nat /\ Threshold \in Nat
  BY OverflowAssumption DEF OInv, TypeOKOverflow
<1> QED
  BY <1>1, <1>2, RequestSets DEF WaitingBound, BoundRuns

\* The positions of the queue are as many as the requests in it.
LEMMA PositionsAreRequests ==
    ASSUME OInv
    PROVE  Cardinality(BoundItems) = WaitingBound
<1> DEFINE T == ToSet(criticalQueue) \ Unbound
           f == [k \in BoundItems |-> criticalQueue[k]]
<1>1. IsFiniteSet(BoundItems)
  <2>1. DOMAIN criticalQueue = 1 .. Len(criticalQueue) /\ Len(criticalQueue) \in Nat
    BY DEF OInv, TypeOKOverflow
  <2>2. IsFiniteSet(1 .. Len(criticalQueue))
    BY <2>1, FS_Interval
  <2>3. BoundItems \in SUBSET (1 .. Len(criticalQueue))
    BY <2>1 DEF BoundItems
  <2> QED
    BY <2>2, <2>3, FS_Subset
<1>2. f \in Bijection(BoundItems, T)
  <2>1. \A k \in BoundItems : f[k] \in T
    BY DEF BoundItems, ToSet
  <2>2. \A k, m \in BoundItems : f[k] = f[m] => k = m
    BY DEF BoundItems, OInv, QueuedOnce, IsInjective
  <2>3. \A r \in T : \E k \in BoundItems : f[k] = r
    BY DEF BoundItems, ToSet
  <2> QED
    BY <2>1, <2>2, <2>3 DEF Bijection, Injection, Surjection, IsInjective
<1>3. ExistsBijection(BoundItems, T)
  BY <1>2 DEF ExistsBijection
<1> QED
  BY <1>1, <1>3, FS_Bijection DEF WaitingBound

-----------------------------------------------------------------------------
(* Each action keeps the invariant *)

\* FatAddToWorkque puts the request into one of the queues; the count goes with it.
LEMMA AddToWorkqueFacts ==
    ASSUME OInv, NEW r \in Requests, place[r] # "queued", AddToWorkque(r)
    PROVE  /\ criticalQueue' \in Seq(Requests)
           /\ overflow' \in [queue : Seq(Requests), count : Nat]
           /\ posted' \in Int
           /\ IsInjective(criticalQueue)' /\ IsInjective(overflow.queue)'
           /\ ToSet(criticalQueue)' \cap ToSet(overflow.queue)' = {}
           /\ ToSet(criticalQueue)' \cup ToSet(overflow.queue)' =
                  {s \in Requests : place[s] = "queued"} \cup {r}
           /\ ToSet(overflow.queue)' \cap Unbound = {}
           /\ \/ posted' = posted /\ WaitingBound' = WaitingBound
              \/ posted' = posted + 1 /\ WaitingBound' = WaitingBound + 1
           /\ posted' <= Threshold + 1
           /\ overflow.count' = Len(overflow.queue)'
           /\ (overflow.queue # << >>)' => posted' > 0
<1>1. /\ criticalQueue \in Seq(Requests) /\ overflow.queue \in Seq(Requests)
      /\ overflow \in [queue : Seq(Requests), count : Nat]
      /\ posted \in Int /\ Threshold \in Nat /\ WaitingBound \in Nat
      /\ IsInjective(criticalQueue) /\ IsInjective(overflow.queue)
  BY OverflowSets DEF OInv, TypeOKOverflow, QueuedOnce
<1>2. r \notin ToSet(criticalQueue) /\ r \notin ToSet(overflow.queue)
  BY DEF OInv, QueuedOnce
<1>3. CASE r \notin Unbound /\ posted > Threshold
  <2>1. /\ overflow' = [queue |-> Append(overflow.queue, r), count |-> overflow.count + 1]
        /\ criticalQueue' = criticalQueue /\ posted' = posted
    BY <1>3 DEF AddToWorkque
  <2>2. /\ overflow'.queue = Append(overflow.queue, r)
        /\ overflow'.count = overflow.count + 1
    BY <2>1
  <2>3. /\ overflow'.queue \in Seq(Requests)
        /\ Len(overflow'.queue) = Len(overflow.queue) + 1
        /\ ToSet(overflow'.queue) = ToSet(overflow.queue) \cup {r}
        /\ IsInjective(overflow'.queue)
    BY <1>1, <1>2, <2>2, AppendList
  <2>4. overflow' \in [queue : Seq(Requests), count : Nat]
    BY <1>1, <2>1, <2>2, <2>3
  <2>5. WaitingBound' = WaitingBound /\ ToSet(criticalQueue)' = ToSet(criticalQueue)
    BY <2>1 DEF WaitingBound, ToSet
  <2>6. posted > 0
    BY <1>1, <1>3
  <2> QED
    BY <1>1, <1>2, <1>3, <2>1, <2>2, <2>3, <2>4, <2>5, <2>6
    DEF OInv, QueuedOnce, CountsAgree
<1>4. CASE ~ (r \notin Unbound /\ posted > Threshold)
  <2>1. /\ criticalQueue' = Append(criticalQueue, r)
        /\ posted' = IF r \in Unbound THEN posted ELSE posted + 1
        /\ overflow' = overflow
    BY <1>4 DEF AddToWorkque
  <2>2. /\ criticalQueue' \in Seq(Requests)
        /\ ToSet(criticalQueue)' = ToSet(criticalQueue) \cup {r}
        /\ IsInjective(criticalQueue)'
    BY <1>1, <1>2, <2>1, AppendList
  <2>3. \/ posted' = posted /\ WaitingBound' = WaitingBound
        \/ posted' = posted + 1 /\ WaitingBound' = WaitingBound + 1
    <3> DEFINE S == ToSet(criticalQueue) \ Unbound
    <3>1. S \in SUBSET Requests /\ r \notin S
      BY <1>2, OverflowSets
    <3>2. CASE r \in Unbound
      <4>1. ToSet(criticalQueue)' \ Unbound = S
        BY <2>2, <3>2
      <4> QED
        BY <1>1, <2>1, <3>2, <4>1 DEF WaitingBound
    <3>3. CASE r \notin Unbound
      <4>1. ToSet(criticalQueue)' \ Unbound = S \cup {r}
        BY <2>2, <3>3
      <4>2. Cardinality(S \cup {r}) = Cardinality(S) + 1
        BY <3>1, RequestSets
      <4>3. WaitingBound' = WaitingBound + 1
        BY <4>1, <4>2 DEF WaitingBound
      <4>4. posted' = posted + 1
        BY <2>1, <3>3
      <4> QED
        BY <1>1, <4>3, <4>4
    <3> QED
      BY <3>2, <3>3
  <2>4. posted' \in Int /\ posted' <= Threshold + 1 /\ posted' >= posted
    BY <1>1, <1>4, <2>1 DEF OInv, CountsAgree
  <2> QED
    BY <1>1, <1>2, <2>1, <2>2, <2>3, <2>4 DEF OInv, QueuedOnce, CountsAgree
<1> QED
  BY <1>3, <1>4

\* A request that is not handled is sent.
LEMMA SentStep ==
    ASSUME OInv, NEW r \in Requests, place[r] \notin {"queued", "handled"},
           AddToWorkque(r), place' = [place EXCEPT ![r] = "queued"],
           again' \subseteq Requests, after' = after
    PROVE  OInv'
<1>1. place \in [Requests -> RequestPlaces] /\ after \in [bound : Nat, unbound : Nat]
  BY DEF OInv, TypeOKOverflow
<1>2. /\ {s \in Requests : place'[s] = "queued"} =
             {s \in Requests : place[s] = "queued"} \cup {r}
      /\ HandledNow' = HandledNow
      /\ place' \in [Requests -> RequestPlaces]
  BY <1>1 DEF HandledNow, RequestPlaces
<1>3. BoundRuns' = BoundRuns
  BY <1>2 DEF BoundRuns
<1>4. TypeOKOverflow'
  BY <1>1, <1>2, AddToWorkqueFacts DEF TypeOKOverflow
<1>5. QueuedOnce'
  BY <1>2, AddToWorkqueFacts DEF QueuedOnce
<1>6. posted' = WaitingBound' + BoundRuns'
  <2>1. \/ posted' = posted /\ WaitingBound' = WaitingBound
        \/ posted' = posted + 1 /\ WaitingBound' = WaitingBound + 1
    BY AddToWorkqueFacts
  <2>2. /\ posted = WaitingBound + BoundRuns
        /\ WaitingBound \in Nat /\ BoundRuns \in Nat
    BY OverflowSets DEF OInv, CountsAgree
  <2> QED
    BY <1>3, <2>1, <2>2
<1>7. CountsAgree'
  BY <1>6, AddToWorkqueFacts DEF CountsAgree
<1> QED
  BY <1>4, <1>5, <1>7 DEF OInv

LEMMA PostRequestStep ==
    ASSUME OInv, NEW r \in Requests, PostRequest(r)
    PROVE  OInv'
<1>1. /\ place[r] \notin {"queued", "handled"} /\ AddToWorkque(r)
      /\ place' = [place EXCEPT ![r] = "queued"]
      /\ again' \subseteq Requests /\ after' = after
  BY DEF PostRequest, OInv, TypeOKOverflow
<1> QED
  BY <1>1, SentStep

\* A handler's return: its run stays one of the volume's, or none.
LEMMA HandledFacts ==
    ASSUME OInv, NEW r \in Requests, Handled(r), NEW x \in RequestPlaces \ {"handled"},
           place' = [place EXCEPT ![r] = x]
    PROVE  /\ BoundRuns' = BoundRuns
           /\ after' \in [bound : Nat, unbound : Nat]
           /\ place' \in [Requests -> RequestPlaces]
           /\ place[r] = "handled"
<1> DEFINE H == HandledNow \ Unbound
<1>1. /\ place \in [Requests -> RequestPlaces] /\ after \in [bound : Nat, unbound : Nat]
      /\ place[r] = "handled"
  BY DEF OInv, TypeOKOverflow, Handled
<1>2. HandledNow' = HandledNow \ {r} /\ r \in HandledNow
  BY <1>1 DEF HandledNow
<1>3. H \in SUBSET Requests
  BY DEF HandledNow
<1>4. CASE r \in Unbound
  <2>1. HandledNow' \ Unbound = H
    BY <1>2, <1>4
  <2>2. after' = [after EXCEPT !.unbound = after.unbound + 1]
    BY <1>4 DEF Handled
  <2>3. after'.bound = after.bound /\ after' \in [bound : Nat, unbound : Nat]
    BY <1>1, <2>2
  <2> QED
    BY <1>1, <2>1, <2>3 DEF BoundRuns
<1>5. CASE r \notin Unbound
  <2>1. HandledNow' \ Unbound = H \ {r} /\ r \in H
    BY <1>2, <1>5
  <2>2. Cardinality(H \ {r}) = Cardinality(H) - 1 /\ Cardinality(H) \in Nat
    BY <1>3, <2>1, RequestSets
  <2>3. after' = [after EXCEPT !.bound = after.bound + 1]
    BY <1>5 DEF Handled
  <2>4. after'.bound = after.bound + 1 /\ after' \in [bound : Nat, unbound : Nat]
    BY <1>1, <2>3
  <2>5. BoundRuns' = (Cardinality(H) - 1) + (after.bound + 1)
    BY <2>1, <2>2, <2>4 DEF BoundRuns
  <2>6. after.bound \in Nat
    BY <1>1
  <2> QED
    BY <1>1, <2>2, <2>4, <2>5, <2>6 DEF BoundRuns
<1> QED
  BY <1>4, <1>5

\* Where the queues do not change, only the requests outside of them move.
LEMMA QueuesStay ==
    ASSUME OInv, NEW r \in Requests, NEW x \in RequestPlaces \ {"queued"},
           place[r] # "queued", place' = [place EXCEPT ![r] = x],
           criticalQueue' = criticalQueue, overflow' = overflow
    PROVE  QueuedOnce' /\ WaitingBound' = WaitingBound
<1>1. {s \in Requests : place'[s] = "queued"} = {s \in Requests : place[s] = "queued"}
  BY DEF OInv, TypeOKOverflow
<1>2. /\ ToSet(criticalQueue)' = ToSet(criticalQueue)
      /\ ToSet(overflow.queue)' = ToSet(overflow.queue)
      /\ IsInjective(criticalQueue)' = IsInjective(criticalQueue)
      /\ IsInjective(overflow.queue)' = IsInjective(overflow.queue)
  BY DEF ToSet, IsInjective
<1> QED
  BY <1>1, <1>2 DEF OInv, QueuedOnce, WaitingBound

\* Nothing of the queues and no place changes.
LEMMA QueuesUnchanged ==
    ASSUME OInv, place' = place, criticalQueue' = criticalQueue, overflow' = overflow
    PROVE  QueuedOnce' /\ WaitingBound' = WaitingBound /\ HandledNow' = HandledNow
<1>1. /\ ToSet(criticalQueue)' = ToSet(criticalQueue)
      /\ ToSet(overflow.queue)' = ToSet(overflow.queue)
      /\ IsInjective(criticalQueue)' = IsInjective(criticalQueue)
      /\ IsInjective(overflow.queue)' = IsInjective(overflow.queue)
  BY DEF ToSet, IsInjective
<1> QED
  BY <1>1 DEF OInv, QueuedOnce, WaitingBound, HandledNow

LEMMA HandlerDoneStep ==
    ASSUME OInv, NEW r \in Requests, HandlerCompletes(r) \/ HandlerWaits(r)
    PROVE  OInv'
<1>1. PICK x \in {"new", "waits"} : place' = [place EXCEPT ![r] = x]
  BY DEF HandlerCompletes, HandlerWaits
<1>2. /\ Handled(r) /\ again' = again /\ criticalQueue' = criticalQueue
      /\ overflow' = overflow /\ posted' = posted
  BY DEF HandlerCompletes, HandlerWaits
<1>3. x \in RequestPlaces \ {"handled"} /\ x \in RequestPlaces \ {"queued"}
  BY DEF RequestPlaces
<1>4. /\ BoundRuns' = BoundRuns /\ after' \in [bound : Nat, unbound : Nat]
      /\ place' \in [Requests -> RequestPlaces] /\ place[r] = "handled"
  BY <1>1, <1>2, <1>3, HandledFacts
<1>5. QueuedOnce' /\ WaitingBound' = WaitingBound
  BY <1>1, <1>2, <1>3, <1>4, QueuesStay
<1>6. TypeOKOverflow'
  BY <1>2, <1>4 DEF OInv, TypeOKOverflow
<1>7. CountsAgree'
  BY <1>2, <1>4, <1>5 DEF OInv, CountsAgree
<1> QED
  BY <1>5, <1>6, <1>7 DEF OInv

LEMMA HandlerPostsStep ==
    ASSUME OInv, NEW r \in Requests, HandlerPosts(r)
    PROVE  OInv'
<1>1. /\ Handled(r) /\ AddToWorkque(r) /\ place' = [place EXCEPT ![r] = "queued"]
      /\ again' \subseteq Requests
  BY DEF HandlerPosts, OInv, TypeOKOverflow
<1>2. /\ BoundRuns' = BoundRuns /\ after' \in [bound : Nat, unbound : Nat]
      /\ place' \in [Requests -> RequestPlaces] /\ place[r] = "handled"
  <2>1. "queued" \in RequestPlaces \ {"handled"}
    BY DEF RequestPlaces
  <2> QED
    BY <1>1, <2>1, HandledFacts
<1>3. {s \in Requests : place'[s] = "queued"} =
          {s \in Requests : place[s] = "queued"} \cup {r}
  BY <1>1 DEF OInv, TypeOKOverflow
<1>4. TypeOKOverflow'
  BY <1>1, <1>2, AddToWorkqueFacts DEF TypeOKOverflow
<1>5. QueuedOnce'
  BY <1>1, <1>2, <1>3, AddToWorkqueFacts DEF QueuedOnce
<1>6. posted' = WaitingBound' + BoundRuns'
  <2>1. \/ posted' = posted /\ WaitingBound' = WaitingBound
        \/ posted' = posted + 1 /\ WaitingBound' = WaitingBound + 1
    BY <1>1, <1>2, AddToWorkqueFacts
  <2>2. /\ posted = WaitingBound + BoundRuns
        /\ WaitingBound \in Nat /\ BoundRuns \in Nat
    BY OverflowSets DEF OInv, CountsAgree
  <2> QED
    BY <1>2, <2>1, <2>2
<1>7. CountsAgree'
  BY <1>1, <1>2, <1>6, AddToWorkqueFacts DEF CountsAgree
<1> QED
  BY <1>4, <1>5, <1>7 DEF OInv

LEMMA OplockCompleteStep ==
    ASSUME OInv, NEW r \in Requests, OplockComplete(r)
    PROVE  OInv'
<1>1. CASE /\ AddToWorkque(r) /\ place' = [place EXCEPT ![r] = "queued"]
           /\ again' = again \cup {r}
  <2>1. /\ place[r] \notin {"queued", "handled"} /\ again' \subseteq Requests
        /\ after' = after
    BY <1>1 DEF OplockComplete, OInv, TypeOKOverflow
  <2> QED
    BY <1>1, <2>1, SentStep
<1>2. CASE /\ place' = [place EXCEPT ![r] = "new"]
           /\ UNCHANGED <<again, criticalQueue, overflow, posted>>
  <2>1. /\ place[r] = "waits" /\ after' = after /\ "new" \in RequestPlaces \ {"queued"}
        /\ place \in [Requests -> RequestPlaces]
    BY DEF OplockComplete, RequestPlaces, OInv, TypeOKOverflow
  <2>2. QueuedOnce' /\ WaitingBound' = WaitingBound
    BY <1>2, <2>1, QueuesStay
  <2>3. HandledNow' = HandledNow /\ place' \in [Requests -> RequestPlaces]
    BY <1>2, <2>1 DEF HandledNow
  <2>4. TypeOKOverflow' /\ CountsAgree'
    BY <1>2, <2>1, <2>2, <2>3 DEF OInv, TypeOKOverflow, CountsAgree, BoundRuns
  <2> QED
    BY <2>2, <2>4 DEF OInv
<1> QED
  BY <1>1, <1>2 DEF OplockComplete

\* A request of the volume that begins to be handled is one more.
LEMMA HandledMore ==
    ASSUME OInv, NEW r \in Requests, place[r] # "handled",
           place' = [place EXCEPT ![r] = "handled"]
    PROVE  /\ place' \in [Requests -> RequestPlaces]
           /\ Cardinality(HandledNow \ Unbound)' =
                  IF r \in Unbound THEN Cardinality(HandledNow \ Unbound)
                  ELSE Cardinality(HandledNow \ Unbound) + 1
           /\ {s \in Requests : place'[s] = "queued"} =
                  {s \in Requests : place[s] = "queued"} \ {r}
<1> DEFINE H == HandledNow \ Unbound
<1>1. place \in [Requests -> RequestPlaces]
  BY DEF OInv, TypeOKOverflow
<1>2. HandledNow' = HandledNow \cup {r} /\ r \notin HandledNow
  BY <1>1 DEF HandledNow
<1>3. H \in SUBSET Requests
  BY DEF HandledNow
<1>4. CASE r \in Unbound
  <2>1. HandledNow' \ Unbound = H
    BY <1>2, <1>4
  <2> QED
    BY <1>1, <1>4, <2>1 DEF RequestPlaces
<1>5. CASE r \notin Unbound
  <2>1. HandledNow' \ Unbound = H \cup {r} /\ r \notin H
    BY <1>2, <1>5
  <2>2. Cardinality(H \cup {r}) = Cardinality(H) + 1
    BY <1>3, <2>1, RequestSets
  <2> QED
    BY <1>1, <1>5, <2>1, <2>2 DEF RequestPlaces
<1> QED
  BY <1>4, <1>5

LEMMA DispatchStep ==
    ASSUME OInv, Dispatch
    PROVE  OInv'
<1> DEFINE r == Head(criticalQueue)
           S == ToSet(criticalQueue) \ Unbound
<1>1. /\ criticalQueue \in Seq(Requests) /\ criticalQueue # << >>
      /\ IsInjective(criticalQueue)
      /\ place' = [place EXCEPT ![r] = "handled"] /\ criticalQueue' = Tail(criticalQueue)
      /\ again' = again /\ overflow' = overflow /\ posted' = posted /\ after' = after
  BY DEF Dispatch, OInv, TypeOKOverflow, QueuedOnce
<1>2. /\ criticalQueue' \in Seq(Requests) /\ IsInjective(criticalQueue')
      /\ r \in Requests /\ r \in ToSet(criticalQueue)
      /\ ToSet(criticalQueue') = ToSet(criticalQueue) \ {r}
  BY <1>1, TailList
<1> HIDE DEF r
<1>3. place[r] = "queued" /\ r \notin ToSet(overflow.queue)
  BY <1>2 DEF OInv, QueuedOnce
<1>4. /\ place' \in [Requests -> RequestPlaces]
      /\ Cardinality(HandledNow \ Unbound)' =
             IF r \in Unbound THEN Cardinality(HandledNow \ Unbound)
             ELSE Cardinality(HandledNow \ Unbound) + 1
      /\ {s \in Requests : place'[s] = "queued"} =
             {s \in Requests : place[s] = "queued"} \ {r}
  BY <1>1, <1>2, <1>3, HandledMore
<1>5. WaitingBound' = IF r \in Unbound THEN WaitingBound ELSE WaitingBound - 1
  <2>1. CASE r \in Unbound
    <3>1. ToSet(criticalQueue') \ Unbound = S
      BY <1>2, <2>1
    <3> QED
      BY <2>1, <3>1 DEF WaitingBound
  <2>2. CASE r \notin Unbound
    <3>1. ToSet(criticalQueue') \ Unbound = S \ {r} /\ r \in S /\ S \in SUBSET Requests
      BY <1>2, <2>2, OverflowSets
    <3>2. Cardinality(S \ {r}) = Cardinality(S) - 1
      BY <3>1, RequestSets
    <3> QED
      BY <2>2, <3>1, <3>2 DEF WaitingBound
  <2> QED
    BY <2>1, <2>2
<1>6. TypeOKOverflow'
  BY <1>1, <1>2, <1>4 DEF OInv, TypeOKOverflow
<1>7. QueuedOnce'
  <2>1. ToSet(overflow.queue)' = ToSet(overflow.queue) /\ IsInjective(overflow.queue)'
    BY <1>1 DEF ToSet, IsInjective, OInv, QueuedOnce
  <2> QED
    BY <1>2, <1>3, <1>4, <2>1 DEF OInv, QueuedOnce
<1>8. CountsAgree'
  <2> DEFINE w == WaitingBound  h == Cardinality(HandledNow \ Unbound)
  <2>1. w \in Nat /\ h \in Nat /\ after.bound \in Nat
    BY OverflowSets
  <2>2. BoundRuns = h + after.bound /\ BoundRuns' = h' + after.bound
    BY <1>1 DEF BoundRuns
  <2>3. posted = w + BoundRuns
    BY DEF OInv, CountsAgree
  <2>4. \/ w' = w /\ h' = h
        \/ w' = w - 1 /\ h' = h + 1
    <3>1. CASE r \in Unbound
      BY <1>4, <1>5, <3>1
    <3>2. CASE r \notin Unbound
      BY <1>4, <1>5, <3>2
    <3> QED
      BY <3>1, <3>2
  <2> HIDE DEF w, h
  <2>5. posted = w' + BoundRuns'
    BY <2>1, <2>2, <2>3, <2>4
  <2> QED
    BY <1>1, <2>5 DEF OInv, CountsAgree, w
<1> QED
  BY <1>6, <1>7, <1>8 DEF OInv

LEMMA FewerRuns ==
    ASSUME after \in [bound : Nat, unbound : Nat]
    PROVE  /\ after.bound > 0 =>
                  LET a == [after EXCEPT !.bound = after.bound - 1] IN
                  /\ a \in [bound : Nat, unbound : Nat]
                  /\ a.bound = after.bound - 1 /\ a.unbound = after.unbound
           /\ after.unbound > 0 =>
                  LET a == [after EXCEPT !.unbound = after.unbound - 1] IN
                  /\ a \in [bound : Nat, unbound : Nat]
                  /\ a.bound = after.bound
<1>1. ASSUME after.bound > 0 PROVE after.bound - 1 \in Nat
  BY <1>1
<1>2. ASSUME after.unbound > 0 PROVE after.unbound - 1 \in Nat
  BY <1>2
<1> QED
  BY <1>1, <1>2

\* The run goes on with the head of the overflow queue, or the volume's worker is given
\* up when nothing is in it.
LEMMA RemoveOverflowEntryStep ==
    ASSUME OInv, RemoveOverflowEntry
    PROVE  OInv'
<1>1. /\ place \in [Requests -> RequestPlaces] /\ again \subseteq Requests
      /\ criticalQueue \in Seq(Requests) /\ posted \in Int
      /\ overflow \in [queue : Seq(Requests), count : Nat]
      /\ after \in [bound : Nat, unbound : Nat]
      /\ overflow.count = Len(overflow.queue)
  BY DEF OInv, TypeOKOverflow, CountsAgree
<1>2. CASE /\ after.bound > 0 /\ overflow.count > 0
           /\ overflow' = [queue |-> Tail(overflow.queue), count |-> overflow.count - 1]
           /\ place' = [place EXCEPT ![Head(overflow.queue)] = "handled"]
           /\ after' = [after EXCEPT !.bound = @ - 1]
           /\ UNCHANGED <<again, criticalQueue, posted>>
  <2> DEFINE r == Head(overflow.queue)
  <2>1. overflow.queue \in Seq(Requests) /\ overflow.queue # << >>
    BY <1>1, <1>2
  <2>2. overflow'.queue = Tail(overflow.queue) /\ overflow'.count = overflow.count - 1
    BY <1>2
  <2>3. /\ overflow'.queue \in Seq(Requests)
        /\ Len(overflow'.queue) = Len(overflow.queue) - 1
        /\ r \in Requests /\ r \in ToSet(overflow.queue)
        /\ ToSet(overflow'.queue) = ToSet(overflow.queue) \ {r}
        /\ IsInjective(overflow'.queue)
    BY <2>1, <2>2, TailList DEF OInv, QueuedOnce
  <2>4. place' = [place EXCEPT ![r] = "handled"]
    BY <1>2
  <2> HIDE DEF r
  <2>5. place[r] = "queued" /\ r \notin ToSet(criticalQueue) /\ r \notin Unbound
    BY <2>3 DEF OInv, QueuedOnce
  <2>6. /\ place' \in [Requests -> RequestPlaces]
        /\ Cardinality(HandledNow \ Unbound)' = Cardinality(HandledNow \ Unbound) + 1
        /\ {s \in Requests : place'[s] = "queued"} =
               {s \in Requests : place[s] = "queued"} \ {r}
    BY <2>3, <2>4, <2>5, HandledMore
  <2>7. after'.bound = after.bound - 1 /\ after' \in [bound : Nat, unbound : Nat]
    BY <1>1, <1>2, FewerRuns
  <2>8. overflow' \in [queue : Seq(Requests), count : Nat]
    BY <1>1, <1>2, <2>2, <2>3
  <2>9. TypeOKOverflow'
    BY <1>1, <1>2, <2>6, <2>7, <2>8 DEF TypeOKOverflow
  <2>10. /\ ToSet(criticalQueue)' = ToSet(criticalQueue) /\ IsInjective(criticalQueue)'
         /\ WaitingBound' = WaitingBound
    BY <1>2 DEF ToSet, IsInjective, OInv, QueuedOnce, WaitingBound
  <2>11. QueuedOnce'
    BY <2>3, <2>5, <2>6, <2>10 DEF OInv, QueuedOnce
  <2>12. BoundRuns' = BoundRuns
    <3> DEFINE h == Cardinality(HandledNow \ Unbound)
    <3>1. h \in Nat /\ after.bound \in Nat
      BY OverflowSets
    <3>2. BoundRuns = h + after.bound /\ BoundRuns' = h' + (after.bound - 1)
      BY <2>7 DEF BoundRuns
    <3>3. h' = h + 1
      BY <2>6
    <3> HIDE DEF h
    <3> QED
      BY <3>1, <3>2, <3>3
  <2>13. posted > 0
    BY <2>1 DEF OInv, CountsAgree
  <2>14. CountsAgree'
    BY <1>1, <1>2, <2>2, <2>3, <2>10, <2>12, <2>13 DEF OInv, CountsAgree
  <2> QED
    BY <2>9, <2>11, <2>14 DEF OInv
<1>3. CASE overflow.count = 0 /\ WorkerGivenUp
  <2>1. /\ after.bound > 0 /\ posted' = posted - 1
        /\ after' = [after EXCEPT !.bound = after.bound - 1]
        /\ place' = place /\ again' = again /\ criticalQueue' = criticalQueue
        /\ overflow' = overflow
    BY <1>3 DEF WorkerGivenUp
  <2>2. after'.bound = after.bound - 1 /\ after' \in [bound : Nat, unbound : Nat]
    BY <1>1, <2>1, FewerRuns
  <2>3. overflow.queue = << >>
    <3>1. overflow.queue \in Seq(Requests) /\ Len(overflow.queue) = 0
      BY <1>1, <1>3
    <3> QED
      BY <3>1, EmptySeq
  <2>4. /\ TypeOKOverflow' /\ QueuedOnce' /\ WaitingBound' = WaitingBound
        /\ HandledNow' = HandledNow
    BY <1>1, <2>1, <2>2, QueuesUnchanged DEF TypeOKOverflow
  <2>5. posted' = WaitingBound' + BoundRuns' /\ posted' <= Threshold + 1
    <3> DEFINE h == Cardinality(HandledNow \ Unbound)
    <3>1. h \in Nat /\ after.bound \in Nat /\ WaitingBound \in Nat /\ Threshold \in Nat
      BY OverflowSets
    <3>2. BoundRuns = h + after.bound /\ BoundRuns' = h + (after.bound - 1)
      BY <2>2, <2>4 DEF BoundRuns
    <3>3. posted = WaitingBound + BoundRuns /\ posted <= Threshold + 1
      BY DEF OInv, CountsAgree
    <3> HIDE DEF h
    <3> QED
      BY <1>1, <2>1, <2>4, <3>1, <3>2, <3>3
  <2>6. CountsAgree'
    BY <1>1, <2>1, <2>3, <2>5 DEF CountsAgree
  <2> QED
    BY <2>4, <2>6 DEF OInv
<1> QED
  BY <1>2, <1>3 DEF RemoveOverflowEntry

LEMMA DispatchReturnsStep ==
    ASSUME OInv, DispatchReturns
    PROVE  OInv'
<1>1. /\ after \in [bound : Nat, unbound : Nat] /\ after.unbound > 0
      /\ after' = [after EXCEPT !.unbound = after.unbound - 1]
      /\ place' = place /\ again' = again /\ criticalQueue' = criticalQueue
      /\ overflow' = overflow /\ posted' = posted
  BY DEF DispatchReturns, OInv, TypeOKOverflow
<1>2. after'.bound = after.bound /\ after' \in [bound : Nat, unbound : Nat]
  BY <1>1, FewerRuns
<1>3. QueuedOnce' /\ WaitingBound' = WaitingBound /\ HandledNow' = HandledNow
  BY <1>1, QueuesUnchanged
<1>4. TypeOKOverflow'
  BY <1>1, <1>2 DEF OInv, TypeOKOverflow
<1>5. CountsAgree'
  BY <1>1, <1>2, <1>3 DEF OInv, CountsAgree, BoundRuns
<1> QED
  BY <1>3, <1>4, <1>5 DEF OInv

-----------------------------------------------------------------------------
(* The theorems about posted requests *)

LEMMA InitOInv == InitOverflow => OInv
<1> SUFFICES ASSUME InitOverflow PROVE OInv
  OBVIOUS
<1>1. /\ place = [r \in Requests |-> "new"] /\ again = {} /\ criticalQueue = << >>
      /\ overflow.queue = << >> /\ overflow.count = 0 /\ posted = 0
      /\ after.bound = 0
  BY DEF InitOverflow
<1>2. TypeOKOverflow
  BY EmptyList DEF InitOverflow, TypeOKOverflow, RequestPlaces
<1>3. QueuedOnce
  BY <1>1, EmptyList DEF QueuedOnce
<1>4. WaitingBound = 0 /\ BoundRuns = 0
  <2>1. ToSet(criticalQueue) \ Unbound = {} /\ HandledNow \ Unbound = {}
    <3>1. ToSet(criticalQueue) = {}
      BY <1>1, EmptyList
    <3>2. HandledNow = {}
      BY <1>1 DEF HandledNow
    <3> QED
      BY <3>1, <3>2
  <2>2. Cardinality(ToSet(criticalQueue) \ Unbound) = 0
    BY <2>1, FS_EmptySet
  <2>3. Cardinality(HandledNow \ Unbound) = 0
    BY <2>1, FS_EmptySet
  <2> QED
    BY <1>1, <2>2, <2>3 DEF WaitingBound, BoundRuns
<1>5. CountsAgree
  BY <1>1, <1>4, EmptyList, OverflowAssumption DEF CountsAgree
<1> QED
  BY <1>2, <1>3, <1>5 DEF OInv

LEMMA StepOInv == OInv /\ [NextOverflow]_overflowVars => OInv'
<1> SUFFICES ASSUME OInv, [NextOverflow]_overflowVars PROVE OInv'
  OBVIOUS
<1>1. CASE UNCHANGED overflowVars
  <2>1. /\ place' = place /\ again' = again /\ criticalQueue' = criticalQueue
        /\ overflow' = overflow /\ posted' = posted /\ after' = after
    BY <1>1 DEF overflowVars
  <2>2. QueuedOnce' /\ WaitingBound' = WaitingBound /\ HandledNow' = HandledNow
    BY <2>1, QueuesUnchanged
  <2> QED
    BY <2>1, <2>2 DEF OInv, TypeOKOverflow, CountsAgree, BoundRuns
<1>2. ASSUME NEW r \in Requests, PostRequest(r) \/ OplockComplete(r) \/ HandlerReturns(r)
      PROVE  OInv'
  BY <1>2, PostRequestStep, OplockCompleteStep, HandlerDoneStep, HandlerPostsStep
  DEF HandlerReturns
<1>3. CASE Dispatch \/ RemoveOverflowEntry \/ DispatchReturns
  BY <1>3, DispatchStep, RemoveOverflowEntryStep, DispatchReturnsStep
<1> QED
  BY <1>1, <1>2, <1>3 DEF NextOverflow

\* For every number of requests, threads and every threshold: the requests in the two
\* queues, each once, are the queued ones, and PostedRequestCount is what the volume's
\* workers are.
THEOREM OverflowInvariant == SpecOverflow => []OInv
BY InitOInv, StepOInv, PTL DEF SpecOverflow

\* PostedRequestCount counts the worker threads that the volume has or has asked for, and
\* exceeds the threshold by one at most.
THEOREM PostedCount == SpecOverflow => []CountIsWorkers
<1>1. OInv => CountIsWorkers
  BY PositionsAreRequests DEF OInv, CountsAgree, CountIsWorkers
<1> QED
  BY <1>1, OverflowInvariant, PTL

\* Whatever waits in the overflow queue, a run of the volume's will come by.
THEOREM OverflowServed == SpecOverflow => []NobodyStranded
<1>1. OInv => NobodyStranded
  BY PositionsAreRequests DEF OInv, CountsAgree, NobodyStranded
<1> QED
  BY <1>1, OverflowInvariant, PTL
-----------------------------------------------------------------------------
(* The inductive invariant of CloseQueue *)

\* A worker between FatRemoveClose and FatCommonClose has a close that is on no list.
HoldsTaken ==
    \A w \in Workers :
        worker[w].pc \in {"vcb", "acquire", "close"} =>
            /\ worker[w].context \in Closes
            /\ close[worker[w].context] \in {"taken", "done"}

CInv ==
    /\ ListsAgree
    /\ NoneStranded
    /\ OneWorker /\ IsFiniteSet(InLoop)
    /\ HoldsTaken

\* What ListsMatch says of one queue, of the lists n and lists as data.
QueueMatches(places, q, list, n, lists) ==
    /\ n = Len(list) /\ IsInjective(list)
    /\ ToSet(list) = {c \in Closes : places[c] = q}
    /\ \A v \in Vcbs :
          /\ IsInjective(lists[v])
          /\ ToSet(lists[v]) = {c \in ToSet(list) : VcbOf[c] = v}
          /\ \A c, d \in ToSet(lists[v]) : Before(lists[v], c, d) => Before(list, c, d)

ListsOf(all, q) == [v \in Vcbs |-> all[v][q]]

\* The list t is the list s without its entry c.
Dropped(t, s, c) ==
    /\ t \in Seq(Closes) /\ Len(t) = Len(s) - 1 /\ IsInjective(t)
    /\ ToSet(t) = ToSet(s) \ {c}
    /\ \A d, e : Before(t, d, e) <=> Before(s, d, e) /\ d # c /\ e # c

WorkerRecords ==
    [pc : WorkerPlaces, vcb : Vcbs \cup {NoVcb}, context : Closes \cup {NoContext}]

LEMMA MatchByQueue ==
    /\ ListsMatch <=>
           \A q \in Queues :
               QueueMatches(close, q, global[q], count[q], ListsOf(perVcb, q))
    /\ ListsMatch' <=>
           \A q \in Queues :
               QueueMatches(close', q, global'[q], count'[q], ListsOf(perVcb', q))
BY DEF ListsMatch, QueueMatches, ListsOf

LEMMA WithoutDrops ==
    ASSUME NEW s \in Seq(Closes), IsInjective(s), NEW c \in ToSet(s)
    PROVE  Dropped(Without(s, c), s, c)
BY WithoutList DEF Dropped

LEMMA TailDrops ==
    ASSUME NEW s \in Seq(Closes), IsInjective(s), s # << >>
    PROVE  Dropped(Tail(s), s, Head(s)) /\ Head(s) \in ToSet(s)
BY TailList DEF Dropped

\* A close that is put on both lists of a queue.
LEMMA Enqueued ==
    ASSUME NEW places \in [Closes -> ClosePlaces], NEW q \in Queues,
           NEW list \in Seq(Closes), NEW n \in Nat, NEW lists \in [Vcbs -> Seq(Closes)],
           QueueMatches(places, q, list, n, lists),
           NEW c \in Closes, places[c] # q
    PROVE  QueueMatches([places EXCEPT ![c] = q], q, Append(list, c), n + 1,
                        [lists EXCEPT ![VcbOf[c]] = Append(lists[VcbOf[c]], c)])
<1> DEFINE u == VcbOf[c]
           list2 == Append(list, c)
           here == Append(lists[u], c)
           lists2 == [lists EXCEPT ![u] = here]
           places2 == [places EXCEPT ![c] = q]
<1>1. u \in Vcbs /\ lists[u] \in Seq(Closes)
  BY VcbOfAssumption
<1>2. c \notin ToSet(list) /\ c \notin ToSet(lists[u])
  BY <1>1 DEF QueueMatches
<1>3. /\ Len(list2) = n + 1 /\ IsInjective(list2) /\ ToSet(list2) = ToSet(list) \cup {c}
      /\ \A d, e : Before(list2, d, e) <=>
                       Before(list, d, e) \/ (d \in ToSet(list) /\ e = c)
  BY <1>2, AppendList DEF QueueMatches
<1>4. /\ IsInjective(here) /\ ToSet(here) = ToSet(lists[u]) \cup {c}
      /\ \A d, e : Before(here, d, e) <=>
                       Before(lists[u], d, e) \/ (d \in ToSet(lists[u]) /\ e = c)
  BY <1>1, <1>2, AppendList DEF QueueMatches
<1>5. /\ lists2[u] = here /\ \A v \in Vcbs : v # u => lists2[v] = lists[v]
      /\ \A d \in Closes : places2[d] = IF d = c THEN q ELSE places[d]
  BY <1>1
<1> HIDE DEF list2, here, lists2, places2, u
<1>6. ToSet(list2) = {d \in Closes : places2[d] = q}
  BY <1>3, <1>5 DEF QueueMatches
<1>7. ASSUME NEW v \in Vcbs
      PROVE  /\ IsInjective(lists2[v])
             /\ ToSet(lists2[v]) = {d \in ToSet(list2) : VcbOf[d] = v}
             /\ \A d, e \in ToSet(lists2[v]) :
                    Before(lists2[v], d, e) => Before(list2, d, e)
  <2>1. /\ IsInjective(lists[v]) /\ ToSet(lists[v]) = {d \in ToSet(list) : VcbOf[d] = v}
        /\ \A d, e \in ToSet(lists[v]) : Before(lists[v], d, e) => Before(list, d, e)
    BY DEF QueueMatches
  <2>2. CASE v = u
    <3>1. lists2[v] = here
      BY <1>5, <2>2
    <3>2. ToSet(here) = {d \in ToSet(list2) : VcbOf[d] = v}
      BY <1>3, <1>4, <2>1, <2>2 DEF u
    <3>3. ASSUME NEW d \in ToSet(here), NEW e \in ToSet(here), Before(here, d, e)
          PROVE  Before(list2, d, e)
      <4>1. CASE d \in ToSet(lists[u]) /\ e = c
        BY <1>3, <2>1, <2>2, <4>1
      <4>2. CASE Before(lists[u], d, e)
        <5>1. d \in ToSet(lists[u]) /\ e \in ToSet(lists[u])
          BY <4>2 DEF Before, ToSet
        <5> QED
          BY <1>3, <2>1, <2>2, <4>2, <5>1
      <4> QED
        BY <1>4, <3>3, <4>1, <4>2
    <3> QED
      BY <1>4, <3>1, <3>2, <3>3
  <2>3. CASE v # u
    <3>1. lists2[v] = lists[v]
      BY <1>5, <2>3
    <3>2. ToSet(lists[v]) = {d \in ToSet(list2) : VcbOf[d] = v}
      BY <1>3, <2>1, <2>3 DEF u
    <3> QED
      BY <1>3, <2>1, <3>1, <3>2
  <2> QED
    BY <2>2, <2>3
<1>8. QueueMatches(places2, q, list2, n + 1, lists2)
  BY <1>3, <1>6, <1>7 DEF QueueMatches
<1> QED
  BY <1>8 DEF places2, list2, lists2, here, u

\* A close that is taken off both lists.
LEMMA Dequeued ==
    ASSUME NEW places \in [Closes -> ClosePlaces], NEW q \in Queues,
           NEW list \in Seq(Closes), NEW n \in Nat, NEW lists \in [Vcbs -> Seq(Closes)],
           QueueMatches(places, q, list, n, lists),
           NEW c \in Closes, NEW x \in ClosePlaces \ {q},
           NEW list2, NEW here, Dropped(list2, list, c), Dropped(here, lists[VcbOf[c]], c)
    PROVE  QueueMatches([places EXCEPT ![c] = x], q, list2, n - 1,
                        [lists EXCEPT ![VcbOf[c]] = here])
<1> DEFINE u == VcbOf[c]
           lists2 == [lists EXCEPT ![u] = here]
           places2 == [places EXCEPT ![c] = x]
<1>1. u \in Vcbs /\ lists[u] \in Seq(Closes)
  BY VcbOfAssumption
<1>2. /\ Len(list2) = n - 1 /\ IsInjective(list2) /\ ToSet(list2) = ToSet(list) \ {c}
      /\ \A d, e : Before(list2, d, e) <=> Before(list, d, e) /\ d # c /\ e # c
  BY DEF Dropped, QueueMatches
<1>3. /\ IsInjective(here) /\ ToSet(here) = ToSet(lists[u]) \ {c}
      /\ \A d, e : Before(here, d, e) <=> Before(lists[u], d, e) /\ d # c /\ e # c
  BY DEF Dropped
<1>4. /\ lists2[u] = here /\ \A v \in Vcbs : v # u => lists2[v] = lists[v]
      /\ \A d \in Closes : places2[d] = IF d = c THEN x ELSE places[d]
  BY <1>1
<1> HIDE DEF lists2, places2, u
<1>5. ToSet(list2) = {d \in Closes : places2[d] = q}
  BY <1>2, <1>4 DEF QueueMatches
<1>6. ASSUME NEW v \in Vcbs
      PROVE  /\ IsInjective(lists2[v])
             /\ ToSet(lists2[v]) = {d \in ToSet(list2) : VcbOf[d] = v}
             /\ \A d, e \in ToSet(lists2[v]) :
                    Before(lists2[v], d, e) => Before(list2, d, e)
  <2>1. /\ IsInjective(lists[v]) /\ ToSet(lists[v]) = {d \in ToSet(list) : VcbOf[d] = v}
        /\ \A d, e \in ToSet(lists[v]) : Before(lists[v], d, e) => Before(list, d, e)
    BY DEF QueueMatches
  <2>2. CASE v = u
    <3>1. lists2[v] = here
      BY <1>4, <2>2
    <3>2. ToSet(here) = {d \in ToSet(list2) : VcbOf[d] = v}
      BY <1>2, <1>3, <2>1, <2>2
    <3> QED
      BY <1>2, <1>3, <2>1, <2>2, <3>1, <3>2
  <2>3. CASE v # u
    <3>1. lists2[v] = lists[v] /\ c \notin ToSet(lists[v])
      BY <1>4, <2>1, <2>3 DEF u
    <3>2. ToSet(lists[v]) = {d \in ToSet(list2) : VcbOf[d] = v}
      BY <1>2, <2>1, <3>1
    <3> QED
      BY <1>2, <2>1, <3>1, <3>2
  <2> QED
    BY <2>2, <2>3
<1>7. QueueMatches(places2, q, list2, n - 1, lists2)
  BY <1>2, <1>5, <1>6 DEF QueueMatches
<1> QED
  BY <1>7 DEF places2, lists2, u

\* The other queue does not notice.
LEMMA OtherQueue ==
    ASSUME NEW places \in [Closes -> ClosePlaces], NEW q \in Queues, NEW list, NEW n, NEW lists,
           QueueMatches(places, q, list, n, lists),
           NEW c \in Closes, NEW x \in ClosePlaces, places[c] # q, x # q
    PROVE  QueueMatches([places EXCEPT ![c] = x], q, list, n, lists)
<1>1. {d \in Closes : [places EXCEPT ![c] = x][d] = q} = {d \in Closes : places[d] = q}
  OBVIOUS
<1> QED
  BY <1>1 DEF QueueMatches

LEMMA WorkerEdited ==
    ASSUME NEW all \in [Workers -> WorkerRecords], NEW w \in Workers
    PROVE  /\ \A p \in WorkerPlaces : [all EXCEPT ![w].pc = p] \in [Workers -> WorkerRecords]
           /\ \A p \in WorkerPlaces, v \in Vcbs \cup {NoVcb} :
                  [all EXCEPT ![w].pc = p, ![w].vcb = v] \in [Workers -> WorkerRecords]
           /\ \A p \in WorkerPlaces, c \in Closes \cup {NoContext} :
                  [all EXCEPT ![w].pc = p, ![w].context = c] \in [Workers -> WorkerRecords]
BY Zenon DEF WorkerRecords

-----------------------------------------------------------------------------
(* The lists when a close is added, removed or moves elsewhere *)

LEMMA AddedMatch ==
    ASSUME ListsAgree, NEW q \in Queues, NEW c \in Closes, close[c] \notin Queues,
           NEW list2, NEW here, list2 = Append(global[q], c),
           here = Append(perVcb[VcbOf[c]][q], c),
           close' = [close EXCEPT ![c] = q],
           global' = [global EXCEPT ![q] = list2],
           perVcb' = [perVcb EXCEPT ![VcbOf[c]][q] = here],
           count' = [count EXCEPT ![q] = @ + 1]
    PROVE  /\ ListsMatch'
           /\ close' \in [Closes -> ClosePlaces] /\ global' \in [Queues -> Seq(Closes)]
           /\ perVcb' \in [Vcbs -> [Queues -> Seq(Closes)]] /\ count' \in [Queues -> Nat]
           /\ Len(global'[q]) = count[q] + 1
           /\ \A p \in Queues \ {q} : global'[p] = global[p]
<1> DEFINE u == VcbOf[c]
<1>1. /\ close \in [Closes -> ClosePlaces] /\ global \in [Queues -> Seq(Closes)]
      /\ perVcb \in [Vcbs -> [Queues -> Seq(Closes)]] /\ count \in [Queues -> Nat]
      /\ \A p \in Queues : QueueMatches(close, p, global[p], count[p], ListsOf(perVcb, p))
      /\ u \in Vcbs
  BY MatchByQueue, VcbOfAssumption DEF ListsAgree, TypeOKClose
<1>2. here \in Seq(Closes) /\ list2 \in Seq(Closes) /\ Len(list2) = count[q] + 1
  BY <1>1, AppendList DEF QueueMatches
<1>3. ListsOf(perVcb, q)[u] = perVcb[u][q] /\ ListsOf(perVcb, q) \in [Vcbs -> Seq(Closes)]
  BY <1>1 DEF ListsOf
<1>4. QueueMatches(close', q, list2, count[q] + 1, [ListsOf(perVcb, q) EXCEPT ![u] = here])
  BY <1>1, <1>3, Enqueued
<1>5. /\ perVcb' \in [Vcbs -> [Queues -> Seq(Closes)]]
      /\ ListsOf(perVcb', q) = [ListsOf(perVcb, q) EXCEPT ![u] = here]
      /\ \A p \in Queues \ {q} : ListsOf(perVcb', p) = ListsOf(perVcb, p)
  BY <1>1, <1>2 DEF ListsOf
<1>6. /\ close' \in [Closes -> ClosePlaces] /\ count' \in [Queues -> Nat]
      /\ global' \in [Queues -> Seq(Closes)] /\ global'[q] = list2
      /\ count'[q] = count[q] + 1
      /\ \A p \in Queues \ {q} : global'[p] = global[p] /\ count'[p] = count[p]
  BY <1>1, <1>2 DEF ClosePlaces
<1>7. ASSUME NEW p \in Queues
      PROVE  QueueMatches(close', p, global'[p], count'[p], ListsOf(perVcb', p))
  <2>1. CASE p = q
    BY <1>4, <1>5, <1>6, <2>1
  <2>2. CASE p # q
    <3>1. close[c] # p /\ q # p /\ q \in ClosePlaces
      BY <2>2 DEF ClosePlaces
    <3>2. QueueMatches(close', p, global[p], count[p], ListsOf(perVcb, p))
      BY <1>1, <3>1, OtherQueue
    <3> QED
      BY <1>5, <1>6, <2>2, <3>2
  <2> QED
    BY <2>1, <2>2
<1> QED
  BY <1>2, <1>5, <1>6, <1>7, MatchByQueue

LEMMA RemovedMatch ==
    ASSUME ListsAgree, NEW q \in Queues, NEW c \in Closes, close[c] = q,
           NEW x \in ClosePlaces \ Queues,
           NEW list2, NEW here, Dropped(list2, global[q], c),
           Dropped(here, perVcb[VcbOf[c]][q], c),
           close' = [close EXCEPT ![c] = x],
           global' = [global EXCEPT ![q] = list2],
           perVcb' = [perVcb EXCEPT ![VcbOf[c]][q] = here],
           count' = [count EXCEPT ![q] = @ - 1]
    PROVE  /\ ListsMatch'
           /\ close' \in [Closes -> ClosePlaces] /\ global' \in [Queues -> Seq(Closes)]
           /\ perVcb' \in [Vcbs -> [Queues -> Seq(Closes)]] /\ count' \in [Queues -> Nat]
           /\ Len(global'[q]) = Len(global[q]) - 1 /\ global[q] # << >>
           /\ \A p \in Queues \ {q} : global'[p] = global[p]
<1> DEFINE u == VcbOf[c]
<1>1. /\ close \in [Closes -> ClosePlaces] /\ global \in [Queues -> Seq(Closes)]
      /\ perVcb \in [Vcbs -> [Queues -> Seq(Closes)]] /\ count \in [Queues -> Nat]
      /\ \A p \in Queues : QueueMatches(close, p, global[p], count[p], ListsOf(perVcb, p))
      /\ u \in Vcbs
  BY MatchByQueue, VcbOfAssumption DEF ListsAgree, TypeOKClose
<1>2. /\ here \in Seq(Closes) /\ list2 \in Seq(Closes)
      /\ Len(list2) = Len(global[q]) - 1 /\ Len(global[q]) = count[q]
  BY <1>1 DEF Dropped, QueueMatches
<1>3. count[q] - 1 \in Nat /\ global[q] # << >>
  BY <1>2, EmptyList
<1>4. ListsOf(perVcb, q)[u] = perVcb[u][q] /\ ListsOf(perVcb, q) \in [Vcbs -> Seq(Closes)]
  BY <1>1 DEF ListsOf
<1>5. QueueMatches(close', q, list2, count[q] - 1, [ListsOf(perVcb, q) EXCEPT ![u] = here])
  BY <1>1, <1>4, Dequeued
<1>6. /\ perVcb' \in [Vcbs -> [Queues -> Seq(Closes)]]
      /\ ListsOf(perVcb', q) = [ListsOf(perVcb, q) EXCEPT ![u] = here]
      /\ \A p \in Queues \ {q} : ListsOf(perVcb', p) = ListsOf(perVcb, p)
  BY <1>1, <1>2 DEF ListsOf
<1>7. /\ close' \in [Closes -> ClosePlaces] /\ count' \in [Queues -> Nat]
      /\ global' \in [Queues -> Seq(Closes)] /\ global'[q] = list2
      /\ count'[q] = count[q] - 1
      /\ \A p \in Queues \ {q} : global'[p] = global[p] /\ count'[p] = count[p]
  BY <1>1, <1>2, <1>3
<1>8. ASSUME NEW p \in Queues
      PROVE  QueueMatches(close', p, global'[p], count'[p], ListsOf(perVcb', p))
  <2>1. CASE p = q
    BY <1>5, <1>6, <1>7, <2>1
  <2>2. CASE p # q
    <3>1. close[c] # p /\ x # p
      BY <2>2
    <3>2. QueueMatches(close', p, global[p], count[p], ListsOf(perVcb, p))
      BY <1>1, <3>1, OtherQueue
    <3> QED
      BY <1>6, <1>7, <2>2, <3>2
  <2> QED
    BY <2>1, <2>2
<1> QED
  BY <1>2, <1>3, <1>6, <1>7, <1>8, MatchByQueue

\* A close that is on no list and will be on none.
LEMMA MovedMatch ==
    ASSUME ListsAgree, NEW c \in Closes, close[c] \notin Queues,
           NEW x \in ClosePlaces \ Queues, close' = [close EXCEPT ![c] = x],
           global' = global, perVcb' = perVcb, count' = count
    PROVE  ListsMatch' /\ close' \in [Closes -> ClosePlaces]
<1>1. /\ close \in [Closes -> ClosePlaces]
      /\ \A p \in Queues : QueueMatches(close, p, global[p], count[p], ListsOf(perVcb, p))
  BY MatchByQueue DEF ListsAgree, TypeOKClose
<1>2. ASSUME NEW p \in Queues
      PROVE  QueueMatches(close', p, global[p], count[p], ListsOf(perVcb, p))
  BY <1>1, OtherQueue
<1>3. close' \in [Closes -> ClosePlaces]
  BY <1>1
<1> QED
  BY <1>2, <1>3, MatchByQueue

LEMMA ListsUnchanged ==
    ASSUME ListsMatch, close' = close, global' = global, perVcb' = perVcb, count' = count
    PROVE  ListsMatch'
BY MatchByQueue

\* What is on a list of a queue is at that place.
LEMMA HeadsAreQueued ==
    ASSUME ListsAgree, NEW q \in Queues
    PROVE  /\ global[q] \in Seq(Closes) /\ IsInjective(global[q])
           /\ \A c \in ToSet(global[q]) : c \in Closes /\ close[c] = q
           /\ global[q] # << >> => Head(global[q]) \in ToSet(global[q])
           /\ \A c \in Closes : close[c] = q =>
                  c \in ToSet(global[q]) /\ c \in ToSet(perVcb[VcbOf[c]][q])
           /\ \A v \in Vcbs :
                  /\ perVcb[v][q] \in Seq(Closes) /\ IsInjective(perVcb[v][q])
                  /\ perVcb[v][q] # << >> => Head(perVcb[v][q]) \in ToSet(perVcb[v][q])
                  /\ \A c \in ToSet(perVcb[v][q]) :
                         c \in Closes /\ close[c] = q /\ VcbOf[c] = v
<1>1. /\ global[q] \in Seq(Closes) /\ \A v \in Vcbs : perVcb[v][q] \in Seq(Closes)
  BY DEF ListsAgree, TypeOKClose
<1>2. /\ IsInjective(global[q]) /\ ToSet(global[q]) = {c \in Closes : close[c] = q}
      /\ \A v \in Vcbs : /\ IsInjective(perVcb[v][q])
                         /\ ToSet(perVcb[v][q]) = {c \in ToSet(global[q]) : VcbOf[c] = v}
  BY DEF ListsAgree, ListsMatch
<1>3. \A v \in Vcbs :
          perVcb[v][q] # << >> => Head(perVcb[v][q]) \in ToSet(perVcb[v][q])
  BY <1>1, <1>2, TailDrops
<1>4. global[q] # << >> => Head(global[q]) \in ToSet(global[q])
  BY <1>1, <1>2, TailDrops
<1> QED
  BY <1>1, <1>2, <1>3, <1>4, VcbOfAssumption

LEMMA FirstOfFacts ==
    ASSUME NEW lists \in [Queues -> Seq(Closes)]
    PROVE  /\ FirstOf(lists) # NoContext =>
                  \E q \in Queues : lists[q] # << >> /\ FirstOf(lists) = Head(lists[q])
           /\ FirstOf(lists) = NoContext => \A q \in Queues : lists[q] = << >>
<1>1. \A q \in Queues : lists[q] # << >> => Head(lists[q]) \in Closes
  BY HeadTailProperties
<1> QED
  BY <1>1, NoContextAssumption DEF FirstOf, Queues

\* What FatRemoveClose selects is on a queue, and with nothing selected no close needs a
\* worker.
LEMMA SelectedFacts ==
    ASSUME ListsAgree, NEW hint \in Vcbs \cup {NoVcb}
    PROVE  /\ Selected(hint) # NoContext =>
                  Selected(hint) \in Closes /\ close[Selected(hint)] \in Queues
           /\ Selected(hint) = NoContext =>
                  /\ global["async"] = << >>
                  /\ Len(global["delayed"]) <= MaxDelayedClose
<1> DEFINE Taken(c) == c \in Closes /\ close[c] \in Queues
           asyncOnly == [global EXCEPT !["delayed"] = << >>]
<1>1. /\ global \in [Queues -> Seq(Closes)] /\ asyncOnly \in [Queues -> Seq(Closes)]
      /\ \A v \in Vcbs : perVcb[v] \in [Queues -> Seq(Closes)]
  BY EmptyList DEF ListsAgree, TypeOKClose, Queues
<1>2. FirstOf(global) # NoContext => Taken(FirstOf(global))
  <2>1. ASSUME NEW q \in Queues, global[q] # << >>
        PROVE  Taken(Head(global[q]))
    BY <2>1, HeadsAreQueued
  <2> HIDE DEF Taken
  <2> QED
    BY <1>1, <2>1, FirstOfFacts
<1>3. FirstOf(asyncOnly) # NoContext => Taken(FirstOf(asyncOnly))
  <2>1. ASSUME NEW q \in Queues, asyncOnly[q] # << >>
        PROVE  asyncOnly[q] = global[q]
    BY <1>1, <2>1 DEF Queues
  <2> HIDE DEF asyncOnly
  <2> QED
    BY <1>1, <2>1, FirstOfFacts, HeadsAreQueued
<1>4. \A v \in Vcbs : FirstOf(perVcb[v]) # NoContext => Taken(FirstOf(perVcb[v]))
  BY <1>1, FirstOfFacts, HeadsAreQueued
<1>5. FirstOfAll # NoContext => Taken(FirstOfAll)
  BY <1>2, <1>3 DEF FirstOfAll
<1>6. FirstOfAll = NoContext =>
          global["async"] = << >> /\ Len(global["delayed"]) <= MaxDelayedClose
  <2> SUFFICES ASSUME FirstOfAll = NoContext
               PROVE  global["async"] = << >> /\ Len(global["delayed"]) <= MaxDelayedClose
    OBVIOUS
  <2>1. "async" \in Queues /\ "delayed" \in Queues
    BY DEF Queues
  <2>2. asyncOnly["async"] = global["async"]
    BY <1>1, <2>1
  <2>3. /\ MaxDelayedClose \in Nat /\ MaxDelayedClose \div 2 <= MaxDelayedClose
        /\ count["delayed"] = Len(global["delayed"]) /\ count["delayed"] \in Nat
        /\ MaxDelayedClose \div 2 \in Nat
    BY <2>1, MaxDelayedAssumption DEF ListsAgree, ListsMatch, TypeOKClose
  <2>4. CASE count["delayed"] > MaxDelayedClose \div 2 \/ shutdown
    <3>1. FirstOf(global) = NoContext
      BY <2>4 DEF FirstOfAll
    <3>2. global["async"] = << >> /\ global["delayed"] = << >>
      BY <1>1, <2>1, <3>1, FirstOfFacts
    <3> QED
      BY <2>3, <3>2, EmptyList
  <2>5. CASE ~ (count["delayed"] > MaxDelayedClose \div 2 \/ shutdown)
    <3>1. FirstOf(asyncOnly) = NoContext
      BY <2>5 DEF FirstOfAll
    <3>2. asyncOnly["async"] = << >>
      BY <1>1, <2>1, <3>1, FirstOfFacts
    <3> QED
      BY <2>2, <2>3, <2>5, <3>2
  <2> QED
    BY <2>4, <2>5
<1> HIDE DEF Taken
<1>7. /\ Selected(hint) # NoContext => Taken(Selected(hint))
      /\ Selected(hint) = NoContext => FirstOfAll = NoContext
  <2>1. CASE hint # NoVcb /\ (\E q \in Queues : HighWith(hint)[q])
             /\ FirstOf(perVcb[hint]) # NoContext
    <3>1. Selected(hint) = FirstOf(perVcb[hint]) /\ hint \in Vcbs
      BY <2>1 DEF Selected
    <3> QED
      BY <1>4, <2>1, <3>1
  <2>2. CASE ~ (hint # NoVcb /\ (\E q \in Queues : HighWith(hint)[q])
                /\ FirstOf(perVcb[hint]) # NoContext)
    <3>1. Selected(hint) = FirstOfAll
      BY <2>2 DEF Selected
    <3> QED
      BY <1>5, <3>1
  <2> QED
    BY <2>1, <2>2
<1> QED
  BY <1>6, <1>7 DEF Taken

-----------------------------------------------------------------------------
(* Each action keeps the invariant *)

\* A worker in its loop is the active one.
LEMMA TheWorker ==
    ASSUME CInv, NEW w \in Workers, w \in InLoop
    PROVE  active /\ posting = 0 /\ InLoop = {w}
<1>1. /\ IsFiniteSet(InLoop) /\ posting \in Nat /\ active \in BOOLEAN
      /\ posting + Cardinality(InLoop) = IF active THEN 1 ELSE 0
  BY DEF CInv, OneWorker, ListsAgree, TypeOKClose
<1>2. /\ Cardinality(InLoop \ {w}) = Cardinality(InLoop) - 1
      /\ IsFiniteSet(InLoop \ {w}) /\ Cardinality(InLoop \ {w}) \in Nat
      /\ Cardinality(InLoop) \in Nat
  BY <1>1, FS_RemoveElement, FS_CardinalityType
<1>3. active /\ posting = 0 /\ Cardinality(InLoop \ {w}) = 0
  BY <1>1, <1>2
<1>4. InLoop \ {w} = {}
  BY <1>2, <1>3, FS_EmptySet
<1> QED
  BY <1>3, <1>4

\* A close that nobody works on moves: no worker notices.
LEMMA WorkersStay ==
    ASSUME CInv, NEW c \in Closes, close[c] \notin {"taken", "done"}, NEW x \in ClosePlaces,
           close' = [close EXCEPT ![c] = x], worker' = worker
    PROVE  HoldsTaken' /\ InLoop' = InLoop
<1>1. close \in [Closes -> ClosePlaces]
  BY DEF CInv, ListsAgree, TypeOKClose
<1>2. InLoop' = InLoop
  BY DEF InLoop
<1>3. ASSUME NEW w \in Workers, worker'[w].pc \in {"vcb", "acquire", "close"}
      PROVE  /\ worker'[w].context \in Closes
             /\ close'[worker'[w].context] \in {"taken", "done"}
  BY <1>1, <1>3 DEF CInv, HoldsTaken
<1> QED
  BY <1>2, <1>3 DEF HoldsTaken

LEMMA CloseNowStep ==
    ASSUME CInv, NEW c \in Closes, CloseNow(c)
    PROVE  CInv'
<1>1. /\ close[c] = "open" /\ close' = [close EXCEPT ![c] = "done"]
      /\ global' = global /\ perVcb' = perVcb /\ count' = count /\ high' = high
      /\ active' = active /\ posting' = posting /\ worker' = worker /\ owner' = owner
      /\ shutdown' = shutdown /\ ListsAgree
  BY DEF CloseNow, CInv
<1>2. close[c] \notin Queues /\ "done" \in ClosePlaces \ Queues /\ "done" \in ClosePlaces
  BY <1>1 DEF Queues, ClosePlaces
<1>3. ListsMatch' /\ close' \in [Closes -> ClosePlaces]
  BY <1>1, <1>2, MovedMatch
<1>4. HoldsTaken' /\ InLoop' = InLoop
  BY <1>1, <1>2, WorkersStay
<1>5. TypeOKClose'
  BY <1>1, <1>3 DEF ListsAgree, TypeOKClose
<1> QED
  BY <1>1, <1>3, <1>4, <1>5 DEF CInv, ListsAgree, NoneStranded, OneWorker

LEMMA QueueCloseStep ==
    ASSUME CInv, NEW c \in Closes, NEW q \in Queues, QueueClose(c, q)
    PROVE  CInv'
<1> DEFINE list2 == Append(global[q], c)
           here == Append(perVcb[VcbOf[c]][q], c)
           starts == Starts[q]
<1>1. /\ close[c] = "open" /\ close' = [close EXCEPT ![c] = q]
      /\ global' = [global EXCEPT ![q] = list2]
      /\ perVcb' = [perVcb EXCEPT ![VcbOf[c]][q] = here]
      /\ count' = [count EXCEPT ![q] = @ + 1]
      /\ IF starts THEN active' = TRUE /\ posting' = posting + 1
                   ELSE active' = active /\ posting' = posting
      /\ high' = high /\ worker' = worker /\ owner' = owner /\ shutdown' = shutdown
  BY DEF QueueClose, QueueCloseStarting
<1>2. close[c] \notin Queues /\ close[c] \notin {"taken", "done"} /\ q \in ClosePlaces
  BY <1>1 DEF Queues, ClosePlaces
<1>3. ListsAgree /\ list2 = Append(global[q], c) /\ here = Append(perVcb[VcbOf[c]][q], c)
  BY DEF CInv
<1> HIDE DEF list2, here
<1>4. /\ ListsMatch'
      /\ close' \in [Closes -> ClosePlaces] /\ global' \in [Queues -> Seq(Closes)]
      /\ perVcb' \in [Vcbs -> [Queues -> Seq(Closes)]] /\ count' \in [Queues -> Nat]
      /\ Len(global'[q]) = count[q] + 1
      /\ \A p \in Queues \ {q} : global'[p] = global[p]
  BY <1>1, <1>2, <1>3, AddedMatch
<1>5. HoldsTaken' /\ InLoop' = InLoop
  BY <1>1, <1>2, WorkersStay
<1>6. /\ active \in BOOLEAN /\ posting \in Nat /\ count["delayed"] \in Nat
      /\ MaxDelayedClose \in Nat
  BY MaxDelayedAssumption DEF CInv, ListsAgree, TypeOKClose, Queues
<1>7. /\ starts => ~ active
      /\ ~ starts /\ ~ active => q = "delayed" /\ count["delayed"] + 1 <= MaxDelayedClose
  <2>1. CASE q = "async"
    <3>1. starts <=> ~ active
      BY <2>1 DEF Starts
    <3> QED
      BY <3>1
  <2>2. CASE q = "delayed"
    <3>1. starts <=> ~ active /\ count["delayed"] + 1 > MaxDelayedClose
      BY <2>2 DEF Starts
    <3> QED
      BY <1>6, <2>2, <3>1
  <2> QED
    BY <2>1, <2>2 DEF Queues
<1> HIDE DEF starts
<1>8. TypeOKClose'
  <2>1. active' \in BOOLEAN /\ posting' \in Nat
    <3>1. CASE starts
      BY <1>1, <1>6, <3>1
    <3>2. CASE ~ starts
      BY <1>1, <1>6, <3>2
    <3> QED
      BY <3>1, <3>2
  <2> QED
    BY <1>1, <1>4, <2>1 DEF CInv, ListsAgree, TypeOKClose
<1>9. NoneStranded'
  <2> SUFFICES ASSUME ~ active'
               PROVE  /\ global'["async"] = << >>
                      /\ Len(global'["delayed"]) <= MaxDelayedClose
    BY DEF NoneStranded
  <2>1. ~ starts /\ ~ active
    BY <1>1
  <2>2. global'["async"] = global["async"]
    BY <1>4, <1>7, <2>1 DEF Queues
  <2> QED
    BY <1>4, <1>7, <2>1, <2>2 DEF CInv, NoneStranded
<1>10. OneWorker'
  <2>1. posting + Cardinality(InLoop) = IF active THEN 1 ELSE 0
    BY DEF CInv, OneWorker
  <2>2. Cardinality(InLoop) \in Nat
    BY FS_CardinalityType DEF CInv
  <2>3. posting' + Cardinality(InLoop) = IF active' THEN 1 ELSE 0
    BY <1>1, <1>6, <1>7, <2>1, <2>2
  <2> QED
    BY <1>5, <2>3 DEF OneWorker
<1> QED
  BY <1>4, <1>5, <1>8, <1>9, <1>10 DEF CInv, ListsAgree

\* The worker w moves and no close does: whether it is in its loop, and what it holds,
\* stay the same.
LEMMA WorkerMoves ==
    ASSUME CInv, NEW w \in Workers,
           close' = close, global' = global, perVcb' = perVcb, count' = count, high' = high,
           active' = active, posting' = posting, shutdown' = shutdown,
           owner' \in [Vcbs -> Owners], worker' \in [Workers -> WorkerRecords],
           \A x \in Workers \ {w} : worker'[x] = worker[x],
           worker'[w].pc \in {"idle", "exit"} <=> worker[w].pc \in {"idle", "exit"},
           worker'[w].pc \in {"vcb", "acquire", "close"} =>
               /\ worker[w].pc \in {"vcb", "acquire", "close"}
               /\ worker'[w].context = worker[w].context
    PROVE  CInv'
<1>1. ListsMatch'
  BY ListsUnchanged DEF CInv, ListsAgree
<1>2. TypeOKClose'
  BY DEF CInv, ListsAgree, TypeOKClose, WorkerRecords
<1>3. InLoop' = InLoop
  BY DEF InLoop
<1>4. HoldsTaken'
  BY DEF CInv, HoldsTaken
<1> QED
  BY <1>1, <1>2, <1>3, <1>4 DEF CInv, ListsAgree, NoneStranded, OneWorker

LEMMA WorkerType ==
    ASSUME CInv
    PROVE  /\ worker \in [Workers -> WorkerRecords] /\ owner \in [Vcbs -> Owners]
           /\ \A w \in Workers : /\ worker[w].vcb \in Vcbs \cup {NoVcb}
                                 /\ worker[w].context \in Closes \cup {NoContext}
                                 /\ worker[w].pc \in WorkerPlaces
           /\ \A w \in Workers : Released(w) \in [Vcbs -> Owners]
<1>1. worker \in [Workers -> WorkerRecords] /\ owner \in [Vcbs -> Owners]
  BY DEF CInv, ListsAgree, TypeOKClose, WorkerRecords
<1>2. \A w \in Workers : /\ worker[w].vcb \in Vcbs \cup {NoVcb}
                         /\ worker[w].context \in Closes \cup {NoContext}
                         /\ worker[w].pc \in WorkerPlaces
  BY <1>1 DEF WorkerRecords
<1>3. \A w \in Workers : Released(w) \in [Vcbs -> Owners]
  BY <1>1, <1>2 DEF Released, Owners
<1> QED
  BY <1>1, <1>2, <1>3

\* The volume v, held or not, before the close.
LEMMA KeepsStep ==
    ASSUME CInv, NEW w \in Workers, NEW v \in Vcbs, Keeps(w, v),
           worker[w].pc \in {"vcb", "acquire"},
           UNCHANGED <<close, global, perVcb, count, high, active, posting, shutdown>>
    PROVE  CInv'
<1>1. PICK x \in Vcbs \cup {NoVcb}, o \in Owners :
          /\ owner' = [owner EXCEPT ![v] = o]
          /\ worker' = [worker EXCEPT ![w].pc = "close", ![w].vcb = x]
  <2>1. "nobody" \in Owners /\ w \in Owners
    BY DEF Owners
  <2> QED
    BY <2>1 DEF Keeps
<1>2. worker \in [Workers -> WorkerRecords] /\ owner \in [Vcbs -> Owners]
  BY WorkerType
<1>3. "close" \in WorkerPlaces
  BY DEF WorkerPlaces
<1>4. worker' \in [Workers -> WorkerRecords]
  BY <1>1, <1>2, <1>3, WorkerEdited, Zenon
<1>5. owner' \in [Vcbs -> Owners]
  BY <1>1, <1>2
<1>6. /\ worker'[w].pc = "close" /\ worker'[w].context = worker[w].context
      /\ \A y \in Workers \ {w} : worker'[y] = worker[y]
  BY <1>1, <1>2 DEF WorkerRecords
<1> QED
  BY <1>4, <1>5, <1>6, WorkerMoves

LEMMA WorkerAcquiresStep ==
    ASSUME CInv, NEW w \in Workers, WorkerAcquires(w)
    PROVE  CInv'
<1>1. /\ worker[w].pc = "acquire" /\ worker[w].context \in Closes
      /\ Keeps(w, VcbOf[worker[w].context])
      /\ UNCHANGED <<close, global, perVcb, count, high, active, posting, shutdown>>
  BY DEF WorkerAcquires, CInv, HoldsTaken
<1> QED
  BY <1>1, KeepsStep, VcbOfAssumption

LEMMA WorkerHoldsStep ==
    ASSUME CInv, NEW w \in Workers, WorkerHolds(w)
    PROVE  CInv'
<1>1. /\ worker[w].pc = "vcb" /\ worker[w].context \in Closes
      /\ worker[w].vcb = VcbOf[worker[w].context] /\ Keeps(w, worker[w].vcb)
      /\ UNCHANGED <<close, global, perVcb, count, high, active, posting, shutdown>>
  BY DEF WorkerHolds, CInv, HoldsTaken
<1> QED
  BY <1>1, KeepsStep, VcbOfAssumption

LEMMA WorkerReleasesStep ==
    ASSUME CInv, NEW w \in Workers, WorkerReleases(w) \/ WorkerDrops(w)
    PROVE  CInv'
<1>1. /\ worker[w].pc = "vcb" /\ owner' = Released(w)
      /\ close' = close /\ global' = global /\ perVcb' = perVcb /\ count' = count
      /\ high' = high /\ active' = active /\ posting' = posting /\ shutdown' = shutdown
  BY DEF WorkerReleases, WorkerDrops
<1>2. PICK p \in {"acquire", "close"} :
          worker' = [worker EXCEPT ![w].pc = p, ![w].vcb = NoVcb]
  BY DEF WorkerReleases, WorkerDrops
<1>3. p \in WorkerPlaces /\ NoVcb \in Vcbs \cup {NoVcb}
  BY DEF WorkerPlaces
<1>4. worker \in [Workers -> WorkerRecords] /\ owner' \in [Vcbs -> Owners]
  BY <1>1, WorkerType
<1>5. worker' \in [Workers -> WorkerRecords]
  BY <1>2, <1>3, <1>4, WorkerEdited, Zenon
<1>6. /\ worker'[w].pc = p /\ worker'[w].context = worker[w].context
      /\ \A y \in Workers \ {w} : worker'[y] = worker[y]
  BY <1>2, <1>4 DEF WorkerRecords
<1> QED
  BY <1>1, <1>4, <1>5, <1>6, WorkerMoves

LEMMA WorkerExitsStep ==
    ASSUME CInv, NEW w \in Workers, WorkerExits(w)
    PROVE  CInv'
<1>1. /\ worker[w].pc = "exit" /\ owner' = Released(w)
      /\ worker' = [worker EXCEPT ![w] = NoWork]
      /\ close' = close /\ global' = global /\ perVcb' = perVcb /\ count' = count
      /\ high' = high /\ active' = active /\ posting' = posting /\ shutdown' = shutdown
  BY DEF WorkerExits
<1>2. NoWork \in WorkerRecords /\ NoWork.pc = "idle"
  BY DEF NoWork, WorkerRecords, WorkerPlaces
<1>3. worker \in [Workers -> WorkerRecords] /\ owner' \in [Vcbs -> Owners]
  BY <1>1, WorkerType
<1>4. /\ worker' \in [Workers -> WorkerRecords] /\ worker'[w].pc = "idle"
      /\ \A y \in Workers \ {w} : worker'[y] = worker[y]
  BY <1>1, <1>2, <1>3
<1> QED
  BY <1>1, <1>3, <1>4, WorkerMoves

\* The work item that was queued becomes the worker.
LEMMA StartWorkerStep ==
    ASSUME CInv, NEW w \in Workers, StartWorker(w)
    PROVE  CInv'
<1>1. /\ posting > 0 /\ worker[w].pc = "idle" /\ posting' = posting - 1
      /\ worker' = [worker EXCEPT ![w].pc = "remove"]
      /\ close' = close /\ global' = global /\ perVcb' = perVcb /\ count' = count
      /\ high' = high /\ active' = active /\ owner' = owner /\ shutdown' = shutdown
  BY DEF StartWorker
<1>2. /\ worker \in [Workers -> WorkerRecords] /\ posting \in Nat
      /\ "remove" \in WorkerPlaces
  BY WorkerType DEF CInv, ListsAgree, TypeOKClose, WorkerPlaces
<1>3. worker' \in [Workers -> WorkerRecords]
  BY <1>1, <1>2, WorkerEdited, Zenon
<1>4. /\ worker'[w].pc = "remove"
      /\ \A y \in Workers \ {w} : worker'[y] = worker[y]
  BY <1>1, <1>2 DEF WorkerRecords
<1>5. InLoop' = InLoop \cup {w} /\ w \notin InLoop
  BY <1>1, <1>4 DEF InLoop
<1>6. /\ IsFiniteSet(InLoop \cup {w}) /\ Cardinality(InLoop) \in Nat
      /\ Cardinality(InLoop \cup {w}) = Cardinality(InLoop) + 1
  BY <1>5, FS_AddElement, FS_CardinalityType DEF CInv
<1>7. OneWorker'
  BY <1>1, <1>2, <1>5, <1>6 DEF CInv, OneWorker
<1>8. HoldsTaken'
  BY <1>1, <1>4 DEF CInv, HoldsTaken
<1>9. ListsMatch'
  BY <1>1, ListsUnchanged DEF CInv, ListsAgree
<1>10. TypeOKClose'
  <2>1. posting' \in Nat
    BY <1>1, <1>2
  <2> QED
    BY <1>1, <1>3, <2>1 DEF CInv, ListsAgree, TypeOKClose, WorkerRecords
<1> QED
  BY <1>1, <1>5, <1>6, <1>7, <1>8, <1>9, <1>10 DEF CInv, ListsAgree, NoneStranded

\* FatCommonClose of the worker: its close is on no list any more.
LEMMA WorkerClosesStep ==
    ASSUME CInv, NEW w \in Workers, WorkerCloses(w)
    PROVE  CInv'
<1> DEFINE c == worker[w].context
<1>1. /\ worker[w].pc = "close" /\ close' = [close EXCEPT ![c] = "done"]
      /\ worker' = [worker EXCEPT ![w].pc = "remove", ![w].context = NoContext]
      /\ global' = global /\ perVcb' = perVcb /\ count' = count /\ high' = high
      /\ active' = active /\ posting' = posting /\ owner' = owner /\ shutdown' = shutdown
  BY DEF WorkerCloses
<1>2. c \in Closes /\ close[c] \in {"taken", "done"}
  BY <1>1 DEF CInv, HoldsTaken
<1>3. /\ worker \in [Workers -> WorkerRecords] /\ close \in [Closes -> ClosePlaces]
      /\ "remove" \in WorkerPlaces /\ NoContext \in Closes \cup {NoContext}
      /\ "done" \in ClosePlaces \ Queues /\ close[c] \notin Queues /\ ListsAgree
  BY <1>2, WorkerType DEF CInv, ListsAgree, TypeOKClose, WorkerPlaces, ClosePlaces, Queues
<1>4. worker' \in [Workers -> WorkerRecords]
  BY <1>1, <1>3, WorkerEdited, Zenon
<1>5. /\ worker'[w].pc = "remove"
      /\ \A y \in Workers \ {w} : worker'[y] = worker[y]
  BY <1>1, <1>3 DEF WorkerRecords
<1> HIDE DEF c
<1>6. ListsMatch' /\ close' \in [Closes -> ClosePlaces]
  BY <1>1, <1>2, <1>3, MovedMatch
<1>7. InLoop' = InLoop
  BY <1>1, <1>5 DEF InLoop
<1>8. HoldsTaken'
  <2>1. \A d \in Closes : close[d] \in {"taken", "done"} => close'[d] \in {"taken", "done"}
    BY <1>1, <1>2, <1>3
  <2>2. ASSUME NEW y \in Workers, worker'[y].pc \in {"vcb", "acquire", "close"}
        PROVE  /\ worker'[y].context \in Closes
               /\ close'[worker'[y].context] \in {"taken", "done"}
    <3>1. worker'[y] = worker[y]
      BY <1>5, <2>2
    <3> QED
      BY <2>1, <2>2, <3>1 DEF CInv, HoldsTaken
  <2> QED
    BY <2>2 DEF HoldsTaken
<1>9. TypeOKClose'
  BY <1>1, <1>3, <1>4, <1>6 DEF ListsAgree, TypeOKClose, WorkerRecords
<1> QED
  BY <1>1, <1>6, <1>7, <1>8, <1>9 DEF CInv, ListsAgree, NoneStranded, OneWorker

LEMMA HighType ==
    ASSUME CInv, NEW hint
    PROVE  HighWith(hint) \in [Queues -> BOOLEAN]
<1> DEFINE Kept(q) == count[q] >= MaxDelayedClose
           Entered(q) == count[q] > 2 * MaxDelayedClose
<1>1. high \in [Queues -> BOOLEAN]
  BY DEF CInv, ListsAgree, TypeOKClose
<1>2. \A q \in Queues : Kept(q) \in BOOLEAN /\ Entered(q) \in BOOLEAN
  OBVIOUS
<1>3. HighWith(hint) = IF hint = NoVcb THEN high
                       ELSE [q \in Queues |-> IF high[q] THEN Kept(q) ELSE Entered(q)]
  BY DEF HighWith
<1> HIDE DEF Kept, Entered
<1> QED
  BY <1>1, <1>2, <1>3, Zenon

\* FatRemoveClose with nothing left: the worker says that it is done, and the next close
\* that calls for one will start one.
LEMMA NothingLeftStep ==
    ASSUME CInv, NEW w \in Workers, WorkerRemoves(w), Selected(worker[w].vcb) = NoContext
    PROVE  CInv'
<1>1. /\ worker[w].pc = "remove" /\ high' = HighWith(worker[w].vcb)
      /\ worker' = [worker EXCEPT ![w].pc = "exit"] /\ active' = FALSE
      /\ close' = close /\ global' = global /\ perVcb' = perVcb /\ count' = count
      /\ posting' = posting /\ owner' = owner /\ shutdown' = shutdown
  BY DEF WorkerRemoves
<1>2. /\ worker \in [Workers -> WorkerRecords] /\ worker[w].vcb \in Vcbs \cup {NoVcb}
      /\ "exit" \in WorkerPlaces
  BY WorkerType DEF WorkerPlaces
<1>3. worker' \in [Workers -> WorkerRecords]
  BY <1>1, <1>2, WorkerEdited, Zenon
<1>4. worker'[w].pc = "exit" /\ \A y \in Workers \ {w} : worker'[y] = worker[y]
  BY <1>1, <1>2 DEF WorkerRecords
<1>5. w \in InLoop /\ InLoop' = InLoop \ {w}
  BY <1>1, <1>4 DEF InLoop
<1>6. posting = 0 /\ InLoop \ {w} = {}
  BY <1>5, TheWorker
<1>7. IsFiniteSet(InLoop') /\ Cardinality(InLoop') = 0
  <2>1. InLoop' = {}
    BY <1>5, <1>6
  <2> QED
    BY <2>1, FS_EmptySet
<1>8. OneWorker'
  BY <1>1, <1>6, <1>7 DEF OneWorker
<1>9. NoneStranded'
  BY <1>1, <1>2, SelectedFacts DEF CInv, NoneStranded
<1>10. HoldsTaken'
  BY <1>1, <1>4 DEF CInv, HoldsTaken
<1>11. ListsMatch'
  BY <1>1, ListsUnchanged DEF CInv, ListsAgree
<1>12. TypeOKClose'
  <2>1. high' \in [Queues -> BOOLEAN]
    BY <1>1, HighType
  <2> QED
    BY <1>1, <1>3, <2>1 DEF CInv, ListsAgree, TypeOKClose, WorkerRecords
<1> QED
  BY <1>7, <1>8, <1>9, <1>10, <1>11, <1>12 DEF CInv, ListsAgree

\* FatRemoveClose with a close: it leaves both of its lists.
LEMMA TakesCloseStep ==
    ASSUME CInv, NEW w \in Workers, WorkerRemoves(w), Selected(worker[w].vcb) # NoContext
    PROVE  CInv'
<1> DEFINE c == Selected(worker[w].vcb)
           q == close[c]
           list2 == Without(global[q], c)
           here == Without(perVcb[VcbOf[c]][q], c)
<1>1. /\ worker[w].pc = "remove" /\ high' = HighWith(worker[w].vcb)
      /\ worker' = [worker EXCEPT ![w].pc = "vcb", ![w].context = c] /\ active' = active
      /\ close' = [close EXCEPT ![c] = "taken"]
      /\ global' = [global EXCEPT ![q] = list2]
      /\ perVcb' = [perVcb EXCEPT ![VcbOf[c]][q] = here]
      /\ count' = [count EXCEPT ![q] = @ - 1]
      /\ posting' = posting /\ owner' = owner /\ shutdown' = shutdown
  BY DEF WorkerRemoves, TakeOff
<1>2. /\ worker \in [Workers -> WorkerRecords] /\ worker[w].vcb \in Vcbs \cup {NoVcb}
      /\ "vcb" \in WorkerPlaces /\ close \in [Closes -> ClosePlaces] /\ ListsAgree
  BY WorkerType DEF WorkerPlaces, CInv, ListsAgree, TypeOKClose
<1>3. c \in Closes /\ q \in Queues
  BY <1>2, SelectedFacts
<1> HIDE DEF c
<1>4. worker' \in [Workers -> WorkerRecords]
  BY <1>1, <1>2, <1>3, WorkerEdited, Zenon
<1>5. /\ worker'[w].pc = "vcb" /\ worker'[w].context = c
      /\ \A y \in Workers \ {w} : worker'[y] = worker[y]
  BY <1>1, <1>2 DEF WorkerRecords
<1>6. Dropped(list2, global[q], c) /\ Dropped(here, perVcb[VcbOf[c]][q], c)
  BY <1>2, <1>3, HeadsAreQueued, WithoutDrops, VcbOfAssumption
<1>7. "taken" \in ClosePlaces \ Queues /\ close[c] = q
  BY DEF ClosePlaces, Queues
<1> HIDE DEF q, list2, here
<1>8. /\ ListsMatch'
      /\ close' \in [Closes -> ClosePlaces] /\ global' \in [Queues -> Seq(Closes)]
      /\ perVcb' \in [Vcbs -> [Queues -> Seq(Closes)]] /\ count' \in [Queues -> Nat]
  BY <1>1, <1>2, <1>3, <1>6, <1>7, RemovedMatch, Zenon
<1>9. InLoop' = InLoop /\ w \in InLoop
  BY <1>1, <1>5 DEF InLoop
<1>10. active
  BY <1>9, TheWorker
<1>11. HoldsTaken'
  <2>1. \A d \in Closes : close[d] \in {"taken", "done"} => close'[d] \in {"taken", "done"}
    BY <1>1, <1>2, <1>3
  <2>2. close'[c] = "taken"
    BY <1>1, <1>2, <1>3
  <2>3. ASSUME NEW y \in Workers, worker'[y].pc \in {"vcb", "acquire", "close"}
        PROVE  /\ worker'[y].context \in Closes
               /\ close'[worker'[y].context] \in {"taken", "done"}
    <3>1. CASE y = w
      BY <1>3, <1>5, <2>2, <3>1
    <3>2. CASE y # w
      <4>1. worker'[y] = worker[y]
        BY <1>5, <3>2
      <4> QED
        BY <2>1, <2>3, <4>1 DEF CInv, HoldsTaken
    <3> QED
      BY <3>1, <3>2
  <2> QED
    BY <2>3 DEF HoldsTaken
<1>12. TypeOKClose'
  <2>1. high' \in [Queues -> BOOLEAN]
    BY <1>1, HighType
  <2> QED
    BY <1>1, <1>4, <1>8, <2>1 DEF CInv, ListsAgree, TypeOKClose, WorkerRecords
<1> QED
  BY <1>1, <1>8, <1>9, <1>10, <1>11, <1>12 DEF CInv, ListsAgree, NoneStranded, OneWorker

\* A round of FatFspClose for one volume.
LEMMA DrainStep ==
    ASSUME CInv, NEW v \in Vcbs, Drain(v)
    PROVE  CInv'
<1> DEFINE c == FirstOf(perVcb[v])
           q == close[c]
           list2 == Without(global[q], c)
           here == Tail(perVcb[v][q])
<1>1. /\ c # NoContext /\ close' = [close EXCEPT ![c] = "done"]
      /\ global' = [global EXCEPT ![q] = list2]
      /\ perVcb' = [perVcb EXCEPT ![v][q] = here]
      /\ count' = [count EXCEPT ![q] = @ - 1]
      /\ high' = high /\ active' = active /\ posting' = posting /\ worker' = worker
      /\ owner' = owner /\ shutdown' = shutdown
  BY DEF Drain
<1>2. ListsAgree /\ perVcb[v] \in [Queues -> Seq(Closes)]
  BY DEF CInv, ListsAgree, TypeOKClose
<1>3. PICK p \in Queues : perVcb[v][p] # << >> /\ c = Head(perVcb[v][p])
  BY <1>1, <1>2, FirstOfFacts
<1>4. c \in Closes /\ q = p /\ VcbOf[c] = v
  BY <1>2, <1>3, HeadsAreQueued
<1>5. Dropped(list2, global[q], c) /\ Dropped(here, perVcb[v][q], c)
  BY <1>2, <1>3, <1>4, HeadsAreQueued, WithoutDrops, TailDrops
<1>6. /\ "done" \in ClosePlaces \ Queues /\ close[c] = q /\ "done" \in ClosePlaces
      /\ close[c] \notin {"taken", "done"} /\ q \in Queues
  BY <1>4 DEF ClosePlaces, Queues
<1> HIDE DEF c, q, list2, here
<1>7. /\ perVcb' = [perVcb EXCEPT ![VcbOf[c]][q] = here]
      /\ Dropped(here, perVcb[VcbOf[c]][q], c)
  BY <1>1, <1>4, <1>5
<1>8. /\ ListsMatch'
      /\ close' \in [Closes -> ClosePlaces] /\ global' \in [Queues -> Seq(Closes)]
      /\ perVcb' \in [Vcbs -> [Queues -> Seq(Closes)]] /\ count' \in [Queues -> Nat]
      /\ Len(global'[q]) = Len(global[q]) - 1 /\ global[q] # << >>
      /\ \A r \in Queues \ {q} : global'[r] = global[r]
  BY <1>1, <1>2, <1>4, <1>5, <1>6, <1>7, RemovedMatch, Zenon
<1>9. HoldsTaken' /\ InLoop' = InLoop
  BY <1>1, <1>4, <1>6, WorkersStay
<1>10. NoneStranded'
  <2> SUFFICES ASSUME ~ active'
               PROVE  /\ global'["async"] = << >>
                      /\ Len(global'["delayed"]) <= MaxDelayedClose
    BY DEF NoneStranded
  <2>1. global["async"] = << >> /\ Len(global["delayed"]) <= MaxDelayedClose
    BY <1>1 DEF CInv, NoneStranded
  <2>2. q = "delayed" /\ global'["async"] = global["async"]
    BY <1>6, <1>8, <2>1 DEF Queues
  <2>3. Len(global["delayed"]) \in Nat /\ MaxDelayedClose \in Nat
    BY <1>2, MaxDelayedAssumption DEF ListsAgree, TypeOKClose, Queues
  <2> QED
    BY <1>8, <2>1, <2>2, <2>3
<1>11. TypeOKClose'
  BY <1>1, <1>2, <1>8 DEF ListsAgree, TypeOKClose
<1> QED
  BY <1>1, <1>8, <1>9, <1>10, <1>11 DEF CInv, ListsAgree, OneWorker

\* The volume is taken or given back, the shutdown begins, or nothing happens at all.
LEMMA ListsStayStep ==
    ASSUME CInv, close' = close, global' = global, perVcb' = perVcb, count' = count,
           high' = high, active' = active, posting' = posting, worker' = worker,
           owner' \in [Vcbs -> Owners], shutdown' \in BOOLEAN
    PROVE  CInv'
<1>1. ListsMatch'
  BY ListsUnchanged DEF CInv, ListsAgree
<1>2. TypeOKClose' /\ InLoop' = InLoop /\ HoldsTaken'
  BY DEF CInv, ListsAgree, TypeOKClose, InLoop, HoldsTaken
<1> QED
  BY <1>1, <1>2 DEF CInv, ListsAgree, NoneStranded, OneWorker

LEMMA VolumeTakenStep ==
    ASSUME CInv, NEW v \in Vcbs, DrainBegins(v) \/ DrainEnds(v)
    PROVE  CInv'
<1>1. \E o \in Owners : owner' = [owner EXCEPT ![v] = o]
  BY DEF DrainBegins, DrainEnds, Owners
<1>2. owner' \in [Vcbs -> Owners] /\ shutdown \in BOOLEAN
  BY <1>1, WorkerType DEF CInv, ListsAgree, TypeOKClose
<1> QED
  BY <1>2, ListsStayStep DEF DrainBegins, DrainEnds

LEMMA StartShutdownStep ==
    ASSUME CInv, StartShutdown
    PROVE  CInv'
BY WorkerType, ListsStayStep DEF StartShutdown

-----------------------------------------------------------------------------
(* The theorems about deferred closes *)

LEMMA InitCInv == InitClose => CInv
<1> SUFFICES ASSUME InitClose PROVE CInv
  OBVIOUS
<1>1. TypeOKClose
  BY EmptyList DEF InitClose, TypeOKClose, ClosePlaces, NoWork, WorkerPlaces, Owners, Queues
<1>2. ListsMatch
  <2>1. \A c \in Closes, q \in Queues : close[c] # q
    BY DEF InitClose, Queues
  <2>2. \A q \in Queues : /\ count[q] = 0 /\ global[q] = << >>
                          /\ \A v \in Vcbs : perVcb[v][q] = << >>
    BY DEF InitClose
  <2> QED
    BY <2>1, <2>2, EmptyList DEF ListsMatch
<1>3. InLoop = {} /\ HoldsTaken
  BY DEF InitClose, InLoop, NoWork, HoldsTaken
<1>4. IsFiniteSet(InLoop) /\ Cardinality(InLoop) = 0
  BY <1>3, FS_EmptySet
<1>5. OneWorker
  BY <1>4 DEF InitClose, OneWorker
<1>6. NoneStranded
  BY EmptyList, MaxDelayedAssumption DEF InitClose, NoneStranded, Queues
<1> QED
  BY <1>1, <1>2, <1>3, <1>4, <1>5, <1>6 DEF CInv, ListsAgree

LEMMA StepCInv == CInv /\ [NextClose]_closeVars => CInv'
<1> SUFFICES ASSUME CInv, [NextClose]_closeVars PROVE CInv'
  OBVIOUS
<1>1. CASE UNCHANGED closeVars
  BY <1>1, ListsStayStep, WorkerType DEF closeVars, CInv, ListsAgree, TypeOKClose
<1>2. ASSUME NEW c \in Closes, CloseNow(c) \/ \E q \in Queues : QueueClose(c, q)
      PROVE  CInv'
  BY <1>2, CloseNowStep, QueueCloseStep
<1>3. ASSUME NEW w \in Workers, CloseWorker(w)
      PROVE  CInv'
  BY <1>3, StartWorkerStep, NothingLeftStep, TakesCloseStep, WorkerReleasesStep,
     WorkerAcquiresStep, WorkerHoldsStep, WorkerClosesStep, WorkerExitsStep
  DEF CloseWorker
<1>4. ASSUME NEW v \in Vcbs, DrainBegins(v) \/ Drain(v) \/ DrainEnds(v)
      PROVE  CInv'
  BY <1>4, DrainStep, VolumeTakenStep
<1>5. CASE StartShutdown
  BY <1>5, StartShutdownStep
<1> QED
  BY <1>1, <1>2, <1>3, <1>4, <1>5 DEF NextClose

\* For every set of volumes, closes and threads and every limit: the invariant of the
\* deferred closes.
THEOREM CloseInvariant == SpecClose => []CInv
BY InitCInv, StepCInv, PTL DEF SpecClose

\* The list of a volume is the part of the driver's list that concerns it, in its order,
\* and the counts and the places of the closes agree with both.
THEOREM CloseLists == SpecClose => []ListsAgree
<1>1. CInv => ListsAgree
  BY DEF CInv
<1> QED
  BY <1>1, CloseInvariant, PTL

\* While AsyncCloseActive is clear nothing waits that needs a worker.
THEOREM ClosesServed == SpecClose => []NoneStranded
<1>1. CInv => NoneStranded
  BY DEF CInv
<1> QED
  BY <1>1, CloseInvariant, PTL

\* AsyncCloseActive stands for one worker, however many threads could run one.
THEOREM OneCloseWorker == SpecClose => []OneWorker
<1>1. CInv => OneWorker
  BY DEF CInv
<1> QED
  BY <1>1, CloseInvariant, PTL
=============================================================================
