--------------------------- MODULE SchedulerProofs ---------------------------
(***************************************************************************)
(* The requests of the scheduler, for every number of prompts, slots and   *)
(* pages. First their table slots: in an orderly run each slot is free     *)
(* once or belongs to one live request. Then their text: whatever is       *)
(* queued, running or waiting for its token goes on where the tokens       *)
(* sampled so far have left it, and nothing that is unfinished is lost.    *)
(* From the two follow that every prompt is in one place until it is       *)
(* complete, what the rollout client is given, and that the loop keeps the *)
(* promise of module Rollout. Nothing is used of the page pool, which only *)
(* decides what is admitted and what finds room.                           *)
(***************************************************************************)
EXTENDS Scheduler, NumberLemmas, FiniteSetTheorems

-----------------------------------------------------------------------------
(***************************************************************************)
(* The invariant                                                           *)
(***************************************************************************)
Request ==
  [uid : Uid, ids : Seq(Nat), slot : Slots, cached : Nat, device : Nat, maxDevice : Int,
   maxOut : Int, handle : Seq(Seq(Nat)), chunked : BOOLEAN]

Entry ==
  [uid : Uid, ids : Seq(Nat), limit : Int, fresh : BOOLEAN, decoded : Int,
   chunk : {<<>>} \cup {<<r>> : r \in Request}]

Params == [{ParamsOf[u] : u \in Uid} -> Int]

\* The chunks of a queue, and that no two entries hold the same.
ChunksIn(p) == {p[i].chunk[1] : i \in {j \in DOMAIN p : p[j].chunk # <<>>}}

OnceEach(p) ==
  \A i, j \in DOMAIN p : p[i].chunk # <<>> /\ p[i].chunk = p[j].chunk => i = j

\* The records are well formed, and as long as they say they are.
RequestsOK ==
  /\ prompt \in [Uid -> Seq(Nat)]
  /\ params \in Params
  /\ inbox \in Seq(Uid)
  /\ pending \in Seq(Entry)
  /\ running \in SUBSET Request /\ IsFiniteSet(running)
  /\ \A r \in running : CanDecode(r)
  /\ \A r \in running : (pc = "process" /\ r \in ToSet(batch.reqs)) \/ Len(r.ids) = r.device
  /\ batch \in [phase : {"none", "prefill", "decode"}, reqs : Seq(Request)]
  /\ \A r \in ToSet(batch.reqs) : Len(r.ids) = IF pc = "process" THEN r.device - 1 ELSE r.device
  /\ pc = "process" => /\ sampled \in [DOMAIN batch.reqs -> Token]
                       /\ \A r \in ToSet(batch.reqs) : r.cached = r.device - 1

\* What is in the batch is also running, between two chunks, or nowhere else.
BatchOK ==
  /\ pc \notin {"prepare", "forward", "process", "evict_error"} => batch = NoBatch
  /\ \A i, j \in DOMAIN batch.reqs : batch.reqs[i].slot = batch.reqs[j].slot => i = j
  /\ \A r \in ToSet(batch.reqs) : r.chunked => r \in Chunks
  /\ pc \in {"prepare", "forward"} =>
       IF batch.phase = "prefill" THEN ToSet(batch.reqs) \cap running = {}
       ELSE ToSet(batch.reqs) = running

ChunksOK == OnceEach(pending) /\ \A r \in Chunks : r.chunked

\* free are table slots, L the requests that hold the others.
Held(free, L) ==
  /\ free \in Seq(Slots)
  /\ \A i, j \in 1..Len(free) : free[i] = free[j] => i = j
  /\ L \subseteq Request
  /\ \A r \in L : \A i \in 1..Len(free) : free[i] # r.slot
  /\ \A q, r \in L : q.slot = r.slot => q = r
  /\ \A s \in Slots : (\E i \in 1..Len(free) : free[i] = s) \/ (\E r \in L : r.slot = s)

SlotsOK == Held(slots, Live)

SlotInv == RequestsOK /\ BatchOK /\ ChunksOK /\ SlotsOK

-----------------------------------------------------------------------------
(***************************************************************************)
(* Requests and slots                                                      *)
(***************************************************************************)
LEMMA ToSetIs ==
  ASSUME NEW X, NEW s \in Seq(X)
  PROVE  /\ ToSet(s) = {s[i] : i \in 1..Len(s)} /\ ToSet(s) \subseteq X
         /\ DOMAIN s = 1..Len(s) /\ Len(s) \in Nat
  BY DEF ToSet

LEMMA PartOf ==
  ASSUME NEW X, NEW s \in Seq(X), NEW a \in Nat \ {0}, NEW b \in 0..Len(s)
  PROVE  /\ SubSeq(s, a, b) \in Seq(X)
         /\ Len(SubSeq(s, a, b)) = IF a <= b THEN b - a + 1 ELSE 0
         /\ \A i \in 1..Len(SubSeq(s, a, b)) : SubSeq(s, a, b)[i] = s[a + i - 1] /\ a + i - 1 \in 1..Len(s)
<1> DEFINE t == SubSeq(s, a, b)
<1>1. Len(s) \in Nat
  OBVIOUS
<1>2. Len(t) = IF a <= b THEN b - a + 1 ELSE 0
  BY <1>1
<1>3. \A i \in 1..Len(t) : t[i] = s[a + i - 1] /\ a + i - 1 \in 1..Len(s)
  BY <1>1, <1>2
<1>4. t \in Seq(X)
  BY <1>1
<1>5. QED
  BY <1>2, <1>3, <1>4

LEMMA OneElement ==
  ASSUME NEW S, NEW T, NEW x, (S = {x} /\ T = {}) \/ (S = {} /\ T = {x})
  PROVE  Cardinality(S) + Cardinality(T) = 1
<1>1. Cardinality({x}) = 1 /\ Cardinality({}) = 0
  BY FS_Singleton, FS_EmptySet
<1>2. QED
  BY <1>1

\* Other requests with the same slots.
LEMMA HeldByOthers ==
  ASSUME NEW free, NEW L, Held(free, L), NEW M \in SUBSET Request,
         \A q \in M : \E r \in L : r.slot = q.slot,
         \A r \in L : \E q \in M : q.slot = r.slot,
         \A q, r \in M : q.slot = r.slot => q = r
  PROVE  Held(free, M)
<1>1. \A q \in M : \A i \in 1..Len(free) : free[i] # q.slot
  BY DEF Held
<1>2. \A s \in Slots : (\E i \in 1..Len(free) : free[i] = s) \/ (\E q \in M : q.slot = s)
  BY DEF Held
<1>3. QED
  BY <1>1, <1>2 DEF Held

\* A request gives up its slot.
LEMMA HeldFree ==
  ASSUME NEW free, NEW L, Held(free, L), NEW r \in L, NEW q, q.slot = r.slot
  PROVE  Held(FreeSlot(free, q), L \ {r})
<1> DEFINE f == FreeSlot(free, q)
<1>1. free \in Seq(Slots) /\ r.slot \in Slots /\ L \subseteq Request
  BY DEF Held, Request
<1>2. f = Append(free, r.slot)
  BY DEF FreeSlot
<1>3. /\ f \in Seq(Slots) /\ Len(f) = Len(free) + 1 /\ Len(free) \in Nat
      /\ f[Len(free) + 1] = r.slot /\ \A i \in 1..Len(free) : f[i] = free[i]
  BY <1>1, <1>2
<1> HIDE DEF f
<1>4. \A i \in 1..Len(f) : i = Len(free) + 1 \/ i \in 1..Len(free)
  BY <1>3
<1>5. \A i, j \in 1..Len(f) : f[i] = f[j] => i = j
  BY <1>3, <1>4 DEF Held
<1>6. \A x \in L \ {r} : \A i \in 1..Len(f) : f[i] # x.slot
  BY <1>3, <1>4 DEF Held
<1>7. ASSUME NEW s \in Slots
      PROVE  (\E i \in 1..Len(f) : f[i] = s) \/ (\E x \in L \ {r} : x.slot = s)
  <2>1. CASE \E i \in 1..Len(free) : free[i] = s
    BY <1>3, <2>1
  <2>2. CASE \E x \in L : x.slot = s
    <3>1. PICK x \in L : x.slot = s
      BY <2>2
    <3>2. CASE x = r
      <4>1. Len(free) + 1 \in 1..Len(f)
        BY <1>3
      <4>2. QED
        BY <1>3, <3>1, <3>2, <4>1
    <3>3. QED
      BY <3>1, <3>2
  <2>3. QED
    BY <2>1, <2>2 DEF Held
<1>8. \A x, y \in L \ {r} : x.slot = y.slot => x = y
  BY DEF Held
<1>9. QED
  BY <1>1, <1>3, <1>5, <1>6, <1>7, <1>8 DEF Held, f

\* A new request takes the last of the free slots.
LEMMA HeldTake ==
  ASSUME NEW free, NEW L, Held(free, L), free # <<>>, NEW q \in Request, q.slot = Last(free)
  PROVE  Held(Front(free), L \cup {q})
<1> DEFINE f == Front(free)
           n == Len(free)
<1>1. free \in Seq(Slots) /\ n \in Nat \ {0} /\ L \subseteq Request /\ q.slot = free[n]
  BY DEF Held, Last
<1>2. f \in Seq(Slots) /\ Len(f) = n - 1 /\ \A i \in 1..n - 1 : f[i] = free[i]
  <2>1. f = SubSeq(free, 1, n - 1)
    BY DEF Front
  <2> HIDE DEF f
  <2>2. n - 1 \in 0..n
    BY <1>1
  <2> HIDE DEF n
  <2>3. /\ f \in Seq(Slots) /\ Len(f) = IF 1 <= n - 1 THEN (n - 1) - 1 + 1 ELSE 0
        /\ \A i \in 1..Len(f) : f[i] = free[1 + i - 1]
    BY <1>1, <2>1, <2>2, PartOf DEF n
  <2>4. Len(f) = n - 1
    BY <1>1, <2>3
  <2>5. \A i \in 1..n - 1 : 1 + i - 1 = i
    OBVIOUS
  <2>6. QED
    BY <2>3, <2>4, <2>5
<1> HIDE DEF f, n
<1>3. n \in 1..n /\ \A i \in 1..Len(f) : i \in 1..n /\ i # n
  BY <1>1, <1>2
<1>4. \A i, j \in 1..n : free[i] = free[j] => i = j
  BY DEF Held, n
<1>5. \A i, j \in 1..Len(f) : f[i] = f[j] => i = j
  BY <1>2, <1>3, <1>4
<1>6. \A r \in L : \A i \in 1..n : free[i] # r.slot
  BY DEF Held, n
<1>7. \A r \in L \cup {q} : \A i \in 1..Len(f) : f[i] # r.slot
  BY <1>1, <1>2, <1>3, <1>4, <1>6
<1>8. \A x, y \in L \cup {q} : x.slot = y.slot => x = y
  <2>1. \A r \in L : r.slot # q.slot
    BY <1>1, <1>3, <1>6
  <2>2. QED
    BY <2>1 DEF Held
<1>9. ASSUME NEW s \in Slots
      PROVE  (\E i \in 1..Len(f) : f[i] = s) \/ (\E r \in L \cup {q} : r.slot = s)
  <2>1. CASE \E i \in 1..n : free[i] = s
    <3>1. PICK i \in 1..n : free[i] = s
      BY <2>1
    <3>2. i = n \/ i \in 1..Len(f)
      BY <1>1, <1>2
    <3>3. QED
      BY <1>1, <1>2, <3>1, <3>2
  <2>2. QED
    BY <2>1 DEF Held, n
<1>10. QED
  BY <1>1, <1>2, <1>5, <1>7, <1>8, <1>9 DEF Held, f

\* What Held says of one slot.
LEMMA HeldOnce ==
  ASSUME NEW free, NEW L, Held(free, L), NEW s \in Slots
  PROVE  Cardinality({i \in DOMAIN free : free[i] = s}) + Cardinality({r \in L : r.slot = s}) = 1
<1> DEFINE I == {i \in DOMAIN free : free[i] = s}
           R == {r \in L : r.slot = s}
<1>1. DOMAIN free = 1..Len(free)
  BY DEF Held
<1>2. CASE \E i \in 1..Len(free) : free[i] = s
  <2>1. PICK i \in 1..Len(free) : free[i] = s
    BY <1>2
  <2>2. I = {i} /\ R = {}
    BY <1>1, <2>1 DEF Held
  <2> HIDE DEF I, R
  <2>3. Cardinality(I) + Cardinality(R) = 1
    BY <2>2, OneElement
  <2>4. QED
    BY <2>3 DEF I, R
<1>3. CASE ~ \E i \in 1..Len(free) : free[i] = s
  <2>1. PICK r \in L : r.slot = s
    BY <1>3 DEF Held
  <2>2. I = {} /\ R = {r}
    BY <1>1, <1>3, <2>1 DEF Held
  <2> HIDE DEF I, R
  <2>3. Cardinality(I) + Cardinality(R) = 1
    BY <2>2, OneElement
  <2>4. QED
    BY <2>3 DEF I, R
<1>4. QED
  BY <1>2, <1>3

-----------------------------------------------------------------------------
(***************************************************************************)
(* Sorting                                                                 *)
(***************************************************************************)
\* The number of elements before each one puts a finite order in a row.
Rank(R, n, i) == Cardinality({j \in 1..n : <<j, i>> \in R}) + 1

LEMMA RanksPermute ==
  ASSUME NEW n \in Nat, NEW R,
         \A i \in 1..n : <<i, i>> \notin R,
         \A i, j, k \in 1..n : <<i, j>> \in R /\ <<j, k>> \in R => <<i, k>> \in R,
         \A i, j \in 1..n : i = j \/ <<i, j>> \in R \/ <<j, i>> \in R
  PROVE  /\ \A i \in 1..n : Rank(R, n, i) \in 1..n
         /\ \A i, j \in 1..n : Rank(R, n, i) = Rank(R, n, j) => i = j
         /\ \A k \in 1..n : \E i \in 1..n : Rank(R, n, i) = k
<1> DEFINE N == 1..n
           Before(i) == {j \in N : <<j, i>> \in R}
           f == [i \in N |-> Cardinality(Before(i)) + 1]
<1>1. IsFiniteSet(N) /\ Cardinality(N) = n
  BY FS_Interval
<1>2. ASSUME NEW i \in N
      PROVE  IsFiniteSet(Before(i)) /\ Cardinality(Before(i)) \in Nat
  <2>1. Before(i) \subseteq N
    OBVIOUS
  <2> HIDE DEF N, Before
  <2>2. QED
    BY <1>1, <2>1, FS_Subset, FS_CardinalityType
<1>3. ASSUME NEW i \in N
      PROVE  f[i] \in N
  <2>1. Before(i) \subseteq N \ {i}
    OBVIOUS
  <2>2. IsFiniteSet(N \ {i}) /\ Cardinality(N \ {i}) = n - 1
    BY <1>1, FS_RemoveElement
  <2>3. Cardinality(Before(i)) <= n - 1
    <3> HIDE DEF N, Before
    <3> QED
      BY <2>1, <2>2, FS_Subset
  <2>4. Cardinality(Before(i)) \in Nat
    BY <1>2
  <2>5. f[i] = Cardinality(Before(i)) + 1
    OBVIOUS
  <2> HIDE DEF f, Before
  <2>6. QED
    BY <2>3, <2>4, <2>5
<1>4. ASSUME NEW i \in N, NEW j \in N, f[i] = f[j]
      PROVE  i = j
  <2>1. ASSUME NEW x \in N, NEW y \in N, <<x, y>> \in R
        PROVE  f[x] # f[y]
    <3>1. Before(x) \subseteq Before(y) /\ x \in Before(y) /\ x \notin Before(x)
      BY <2>1
    <3>2. IsFiniteSet(Before(y)) /\ Cardinality(Before(x)) \in Nat /\ Cardinality(Before(y)) \in Nat
      BY <1>2
    <3>3. Cardinality(Before(x)) # Cardinality(Before(y))
      <4> HIDE DEF Before
      <4> QED
        BY <3>1, <3>2, FS_Subset
    <3>4. f[x] = Cardinality(Before(x)) + 1 /\ f[y] = Cardinality(Before(y)) + 1
      OBVIOUS
    <3> HIDE DEF f, Before
    <3>5. QED
      BY <3>2, <3>3, <3>4
  <2>2. QED
    BY <1>4, <2>1
<1>5. f \in Injection(N, N)
  <2>1. f \in [N -> N]
    BY <1>3
  <2>2. IsInjective(f)
    <3>1. DOMAIN f = N
      OBVIOUS
    <3> HIDE DEF f, N
    <3>2. QED
      BY <1>4, <3>1 DEF IsInjective
  <2> HIDE DEF f, N
  <2>3. QED
    BY <2>1, <2>2 DEF Injection
<1>6. f \in Surjection(N, N)
  <2> HIDE DEF f, N
  <2> QED
    BY <1>1, <1>5, FS_Injection
<1>7. \A k \in N : \E i \in N : f[i] = k
  BY <1>6 DEF Surjection
<1>8. \A i \in N : f[i] = Rank(R, n, i)
  BY DEF Rank
<1> HIDE DEF f
<1>9. QED
  BY <1>3, <1>4, <1>7, <1>8, SMTT(30)

LEMMA LexIs ==
  ASSUME NEW a \in Int, NEW b \in Int, NEW c \in Int, NEW d \in Int, NEW e \in Int, NEW f \in Int
  PROVE  /\ LexLess(<<a, b, c>>, <<d, e, f>>) <=>
              a < d \/ (a = d /\ b < e) \/ (a = d /\ b = e /\ c < f)
         /\ <<a, b, c>> = <<d, e, f>> <=> a = d /\ b = e /\ c = f
<1> DEFINE x == <<a, b, c>>
           y == <<d, e, f>>
<1>1. x[1] = a /\ x[2] = b /\ x[3] = c /\ y[1] = d /\ y[2] = e /\ y[3] = f
  OBVIOUS
<1>2. x = y <=> a = d /\ b = e /\ c = f
  BY <1>1
<1>3. 1..3 = {1, 2, 3} /\ 1..1 - 1 = {} /\ 1..2 - 1 = {1} /\ 1..3 - 1 = {1, 2}
  OBVIOUS
<1> HIDE DEF x, y
<1>4. LexLess(x, y) <=> \/ x[1] < y[1] /\ \A j \in 1..1 - 1 : x[j] = y[j]
                        \/ x[2] < y[2] /\ \A j \in 1..2 - 1 : x[j] = y[j]
                        \/ x[3] < y[3] /\ \A j \in 1..3 - 1 : x[j] = y[j]
  BY <1>3, Zenon DEF LexLess
<1>5. LexLess(x, y) <=> a < d \/ (a = d /\ b < e) \/ (a = d /\ b = e /\ c < f)
  BY <1>1, <1>3, <1>4
<1>6. QED
  BY <1>2, <1>5 DEF x, y

\* The order of the keys, and of the places where they are equal.
KeyLess(a, b, c, i, d, e, f, j) ==
  a < d \/ (a = d /\ b < e) \/ (a = d /\ b = e /\ c < f) \/ (a = d /\ b = e /\ c = f /\ i < j)

LEMMA KeyOrder ==
  ASSUME NEW a \in Int, NEW b \in Int, NEW c \in Int, NEW i \in Int,
         NEW d \in Int, NEW e \in Int, NEW f \in Int, NEW j \in Int,
         NEW u \in Int, NEW v \in Int, NEW w \in Int, NEW k \in Int
  PROVE  /\ ~ KeyLess(a, b, c, i, a, b, c, i)
         /\ i = j \/ KeyLess(a, b, c, i, d, e, f, j) \/ KeyLess(d, e, f, j, a, b, c, i)
         /\ KeyLess(a, b, c, i, d, e, f, j) /\ KeyLess(d, e, f, j, u, v, w, k)
              => KeyLess(a, b, c, i, u, v, w, k)
  BY DEF KeyLess

\* The queue after list.sort is the queue in another order.
LEMMA SortedIs ==
  ASSUME NEW q \in Params, NEW p \in Seq(Entry)
  PROVE  /\ SortPending(q, p) \in Seq(Entry) /\ Len(SortPending(q, p)) = Len(p)
         /\ \E g \in [1..Len(p) -> 1..Len(p)] :
              /\ \A k \in 1..Len(p) : SortPending(q, p)[k] = p[g[k]]
              /\ \A k, l \in 1..Len(p) : g[k] = g[l] => k = l
              /\ \A i \in 1..Len(p) : \E k \in 1..Len(p) : g[k] = i
<1> DEFINE n == Len(p)
           Key(i) == PriorityKey(q, p[i])
           Before(i, j) == LexLess(Key(i), Key(j)) \/ (Key(i) = Key(j) /\ i < j)
           R == {ij \in (1..n) \X (1..n) : Before(ij[1], ij[2])}
           A(i) == Len(p[i].ids) + MaxOutputLen(q, p[i])
           B(i) == Len(p[i].ids)
           C(i) == p[i].uid
<1>1. n \in Nat /\ DOMAIN p = 1..n /\ \A i \in 1..n : p[i] \in Entry
  OBVIOUS
<1>2. ASSUME NEW i \in 1..n
      PROVE  A(i) \in Int /\ B(i) \in Int /\ C(i) \in Int /\ Key(i) = <<A(i), B(i), C(i)>>
  <2>1. /\ p[i].ids \in Seq(Nat) /\ p[i].uid \in Uid /\ p[i].limit \in Int /\ p[i].fresh \in BOOLEAN
    BY <1>1 DEF Entry
  <2>2. MaxOutputLen(q, p[i]) \in Int
    BY <2>1 DEF MaxOutputLen, Params
  <2>3. p[i].uid \in Int
    BY <2>1, QueueAssumption, FS_CardinalityType
  <2>4. QED
    BY <2>1, <2>2, <2>3 DEF PriorityKey
<1>3. ASSUME NEW i \in 1..n, NEW j \in 1..n
      PROVE  /\ <<i, j>> \in R <=> Before(i, j)
             /\ Before(i, j) <=> KeyLess(A(i), B(i), C(i), i, A(j), B(j), C(j), j)
  <2>1. <<i, j>> \in R <=> Before(i, j)
    <3> HIDE DEF Before
    <3> QED
      OBVIOUS
  <2>2. A(i) \in Int /\ B(i) \in Int /\ C(i) \in Int /\ A(j) \in Int /\ B(j) \in Int /\ C(j) \in Int
        /\ Key(i) = <<A(i), B(i), C(i)>> /\ Key(j) = <<A(j), B(j), C(j)>>
    BY <1>2
  <2> HIDE DEF A, B, C, Key
  <2>3. QED
    BY <2>1, <2>2, LexIs, SMTT(30) DEF KeyLess
<1> HIDE DEF R, A, B, C, Key, Before
<1>4. \A i \in 1..n : <<i, i>> \notin R
  BY <1>2, <1>3, KeyOrder
<1>5. ASSUME NEW i \in 1..n, NEW j \in 1..n, NEW k \in 1..n, <<i, j>> \in R, <<j, k>> \in R
      PROVE  <<i, k>> \in R
  <2>1. A(i) \in Int /\ B(i) \in Int /\ C(i) \in Int /\ A(j) \in Int /\ B(j) \in Int /\ C(j) \in Int
        /\ A(k) \in Int /\ B(k) \in Int /\ C(k) \in Int /\ i \in Int /\ j \in Int /\ k \in Int
    BY <1>2
  <2>2. /\ KeyLess(A(i), B(i), C(i), i, A(j), B(j), C(j), j)
        /\ KeyLess(A(j), B(j), C(j), j, A(k), B(k), C(k), k)
    BY <1>3, <1>5
  <2>3. KeyLess(A(i), B(i), C(i), i, A(k), B(k), C(k), k)
    BY ONLY <2>1, <2>2, KeyOrder
  <2>4. QED
    BY <1>3, <2>3
<1>6. ASSUME NEW i \in 1..n, NEW j \in 1..n
      PROVE  i = j \/ <<i, j>> \in R \/ <<j, i>> \in R
  <2>1. A(i) \in Int /\ B(i) \in Int /\ C(i) \in Int /\ A(j) \in Int /\ B(j) \in Int /\ C(j) \in Int
        /\ i \in Int /\ j \in Int
    BY <1>2
  <2>2. \/ i = j
        \/ KeyLess(A(i), B(i), C(i), i, A(j), B(j), C(j), j)
        \/ KeyLess(A(j), B(j), C(j), j, A(i), B(i), C(i), i)
    BY ONLY <2>1, KeyOrder
  <2>3. QED
    BY <1>3, <2>2
<1> DEFINE Place(i) == Cardinality({j \in 1..n : Before(j, i)}) + 1
           Pick(k) == CHOOSE i \in 1..n : Place(i) = k
           g == [k \in 1..n |-> Pick(k)]
<1>7. /\ \A i \in 1..n : Place(i) \in 1..n
      /\ \A i, j \in 1..n : Place(i) = Place(j) => i = j
      /\ \A k \in 1..n : \E i \in 1..n : Place(i) = k
  <2>1. ASSUME NEW i \in 1..n
        PROVE  Place(i) = Rank(R, n, i)
    <3>1. {j \in 1..n : <<j, i>> \in R} = {j \in 1..n : Before(j, i)}
      BY <1>3
    <3>2. QED
      BY <3>1 DEF Rank
  <2>2. /\ \A i \in 1..n : Rank(R, n, i) \in 1..n
        /\ \A i, j \in 1..n : Rank(R, n, i) = Rank(R, n, j) => i = j
        /\ \A k \in 1..n : \E i \in 1..n : Rank(R, n, i) = k
    <3> HIDE DEF n
    <3>1. n \in Nat
      BY <1>1
    <3>2. \A i, j, k \in 1..n : <<i, j>> \in R /\ <<j, k>> \in R => <<i, k>> \in R
      BY <1>5
    <3>3. \A i, j \in 1..n : i = j \/ <<i, j>> \in R \/ <<j, i>> \in R
      BY <1>6
    <3>4. QED
      BY ONLY <3>1, <3>2, <3>3, <1>4, RanksPermute
  <2> HIDE DEF Place
  <2>3. QED
    BY <2>1, <2>2
<1>8. \A k \in 1..n : Pick(k) \in 1..n /\ Place(Pick(k)) = k
  <2> HIDE DEF Place
  <2> QED
    BY <1>7
<1>20. /\ g \in [1..n -> 1..n]
       /\ \A k, l \in 1..n : g[k] = g[l] => k = l
       /\ \A i \in 1..n : \E k \in 1..n : g[k] = i
  <2>1. \A k \in 1..n : g[k] = Pick(k)
    OBVIOUS
  <2>2. g \in [1..n -> 1..n]
    BY <1>8
  <2> HIDE DEF Place, Pick, g
  <2>3. QED
    BY <1>7, <1>8, <2>1, <2>2
<1>9. SortPending(q, p) = [k \in 1..n |-> p[Pick(k)]]
  BY <1>1 DEF SortPending, Before, Key
<1>10. ASSUME NEW k \in 1..n
       PROVE  SortPending(q, p)[k] = p[g[k]]
  <2> HIDE DEF Pick
  <2> QED
    BY <1>9
<1> HIDE DEF g, Pick, Place
<1>11. SortPending(q, p) \in [1..n -> Entry]
  <2>1. \A k \in 1..n : p[g[k]] \in Entry
    BY <1>1, <1>20
  <2>2. DOMAIN SortPending(q, p) = 1..n
    BY <1>9
  <2>3. SortPending(q, p) = [k \in 1..n |-> SortPending(q, p)[k]]
    BY <1>9
  <2> HIDE DEF n
  <2>4. QED
    BY <1>10, <2>1, <2>2, <2>3
<1>12. SortPending(q, p) \in Seq(Entry) /\ Len(SortPending(q, p)) = n
  <2> HIDE DEF n
  <2> QED
    BY <1>1, <1>11
<1>13. QED
  BY <1>10, <1>12, <1>20

-----------------------------------------------------------------------------
(***************************************************************************)
(* The chunks of a queue                                                   *)
(***************************************************************************)
LEMMA ChunksAre ==
  ASSUME NEW p \in Seq(Entry)
  PROVE  /\ \A i \in 1..Len(p) : p[i] \in Entry
         /\ \A i \in 1..Len(p) : p[i].chunk # <<>> =>
              p[i].chunk[1] \in Request /\ p[i].chunk[1] \in ChunksIn(p) /\ p[i].chunk = <<p[i].chunk[1]>>
         /\ \A r \in ChunksIn(p) : \E i \in 1..Len(p) : p[i].chunk = <<r>> /\ r \in Request
<1>1. DOMAIN p = 1..Len(p) /\ \A i \in 1..Len(p) : p[i] \in Entry
  OBVIOUS
<1>2. ASSUME NEW i \in 1..Len(p), p[i].chunk # <<>>
      PROVE  p[i].chunk[1] \in Request /\ p[i].chunk = <<p[i].chunk[1]>>
  <2>1. p[i].chunk \in {<<r>> : r \in Request}
    BY <1>1, <1>2 DEF Entry
  <2>2. PICK r \in Request : p[i].chunk = <<r>>
    BY <2>1
  <2>3. p[i].chunk[1] = r
    BY <2>2
  <2>4. QED
    BY <2>2, <2>3
<1>3. QED
  BY <1>1, <1>2 DEF ChunksIn

LEMMA SameChunks ==
  ASSUME NEW p \in Seq(Entry), NEW q \in Seq(Entry), Len(q) = Len(p),
         NEW g \in [1..Len(p) -> 1..Len(p)],
         \A k \in 1..Len(p) : q[k] = p[g[k]],
         \A k, l \in 1..Len(p) : g[k] = g[l] => k = l,
         \A i \in 1..Len(p) : \E k \in 1..Len(p) : g[k] = i
  PROVE  ChunksIn(q) = ChunksIn(p) /\ (OnceEach(p) => OnceEach(q))
<1>1. DOMAIN p = 1..Len(p) /\ DOMAIN q = 1..Len(p)
  OBVIOUS
<1>2. ChunksIn(q) = ChunksIn(p)
  <2>1. \A k \in 1..Len(p) : g[k] \in 1..Len(p)
    OBVIOUS
  <2>2. ASSUME NEW r \in ChunksIn(q) PROVE r \in ChunksIn(p)
    BY <1>1, <2>1, <2>2 DEF ChunksIn
  <2>3. ASSUME NEW r \in ChunksIn(p) PROVE r \in ChunksIn(q)
    BY <1>1, <2>1, <2>3 DEF ChunksIn
  <2>4. QED
    BY <2>2, <2>3
<1>3. ASSUME OnceEach(p), NEW i \in 1..Len(p), NEW j \in 1..Len(p),
             q[i].chunk # <<>>, q[i].chunk = q[j].chunk
      PROVE  i = j
  <2>1. q[i] = p[g[i]] /\ q[j] = p[g[j]] /\ g[i] \in 1..Len(p) /\ g[j] \in 1..Len(p)
    OBVIOUS
  <2>4. \A a, b \in 1..Len(p) : p[a].chunk # <<>> /\ p[a].chunk = p[b].chunk => a = b
    BY <1>1, <1>3 DEF OnceEach
  <2>5. p[g[i]].chunk # <<>> /\ p[g[i]].chunk = p[g[j]].chunk
    BY <1>3, <2>1, Zenon
  <2>2. g[i] = g[j]
    BY <2>1, <2>4, <2>5
  <2>3. QED
    BY <2>2
<1>4. QED
  BY <1>1, <1>2, <1>3 DEF OnceEach

LEMMA SortedChunks ==
  ASSUME NEW q \in Params, NEW p \in Seq(Entry)
  PROVE  /\ SortPending(q, p) \in Seq(Entry)
         /\ ChunksIn(SortPending(q, p)) = ChunksIn(p)
         /\ OnceEach(p) => OnceEach(SortPending(q, p))
<1> DEFINE s == SortPending(q, p)
<1>1. /\ s \in Seq(Entry) /\ Len(s) = Len(p)
      /\ \E g \in [1..Len(p) -> 1..Len(p)] :
           /\ \A k \in 1..Len(p) : s[k] = p[g[k]]
           /\ \A k, l \in 1..Len(p) : g[k] = g[l] => k = l
           /\ \A i \in 1..Len(p) : \E k \in 1..Len(p) : g[k] = i
  BY SortedIs
<1> HIDE DEF s
<1>2. PICK g \in [1..Len(p) -> 1..Len(p)] :
        /\ \A k \in 1..Len(p) : s[k] = p[g[k]]
        /\ \A k, l \in 1..Len(p) : g[k] = g[l] => k = l
        /\ \A i \in 1..Len(p) : \E k \in 1..Len(p) : g[k] = i
  BY <1>1
<1>3. ChunksIn(s) = ChunksIn(p) /\ (OnceEach(p) => OnceEach(s))
  BY <1>1, <1>2, SameChunks
<1>4. QED
  BY <1>1, <1>3 DEF s

\* Two queues, one after the other.
LEMMA JoinedChunks ==
  ASSUME NEW p \in Seq(Entry), NEW q \in Seq(Entry)
  PROVE  /\ p \o q \in Seq(Entry) /\ ChunksIn(p \o q) = ChunksIn(p) \cup ChunksIn(q)
         /\ OnceEach(p) /\ OnceEach(q) /\ ChunksIn(p) \cap ChunksIn(q) = {} => OnceEach(p \o q)
<1> DEFINE s == p \o q
           m == Len(p)
           n == Len(q)
<1>1. /\ s \in Seq(Entry) /\ Len(s) = m + n /\ m \in Nat /\ n \in Nat
      /\ \A i \in 1..m : s[i] = p[i]
      /\ \A i \in 1..n : s[m + i] = q[i]
      /\ DOMAIN p = 1..m /\ DOMAIN q = 1..n /\ DOMAIN s = 1..m + n
  OBVIOUS
<1> HIDE DEF s, m, n
<1>2. \A i \in 1..m + n : i \in 1..m \/ (i - m \in 1..n /\ i = m + (i - m))
  BY <1>1
<1>3. (\A i \in 1..m : i \in 1..m + n) /\ (\A i \in 1..n : m + i \in 1..m + n)
  BY <1>1
<1>4. ASSUME NEW r \in ChunksIn(s) PROVE r \in ChunksIn(p) \cup ChunksIn(q)
  <2>1. PICK i \in 1..m + n : s[i].chunk # <<>> /\ r = s[i].chunk[1]
    BY <1>1, <1>4 DEF ChunksIn
  <2>2. CASE i \in 1..m
    BY <1>1, <2>1, <2>2 DEF ChunksIn
  <2>3. CASE i - m \in 1..n /\ i = m + (i - m)
    <3>1. s[i] = q[i - m]
      BY <1>1, <2>3
    <3>2. i - m \in DOMAIN q /\ q[i - m].chunk # <<>> /\ r = q[i - m].chunk[1]
      BY <1>1, <2>1, <2>3, <3>1
    <3>3. r \in ChunksIn(q)
      BY <3>2 DEF ChunksIn
    <3>4. QED
      BY <3>3
  <2>4. QED
    BY <1>2, <2>2, <2>3
<1>5. ASSUME NEW r \in ChunksIn(p) PROVE r \in ChunksIn(s)
  BY <1>1, <1>3, <1>5 DEF ChunksIn
<1>6. ASSUME NEW r \in ChunksIn(q) PROVE r \in ChunksIn(s)
  <2>1. PICK i \in 1..n : q[i].chunk # <<>> /\ r = q[i].chunk[1]
    BY <1>1, <1>6 DEF ChunksIn
  <2>2. s[m + i] = q[i] /\ m + i \in 1..m + n
    BY <1>1, <1>3
  <2>3. QED
    BY <1>1, <2>1, <2>2 DEF ChunksIn
<1>7. ChunksIn(s) = ChunksIn(p) \cup ChunksIn(q)
  BY <1>4, <1>5, <1>6
<1>8. ASSUME OnceEach(p), OnceEach(q), ChunksIn(p) \cap ChunksIn(q) = {}
      PROVE  OnceEach(s)
  <2> SUFFICES ASSUME NEW i \in 1..m + n, NEW j \in 1..m + n,
                      s[i].chunk # <<>>, s[i].chunk = s[j].chunk
               PROVE  i = j
    BY <1>1 DEF OnceEach
  <2>1. CASE i \in 1..m /\ j \in 1..m
    BY <1>1, <1>8, <2>1, SMTT(30) DEF OnceEach
  <2>2. CASE i - m \in 1..n /\ i = m + (i - m) /\ j - m \in 1..n /\ j = m + (j - m)
    <3>1. s[i] = q[i - m] /\ s[j] = q[j - m]
      BY <1>1, <2>2
    <3>2. i - m = j - m
      BY <1>1, <1>8, <2>2, <3>1 DEF OnceEach
    <3>3. QED
      BY <2>2, <3>2
  <2>3. ASSUME NEW a \in 1..m, NEW b \in 1..n, p[a].chunk # <<>>, p[a].chunk = q[b].chunk
        PROVE  FALSE
    <3>1. p[a].chunk[1] \in ChunksIn(p) /\ q[b].chunk[1] \in ChunksIn(q)
      BY <1>1, <2>3 DEF ChunksIn
    <3>2. QED
      BY <1>8, <2>3, <3>1
  <2>4. CASE i \in 1..m /\ j - m \in 1..n /\ j = m + (j - m)
    <3>1. s[i] = p[i] /\ s[j] = q[j - m]
      BY <1>1, <2>4
    <3>2. QED
      BY <2>3, <2>4, <3>1
  <2>5. CASE j \in 1..m /\ i - m \in 1..n /\ i = m + (i - m)
    <3>1. s[j] = p[j] /\ s[i] = q[i - m]
      BY <1>1, <2>5
    <3>2. QED
      BY <2>3, <2>5, <3>1
  <2>6. QED
    BY <1>2, <2>1, <2>2, <2>4, <2>5
<1>9. QED
  BY <1>1, <1>7, <1>8 DEF s

LEMMA AppendedChunks ==
  ASSUME NEW p \in Seq(Entry), NEW e \in Entry, e.chunk = <<>>
  PROVE  /\ Append(p, e) \in Seq(Entry) /\ ChunksIn(Append(p, e)) = ChunksIn(p)
         /\ OnceEach(p) => OnceEach(Append(p, e))
<1> DEFINE s == Append(p, e)
           m == Len(p)
<1>1. /\ s \in Seq(Entry) /\ m \in Nat /\ DOMAIN p = 1..m /\ DOMAIN s = 1..m + 1
      /\ s[m + 1] = e /\ \A i \in 1..m : s[i] = p[i]
  OBVIOUS
<1> HIDE DEF s, m
<1>2. \A i \in 1..m + 1 : i = m + 1 \/ i \in 1..m
  BY <1>1
<1>3. \A i \in 1..m : i \in 1..m + 1
  BY <1>1
<1>4. \A i \in 1..m + 1 : s[i].chunk # <<>> => i \in 1..m /\ s[i] = p[i]
  BY <1>1, <1>2
<1>5. ASSUME NEW r \in ChunksIn(s) PROVE r \in ChunksIn(p)
  BY <1>1, <1>4, <1>5 DEF ChunksIn
<1>6. ASSUME NEW r \in ChunksIn(p) PROVE r \in ChunksIn(s)
  BY <1>1, <1>3, <1>6 DEF ChunksIn
<1>7. OnceEach(p) => OnceEach(s)
  BY <1>1, <1>4 DEF OnceEach
<1>8. QED
  BY <1>1, <1>5, <1>6, <1>7 DEF s

-----------------------------------------------------------------------------
(***************************************************************************)
(* Records that are built                                                  *)
(***************************************************************************)
LEMMA RequestIs ==
  ASSUME NEW r \in Request
  PROVE  /\ r.uid \in Uid /\ r.ids \in Seq(Nat) /\ r.slot \in Slots /\ r.cached \in Nat /\ r.device \in Nat
         /\ r.maxDevice \in Int /\ r.maxOut \in Int /\ r.handle \in Seq(Seq(Nat)) /\ r.chunked \in BOOLEAN
  BY DEF Request

LEMMA CompletedIs ==
  ASSUME NEW r \in Request
  PROVE  /\ CompleteOne(r) \in Request
         /\ CompleteOne(r).slot = r.slot /\ CompleteOne(r).chunked = r.chunked
         /\ CompleteOne(r).uid = r.uid
         /\ CompleteOne(r).ids = r.ids /\ CompleteOne(r).device = r.device + 1
         /\ CompleteOne(r).cached = r.device /\ CompleteOne(r).maxDevice = r.maxDevice
<1>1. r.device \in Nat /\ r.device + 1 \in Nat
  BY DEF Request
<1>2. CompleteOne(r) = [r EXCEPT !.cached = r.device, !.device = r.device + 1]
  BY DEF CompleteOne
<1>3. QED
  BY <1>1, <1>2 DEF Request

LEMMA ExtendedIs ==
  ASSUME NEW r \in Request, NEW t \in Nat
  PROVE  LET x == [r EXCEPT !.ids = Append(@, t)]
         IN  /\ x \in Request /\ x.ids = Append(r.ids, t)
             /\ x.uid = r.uid /\ x.slot = r.slot /\ x.chunked = r.chunked /\ x.handle = r.handle
             /\ x.cached = r.cached /\ x.device = r.device
             /\ x.maxDevice = r.maxDevice /\ x.maxOut = r.maxOut
<1>1. Append(r.ids, t) \in Seq(Nat)
  BY DEF Request
<1>2. QED
  BY <1>1 DEF Request

LEMMA ToPendingIs ==
  ASSUME NEW r \in Request, r.device <= Len(r.ids)
  PROVE  ToPending(r) \in Entry /\ ToPending(r).chunk = <<>>
<1>1. r.ids \in Seq(Nat) /\ r.device \in 0..Len(r.ids) /\ r.uid \in Uid
      /\ RemainLen(r) \in Int /\ DecodedLen(r) \in Int
  BY DEF Request, RemainLen, DecodedLen
<1>2. SubSeq(r.ids, 1, r.device) \in Seq(Nat)
  BY <1>1, PartOf
<1>3. QED
  BY <1>1, <1>2 DEF ToPending, Entry

LEMMA FreshIs ==
  ASSUME prompt \in [Uid -> Seq(Nat)], NEW u \in Uid
  PROVE  FreshPending(u) \in Entry /\ FreshPending(u).chunk = <<>>
  BY DEF FreshPending, Entry

LEMMA BlocksAre ==
  ASSUME NEW s \in Seq(Nat)
  PROVE  Blocks(s) \in Seq(Seq(Nat)) /\ Len(Blocks(s)) = Len(s) \div PageSize
         /\ Len(s) \div PageSize \in Nat /\ (Len(s) \div PageSize) * PageSize <= Len(s)
<1> DEFINE P == PageSize
           n == Len(s) \div P
<1>1. Len(s) \in Nat /\ P \in Nat \ {0}
  BY PoolAssumption
<1>2. n \in Nat /\ Len(s) % P \in 0..P - 1 /\ Len(s) = n * P + (Len(s) % P)
  <2> HIDE DEF P
  <2> QED
    BY <1>1, QuotientAndRest
<1> HIDE DEF P, n
<1>3. n * P \in Nat /\ n * P <= Len(s)
  BY <1>1, <1>2
<1>4. ASSUME NEW i \in 1..n
      PROVE  SubSeq(s, (i - 1) * P + 1, i * P) \in Seq(Nat)
  <2>1. (i - 1) * P \in Nat /\ i * P \in Nat /\ i * P <= n * P
    BY <1>1, <1>2
  <2>2. (i - 1) * P + 1 \in Nat \ {0} /\ i * P \in 0..Len(s)
    BY <1>1, <1>3, <2>1
  <2>3. QED
    BY <2>2, PartOf
<1>5. Blocks(s) = [i \in 1..n |-> SubSeq(s, (i - 1) * P + 1, i * P)]
  BY DEF Blocks, P, n
<1>6. Blocks(s) \in Seq(Seq(Nat)) /\ Len(Blocks(s)) = n
  BY <1>2, <1>4, <1>5
<1>7. QED
  BY <1>2, <1>3, <1>6 DEF P, n

LEMMA MatchedIs ==
  ASSUME NEW t, NEW key \in Seq(Seq(Nat))
  PROVE  Matched(t, key) \in Seq(Seq(Nat)) /\ Len(Matched(t, key)) \in 0..Len(key)
<1> DEFINE K == {k \in 0..Len(key) : SubSeq(key, 1, k) \in Cached(t) \cup {Root}}
           P(k) == /\ SubSeq(key, 1, k) \in Cached(t) \cup {Root}
                   /\ \A j \in 0..Len(key) : SubSeq(key, 1, j) \in Cached(t) => j <= k
<1>1. Len(key) \in Nat
  OBVIOUS
<1>2. SubSeq(key, 1, 0) = <<>>
  OBVIOUS
<1>3. K \subseteq Nat /\ 0 \in K /\ \A k \in K : k <= Len(key)
  BY <1>1, <1>2 DEF Root
<1>4. PICK k \in K : \A j \in K : j <= k
  <2> HIDE DEF K
  <2> QED
    BY <1>1, <1>3, GreatestNumber
<1>5. k \in 0..Len(key) /\ P(k)
  BY <1>4
<1>6. MatchLen(t, key) \in 0..Len(key)
  <2>1. MatchLen(t, key) = CHOOSE i \in 0..Len(key) : P(i)
    BY DEF MatchLen
  <2> HIDE DEF P
  <2>2. QED
    BY <1>5, <2>1
<1>7. QED
  <2> DEFINE m == MatchLen(t, key)
  <2>1. m \in 0..Len(key)
    BY <1>6
  <2>2. SubSeq(key, 1, m) \in Seq(Seq(Nat)) /\ Len(SubSeq(key, 1, m)) = IF 1 <= m THEN m - 1 + 1 ELSE 0
    <3> HIDE DEF m
    <3> QED
      BY <2>1, PartOf
  <2>3. Len(SubSeq(key, 1, m)) = m
    BY <1>1, <2>1, <2>2
  <2>4. QED
    BY <2>1, <2>2, <2>3 DEF Matched

-----------------------------------------------------------------------------
(***************************************************************************)
(* One entry of a round                                                    *)
(***************************************************************************)
IsRound(r) ==
  /\ r = [pool |-> r.pool, slots |-> r.slots, budget |-> r.budget, committed |-> r.committed,
          admitted |-> r.admitted, kept |-> r.kept, stopped |-> r.stopped, tooLarge |-> r.tooLarge]
  /\ r.budget \in Int /\ r.admitted \in Seq(Request) /\ r.kept \in Seq(Entry)
  /\ r.stopped \in BOOLEAN /\ r.tooLarge \in BOOLEAN

\* The request req admitted for the entry e.
AdmittedFor(e, max, req) ==
  /\ req \in Request /\ req.uid = e.uid
  /\ req.device <= Len(e.ids) /\ req.ids = SubSeq(e.ids, 1, req.device) /\ Len(req.ids) = req.device
  /\ ~ req.chunked => req.device = Len(e.ids)
  /\ req.maxOut = max /\ req.maxDevice = req.device + max

\* x is the round r with req admitted for e.
Admits(r, x, e, max, req) ==
  /\ AdmittedFor(e, max, req)
  /\ x.admitted = Append(r.admitted, req)
  /\ x.kept = IF req.chunked THEN Append(r.kept, [e EXCEPT !.chunk = <<req>>]) ELSE r.kept
  /\ req.chunked => x.budget <= 0
  /\ x.stopped = r.stopped /\ x.tooLarge = r.tooLarge

LEMMA ChunkSet ==
  ASSUME NEW e \in Entry, NEW req \in Request
  PROVE  [e EXCEPT !.chunk = <<req>>] \in Entry /\ [e EXCEPT !.chunk = <<>>] \in Entry
         /\ [e EXCEPT !.chunk = <<req>>].chunk = <<req>>
         /\ [[e EXCEPT !.chunk = <<>>] EXCEPT !.chunk = <<req>>] = [e EXCEPT !.chunk = <<req>>]
  BY DEF Entry

LEMMA AdmitIs ==
  ASSUME NEW q \in Params, NEW r, IsRound(r), r.budget > 0, NEW e \in Entry,
         NEW handle \in Seq(Seq(Nat)), NEW slot \in Slots, NEW cached \in Nat
  PROVE  LET x == Admit(q, r, e, handle, slot, cached)
         IN  /\ IsRound(x) /\ x.slots = r.slots
             /\ \E req : Admits(r, x, e, MaxOutputLen(q, e), req) /\ req.slot = slot /\ req.handle = handle
                         /\ req.cached = cached
<1> DEFINE rest == Len(e.ids) - cached
           chunk == Min2(r.budget, rest)
           max == MaxOutputLen(q, e)
           dev == cached + chunk
           chunked == chunk < rest
           req == [uid |-> e.uid, ids |-> SubSeq(e.ids, 1, dev), slot |-> slot,
                   cached |-> cached, device |-> dev, maxDevice |-> dev + max, maxOut |-> max,
                   handle |-> handle, chunked |-> chunked]
           x == Admit(q, r, e, handle, slot, cached)
           pages == CopyTokens(r.pool, slot, e.ids, cached, cached + chunk)
           committed == r.committed + KvNeeded(q, e, cached)
           kept == IF chunked THEN Append(r.kept, [e EXCEPT !.chunk = <<req>>]) ELSE r.kept
<1>1. e.ids \in Seq(Nat) /\ Len(e.ids) \in Nat /\ e.uid \in Uid /\ r.budget \in Int
  BY DEF Entry, IsRound
<1>2. max \in Int
  BY DEF MaxOutputLen, Params, Entry
<1>3. chunk \in Int /\ dev \in Nat /\ dev <= Len(e.ids) /\ (~ chunked => dev = Len(e.ids))
      /\ (chunked => r.budget - chunk = 0) /\ chunked \in BOOLEAN
  <2>1. PICK b \in Int : b = r.budget /\ b > 0
    BY <1>1
  <2>2. PICK n \in Nat : n = Len(e.ids)
    BY <1>1
  <2>3. chunk = IF b <= n - cached THEN b ELSE n - cached
    BY <2>1, <2>2 DEF Min2
  <2>4. rest = n - cached
    BY <2>2
  <2> HIDE DEF chunk, rest
  <2>5. chunk \in Int /\ rest \in Int /\ chunk <= rest /\ (chunk = b \/ chunk = rest)
    BY <2>1, <2>2, <2>3, <2>4
  <2>6. dev \in Nat /\ dev <= n
    BY <2>1, <2>2, <2>3, <2>4
  <2>7. ~ (chunk < rest) => dev = n
    BY <2>2, <2>4, <2>5
  <2>8. chunk < rest => b - chunk = 0
    BY <2>1, <2>5
  <2>9. (chunk < rest) \in BOOLEAN
    BY <2>5
  <2>10. QED
    BY <2>1, <2>2, <2>5, <2>6, <2>7, <2>8, <2>9
<1> HIDE DEF max, chunk
<1>4. SubSeq(e.ids, 1, dev) \in Seq(Nat) /\ Len(SubSeq(e.ids, 1, dev)) = dev
  <2>1. dev \in 0..Len(e.ids)
    BY <1>3
  <2> HIDE DEF dev
  <2>2. /\ SubSeq(e.ids, 1, dev) \in Seq(Nat)
        /\ Len(SubSeq(e.ids, 1, dev)) = IF 1 <= dev THEN dev - 1 + 1 ELSE 0
    BY <1>1, <2>1, PartOf
  <2>3. QED
    BY <1>1, <2>1, <2>2
<1> HIDE DEF dev, chunked
<1>5. req \in Request
  BY <1>1, <1>2, <1>3, <1>4 DEF Request
<1>6. AdmittedFor(e, max, req)
  BY <1>3, <1>4, <1>5 DEF AdmittedFor
<1>7. x = [pool |-> pages, slots |-> r.slots, budget |-> r.budget - chunk, committed |-> committed,
           admitted |-> Append(r.admitted, req), kept |-> kept,
           stopped |-> r.stopped, tooLarge |-> r.tooLarge]
  <2>1. x = [r EXCEPT !.pool = CopyTokens(@, slot, e.ids, cached, cached + chunk),
                      !.budget = @ - chunk,
                      !.committed = @ + KvNeeded(q, e, cached),
                      !.admitted = Append(@, req),
                      !.kept = IF chunked THEN Append(@, [e EXCEPT !.chunk = <<req>>]) ELSE @]
    BY DEF Admit, chunk, dev, max, chunked
  <2> HIDE DEF req
  <2>2. x = [r EXCEPT !.pool = pages, !.budget = r.budget - chunk, !.committed = committed,
                      !.admitted = Append(r.admitted, req), !.kept = kept]
    BY <2>1
  <2> HIDE DEF x, pages, committed, kept
  <2>3. r = [pool |-> r.pool, slots |-> r.slots, budget |-> r.budget, committed |-> r.committed,
             admitted |-> r.admitted, kept |-> r.kept, stopped |-> r.stopped, tooLarge |-> r.tooLarge]
    BY DEF IsRound
  <2>4. QED
    BY <2>2, <2>3
<1>8. req.slot = slot /\ req.handle = handle /\ req.cached = cached /\ req.chunked = chunked
  OBVIOUS
<1> HIDE DEF x, pages, committed, req
<1>9. [e EXCEPT !.chunk = <<req>>] \in Entry
  BY <1>5, ChunkSet
<1>10. kept \in Seq(Entry) /\ Append(r.admitted, req) \in Seq(Request)
  BY <1>5, <1>9 DEF IsRound
<1>11. IsRound(x) /\ x.slots = r.slots
  <2> HIDE DEF kept
  <2> QED
    BY <1>1, <1>3, <1>7, <1>10 DEF IsRound
<1>12. Admits(r, x, e, max, req)
  BY <1>3, <1>6, <1>7, <1>8 DEF Admits
<1>13. QED
  BY <1>8, <1>11, <1>12 DEF x, max

\* What try_add_one makes of an entry: it goes no further, or passes the
\* entry over, or admits it in a new slot or in that of its chunk.
Halts(r, x) ==
  /\ x.slots = r.slots /\ x.admitted = r.admitted /\ x.kept = r.kept /\ x.budget = r.budget
  /\ x.stopped \/ x.tooLarge

Skips(r, x, e) ==
  /\ x.slots = r.slots /\ x.admitted = r.admitted /\ x.kept = Append(r.kept, e) /\ x.budget = r.budget
  /\ e.chunk = <<>> /\ r.budget > 0 /\ ~ x.stopped /\ ~ x.tooLarge

AdmitsChunk(r, x, e, max) ==
  \E req : /\ Admits(r, x, e, max, req) /\ r.budget > 0 /\ ~ x.stopped /\ ~ x.tooLarge
           /\ e.chunk # <<>> /\ req.slot = e.chunk[1].slot /\ req.handle = e.chunk[1].handle
           /\ x.slots = r.slots

AdmitsNew(r, x, e, max) ==
  \E req : /\ Admits(r, x, e, max, req) /\ r.budget > 0 /\ ~ x.stopped /\ ~ x.tooLarge
           /\ e.chunk = <<>> /\ r.slots # <<>> /\ req.slot = Last(r.slots)
           /\ x.slots = Front(r.slots)

\* The fields that a round with another pool has.
WithPool(r, p) == [r EXCEPT !.pool = p]

WithSlots(r, p, free) == [r EXCEPT !.pool = p, !.slots = free]

LEMMA OtherPool ==
  ASSUME NEW r, IsRound(r), NEW p, NEW x, x = WithPool(r, p)
  PROVE  /\ IsRound(x) /\ x.slots = r.slots /\ x.budget = r.budget
         /\ x.admitted = r.admitted
         /\ x.kept = r.kept /\ x.stopped = r.stopped /\ x.tooLarge = r.tooLarge
<1>1. x = [pool |-> p, slots |-> r.slots, budget |-> r.budget, committed |-> r.committed,
           admitted |-> r.admitted, kept |-> r.kept, stopped |-> r.stopped, tooLarge |-> r.tooLarge]
  BY DEF IsRound, WithPool
<1>2. IsRound(x)
  BY <1>1 DEF IsRound
<1>3. QED
  BY <1>1, <1>2

LEMMA OtherSlots ==
  ASSUME NEW r, IsRound(r), NEW p, NEW free, NEW x, x = WithSlots(r, p, free)
  PROVE  /\ IsRound(x) /\ x.slots = free /\ x.budget = r.budget
         /\ x.admitted = r.admitted
         /\ x.kept = r.kept /\ x.stopped = r.stopped /\ x.tooLarge = r.tooLarge
<1>1. x = [pool |-> p, slots |-> free, budget |-> r.budget, committed |-> r.committed,
           admitted |-> r.admitted, kept |-> r.kept, stopped |-> r.stopped, tooLarge |-> r.tooLarge]
  <2>1. r = [pool |-> r.pool, slots |-> r.slots, budget |-> r.budget, committed |-> r.committed,
             admitted |-> r.admitted, kept |-> r.kept, stopped |-> r.stopped, tooLarge |-> r.tooLarge]
    BY DEF IsRound
  <2>2. QED
    BY <2>1 DEF WithSlots
<1>2. IsRound(x)
  BY <1>1 DEF IsRound
<1>3. QED
  BY <1>1, <1>2

LEMMA HaltIs ==
  ASSUME NEW r, IsRound(r)
  PROVE  /\ IsRound([r EXCEPT !.stopped = TRUE]) /\ Halts(r, [r EXCEPT !.stopped = TRUE])
         /\ IsRound([r EXCEPT !.tooLarge = TRUE]) /\ Halts(r, [r EXCEPT !.tooLarge = TRUE])
<1> DEFINE x == [r EXCEPT !.stopped = TRUE]
           y == [r EXCEPT !.tooLarge = TRUE]
<1>1. /\ x = [pool |-> r.pool, slots |-> r.slots, budget |-> r.budget, committed |-> r.committed,
              admitted |-> r.admitted, kept |-> r.kept, stopped |-> TRUE, tooLarge |-> r.tooLarge]
      /\ y = [pool |-> r.pool, slots |-> r.slots, budget |-> r.budget, committed |-> r.committed,
              admitted |-> r.admitted, kept |-> r.kept, stopped |-> r.stopped, tooLarge |-> TRUE]
  <2>1. r = [pool |-> r.pool, slots |-> r.slots, budget |-> r.budget, committed |-> r.committed,
             admitted |-> r.admitted, kept |-> r.kept, stopped |-> r.stopped, tooLarge |-> r.tooLarge]
    BY DEF IsRound
  <2>2. x = [r EXCEPT !.stopped = TRUE] /\ y = [r EXCEPT !.tooLarge = TRUE]
    OBVIOUS
  <2> HIDE DEF x, y
  <2>3. QED
    BY <2>1, <2>2
<1> HIDE DEF x, y
<1>2. IsRound(x) /\ IsRound(y)
  BY <1>1 DEF IsRound
<1>3. Halts(r, x) /\ Halts(r, y)
  BY <1>1 DEF Halts
<1>4. QED
  BY <1>2, <1>3 DEF x, y

LEMMA SkipIs ==
  ASSUME NEW r, IsRound(r), NEW e \in Entry
  PROVE  LET x == Skip(r, e)
         IN  /\ IsRound(x) /\ x.slots = r.slots /\ x.budget = r.budget /\ x.admitted = r.admitted
             /\ x.kept = Append(r.kept, e) /\ x.stopped = r.stopped /\ x.tooLarge = r.tooLarge
<1> DEFINE k == Append(r.kept, e)
           x == [r EXCEPT !.kept = k]
<1>1. Skip(r, e) = x
  BY DEF Skip
<1>2. k \in Seq(Entry)
  BY DEF IsRound
<1> HIDE DEF k
<1>3. x = [pool |-> r.pool, slots |-> r.slots, budget |-> r.budget, committed |-> r.committed,
           admitted |-> r.admitted, kept |-> k, stopped |-> r.stopped, tooLarge |-> r.tooLarge]
  BY DEF IsRound
<1> HIDE DEF x
<1>4. IsRound(x)
  BY <1>2, <1>3 DEF IsRound
<1>5. QED
  BY <1>1, <1>3, <1>4 DEF k

LEMMA TryNewIs ==
  ASSUME NEW q \in Params, NEW r, IsRound(r), r.budget > 0, ~ r.stopped, ~ r.tooLarge,
         r.slots \in Seq(Slots), r.slots # <<>>, NEW e \in Entry, e.chunk = <<>>
  PROVE  LET x == TryNew(q, r, e)
         IN  /\ IsRound(x)
             /\ Halts(r, x) \/ Skips(r, x, e) \/ AdmitsNew(r, x, e, MaxOutputLen(q, e))
<1> DEFINE handle  == Matched(r.pool.tree, MatchKey(e.ids))
           needed  == KvNeeded(q, e, Len(handle) * PageSize)
           matched == [r EXCEPT !.pool.tree = Walk(@, MatchKey(e.ids))]
           locked  == [matched EXCEPT !.pool = LockPrefix(@, handle)]
           missed  == [matched EXCEPT !.pool = UnlockPrefix(locked.pool, handle)]
           x == TryNew(q, r, e)
<1>1. x = IF needed > TotalCapacity THEN [matched EXCEPT !.tooLarge = TRUE]
          ELSE IF needed > Headroom(matched) THEN Skip(matched, e)
          ELSE IF needed > Headroom(locked) THEN Skip(missed, e)
          ELSE AdmitNew(q, locked, e, handle)
  BY DEF TryNew
<1>2. handle \in Seq(Seq(Nat)) /\ Len(handle) * PageSize \in Nat
  <2>1. SubSeq(e.ids, 1, Len(e.ids) - 1) \in Seq(Nat)
    BY DEF Entry
  <2>2. MatchKey(e.ids) \in Seq(Seq(Nat))
    BY <2>1, BlocksAre DEF MatchKey
  <2>3. handle \in Seq(Seq(Nat))
    BY <2>2, MatchedIs
  <2> HIDE DEF handle
  <2>4. Len(handle) \in Nat /\ PageSize \in Nat
    BY <2>3, PoolAssumption
  <2>5. QED
    BY <2>3, <2>4
<1> DEFINE Same(y) == /\ IsRound(y) /\ y.slots = r.slots /\ y.budget = r.budget /\ y.admitted = r.admitted
                      /\ y.kept = r.kept /\ y.stopped = r.stopped /\ y.tooLarge = r.tooLarge
<1>3. Same(matched) /\ Same(locked) /\ Same(missed)
  <2>7. ASSUME NEW y, NEW p, Same(y), NEW z, z = WithPool(y, p)
        PROVE  Same(z)
    BY <2>7, OtherPool
  <2>8. Same(r)
    OBVIOUS
  <2>1. matched = WithPool(r, [r.pool EXCEPT !.tree = Walk(@, MatchKey(e.ids))])
    BY DEF WithPool
  <2> HIDE DEF matched, Same
  <2>2. Same(matched)
    BY <2>1, <2>7, <2>8
  <2>3. locked = WithPool(matched, LockPrefix(matched.pool, handle))
    BY DEF WithPool
  <2> HIDE DEF locked
  <2>4. Same(locked)
    BY <2>2, <2>3, <2>7
  <2>9. missed = WithPool(matched, UnlockPrefix(locked.pool, handle))
    BY DEF WithPool
  <2> HIDE DEF missed
  <2>5. Same(missed)
    BY <2>2, <2>7, <2>9
  <2>6. QED
    BY <2>2, <2>4, <2>5
<1> HIDE DEF needed, matched, locked, missed, x, handle
<1>4. CASE x = [matched EXCEPT !.tooLarge = TRUE]
  <2>1. IsRound(x) /\ Halts(matched, x)
    BY <1>3, <1>4, HaltIs
  <2>2. QED
    BY <1>3, <2>1 DEF Halts, x
<1>5. ASSUME NEW y, Same(y), x = Skip(y, e)
      PROVE  IsRound(x) /\ Skips(r, x, e)
  BY <1>5, SkipIs DEF Skips
<1>6. CASE x = AdmitNew(q, locked, e, handle)
  <2> DEFINE slot   == Last(r.slots)
             cached == Len(handle) * PageSize
             pages == [locked.pool EXCEPT
                        !.row[slot] = [i \in DOMAIN @ |->
                           IF i <= Len(handle) THEN locked.pool.tree.page[SubSeq(handle, 1, i)] ELSE @[i]]]
             taken == [locked EXCEPT !.pool = CopyTokens(pages, slot, e.ids, 0, cached),
                                     !.slots = Front(locked.slots)]
  <2>1. x = Admit(q, taken, e, handle, slot, cached)
    BY <1>3, <1>6 DEF AdmitNew
  <2> HIDE DEF pages
  <2>2. /\ IsRound(taken) /\ taken.slots = Front(r.slots) /\ taken.budget = r.budget
        /\ taken.admitted = r.admitted /\ taken.kept = r.kept
        /\ taken.stopped = r.stopped /\ taken.tooLarge = r.tooLarge
    <3> DEFINE pool1 == CopyTokens(pages, slot, e.ids, 0, cached)
               free1 == Front(locked.slots)
    <3>1. taken = WithSlots(locked, pool1, free1)
      BY DEF WithSlots
    <3>2. free1 = Front(r.slots)
      BY <1>3
    <3> HIDE DEF taken, pool1, free1
    <3>3. QED
      BY <1>3, <3>1, <3>2, OtherSlots
  <2>3. slot \in Slots
    BY DEF Last
  <2> HIDE DEF taken, slot, cached
  <2>4. cached \in Nat
    BY <1>2 DEF cached
  <2>5. /\ IsRound(x) /\ x.slots = taken.slots
        /\ \E req : Admits(taken, x, e, MaxOutputLen(q, e), req) /\ req.slot = slot
    BY <1>2, <2>1, <2>2, <2>3, <2>4, AdmitIs
  <2>6. PICK req : Admits(taken, x, e, MaxOutputLen(q, e), req) /\ req.slot = slot
    BY <2>5
  <2>7. Admits(r, x, e, MaxOutputLen(q, e), req)
    BY <2>2, <2>6 DEF Admits
  <2>8. AdmitsNew(r, x, e, MaxOutputLen(q, e))
    BY <2>2, <2>5, <2>6, <2>7 DEF AdmitsNew, Admits, slot
  <2>9. QED
    BY <2>5, <2>8 DEF x
<1>7. QED
  <2>1. IsRound(x) /\ (Halts(r, x) \/ Skips(r, x, e) \/ AdmitsNew(r, x, e, MaxOutputLen(q, e)))
    BY <1>1, <1>3, <1>4, <1>5, <1>6 DEF x
  <2>2. QED
    BY <2>1 DEF x

LEMMA TryAddOneIs ==
  ASSUME NEW q \in Params, NEW r, IsRound(r), r.slots \in Seq(Slots), NEW e \in Entry
  PROVE  LET x == TryAddOne(q, r, e)
             max == MaxOutputLen(q, e)
         IN  /\ IsRound(x)
             /\ Halts(r, x) \/ Skips(r, x, e) \/ AdmitsNew(r, x, e, max) \/ AdmitsChunk(r, x, e, max)
             /\ r.stopped \/ r.tooLarge \/ r.budget <= 0 => Halts(r, x)
<1> DEFINE x == TryAddOne(q, r, e)
           max == MaxOutputLen(q, e)
           Goal == /\ IsRound(x)
                   /\ Halts(r, x) \/ Skips(r, x, e) \/ AdmitsNew(r, x, e, max) \/ AdmitsChunk(r, x, e, max)
                   /\ r.stopped \/ r.tooLarge \/ r.budget <= 0 => Halts(r, x)
<1>1. CASE r.stopped \/ r.tooLarge
  <2>1. x = r
    BY <1>1 DEF TryAddOne
  <2> HIDE DEF x
  <2>2. Halts(r, x)
    BY <1>1, <2>1 DEF Halts
  <2>3. QED
    BY <2>1, <2>2 DEF x
<1>2. CASE ~ r.stopped /\ ~ r.tooLarge
  <2> DEFINE c == e.chunk[1]
             emptied == [e EXCEPT !.chunk = <<>>]
  <2>1. x = IF r.budget <= 0 THEN [r EXCEPT !.stopped = TRUE]
            ELSE IF e.chunk # <<>> THEN Admit(q, r, emptied, c.handle, c.slot, c.cached)
            ELSE IF r.slots = <<>> THEN [r EXCEPT !.stopped = TRUE]
            ELSE TryNew(q, r, e)
    BY <1>2 DEF TryAddOne
  <2> HIDE DEF x
  <2>2. r.budget \in Int
    BY DEF IsRound
  <2>3. CASE x = [r EXCEPT !.stopped = TRUE]
    <3>1. IsRound(x) /\ Halts(r, x)
      BY <2>3, HaltIs
    <3>2. QED
      BY <3>1 DEF x
  <2>4. CASE r.budget > 0 /\ e.chunk # <<>> /\ x = Admit(q, r, emptied, c.handle, c.slot, c.cached)
    <3>1. c \in Request /\ e.chunk = <<c>>
      <4>1. e.chunk \in {<<y>> : y \in Request}
        BY <2>4 DEF Entry
      <4>2. PICK y \in Request : e.chunk = <<y>>
        BY <4>1
      <4>3. QED
        BY <4>2
    <3> HIDE DEF c
    <3>2. c.handle \in Seq(Seq(Nat)) /\ c.slot \in Slots /\ c.cached \in Nat
      BY <3>1, RequestIs
    <3>3. emptied \in Entry /\ emptied.uid = e.uid /\ emptied.ids = e.ids
          /\ MaxOutputLen(q, emptied) = max
      BY DEF Entry, MaxOutputLen
    <3>4. \A req \in Request : [emptied EXCEPT !.chunk = <<req>>] = [e EXCEPT !.chunk = <<req>>]
      BY ChunkSet
    <3> HIDE DEF emptied, max
    <3>5. /\ IsRound(x) /\ x.slots = r.slots
          /\ \E req : /\ Admits(r, x, emptied, max, req)
                      /\ req.slot = c.slot /\ req.handle = c.handle /\ req.cached = c.cached
      BY <2>4, <3>2, <3>3, AdmitIs
    <3>6. PICK req : /\ Admits(r, x, emptied, max, req)
                     /\ req.slot = c.slot /\ req.handle = c.handle /\ req.cached = c.cached
      BY <3>5
    <3>7. Admits(r, x, e, max, req)
      <4>1. req \in Request
        BY <3>6 DEF Admits, AdmittedFor
      <4>2. QED
        BY <3>3, <3>4, <3>6, <4>1 DEF Admits, AdmittedFor
    <3>8. AdmitsChunk(r, x, e, max)
      BY <1>2, <2>4, <3>5, <3>6, <3>7 DEF AdmitsChunk, Admits, c
    <3>9. ~ (r.stopped \/ r.tooLarge \/ r.budget <= 0)
      BY <1>2, <2>2, <2>4
    <3>10. QED
      BY <3>5, <3>8, <3>9 DEF x, max
  <2>5. CASE r.budget > 0 /\ e.chunk = <<>> /\ r.slots # <<>> /\ x = TryNew(q, r, e)
    <3>1. IsRound(x) /\ (Halts(r, x) \/ Skips(r, x, e) \/ AdmitsNew(r, x, e, MaxOutputLen(q, e)))
      BY <1>2, <2>5, TryNewIs
    <3>2. ~ (r.stopped \/ r.tooLarge \/ r.budget <= 0)
      BY <1>2, <2>2, <2>5
    <3>3. QED
      BY <3>1, <3>2 DEF x
  <2>6. r.budget <= 0 \/ r.budget > 0
    BY <2>2
  <2>7. QED
    BY <2>1, <2>3, <2>4, <2>5, <2>6
<1>3. QED
  BY <1>1, <1>2

-----------------------------------------------------------------------------
(***************************************************************************)
(* A round: the table slots move from the free list and from the chunks of *)
(* the queue to the requests admitted                                      *)
(***************************************************************************)
\* The last request admitted is cut; the entries dealt with; the chunks of
\* those that are not.
Cut(r) == r.admitted # <<>> /\ Last(r.admitted).chunked

Reached(r) == Len(r.admitted) + Len(r.kept) - (IF Cut(r) THEN 1 ELSE 0)

Left(p, n) == {p[i].chunk[1] : i \in {j \in n + 1..Len(p) : p[j].chunk # <<>>}}

AdmittedOK(r) ==
  /\ \A i, j \in 1..Len(r.admitted) : r.admitted[i].slot = r.admitted[j].slot => i = j
  /\ \A i \in 1..Len(r.admitted) :
       /\ r.admitted[i].chunked => i = Len(r.admitted)
       /\ Len(r.admitted[i].ids) = r.admitted[i].device
  /\ Cut(r) => r.budget <= 0

KeptOK(r) ==
  /\ \A i \in 1..Len(r.kept) : r.kept[i].chunk # <<>> => Cut(r) /\ r.kept[i].chunk = <<Last(r.admitted)>>
  /\ Cut(r) => \E i \in 1..Len(r.kept) : r.kept[i].chunk # <<>>
  /\ OnceEach(r.kept)

RoundOK(A, p, r, k) ==
  /\ IsRound(r) /\ AdmittedOK(r) /\ KeptOK(r)
  /\ Reached(r) \in 0..k
  /\ ~ r.stopped /\ ~ r.tooLarge => Reached(r) = k
  /\ Held(r.slots, A \cup ToSet(r.admitted) \cup Left(p, Reached(r)))
  /\ ToSet(r.admitted) \cap (A \cup Left(p, Reached(r))) = {}

LEMMA AppendedSet ==
  ASSUME NEW X, NEW s \in Seq(X), NEW x \in X
  PROVE  ToSet(Append(s, x)) = ToSet(s) \cup {x}
<1> DEFINE t == Append(s, x)
           n == Len(s)
<1>1. n \in Nat /\ DOMAIN s = 1..n /\ DOMAIN t = 1..n + 1 /\ t[n + 1] = x /\ \A i \in 1..n : t[i] = s[i]
  OBVIOUS
<1> HIDE DEF t, n
<1>2. \A i \in 1..n + 1 : i = n + 1 \/ i \in 1..n
  BY <1>1
<1>3. n + 1 \in 1..n + 1 /\ \A i \in 1..n : i \in 1..n + 1
  BY <1>1
<1>4. ToSet(t) = ToSet(s) \cup {x}
  BY <1>1, <1>2, <1>3 DEF ToSet
<1>5. QED
  BY <1>4 DEF t

\* One more admitted request.
LEMMA AdmitGrows ==
  ASSUME NEW r, IsRound(r), AdmittedOK(r), KeptOK(r), r.budget > 0,
         NEW x, IsRound(x), NEW e \in Entry, NEW max, NEW req, Admits(r, x, e, max, req),
         \A a \in ToSet(r.admitted) : a.slot # req.slot
  PROVE  /\ AdmittedOK(x) /\ KeptOK(x) /\ Reached(x) = Reached(r) + 1
         /\ ToSet(x.admitted) = ToSet(r.admitted) \cup {req} /\ req \in Request
<1> DEFINE n == Len(r.admitted)
           m == Len(r.kept)
           added == [e EXCEPT !.chunk = <<req>>]
<1>1. /\ req \in Request /\ Len(req.ids) = req.device
      /\ r.admitted \in Seq(Request) /\ r.kept \in Seq(Entry) /\ x.admitted \in Seq(Request)
      /\ x.kept \in Seq(Entry) /\ r.budget \in Int
      /\ x.admitted = Append(r.admitted, req)
      /\ req.chunked => x.budget <= 0
      /\ x.kept = IF req.chunked THEN Append(r.kept, added) ELSE r.kept
      /\ req.chunked \in BOOLEAN
  BY DEF IsRound, Admits, AdmittedFor, Request
<1>2. added \in Entry /\ added.chunk = <<req>>
  BY <1>1, ChunkSet
<1> HIDE DEF added
<1>3. /\ n \in Nat /\ Len(x.admitted) = n + 1 /\ x.admitted[n + 1] = req
      /\ \A i \in 1..n : x.admitted[i] = r.admitted[i]
  BY <1>1
<1>4. /\ m \in Nat /\ DOMAIN r.kept = 1..m
      /\ req.chunked => /\ Len(x.kept) = m + 1 /\ x.kept[m + 1] = added
                        /\ \A i \in 1..m : x.kept[i] = r.kept[i]
                        /\ DOMAIN x.kept = 1..m + 1
  BY <1>1, <1>2
<1>5. ToSet(x.admitted) = ToSet(r.admitted) \cup {req}
  BY <1>1, AppendedSet
<1>6. ~ Cut(r)
  BY <1>1 DEF AdmittedOK
<1>7. Last(x.admitted) = req /\ x.admitted # <<>> /\ (Cut(x) <=> req.chunked)
  BY <1>1, <1>3 DEF Cut, Last
<1>8. \A i \in 1..n + 1 : i = n + 1 \/ i \in 1..n
  BY <1>3
<1>9. \A i \in 1..n : r.admitted[i] \in ToSet(r.admitted)
  BY <1>1 DEF ToSet
<1>10. \A i \in 1..n : ~ r.admitted[i].chunked
  <2>1. ASSUME NEW i \in 1..n, r.admitted[i].chunked
        PROVE  FALSE
    <3>1. i = n
      BY <2>1 DEF AdmittedOK
    <3>2. r.admitted # <<>> /\ Last(r.admitted) = r.admitted[i]
      BY <1>1, <3>1 DEF Last
    <3>3. QED
      BY <1>6, <2>1, <3>2 DEF Cut
  <2>2. QED
    BY <2>1
<1>11. AdmittedOK(x)
  <2>1. \A i, j \in 1..n + 1 : x.admitted[i].slot = x.admitted[j].slot => i = j
    <3>1. \A i, j \in 1..n : r.admitted[i].slot = r.admitted[j].slot => i = j
      BY DEF AdmittedOK
    <3>2. QED
      BY <1>3, <1>8, <1>9, <3>1
  <2>2. \A i \in 1..n + 1 : (x.admitted[i].chunked => i = n + 1) /\ Len(x.admitted[i].ids) = x.admitted[i].device
    <3>1. \A i \in 1..n : Len(r.admitted[i].ids) = r.admitted[i].device
      BY DEF AdmittedOK
    <3>2. QED
      BY <1>1, <1>3, <1>8, <1>10, <3>1
  <2>3. QED
    BY <1>1, <1>3, <1>7, <2>1, <2>2 DEF AdmittedOK
<1>12. \A i \in 1..m : r.kept[i].chunk = <<>>
  BY <1>6 DEF KeptOK
<1>13. KeptOK(x)
  <2>1. CASE req.chunked
    <3>1. \A i \in 1..m + 1 : i = m + 1 \/ i \in 1..m
      BY <1>4
    <3>2. m + 1 \in 1..m + 1 /\ x.kept[m + 1].chunk = <<req>> /\ <<req>> # <<>>
      BY <1>2, <1>4, <2>1
    <3>3. \A i \in 1..m + 1 : x.kept[i].chunk # <<>> => i = m + 1
      BY <1>4, <1>12, <2>1, <3>1
    <3>4. OnceEach(x.kept)
      BY <1>4, <2>1, <3>3 DEF OnceEach
    <3>5. QED
      BY <1>4, <1>7, <2>1, <3>2, <3>3, <3>4 DEF KeptOK
  <2>2. CASE ~ req.chunked
    <3>1. x.kept = r.kept
      BY <1>1, <2>2
    <3>2. QED
      BY <1>6, <1>7, <2>2, <3>1 DEF KeptOK
  <2>3. QED
    BY <2>1, <2>2
<1>14. Reached(x) = Reached(r) + 1
  <2>1. PICK a \in Nat, b \in Nat : a = n /\ b = m
    BY <1>3, <1>4
  <2>2. Reached(r) = a + b - 0
    BY <1>6, <2>1 DEF Reached
  <2>3. CASE req.chunked
    <3>1. Reached(x) = (a + 1) + (b + 1) - 1
      BY <1>3, <1>4, <1>7, <2>1, <2>3 DEF Reached
    <3>2. QED
      BY <2>2, <3>1
  <2>4. CASE ~ req.chunked
    <3>1. Len(x.kept) = b
      BY <1>1, <2>1, <2>4
    <3>2. Reached(x) = (a + 1) + b - 0
      BY <1>3, <1>7, <2>1, <2>4, <3>1 DEF Reached
    <3>3. QED
      BY <2>2, <3>2
  <2>5. QED
    BY <2>3, <2>4
<1>15. QED
  BY <1>1, <1>5, <1>11, <1>13, <1>14

\* The chunks of the entries after one more entry.
LEMMA LeftNext ==
  ASSUME NEW p \in Seq(Entry), OnceEach(p), NEW k \in Nat, k + 1 <= Len(p)
  PROVE  /\ p[k + 1].chunk = <<>> => Left(p, k) = Left(p, k + 1)
         /\ p[k + 1].chunk # <<>> =>
              /\ p[k + 1].chunk[1] \in Left(p, k) /\ Left(p, k + 1) = Left(p, k) \ {p[k + 1].chunk[1]}
         /\ Left(p, k) \subseteq ChunksIn(p)
<1> DEFINE n == Len(p)
<1>1. n \in Nat /\ DOMAIN p = 1..n /\ k + 1 \in 1..n
      /\ (k + 1) + 1 = k + 2
  OBVIOUS
<1>2. \A i \in k + 1..n : i = k + 1 \/ i \in k + 2..n
  BY <1>1
<1>3. \A i \in k + 2..n : i \in k + 1..n /\ i # k + 1
  BY <1>1
<1>4. k + 1 \in k + 1..n /\ \A i \in k + 1..n : i \in 1..n
  BY <1>1
<1>5. Left(p, k) = {p[i].chunk[1] : i \in {j \in k + 1..n : p[j].chunk # <<>>}}
      /\ Left(p, k + 1) = {p[i].chunk[1] : i \in {j \in k + 2..n : p[j].chunk # <<>>}}
  BY <1>1 DEF Left
<1> HIDE DEF n
<1>6. CASE p[k + 1].chunk = <<>>
  <2>1. {j \in k + 1..n : p[j].chunk # <<>>} = {j \in k + 2..n : p[j].chunk # <<>>}
    BY <1>2, <1>3, <1>6
  <2>2. QED
    BY <1>1, <1>4, <1>5, <1>6, <2>1 DEF ChunksIn
<1>7. CASE p[k + 1].chunk # <<>>
  <2> DEFINE c == p[k + 1].chunk[1]
  <2>1. c \in Left(p, k)
    BY <1>4, <1>5, <1>7
  <2>2. ASSUME NEW i \in k + 2..n, p[i].chunk # <<>>, p[i].chunk[1] = c
        PROVE  FALSE
    <3>1. i \in 1..n /\ k + 1 \in 1..n /\ i # k + 1
      BY <1>1, <1>3, <1>4
    <3>2. p[i].chunk = <<p[i].chunk[1]>> /\ p[k + 1].chunk = <<c>>
      BY <1>7, <2>2, <3>1, ChunksAre DEF n
    <3>3. p[i].chunk = p[k + 1].chunk
      BY <2>2, <3>2
    <3>4. QED
      BY <1>1, <2>2, <3>1, <3>3 DEF OnceEach
  <2> HIDE DEF c
  <2>3. ASSUME NEW d \in Left(p, k + 1) PROVE d \in Left(p, k) \ {c}
    BY <1>3, <1>5, <2>2, <2>3
  <2>4. ASSUME NEW d \in Left(p, k), d # c PROVE d \in Left(p, k + 1)
    BY <1>2, <1>5, <2>4 DEF c
  <2>5. Left(p, k) \subseteq ChunksIn(p)
    BY <1>1, <1>4, <1>5 DEF ChunksIn
  <2>6. QED
    BY <1>7, <2>1, <2>3, <2>4, <2>5 DEF c
<1>8. QED
  BY <1>6, <1>7

LEMMA RoundStep ==
  ASSUME NEW A \in SUBSET Request, \A r \in A : ~ r.chunked,
         NEW p \in Seq(Entry), OnceEach(p), \A c \in ChunksIn(p) : c.chunked,
         NEW q \in Params, NEW k \in Nat, k + 1 <= Len(p), NEW r, RoundOK(A, p, r, k),
         NEW e, e = p[k + 1], NEW x, x = TryAddOne(q, r, e)
  PROVE  RoundOK(A, p, x, k + 1)
<1>1. e \in Entry
  OBVIOUS
<1>2. r.slots \in Seq(Slots)
  BY DEF RoundOK, Held
<1>3. IsRound(r)
  BY DEF RoundOK
<1> PICK max : max = MaxOutputLen(q, e)
  OBVIOUS
<1>4. /\ IsRound(x)
      /\ Halts(r, x) \/ Skips(r, x, e) \/ AdmitsNew(r, x, e, max) \/ AdmitsChunk(r, x, e, max)
      /\ r.stopped \/ r.tooLarge \/ r.budget <= 0 => Halts(r, x)
  BY <1>1, <1>2, <1>3, TryAddOneIs
<1>5. Reached(r) \in Nat /\ Reached(r) \in 0..k
  BY DEF RoundOK
<1>6. r.stopped \in BOOLEAN /\ r.tooLarge \in BOOLEAN /\ r.budget \in Int
      /\ r.kept \in Seq(Entry) /\ r.admitted \in Seq(Request)
  BY <1>3 DEF IsRound
<1>7. CASE Halts(r, x)
  <2>1. /\ x.slots = r.slots /\ x.admitted = r.admitted /\ x.kept = r.kept /\ x.budget = r.budget
        /\ x.stopped \/ x.tooLarge
    BY <1>7 DEF Halts
  <2>2. (Cut(x) <=> Cut(r)) /\ Reached(x) = Reached(r)
    BY <2>1 DEF Cut, Reached
  <2>3. AdmittedOK(x)
    <3>1. AdmittedOK(r)
      BY DEF RoundOK
    <3>2. PICK adm : adm = r.admitted
      OBVIOUS
    <3>3. /\ \A i, j \in 1..Len(adm) : adm[i].slot = adm[j].slot => i = j
          /\ \A i \in 1..Len(adm) : (adm[i].chunked => i = Len(adm)) /\ Len(adm[i].ids) = adm[i].device
      BY <3>1, <3>2, Zenon DEF AdmittedOK
    <3>4. Cut(x) => x.budget <= 0
      BY <2>1, <2>2, <3>1 DEF AdmittedOK
    <3>5. x.admitted = adm
      BY <2>1, <3>2
    <3>6. QED
      BY <3>3, <3>4, <3>5, Zenon DEF AdmittedOK
  <2>3a. KeptOK(x)
    BY <2>1, <2>2 DEF RoundOK, KeptOK
  <2>4. Reached(x) \in 0..k + 1
    BY <1>5, <2>2
  <2>5. /\ Held(x.slots, A \cup ToSet(x.admitted) \cup Left(p, Reached(x)))
        /\ ToSet(x.admitted) \cap (A \cup Left(p, Reached(x))) = {}
    BY <2>1, <2>2 DEF RoundOK
  <2>6. QED
    BY <1>4, <2>1, <2>3, <2>3a, <2>4, <2>5 DEF RoundOK
<1> PICK D : D = ToSet(r.admitted)
  OBVIOUS
<1> PICK X : X = Left(p, k)
  OBVIOUS
<1>8. ASSUME ~ Halts(r, x)
      PROVE  /\ Reached(r) = k /\ r.budget > 0 /\ ~ Cut(r)
             /\ Held(r.slots, A \cup D \cup X) /\ D \cap (A \cup X) = {}
  <2>1. ~ r.stopped /\ ~ r.tooLarge /\ r.budget > 0
    BY <1>4, <1>6, <1>8
  <2>2. ~ Cut(r)
    BY <1>6, <2>1 DEF RoundOK, AdmittedOK
  <2>3. Reached(r) = k
    BY <2>1 DEF RoundOK
  <2>4. Held(r.slots, A \cup D \cup X) /\ D \cap (A \cup X) = {}
    BY <2>3 DEF RoundOK
  <2>5. QED
    BY <2>1, <2>2, <2>3, <2>4
<1>9. CASE Skips(r, x, e) /\ ~ Halts(r, x)
  <2>1. /\ x.slots = r.slots /\ x.admitted = r.admitted /\ x.kept = Append(r.kept, e)
        /\ x.budget = r.budget /\ e.chunk = <<>>
    BY <1>9 DEF Skips
  <2>2. PICK m \in Nat : m = Len(r.kept)
    BY <1>6
  <2>3. Len(x.kept) = m + 1 /\ x.kept[m + 1] = e /\ \A i \in 1..m : x.kept[i] = r.kept[i]
    BY <1>1, <1>6, <2>1, <2>2
  <2>4. OnceEach(x.kept)
    BY <1>1, <1>6, <2>1, AppendedChunks DEF RoundOK, KeptOK
  <2>5. ~ Cut(x) /\ ~ Cut(r)
    BY <1>8, <1>9, <2>1 DEF Cut
  <2>6. Reached(x) = k + 1
    <3>1. PICK n \in Nat : n = Len(r.admitted)
      BY <1>6
    <3>2. Reached(x) = n + (m + 1) - 0
      BY <2>1, <2>3, <2>5, <3>1 DEF Reached
    <3>3. k = n + m - 0
      BY <1>8, <1>9, <2>2, <2>5, <3>1 DEF Reached
    <3>4. QED
      BY <3>2, <3>3
  <2>7. \A i \in 1..m + 1 : i = m + 1 \/ i \in 1..m
    OBVIOUS
  <2>8. \A i \in 1..m + 1 : x.kept[i].chunk = <<>>
    BY <2>1, <2>2, <2>3, <2>5, <2>7 DEF RoundOK, KeptOK
  <2>9. KeptOK(x)
    BY <2>3, <2>4, <2>5, <2>8 DEF KeptOK
  <2>10. AdmittedOK(x)
    BY <2>1, <2>5 DEF RoundOK, AdmittedOK
  <2>11. Left(p, k + 1) = X
    BY <2>1, LeftNext
  <2>12. /\ Held(x.slots, A \cup ToSet(x.admitted) \cup Left(p, Reached(x)))
         /\ ToSet(x.admitted) \cap (A \cup Left(p, Reached(x))) = {}
    BY <1>8, <1>9, <2>1, <2>6, <2>11
  <2>13. Reached(x) \in 0..k + 1
    BY <2>6
  <2>14. QED
    BY <1>4, <2>6, <2>9, <2>10, <2>12, <2>13 DEF RoundOK
<1>10. ASSUME ~ Halts(r, x), NEW req, Admits(r, x, e, max, req), NEW Y,
              \A d \in D : d.slot # req.slot, req \notin A \cup Y,
              Left(p, k + 1) = Y, Y \subseteq X,
              Held(x.slots, A \cup (D \cup {req}) \cup Y)
       PROVE  RoundOK(A, p, x, k + 1)
  <2>1. AdmittedOK(r) /\ KeptOK(r) /\ Reached(r) = k /\ r.budget > 0 /\ D \cap (A \cup X) = {}
    BY <1>8, <1>10 DEF RoundOK
  <2>2. /\ AdmittedOK(x) /\ KeptOK(x) /\ Reached(x) = k + 1 /\ ToSet(x.admitted) = D \cup {req}
    BY <1>1, <1>3, <1>4, <1>10, <2>1, AdmitGrows
  <2>3. ToSet(x.admitted) \cap (A \cup Y) = {}
    BY <1>10, <2>1, <2>2
  <2>4. Held(x.slots, A \cup ToSet(x.admitted) \cup Left(p, Reached(x)))
    BY <1>10, <2>2
  <2>5. ToSet(x.admitted) \cap (A \cup Left(p, Reached(x))) = {}
    BY <1>10, <2>2, <2>3
  <2>6. Reached(x) \in 0..k + 1
    BY <2>2
  <2>7. QED
    BY <1>4, <2>2, <2>4, <2>5, <2>6 DEF RoundOK
<1>11. CASE AdmitsChunk(r, x, e, max) /\ ~ Halts(r, x)
  <2>1. PICK req : /\ Admits(r, x, e, max, req) /\ e.chunk # <<>> /\ req.slot = e.chunk[1].slot
                   /\ x.slots = r.slots
    BY <1>11 DEF AdmitsChunk
  <2>2. PICK c : c = e.chunk[1]
    OBVIOUS
  <2>3. c \in X /\ Left(p, k + 1) = X \ {c} /\ X \subseteq ChunksIn(p)
    BY <2>1, <2>2, LeftNext
  <2>4. Held(r.slots, A \cup D \cup X) /\ D \cap (A \cup X) = {}
    BY <1>8, <1>11
  <2>5. c \notin A \cup D
    BY <2>3, <2>4
  <2>6. req \in Request /\ req.slot = c.slot
    BY <2>1, <2>2 DEF Admits, AdmittedFor
  <2>7. PICK L : L = A \cup D \cup X
    OBVIOUS
  <2>8. PICK M : M = A \cup (D \cup {req}) \cup (X \ {c})
    OBVIOUS
  <2>9. Held(r.slots, M) /\ req \notin A \cup (X \ {c}) /\ \A d \in D : d.slot # req.slot
    <3>1. Held(r.slots, L)
      BY <2>4, <2>7
    <3>2. L \subseteq Request /\ \A a, b \in L : b.slot = a.slot => a = b
      BY <3>1 DEF Held
    <3>3. \A d \in A \cup D \cup (X \ {c}) : d \in L /\ d # c /\ d.slot # req.slot
      BY <2>3, <2>5, <2>6, <2>7, <3>2
    <3>4. \A a \in M : \E b \in L : b.slot = a.slot
      BY <2>3, <2>6, <2>7, <2>8
    <3>5. \A b \in L : \E a \in M : a.slot = b.slot
      BY <2>3, <2>6, <2>7, <2>8
    <3>6. \A a, b \in M : a.slot = b.slot => a = b
      BY <2>7, <2>8, <3>2, <3>3
    <3>7. M \in SUBSET Request
      BY <2>6, <2>7, <2>8, <3>2
    <3>8. Held(r.slots, M)
      BY <3>1, <3>4, <3>5, <3>6, <3>7, HeldByOthers
    <3>9. QED
      BY <2>6, <3>3, <3>8
  <2>10. Held(x.slots, A \cup (D \cup {req}) \cup (X \ {c}))
    BY <2>1, <2>8, <2>9
  <2>11. QED
    BY <1>10, <1>11, <2>1, <2>3, <2>9, <2>10
<1>12. CASE AdmitsNew(r, x, e, max) /\ ~ Halts(r, x)
  <2>1. PICK req : /\ Admits(r, x, e, max, req) /\ e.chunk = <<>> /\ r.slots # <<>>
                   /\ req.slot = Last(r.slots) /\ x.slots = Front(r.slots)
    BY <1>12 DEF AdmitsNew
  <2>2. Left(p, k + 1) = X
    BY <2>1, LeftNext
  <2>3. req \in Request
    BY <2>1 DEF Admits, AdmittedFor
  <2>4. Held(r.slots, A \cup D \cup X)
    BY <1>8, <1>12
  <2>5. PICK free : free = r.slots
    OBVIOUS
  <2>6. PICK L : L = A \cup D \cup X
    OBVIOUS
  <2>7. PICK M : M = A \cup (D \cup {req}) \cup X
    OBVIOUS
  <2>8. Held(Front(free), M) /\ req \notin A \cup X /\ \A d \in D : d.slot # req.slot
    <3>1. Held(free, L)
      BY <2>4, <2>5, <2>6
    <3>2. Held(Front(free), L \cup {req})
      BY <2>1, <2>3, <2>5, <3>1, HeldTake
    <3>3. L \cup {req} = M
      BY <2>6, <2>7
    <3>4. Len(free) \in 1..Len(free) /\ free[Len(free)] = req.slot
      BY <2>1, <2>5, <3>1 DEF Held, Last
    <3>5. \A d \in L : d.slot # req.slot
      BY <3>1, <3>4 DEF Held
    <3>6. QED
      BY <2>6, <3>2, <3>3, <3>5
  <2>9. Held(x.slots, A \cup (D \cup {req}) \cup X)
    BY <2>1, <2>5, <2>7, <2>8
  <2>10. QED
    BY <1>10, <1>12, <2>1, <2>2, <2>8, <2>9
<1>13. QED
  BY <1>4, <1>7, <1>9, <1>11, <1>12

\* A round in progress: r[k] is the round after k entries.
RoundUpTo(r, q, start, p, n) ==
  r = [k \in 0..n |-> IF k = 0 THEN start ELSE TryAddOne(q, r[k - 1], p[k])]

LEMMA RoundExists ==
  ASSUME NEW q, NEW start, NEW p, NEW n \in Nat
  PROVE  \E r : RoundUpTo(r, q, start, p, n)
<1> DEFINE S == {k \in Nat : \E r : RoundUpTo(r, q, start, p, k)}
<1>1. 0 \in S
  <2>1. RoundUpTo([k \in 0..0 |-> start], q, start, p, 0)
    BY DEF RoundUpTo
  <2>2. QED
    BY <2>1
<1>2. ASSUME NEW k \in Nat, k \in S
      PROVE  k + 1 \in S
  <2>1. PICK r : RoundUpTo(r, q, start, p, k)
    BY <1>2
  <2>2. RoundUpTo([j \in 0..k + 1 |-> IF j = k + 1 THEN TryAddOne(q, r[k], p[k + 1]) ELSE r[j]], q, start, p, k + 1)
    BY <2>1 DEF RoundUpTo
  <2>3. QED
    BY <2>2
<1> HIDE DEF S
<1>3. n \in S
  BY <1>1, <1>2, SetInduction
<1>4. QED
  BY <1>3 DEF S

LEMMA LeftAtFirst ==
  ASSUME NEW p \in Seq(Entry)
  PROVE  Left(p, 0) = ChunksIn(p)
<1>1. DOMAIN p = 1..Len(p) /\ 0 + 1 = 1
  OBVIOUS
<1>2. QED
  BY <1>1 DEF Left, ChunksIn

LEMMA RoundAtFirst ==
  ASSUME NEW A \in SUBSET Request, NEW p \in Seq(Entry), NEW start, NEW free, Held(free, A \cup ChunksIn(p))
  PROVE  RoundOK(A, p, NewRound(start, free), 0)
<1> DEFINE first == NewRound(start, free)
<1>1. /\ first.slots = free /\ first.admitted = <<>> /\ first.kept = <<>>
      /\ ~ first.stopped /\ ~ first.tooLarge /\ first.budget = PrefillBudget
  BY DEF NewRound
<1>2. IsRound(first)
  <2>1. PrefillBudget \in Int
    BY QueueAssumption
  <2>2. first = [pool |-> first.pool, slots |-> first.slots, budget |-> first.budget, committed |-> first.committed,
                 admitted |-> first.admitted, kept |-> first.kept, stopped |-> first.stopped,
                 tooLarge |-> first.tooLarge] /\ first.stopped = FALSE /\ first.tooLarge = FALSE
    BY DEF NewRound
  <2> HIDE DEF first
  <2>3. first.budget \in Int /\ first.stopped \in BOOLEAN /\ first.tooLarge \in BOOLEAN
    BY <1>1, <2>1, <2>2
  <2>4. first.admitted \in Seq(Request) /\ first.kept \in Seq(Entry)
    BY <1>1
  <2>5. QED
    BY <2>2, <2>3, <2>4 DEF IsRound
<1> HIDE DEF first
<1>3. Len(<<>>) = 0 /\ 1..Len(<<>>) = {} /\ DOMAIN <<>> = {}
  OBVIOUS
<1>4. ~ Cut(first) /\ Reached(first) = 0
  BY <1>1, <1>3 DEF Cut, Reached
<1>5. AdmittedOK(first)
  BY <1>1, <1>3, <1>4 DEF AdmittedOK
<1>6. KeptOK(first)
  BY <1>1, <1>3, <1>4 DEF KeptOK, OnceEach
<1>7. ToSet(first.admitted) = {}
  BY <1>1, <1>3 DEF ToSet
<1>8. Held(first.slots, A \cup ToSet(first.admitted) \cup Left(p, Reached(first)))
  <2>1. A \cup ToSet(first.admitted) \cup Left(p, Reached(first)) = A \cup ChunksIn(p)
    BY <1>4, <1>7, LeftAtFirst
  <2>2. QED
    BY <1>1, <2>1
<1>9. QED
  BY <1>2, <1>4, <1>5, <1>6, <1>7, <1>8 DEF RoundOK, first

LEMMA RoundIs ==
  ASSUME NEW A \in SUBSET Request, \A r \in A : ~ r.chunked,
         NEW p \in Seq(Entry), OnceEach(p), \A c \in ChunksIn(p) : c.chunked,
         NEW q \in Params, NEW start, NEW free, Held(free, A \cup ChunksIn(p))
  PROVE  RoundOK(A, p, PrefillRound(q, start, free, p), Len(p))
<1> DEFINE first == NewRound(start, free)
           r == CHOOSE r : RoundUpTo(r, q, first, p, Len(p))
<1>1. Len(p) \in Nat
  OBVIOUS
<1>2. RoundUpTo(r, q, first, p, Len(p))
  BY <1>1, RoundExists
<1>3. PrefillRound(q, start, free, p) = r[Len(p)]
  BY DEF PrefillRound, RoundUpTo
<1>4. RoundOK(A, p, first, 0)
  BY RoundAtFirst
<1> HIDE DEF first, r
<1> DEFINE S == {k \in Nat : k <= Len(p) => RoundOK(A, p, r[k], k)}
<1>5. 0 \in S
  BY <1>1, <1>2, <1>4 DEF RoundUpTo
<1>6. ASSUME NEW k \in Nat, k \in S
      PROVE  k + 1 \in S
  <2>1. SUFFICES ASSUME k + 1 <= Len(p) PROVE RoundOK(A, p, r[k + 1], k + 1)
    OBVIOUS
  <2>2. RoundOK(A, p, r[k], k) /\ k + 1 \in 1..Len(p) /\ k + 1 \in 0..Len(p) /\ (k + 1) - 1 = k /\ k + 1 # 0
    BY <1>1, <1>6, <2>1
  <2>3. r[k + 1] = TryAddOne(q, r[k], p[k + 1])
    BY <1>2, <2>2 DEF RoundUpTo
  <2>4. QED
    BY <2>1, <2>2, <2>3, RoundStep
<1> HIDE DEF S
<1>7. Len(p) \in S
  BY <1>1, <1>5, <1>6, SetInduction
<1>8. QED
  BY <1>1, <1>3, <1>7 DEF S

\* The queue after a round.
LEMMA RestChunks ==
  ASSUME NEW p \in Seq(Entry), OnceEach(p), NEW n \in Nat, NEW s, s = SubSeq(p, n + 1, Len(p))
  PROVE  s \in Seq(Entry) /\ OnceEach(s) /\ ChunksIn(s) = Left(p, n)
<1>1. PICK m \in Nat : m = Len(p)
  OBVIOUS
<1>2. n + 1 \in Nat \ {0} /\ m \in 0..Len(p)
  BY <1>1
<1>3. /\ s \in Seq(Entry) /\ Len(s) = IF n + 1 <= m THEN m - (n + 1) + 1 ELSE 0
      /\ \A i \in 1..Len(s) : s[i] = p[n + 1 + i - 1] /\ n + 1 + i - 1 \in 1..Len(p)
  BY <1>1, <1>2, PartOf
<1>4. Len(s) \in Nat /\ Len(s) = IF n + 1 <= m THEN m - n ELSE 0
  BY <1>3
<1>5. \A i \in 1..Len(s) : n + i \in n + 1..m /\ s[i] = p[n + i] /\ n + i \in 1..Len(p)
  <2>1. ASSUME NEW i \in 1..Len(s)
        PROVE  n + i \in n + 1..m /\ n + 1 + i - 1 = n + i
    BY <1>4
  <2>2. QED
    BY <1>3, <2>1
<1>6. \A j \in n + 1..m : j - n \in 1..Len(s) /\ s[j - n] = p[j]
  <2>1. ASSUME NEW j \in n + 1..m
        PROVE  j - n \in 1..Len(s) /\ n + (j - n) = j
    BY <1>4
  <2>2. QED
    BY <1>5, <2>1
<1>7. DOMAIN s = 1..Len(s) /\ DOMAIN p = 1..Len(p)
  BY <1>3
<1>8. ASSUME NEW c \in ChunksIn(s) PROVE c \in Left(p, n)
  <2>1. PICK i \in 1..Len(s) : s[i].chunk # <<>> /\ c = s[i].chunk[1]
    BY <1>7 DEF ChunksIn
  <2>2. QED
    BY <1>1, <1>5, <2>1 DEF Left
<1>9. ASSUME NEW c \in Left(p, n) PROVE c \in ChunksIn(s)
  <2>1. PICK j \in n + 1..m : p[j].chunk # <<>> /\ c = p[j].chunk[1]
    BY <1>1 DEF Left
  <2>2. QED
    BY <1>6, <1>7, <2>1 DEF ChunksIn
<1>10. OnceEach(s)
  <2>1. SUFFICES ASSUME NEW i \in 1..Len(s), NEW j \in 1..Len(s), s[i].chunk # <<>>, s[i].chunk = s[j].chunk
                 PROVE  i = j
    BY <1>7 DEF OnceEach
  <2>2. PICK a, b \in DOMAIN p : a = n + i /\ b = n + j
    BY <1>5, <1>7
  <2>3. p[a].chunk # <<>> /\ p[a].chunk = p[b].chunk
    BY <1>5, <2>1, <2>2
  <2>4. a = b
    BY <2>3 DEF OnceEach
  <2>5. QED
    BY <1>4, <2>2, <2>4
<1>11. QED
  BY <1>3, <1>8, <1>9, <1>10

LEMMA KeptChunks ==
  ASSUME NEW r, IsRound(r), KeptOK(r)
  PROVE  ChunksIn(r.kept) = IF Cut(r) THEN {Last(r.admitted)} ELSE {}
<1>1. r.kept \in Seq(Entry) /\ DOMAIN r.kept = 1..Len(r.kept)
  BY DEF IsRound
<1>2. ASSUME NEW c \in ChunksIn(r.kept)
      PROVE  Cut(r) /\ c = Last(r.admitted)
  <2>1. PICK i \in 1..Len(r.kept) : r.kept[i].chunk # <<>> /\ c = r.kept[i].chunk[1]
    BY <1>1 DEF ChunksIn
  <2>2. QED
    BY <2>1 DEF KeptOK
<1>3. ASSUME Cut(r)
      PROVE  Last(r.admitted) \in ChunksIn(r.kept)
  <2>1. PICK i \in 1..Len(r.kept) : r.kept[i].chunk # <<>> /\ r.kept[i].chunk = <<Last(r.admitted)>>
    BY <1>3 DEF KeptOK
  <2>2. QED
    BY <1>1, <2>1 DEF ChunksIn
<1>4. QED
  BY <1>2, <1>3

\* The entry the round passes over holds no chunk.
NothingPassed(r, p) ==
  r.admitted # <<>> /\ Last(r.admitted).chunked /\ Len(r.admitted) + Len(r.kept) \in DOMAIN p =>
    p[Len(r.admitted) + Len(r.kept)].chunk = <<>>

QueueOf(r, p, s) ==
  /\ s \in Seq(Entry) /\ OnceEach(s)
  /\ ChunksIn(s) = (IF Cut(r) THEN {Last(r.admitted)} ELSE {}) \cup Left(p, Reached(r))

LEMMA AfterRound ==
  ASSUME NEW A, NEW p \in Seq(Entry), OnceEach(p), NEW q \in Params,
         NEW r, RoundOK(A, p, r, Len(p)), r.admitted # <<>>, NothingPassed(r, p)
  PROVE  QueueOf(r, p, PendingAfter(q, r, p))
<1> PICK s : s = PendingAfter(q, r, p)
  OBVIOUS
<1>1. IsRound(r) /\ KeptOK(r) /\ r.kept \in Seq(Entry) /\ r.admitted \in Seq(Request)
  BY DEF RoundOK, IsRound
<1>2. PICK n \in Nat : n = Len(r.admitted) + Len(r.kept)
  <2>1. Len(r.admitted) \in Nat /\ Len(r.kept) \in Nat
    BY <1>1
  <2>2. PICK a \in Nat, b \in Nat : a = Len(r.admitted) /\ b = Len(r.kept)
    BY <2>1
  <2>3. a + b = Len(r.admitted) + Len(r.kept)
    BY <2>2, Zenon
  <2>3a. a + b \in Nat
    OBVIOUS
  <2>4. QED
    BY <2>3, <2>3a, Zenon
<1>3. PICK rest : rest = SubSeq(p, n + 1, Len(p))
  OBVIOUS
<1>4. s = SortPending(q, r.kept \o rest)
  BY <1>2, <1>3 DEF PendingAfter
<1>5. rest \in Seq(Entry) /\ OnceEach(rest) /\ ChunksIn(rest) = Left(p, n)
  BY <1>3, RestChunks
<1>6. Left(p, n) = Left(p, Reached(r))
  <2>1. CASE ~ Cut(r)
    BY <1>2, <2>1 DEF Reached
  <2>2. CASE Cut(r)
    <3>1. Reached(r) = n - 1 /\ n - 1 \in 0..Len(p)
      <4>1. Reached(r) = n - 1
        BY <1>2, <2>2 DEF Reached
      <4>2. QED
        BY <4>1 DEF RoundOK
    <3>2. PICK m \in Nat : m = Len(p)
      OBVIOUS
    <3>3. CASE n <= m
      <4>1. n \in DOMAIN p /\ n - 1 \in Nat /\ (n - 1) + 1 = n
        BY <3>1, <3>2, <3>3
      <4>2. p[n].chunk = <<>>
        BY <1>2, <2>2, <4>1 DEF Cut, NothingPassed
      <4>3. Left(p, n - 1) = Left(p, (n - 1) + 1)
        BY <3>2, <3>3, <4>1, <4>2, LeftNext
      <4>4. QED
        BY <3>1, <4>1, <4>3
    <3>4. CASE n > m
      <4>1. n = m + 1
        BY <3>1, <3>2, <3>4
      <4>2. n + 1..m = {} /\ (n - 1) + 1..m = {}
        BY <4>1
      <4>3. QED
        BY <3>1, <3>2, <4>2 DEF Left
    <3>5. QED
      BY <3>2, <3>3, <3>4
  <2>3. QED
    BY <2>1, <2>2
<1>7. ChunksIn(r.kept) = IF Cut(r) THEN {Last(r.admitted)} ELSE {}
  BY <1>1, KeptChunks
<1>8. ChunksIn(r.kept) \cap ChunksIn(rest) = {}
  <2>1. Len(r.admitted) \in DOMAIN r.admitted
    BY <1>1
  <2>2. Last(r.admitted) \in ToSet(r.admitted)
    BY <2>1 DEF Last, ToSet
  <2>3. Last(r.admitted) \notin Left(p, Reached(r))
    BY <2>2 DEF RoundOK
  <2>4. QED
    BY <1>5, <1>6, <1>7, <2>3
<1>9. PICK whole : whole = r.kept \o rest
  OBVIOUS
<1>10. whole \in Seq(Entry) /\ ChunksIn(whole) = ChunksIn(r.kept) \cup ChunksIn(rest) /\ OnceEach(whole)
  BY <1>1, <1>5, <1>8, <1>9, JoinedChunks DEF KeptOK
<1>11. s \in Seq(Entry) /\ ChunksIn(s) = ChunksIn(whole) /\ OnceEach(s)
  BY <1>4, <1>9, <1>10, SortedChunks
<1>12. QED
  BY <1>5, <1>6, <1>7, <1>10, <1>11 DEF QueueOf

-----------------------------------------------------------------------------
(***************************************************************************)
(* Scheduling                                                              *)
(***************************************************************************)
LEMMA NoneInBatch ==
  ASSUME SlotInv, pc \notin {"prepare", "forward", "process", "evict_error"}
  PROVE  /\ batch = NoBatch /\ batch.reqs = <<>> /\ ToSet(batch.reqs) = {}
         /\ Live = running \cup ChunksIn(pending) /\ Held(slots, running \cup ChunksIn(pending))
         /\ \A r \in running : ~ r.chunked /\ Len(r.ids) = r.device
<1>1. batch = NoBatch /\ batch.reqs = <<>>
  BY DEF SlotInv, BatchOK, NoBatch
<1>2. ToSet(batch.reqs) = {}
  <2>1. DOMAIN <<>> = {}
    OBVIOUS
  <2>2. QED
    BY <1>1, <2>1 DEF ToSet
<1>3. Live = running \cup ChunksIn(pending)
  BY <1>2 DEF Live, Chunks, ChunksIn
<1>4. Held(slots, running \cup ChunksIn(pending))
  BY <1>3 DEF SlotInv, SlotsOK
<1>5. \A r \in running : ~ r.chunked /\ Len(r.ids) = r.device
  BY <1>2 DEF SlotInv, RequestsOK, CanDecode
<1>6. QED
  BY <1>1, <1>2, <1>3, <1>4, <1>5

LEMMA SchedulePrefillKeeps ==
  ASSUME SlotInv, Orderly, SchedulePrefill
  PROVE  SlotInv'
<1> PICK r : r = Round
  OBVIOUS
<1> PICK A : A = running
  OBVIOUS
<1>1. /\ pc = "schedule" /\ ~ r.tooLarge /\ r.admitted # <<>>
      /\ batch' = [phase |-> "prefill", reqs |-> r.admitted]
      /\ slots' = r.slots /\ pending' = PendingAfter(params, r, pending) /\ pc' = "prepare"
      /\ UNCHANGED <<input, inbox, params, running>>
  BY DEF SchedulePrefill
<1>2. /\ A \in SUBSET Request /\ (\A a \in A : ~ a.chunked) /\ Held(slots, A \cup ChunksIn(pending))
      /\ \A a \in A : Len(a.ids) = a.device
  BY <1>1, NoneInBatch DEF SlotInv, RequestsOK
<1>3. /\ pending \in Seq(Entry) /\ params \in Params /\ OnceEach(pending)
      /\ \A c \in ChunksIn(pending) : c.chunked
  BY DEF SlotInv, RequestsOK, ChunksOK, Chunks, ChunksIn
<1>4. RoundOK(A, pending, r, Len(pending))
  BY <1>2, <1>3, RoundIs DEF Round
<1>5. Last(r.admitted).chunked /\ Len(r.admitted) + Len(r.kept) \in DOMAIN pending =>
        pending[Len(r.admitted) + Len(r.kept)].chunk = <<>>
  BY <1>1 DEF Orderly
<1> PICK X : X = Left(pending, Reached(r))
  OBVIOUS
<1>6. /\ pending' \in Seq(Entry) /\ OnceEach(pending')
      /\ ChunksIn(pending') = (IF Cut(r) THEN {Last(r.admitted)} ELSE {}) \cup X
  <2>1. NothingPassed(r, pending)
    BY <1>5 DEF NothingPassed
  <2>2. QueueOf(r, pending, PendingAfter(params, r, pending))
    BY <1>1, <1>3, <1>4, <2>1, AfterRound
  <2>3. QED
    BY <1>1, <2>2 DEF QueueOf
<1>7. /\ r.admitted \in Seq(Request) /\ Len(r.admitted) \in Nat /\ DOMAIN r.admitted = 1..Len(r.admitted)
      /\ Len(r.admitted) \in 1..Len(r.admitted)
  <2>1. r.admitted \in Seq(Request)
    BY <1>4 DEF RoundOK, IsRound
  <2>2. QED
    BY <1>1, <2>1
<1> PICK D : D = ToSet(r.admitted)
  OBVIOUS
<1>8. D \subseteq Request /\ Last(r.admitted) \in D
      /\ (\A d \in D : \E i \in 1..Len(r.admitted) : d = r.admitted[i])
      /\ \A i \in 1..Len(r.admitted) : r.admitted[i] \in D
  BY <1>7 DEF ToSet, Last
<1>9. Held(slots', A \cup D \cup X) /\ D \cap (A \cup X) = {}
  BY <1>1, <1>4 DEF RoundOK
<1>10. \A d \in D : d.chunked => Cut(r) /\ d = Last(r.admitted)
  <2>1. \A i \in 1..Len(r.admitted) : r.admitted[i].chunked => i = Len(r.admitted)
    BY <1>4 DEF RoundOK, AdmittedOK
  <2>2. \A d \in D : d.chunked => d = Last(r.admitted)
    BY <1>8, <2>1 DEF Last
  <2>3. QED
    BY <1>1, <2>2 DEF Cut
<1>11. \A d \in D : Len(d.ids) = d.device
  <2>1. \A i \in 1..Len(r.admitted) : Len(r.admitted[i].ids) = r.admitted[i].device
    BY <1>4 DEF RoundOK, AdmittedOK
  <2>2. QED
    BY <1>8, <2>1, SMTT(30)
<1>12. batch'.reqs = r.admitted /\ batch'.phase = "prefill" /\ ToSet(batch'.reqs) = D
  BY <1>1
<1>13. X \subseteq ChunksIn(pending)
  <2>1. Left(pending, Reached(r)) \subseteq ChunksIn(pending)
    <3>1. Reached(r) \in Nat
      BY <1>4 DEF RoundOK
    <3>2. \A i \in Reached(r) + 1..Len(pending) : i \in DOMAIN pending
      BY <1>3, <3>1
    <3>3. QED
      BY <3>2 DEF Left, ChunksIn
  <2>2. QED
    BY <2>1
<1>14. RequestsOK'
  <2>1. /\ prompt' \in [Uid -> Seq(Nat)] /\ params' \in Params /\ inbox' \in Seq(Uid)
        /\ running' \in SUBSET Request /\ IsFiniteSet(running')
    BY <1>1 DEF SlotInv, RequestsOK, input
  <2>2. (\A a \in running' : CanDecode(a)) /\ \A a \in running' : Len(a.ids) = a.device
    BY <1>1, <1>2 DEF SlotInv, RequestsOK
  <2>3. batch' \in [phase : {"none", "prefill", "decode"}, reqs : Seq(Request)]
    BY <1>1, <1>7
  <2>4. QED
    BY <1>1, <1>6, <1>11, <1>12, <2>1, <2>2, <2>3 DEF RequestsOK
<1>15. ChunksOK'
  <2>1. \A c \in ChunksIn(pending') : c.chunked
    BY <1>3, <1>6, <1>13 DEF Cut
  <2>2. QED
    BY <1>6, <2>1 DEF ChunksOK, Chunks, ChunksIn
<1>16. BatchOK'
  <2>1. \A i, j \in DOMAIN batch'.reqs : batch'.reqs[i].slot = batch'.reqs[j].slot => i = j
    BY <1>4, <1>7, <1>12 DEF RoundOK, AdmittedOK
  <2>2. \A d \in ToSet(batch'.reqs) : d.chunked => d \in Chunks'
    BY <1>6, <1>10, <1>12 DEF Chunks, ChunksIn
  <2>3. ToSet(batch'.reqs) \cap running' = {}
    BY <1>1, <1>9, <1>12
  <2>4. QED
    BY <1>1, <1>12, <2>1, <2>2, <2>3 DEF BatchOK
<1>17. SlotsOK'
  <2>1. Live' = A \cup D \cup X
    BY <1>1, <1>6, <1>8, <1>12, SMTT(30) DEF Live, Chunks, ChunksIn
  <2>2. QED
    BY <1>9, <2>1 DEF SlotsOK
<1>18. QED
  BY <1>14, <1>15, <1>16, <1>17 DEF SlotInv

\* running_reqs as a list.
LEMMA OrdersOf ==
  ASSUME NEW S \in SUBSET Request, IsFiniteSet(S), NEW order \in SetToSeqs(S)
  PROVE  /\ order \in Seq(Request) /\ ToSet(order) = S
         /\ \A i, j \in DOMAIN order : order[i] = order[j] => i = j
<1> PICK n : n = Cardinality(S)
  OBVIOUS
<1>1. n \in Nat
  BY FS_CardinalityType
<1>2. order \in [1..n -> S] /\ \A i, j \in 1..n : i # j => order[i] # order[j]
  BY DEF SetToSeqs
<1>3. order \in Seq(Request) /\ DOMAIN order = 1..n
  BY <1>1, <1>2
<1>4. order \in Injection(1..n, S)
  BY <1>2 DEF Injection, IsInjective
<1>5. Cardinality(1..n) = n
  BY <1>1, FS_Interval
<1>6. order \in Surjection(1..n, S)
  BY <1>4, <1>5, FS_Injection
<1>7. \A x \in S : \E i \in 1..n : order[i] = x
  BY <1>6 DEF Surjection
<1>8. ToSet(order) = S
  BY <1>2, <1>3, <1>7 DEF ToSet
<1>9. QED
  BY <1>2, <1>3, <1>8

LEMMA ScheduleDecodeKeeps ==
  ASSUME SlotInv, ScheduleDecode
  PROVE  SlotInv'
<1>1. PICK order \in SetToSeqs(running) : batch' = [phase |-> "decode", reqs |-> order]
  BY DEF ScheduleDecode
<1>2. /\ pc = "schedule" /\ pc' = "prepare"
      /\ UNCHANGED <<prompt, params, inbox, pending, running, slots>>
  BY DEF ScheduleDecode, input, queues
<1> PICK A : A = running
  OBVIOUS
<1>3. A \in SUBSET Request /\ IsFiniteSet(A)
  BY DEF SlotInv, RequestsOK
<1>4. /\ \A r \in A : ~ r.chunked /\ Len(r.ids) = r.device
      /\ Held(slots, A \cup ChunksIn(pending))
  BY <1>2, NoneInBatch
<1>5. /\ order \in Seq(Request) /\ ToSet(order) = A
      /\ \A i, j \in DOMAIN order : order[i] = order[j] => i = j
  BY <1>1, <1>3, OrdersOf
<1>6. batch'.reqs = order /\ batch'.phase = "decode"
  BY <1>1
<1>7. \A i \in DOMAIN order : order[i] \in A
  BY <1>5 DEF ToSet
<1>8. RequestsOK'
  <2>1. batch' \in [phase : {"none", "prefill", "decode"}, reqs : Seq(Request)]
    BY <1>1, <1>5
  <2>2. /\ prompt' \in [Uid -> Seq(Nat)] /\ params' \in Params /\ inbox' \in Seq(Uid)
        /\ running' \in SUBSET Request /\ IsFiniteSet(running') /\ pending' \in Seq(Entry)
        /\ \A r \in running' : CanDecode(r)
    BY <1>2 DEF SlotInv, RequestsOK
  <2>3. QED
    BY <1>2, <1>4, <1>5, <1>6, <2>1, <2>2 DEF RequestsOK
<1>9. BatchOK'
  <2>1. \A q, r \in A : q.slot = r.slot => q = r
    BY <1>4 DEF Held
  <2>2. \A i, j \in DOMAIN order : order[i].slot = order[j].slot => i = j
    BY <1>5, <1>7, <2>1
  <2>3. QED
    BY <1>2, <1>4, <1>5, <1>6, <2>2 DEF BatchOK
<1>10. ChunksOK'
  <2>1. ChunksOK
    BY DEF SlotInv
  <2>2. QED
    BY <1>2, <2>1 DEF ChunksOK, Chunks, OnceEach
<1>11. SlotsOK'
  <2>1. Live' = A \cup ChunksIn(pending)
    BY <1>2, <1>5, <1>6 DEF Live, Chunks, ChunksIn
  <2>2. QED
    BY <1>2, <1>4, <2>1 DEF SlotsOK
<1>12. QED
  BY <1>8, <1>9, <1>10, <1>11 DEF SlotInv

\* A step that moves no request.
LEMMA NothingMoved ==
  ASSUME SlotInv, UNCHANGED <<prompt, params, inbox, pending, running, slots, batch, sampled>>,
         pc' = "process" <=> pc = "process",
         pc' \in {"prepare", "forward"} => pc \in {"prepare", "forward"},
         batch = NoBatch \/ pc' \in {"prepare", "forward", "process", "evict_error"}
  PROVE  SlotInv'
<1>1. RequestsOK'
  BY DEF SlotInv, RequestsOK
<1>2. BatchOK'
  <2>1. Chunks' = Chunks
    BY DEF Chunks
  <2>2. QED
    BY <2>1 DEF SlotInv, BatchOK
<1>3. ChunksOK'
  BY DEF SlotInv, ChunksOK, Chunks, OnceEach
<1>4. SlotsOK'
  <2>1. Live' = Live
    BY DEF Live, Chunks
  <2>2. QED
    BY <2>1 DEF SlotInv, SlotsOK
<1>5. QED
  BY <1>1, <1>2, <1>3, <1>4 DEF SlotInv

\* The batch is put away, and what it held is held elsewhere.
LEMMA BatchDropped ==
  ASSUME SlotInv, batch' = NoBatch, pc' \in {"schedule", "receive"},
         prompt' = prompt, params' \in Params, inbox' \in Seq(Uid),
         pending' \in Seq(Entry), OnceEach(pending'), \A c \in ChunksIn(pending') : c.chunked,
         running' \in SUBSET Request, IsFiniteSet(running'),
         \A r \in running' : CanDecode(r) /\ Len(r.ids) = r.device,
         Held(slots', running' \cup ChunksIn(pending'))
  PROVE  SlotInv'
<1>1. batch'.reqs = <<>> /\ batch'.phase = "none" /\ ToSet(batch'.reqs) = {} /\ DOMAIN batch'.reqs = {}
  <2>1. DOMAIN <<>> = {}
    OBVIOUS
  <2>2. batch'.reqs = <<>> /\ batch'.phase = "none"
    BY DEF NoBatch
  <2>3. QED
    BY <2>1, <2>2 DEF ToSet
<1>2. RequestsOK'
  <2>1. batch' \in [phase : {"none", "prefill", "decode"}, reqs : Seq(Request)]
    BY DEF NoBatch
  <2>2. prompt' \in [Uid -> Seq(Nat)]
    BY DEF SlotInv, RequestsOK
  <2>3. QED
    BY <1>1, <2>1, <2>2 DEF RequestsOK
<1>3. BatchOK'
  BY <1>1 DEF BatchOK, NoBatch
<1>4. ChunksOK'
  BY DEF ChunksOK, Chunks, ChunksIn
<1>5. SlotsOK'
  <2>1. Live' = running' \cup ChunksIn(pending')
    BY <1>1 DEF Live, Chunks, ChunksIn
  <2>2. QED
    BY <2>1 DEF SlotsOK
<1>6. QED
  BY <1>2, <1>3, <1>4, <1>5 DEF SlotInv

-----------------------------------------------------------------------------
(***************************************************************************)
(* Messages                                                                *)
(***************************************************************************)
\* The queue q as messages are accepted.
AcceptedUpTo(f, start, uids, n) ==
  f = [k \in 0..n |-> IF k = 0 THEN start ELSE Accept(f[k - 1], uids[k])]

LEMMA AcceptedExists ==
  ASSUME NEW start, NEW uids, NEW n \in Nat
  PROVE  \E f : AcceptedUpTo(f, start, uids, n)
<1> DEFINE S == {k \in Nat : \E f : AcceptedUpTo(f, start, uids, k)}
<1>1. 0 \in S
  <2>1. AcceptedUpTo([k \in 0..0 |-> start], start, uids, 0)
    BY DEF AcceptedUpTo
  <2>2. QED
    BY <2>1
<1>2. ASSUME NEW k \in Nat, k \in S
      PROVE  k + 1 \in S
  <2>1. PICK f : AcceptedUpTo(f, start, uids, k)
    BY <1>2
  <2>2. AcceptedUpTo([j \in 0..k + 1 |-> IF j = k + 1 THEN Accept(f[k], uids[k + 1]) ELSE f[j]], start, uids, k + 1)
    BY <2>1 DEF AcceptedUpTo
  <2>3. QED
    BY <2>2
<1> HIDE DEF S
<1>3. n \in S
  BY <1>1, <1>2, SetInduction
<1>4. QED
  BY <1>3 DEF S

QueueIs(q, p) ==
  /\ q = [params |-> q.params, pending |-> q.pending]
  /\ q.params \in Params /\ q.pending \in Seq(Entry)
  /\ ChunksIn(q.pending) = ChunksIn(p) /\ OnceEach(q.pending)

LEMMA AcceptKeeps ==
  ASSUME prompt \in [Uid -> Seq(Nat)], NEW p, NEW q, QueueIs(q, p), NEW u \in Uid
  PROVE  QueueIs(Accept(q, u), p)
<1> DEFINE room == MaxSeqLen - Len(prompt[u])
           prm == [q.params EXCEPT ![ParamsOf[u]] = Min2(@, room)]
           old == q.pending
           new == SortPending(prm, Append(old, FreshPending(u)))
<1>1. room \in Int
  <2>1. Len(prompt[u]) \in Nat
    OBVIOUS
  <2>2. MaxSeqLen \in Int
    BY SequenceAssumption, PoolAssumption DEF TotalCapacity
  <2>3. QED
    BY <2>1, <2>2
<1>2. Accept(q, u) = IF room <= 0 THEN q ELSE [params |-> prm, pending |-> new]
  BY DEF Accept
<1>3. prm \in Params
  <2> HIDE DEF room
  <2>1. q.params \in Params
    BY DEF QueueIs
  <2>2. \A a \in Int : Min2(a, room) \in Int
    BY <1>1 DEF Min2
  <2>3. QED
    BY <2>1, <2>2 DEF Params
<1>4. /\ old \in Seq(Entry) /\ ChunksIn(old) = ChunksIn(p) /\ OnceEach(old)
      /\ FreshPending(u) \in Entry /\ FreshPending(u).chunk = <<>>
  BY FreshIs DEF QueueIs
<1> PICK longer : longer = Append(old, FreshPending(u))
  OBVIOUS
<1>5. longer \in Seq(Entry) /\ ChunksIn(longer) = ChunksIn(p) /\ OnceEach(longer)
  BY <1>4, AppendedChunks
<1>6. new = SortPending(prm, longer)
  OBVIOUS
<1> HIDE DEF prm, old, new, room
<1>7. new \in Seq(Entry) /\ ChunksIn(new) = ChunksIn(p) /\ OnceEach(new)
  BY <1>3, <1>5, <1>6, SortedChunks
<1>8. CASE Accept(q, u) = q
  BY <1>8
<1>9. CASE Accept(q, u) = [params |-> prm, pending |-> new]
  BY <1>3, <1>7, <1>9 DEF QueueIs
<1>10. QED
  BY <1>2, <1>8, <1>9

LEMMA TakesSome ==
  ASSUME inbox \in Seq(Uid)
  PROVE  TakeCount \in 0..Len(inbox)
<1> DEFINE tokens(n) == FoldLeft(LAMBDA s, u : s + Len(prompt[u]), 0, SubSeq(inbox, 1, n))
           enough(k) == tokens(k) >= PrefillBudget
           K == {k \in 1..Len(inbox) : k = Len(inbox) \/ enough(k)}
<1>1. TakeCount = IF inbox = <<>> THEN 0 ELSE Min(K)
  BY DEF TakeCount
<1> HIDE DEF enough
<1>2. CASE inbox = <<>>
  BY <1>1, <1>2
<1>3. CASE inbox # <<>>
  <2>1. PICK n \in Nat : n = Len(inbox) /\ n >= 1
    BY <1>3
  <2>2. n \in K /\ K \subseteq 1..n
    BY <2>1
  <2> HIDE DEF K
  <2>3. PICK m \in K : \A k \in K : m <= k
    BY <2>2, LeastNumber
  <2>4. Min(K) = CHOOSE x \in K : \A y \in K : x <= y
    BY DEF Min
  <2>5. Min(K) \in K
    BY <2>3, <2>4
  <2>6. QED
    BY <1>1, <1>3, <2>1, <2>2, <2>5
<1>4. QED
  BY <1>2, <1>3

LEMMA AcceptedIs ==
  ASSUME SlotInv
  PROVE  QueueIs(Accepted, pending)
<1> DEFINE start == [params |-> params, pending |-> pending]
           n == TakeCount
           f == CHOOSE f : AcceptedUpTo(f, start, inbox, n)
<1>1. n \in 0..Len(inbox) /\ n \in Nat /\ inbox \in Seq(Uid) /\ prompt \in [Uid -> Seq(Nat)]
      /\ \A k \in 1..n : inbox[k] \in Uid
  <2>1. inbox \in Seq(Uid) /\ prompt \in [Uid -> Seq(Nat)]
    BY DEF SlotInv, RequestsOK
  <2>2. n \in 0..Len(inbox)
    BY <2>1, TakesSome
  <2> HIDE DEF n
  <2>3. QED
    BY <2>1, <2>2
<1> HIDE DEF n
<1>2. AcceptedUpTo(f, start, inbox, n)
  BY <1>1, AcceptedExists
<1>3. Accepted = f[n]
  BY DEF Accepted, AcceptedUpTo, n
<1>4. QueueIs(start, pending)
  BY DEF SlotInv, RequestsOK, ChunksOK, QueueIs
<1> HIDE DEF start, f
<1> DEFINE S == {k \in Nat : k <= n => QueueIs(f[k], pending)}
<1>5. 0 \in S
  BY <1>1, <1>2, <1>4 DEF AcceptedUpTo
<1>6. ASSUME NEW k \in Nat, k \in S
      PROVE  k + 1 \in S
  <2>1. SUFFICES ASSUME k + 1 <= n PROVE QueueIs(f[k + 1], pending)
    OBVIOUS
  <2>2. QueueIs(f[k], pending) /\ k + 1 \in 1..n /\ k + 1 \in 0..n /\ (k + 1) - 1 = k /\ k + 1 # 0
    BY <1>1, <1>6, <2>1
  <2>3. f[k + 1] = Accept(f[k], inbox[k + 1])
    BY <1>2, <2>2 DEF AcceptedUpTo
  <2>4. inbox[k + 1] \in Uid
    BY <1>1, <2>2
  <2>5. QED
    BY <1>1, <2>2, <2>3, <2>4, AcceptKeeps
<1> HIDE DEF S
<1>7. n \in S
  BY <1>1, <1>5, <1>6, SetInduction
<1>8. QED
  BY <1>1, <1>3, <1>7 DEF S

LEMMA ReceiveKeeps ==
  ASSUME SlotInv, Receive
  PROVE  SlotInv'
<1>1. /\ pc = "receive" /\ pc' = "schedule" /\ params' = Accepted.params /\ pending' = Accepted.pending
      /\ inbox' = SubSeq(inbox, TakeCount + 1, Len(inbox))
      /\ UNCHANGED <<prompt, running, slots, batch>>
  BY DEF Receive, input
<1>2. batch = NoBatch /\ Held(slots, running \cup ChunksIn(pending)) /\ \A r \in running : Len(r.ids) = r.device
  BY <1>1, NoneInBatch
<1>3. inbox' \in Seq(Uid)
  <2>1. inbox \in Seq(Uid)
    BY DEF SlotInv, RequestsOK
  <2>2. TakeCount \in 0..Len(inbox)
    BY <2>1, TakesSome
  <2>3. TakeCount + 1 \in Nat \ {0} /\ Len(inbox) \in 0..Len(inbox)
    BY <2>1, <2>2
  <2>4. QED
    BY <1>1, <2>1, <2>3, PartOf
<1>4. /\ params' \in Params /\ pending' \in Seq(Entry) /\ OnceEach(pending')
      /\ ChunksIn(pending') = ChunksIn(pending)
  BY <1>1, AcceptedIs DEF QueueIs
<1>5. /\ running' \in SUBSET Request /\ IsFiniteSet(running')
      /\ \A r \in running' : CanDecode(r) /\ Len(r.ids) = r.device
  BY <1>1, <1>2 DEF SlotInv, RequestsOK
<1>6. \A c \in ChunksIn(pending') : c.chunked
  BY <1>4 DEF SlotInv, ChunksOK, Chunks, ChunksIn
<1>7. Held(slots', running' \cup ChunksIn(pending'))
  BY <1>1, <1>2, <1>4
<1>8. QED
  BY <1>1, <1>2, <1>3, <1>4, <1>5, <1>6, <1>7, BatchDropped

LEMMA JoinedIs ==
  ASSUME NEW X, NEW a \in Seq(X), NEW b \in Seq(X)
  PROVE  /\ a \o b \in Seq(X) /\ Len(a \o b) = Len(a) + Len(b) /\ Len(a) \in Nat /\ Len(b) \in Nat
         /\ \A j \in 1..Len(a) : (a \o b)[j] = a[j]
         /\ \A j \in 1..Len(b) : (a \o b)[Len(a) + j] = b[j]
  OBVIOUS

\* An entry is taken out of the queue.
LEMMA RemovedIs ==
  ASSUME NEW p \in Seq(Entry), NEW i \in 1..Len(p), NEW s, s = RemoveAt(p, i)
  PROVE  /\ s \in Seq(Entry) /\ DOMAIN s = 1..Len(s) /\ DOMAIN p = 1..Len(p)
         /\ \A j \in 1..Len(s) : s[j] = p[IF j < i THEN j ELSE j + 1] /\ (IF j < i THEN j ELSE j + 1) \in 1..Len(p)
         /\ \A j \in 1..Len(p) : j # i => (IF j < i THEN j ELSE j - 1) \in 1..Len(s)
                                          /\ s[IF j < i THEN j ELSE j - 1] = p[j]
<1>1. PICK n \in Nat : n = Len(p)
  OBVIOUS
<1>2. i \in 1..n /\ i - 1 \in 0..Len(p) /\ n \in 0..Len(p) /\ i + 1 \in Nat \ {0}
  BY <1>1
<1>a. PICK a \in Seq(Entry) : a = SubSeq(p, 1, i - 1)
  <2>1. SubSeq(p, 1, i - 1) \in Seq(Entry)
    BY <1>2, PartOf
  <2>2. QED
    BY <2>1
<1>b. PICK b \in Seq(Entry) : b = SubSeq(p, i + 1, Len(p))
  BY <1>1, <1>2, PartOf
<1>3. /\ Len(a) = IF 1 <= i - 1 THEN (i - 1) - 1 + 1 ELSE 0
      /\ \A j \in 1..Len(a) : a[j] = p[1 + j - 1]
  BY <1>a, <1>2, PartOf
<1>4. /\ Len(b) = IF i + 1 <= n THEN n - (i + 1) + 1 ELSE 0
      /\ \A j \in 1..Len(b) : b[j] = p[i + 1 + j - 1]
  BY <1>b, <1>1, <1>2, PartOf
<1>5. Len(a) = i - 1 /\ Len(b) = n - i
  BY <1>2, <1>3, <1>4
<1>6. s = a \o b
  BY <1>a, <1>b DEF RemoveAt
<1>7. /\ s \in Seq(Entry) /\ Len(s) = n - 1
      /\ \A j \in 1..Len(a) : s[j] = a[j]
      /\ \A j \in 1..Len(b) : s[Len(a) + j] = b[j]
  <2>1. /\ s \in Seq(Entry) /\ Len(s) = Len(a) + Len(b)
        /\ \A j \in 1..Len(a) : s[j] = a[j]
        /\ \A j \in 1..Len(b) : s[Len(a) + j] = b[j]
    <3>2. /\ a \o b \in Seq(Entry) /\ Len(a \o b) = Len(a) + Len(b)
          /\ \A j \in 1..Len(a) : (a \o b)[j] = a[j]
          /\ \A j \in 1..Len(b) : (a \o b)[Len(a) + j] = b[j]
      OBVIOUS
    <3>3. QED
      BY <1>6, <3>2
  <2>2. PICK k \in Nat, l \in Nat : k = Len(a) /\ l = Len(b)
    BY <1>3, <1>4, JoinedIs
  <2>3. k + l = n - 1
    BY <1>2, <1>5, <2>2
  <2>4. QED
    BY <2>1, <2>2, <2>3
<1>8. ASSUME NEW j \in 1..Len(s)
      PROVE  s[j] = p[IF j < i THEN j ELSE j + 1] /\ (IF j < i THEN j ELSE j + 1) \in 1..Len(p)
  <2>1. CASE j < i
    <3>1. j \in 1..Len(a) /\ 1 + j - 1 = j /\ j \in 1..Len(p)
      BY <1>1, <1>2, <1>5, <1>7, <2>1
    <3>2. QED
      BY <1>3, <1>7, <2>1, <3>1
  <2>2. CASE ~ j < i
    <3>1. PICK k \in Int : k = j - (i - 1)
      BY <1>2
    <3>2. k \in 1..Len(b) /\ Len(a) + k = j /\ i + 1 + k - 1 = j + 1 /\ j + 1 \in 1..Len(p)
      BY <1>1, <1>2, <1>5, <1>7, <2>2, <3>1
    <3>3. QED
      BY <1>4, <1>7, <2>2, <3>2
  <2>3. QED
    BY <2>1, <2>2
<1>9. ASSUME NEW j \in 1..Len(p), j # i
      PROVE  (IF j < i THEN j ELSE j - 1) \in 1..Len(s) /\ s[IF j < i THEN j ELSE j - 1] = p[j]
  <2>1. CASE j < i
    <3>1. j \in 1..Len(s)
      BY <1>1, <1>2, <1>7, <2>1
    <3>2. QED
      BY <1>8, <2>1, <3>1
  <2>2. CASE j > i
    <3>1. PICK k \in Int : k = j - 1
      OBVIOUS
    <3>2. k \in 1..Len(s) /\ ~ (k < i) /\ k + 1 = j /\ ~ (j < i)
      BY <1>1, <1>2, <1>7, <2>2, <3>1
    <3>3. QED
      BY <1>8, <3>1, <3>2
  <2>3. QED
    BY <1>2, <1>9, <2>1, <2>2
<1>10. DOMAIN s = 1..Len(s) /\ DOMAIN p = 1..Len(p)
  BY <1>7
<1>11. QED
  BY <1>7, <1>8, <1>9, <1>10

LEMMA RemovedChunks ==
  ASSUME NEW p \in Seq(Entry), OnceEach(p), NEW i \in 1..Len(p)
  PROVE  /\ RemoveAt(p, i) \in Seq(Entry) /\ OnceEach(RemoveAt(p, i))
         /\ p[i].chunk = <<>> => ChunksIn(RemoveAt(p, i)) = ChunksIn(p)
         /\ p[i].chunk # <<>> => ChunksIn(RemoveAt(p, i)) = ChunksIn(p) \ {p[i].chunk[1]}
<1> PICK s : s = RemoveAt(p, i)
  OBVIOUS
<1> DEFINE up(j) == IF j < i THEN j ELSE j + 1
           down(j) == IF j < i THEN j ELSE j - 1
<1>1. /\ s \in Seq(Entry) /\ DOMAIN s = 1..Len(s) /\ DOMAIN p = 1..Len(p)
      /\ \A j \in 1..Len(s) : s[j] = p[up(j)] /\ up(j) \in 1..Len(p)
      /\ \A j \in 1..Len(p) : j # i => down(j) \in 1..Len(s) /\ s[down(j)] = p[j]
  BY RemovedIs, SMTT(30)
<1>2. \A j \in 1..Len(s) : up(j) # i
  OBVIOUS
<1>3. \A j, k \in 1..Len(s) : up(j) = up(k) => j = k
  OBVIOUS
<1> HIDE DEF up, down
<1>4. OnceEach(s)
  <2>1. SUFFICES ASSUME NEW j \in 1..Len(s), NEW k \in 1..Len(s), s[j].chunk # <<>>, s[j].chunk = s[k].chunk
                 PROVE  j = k
    BY <1>1 DEF OnceEach
  <2>2. p[up(j)].chunk # <<>> /\ p[up(j)].chunk = p[up(k)].chunk /\ up(j) \in DOMAIN p /\ up(k) \in DOMAIN p
    BY <1>1, <2>1
  <2>3. up(j) = up(k)
    BY <2>2 DEF OnceEach
  <2>4. QED
    BY <1>3, <2>3
<1>5. ASSUME NEW c \in ChunksIn(s)
      PROVE  c \in ChunksIn(p) /\ (p[i].chunk # <<>> => c # p[i].chunk[1])
  <2>1. PICK j \in 1..Len(s) : s[j].chunk # <<>> /\ c = s[j].chunk[1]
    BY <1>1 DEF ChunksIn
  <2>2. up(j) \in DOMAIN p /\ p[up(j)].chunk # <<>> /\ c = p[up(j)].chunk[1] /\ up(j) # i
    BY <1>1, <1>2, <2>1
  <2>3. c \in ChunksIn(p)
    BY <2>2 DEF ChunksIn
  <2>4. ASSUME p[i].chunk # <<>>, c = p[i].chunk[1]
        PROVE  FALSE
    <3>1. p[i].chunk = <<c>> /\ p[up(j)].chunk = <<c>>
      <4>1. \A k \in 1..Len(p) : p[k].chunk # <<>> => p[k].chunk = <<p[k].chunk[1]>>
        BY ChunksAre
      <4>2. QED
        BY <1>1, <2>2, <2>4, <4>1
    <3>2. up(j) = i
      BY <1>1, <2>2, <2>4, <3>1 DEF OnceEach
    <3>3. QED
      BY <2>2, <3>2
  <2>5. QED
    BY <2>3, <2>4
<1>6. ASSUME NEW c \in ChunksIn(p), p[i].chunk # <<>> => c # p[i].chunk[1]
      PROVE  c \in ChunksIn(s)
  <2>1. PICK j \in 1..Len(p) : p[j].chunk # <<>> /\ c = p[j].chunk[1]
    BY <1>1 DEF ChunksIn
  <2>2. j # i
    BY <1>6, <2>1
  <2>3. QED
    BY <1>1, <2>1, <2>2 DEF ChunksIn
<1>7. (p[i].chunk = <<>> => ChunksIn(s) = ChunksIn(p))
      /\ (p[i].chunk # <<>> => ChunksIn(s) = ChunksIn(p) \ {p[i].chunk[1]})
  BY <1>5, <1>6
<1>8. QED
  BY <1>1, <1>4, <1>7

\* A running request or a chunk gives up its slot.
LEMMA OneGoes ==
  ASSUME NEW free, NEW A, NEW X, Held(free, A \cup X),
         \A r \in A : ~ r.chunked, \A c \in X : c.chunked
  PROVE  /\ \A r \in A : Held(FreeSlot(free, r), (A \ {r}) \cup X)
         /\ \A c \in X : Held(FreeSlot(free, c), A \cup (X \ {c}))
<1> PICK L : L = A \cup X
  OBVIOUS
<1>1. Held(free, L)
  OBVIOUS
<1>2. \A r \in L : Held(FreeSlot(free, r), L \ {r})
  BY <1>1, HeldFree
<1>3. (\A r \in A : L \ {r} = (A \ {r}) \cup X) /\ \A c \in X : L \ {c} = A \cup (X \ {c})
  OBVIOUS
<1>4. QED
  BY <1>2, <1>3

LEMMA AbortKeeps ==
  ASSUME SlotInv, NEW u \in Abortable, Abort(u)
  PROVE  SlotInv'
<1> DEFINE waiting == {i \in DOMAIN pending : pending[i].uid = u}
           entry   == IF waiting = {} THEN <<>> ELSE <<pending[Min(waiting)]>>
           chunk   == IF entry = <<>> THEN <<>> ELSE entry[1].chunk
           active  == {r \in running : r.uid = u}
<1>1. /\ pc = "receive" /\ pc' = "receive" /\ UNCHANGED <<prompt, params, inbox, batch>>
      /\ pending' = IF waiting = {} THEN pending ELSE RemoveAt(pending, Min(waiting))
  BY DEF Abort, input
<1>2. \/ chunk # <<>> /\ slots' = FreeSlot(slots, chunk[1]) /\ running' = running
      \/ chunk = <<>> /\ \E r \in active : running' = running \ {r} /\ slots' = FreeSlot(slots, r)
      \/ chunk = <<>> /\ running' = running /\ slots' = slots
  BY DEF Abort
<1> PICK A : A = running
  OBVIOUS
<1> PICK X : X = ChunksIn(pending)
  OBVIOUS
<1>3. batch = NoBatch /\ Held(slots, A \cup X) /\ \A r \in A : ~ r.chunked /\ Len(r.ids) = r.device
  BY <1>1, NoneInBatch
<1>4. pending \in Seq(Entry) /\ OnceEach(pending) /\ \A c \in X : c.chunked
  BY DEF SlotInv, RequestsOK, ChunksOK, Chunks, ChunksIn
<1>5. waiting # {} => Min(waiting) \in 1..Len(pending)
  <2>1. waiting \subseteq 1..Len(pending) /\ waiting \subseteq Nat
    BY <1>4
  <2> HIDE DEF waiting
  <2>2. SUFFICES ASSUME waiting # {} PROVE Min(waiting) \in waiting
    BY <2>1
  <2>3. PICK m \in waiting : \A k \in waiting : m <= k
    BY <2>1, <2>2, LeastNumber
  <2>4. Min(waiting) = CHOOSE x \in waiting : \A y \in waiting : x <= y
    BY DEF Min
  <2>5. QED
    BY <2>3, <2>4
<1>6. chunk = IF waiting = {} THEN <<>> ELSE pending[Min(waiting)].chunk
  OBVIOUS
<1> PICK W : W = waiting
  OBVIOUS
<1> HIDE DEF waiting, entry, chunk
<1>7. /\ pending' \in Seq(Entry) /\ OnceEach(pending')
      /\ chunk = <<>> => ChunksIn(pending') = X
      /\ chunk # <<>> => ChunksIn(pending') = X \ {chunk[1]} /\ chunk[1] \in X
  <2>1. CASE waiting = {}
    BY <1>1, <1>4, <1>6, <2>1
  <2>2. CASE waiting # {}
    <3>1. PICK i \in 1..Len(pending) : i = Min(waiting)
      BY <1>5, <2>2
    <3>2. pending' = RemoveAt(pending, i) /\ chunk = pending[i].chunk
      BY <1>1, <1>6, <2>2, <3>1
    <3>3. chunk # <<>> => chunk[1] \in X
      BY <1>4, <3>2 DEF ChunksIn
    <3>4. QED
      BY <1>4, <3>2, <3>3, RemovedChunks
  <2>3. QED
    BY <2>1, <2>2
<1>8. /\ running' \in SUBSET A
      /\ Held(slots', running' \cup ChunksIn(pending'))
  <2>1. CASE chunk # <<>> /\ slots' = FreeSlot(slots, chunk[1]) /\ running' = running
    <3>1. Held(FreeSlot(slots, chunk[1]), A \cup (X \ {chunk[1]}))
      BY <1>3, <1>4, <1>7, <2>1, OneGoes
    <3>2. QED
      BY <1>7, <2>1, <3>1
  <2>2. CASE chunk = <<>> /\ \E r \in active : running' = running \ {r} /\ slots' = FreeSlot(slots, r)
    <3>1. PICK r \in A : running' = A \ {r} /\ slots' = FreeSlot(slots, r)
      BY <2>2
    <3>2. Held(FreeSlot(slots, r), (A \ {r}) \cup X)
      BY <1>3, <1>4, OneGoes
    <3>3. QED
      BY <1>7, <2>2, <3>1, <3>2
  <2>3. CASE chunk = <<>> /\ running' = running /\ slots' = slots
    BY <1>3, <1>7, <2>3
  <2>4. QED
    BY <1>2, <2>1, <2>2, <2>3
<1>9. /\ running' \in SUBSET Request /\ IsFiniteSet(running')
      /\ \A r \in running' : CanDecode(r) /\ Len(r.ids) = r.device
  <2>1. A \in SUBSET Request /\ IsFiniteSet(A) /\ \A r \in A : CanDecode(r)
    BY DEF SlotInv, RequestsOK
  <2>2. IsFiniteSet(running')
    BY <1>8, <2>1, FS_Subset
  <2>3. QED
    BY <1>3, <1>8, <2>1, <2>2
<1>10. \A c \in ChunksIn(pending') : c.chunked
  BY <1>4, <1>7
<1>11. params' \in Params /\ inbox' \in Seq(Uid) /\ prompt' = prompt
  BY <1>1 DEF SlotInv, RequestsOK
<1>12. QED
  BY <1>1, <1>3, <1>7, <1>8, <1>9, <1>10, <1>11, BatchDropped

-----------------------------------------------------------------------------
(***************************************************************************)
(* A batch that finds no room                                              *)
(***************************************************************************)
\* The requests of a batch from the one after k.
From(reqs, k) == {reqs[i] : i \in k + 1..Len(reqs)}

LEMMA FromNext ==
  ASSUME NEW reqs \in Seq(Request), NEW k \in Nat, k + 1 <= Len(reqs),
         \A i, j \in DOMAIN reqs : reqs[i].slot = reqs[j].slot => i = j
  PROVE  /\ reqs[k + 1] \in From(reqs, k) /\ From(reqs, k + 1) = From(reqs, k) \ {reqs[k + 1]}
         /\ reqs[k + 1] \in ToSet(reqs) /\ k + 1 \in DOMAIN reqs
         /\ \A r \in From(reqs, k + 1) : r.slot # reqs[k + 1].slot
<1>1. PICK n \in Nat : n = Len(reqs)
  OBVIOUS
<1>2. DOMAIN reqs = 1..n /\ k + 1 \in 1..n /\ k + 1 \in k + 1..n /\ (k + 1) + 1 = k + 2
  BY <1>1
<1>3. (\A i \in k + 1..n : i = k + 1 \/ i \in k + 2..n) /\ (\A i \in k + 2..n : i \in k + 1..n /\ i # k + 1)
      /\ \A i \in k + 1..n : i \in 1..n
  BY <1>2
<1>4. From(reqs, k) = {reqs[i] : i \in k + 1..n} /\ From(reqs, k + 1) = {reqs[i] : i \in k + 2..n}
  BY <1>1, <1>2 DEF From
<1>5. \A i \in k + 2..n : reqs[i].slot # reqs[k + 1].slot
  BY <1>2, <1>3
<1>6. \A r \in From(reqs, k + 1) : r.slot # reqs[k + 1].slot
  BY <1>4, <1>5
<1>7. reqs[k + 1] \in From(reqs, k)
  BY <1>2, <1>4
<1>8. From(reqs, k + 1) = From(reqs, k) \ {reqs[k + 1]}
  <2>1. \A r \in From(reqs, k + 1) : r \in From(reqs, k) /\ r # reqs[k + 1]
    BY <1>3, <1>4, <1>6
  <2>2. \A r \in From(reqs, k) : r = reqs[k + 1] \/ r \in From(reqs, k + 1)
    BY <1>3, <1>4
  <2>3. reqs[k + 1] \notin From(reqs, k + 1)
    BY <1>6
  <2>4. QED
    BY <2>1, <2>2, <2>3
<1>9. QED
  BY <1>2, <1>6, <1>7, <1>8 DEF ToSet

LEMMA FromEnds ==
  ASSUME NEW reqs \in Seq(Request)
  PROVE  From(reqs, 0) = ToSet(reqs) /\ From(reqs, Len(reqs)) = {}
<1>1. PICK n \in Nat : n = Len(reqs)
  OBVIOUS
<1>2. DOMAIN reqs = 1..n /\ 0 + 1 = 1 /\ n + 1..n = {}
  BY <1>1
<1>3. QED
  BY <1>1, <1>2 DEF From, ToSet

\* _abort_prefill_batch in progress: s[k] is the state after k requests.
AbortedUpTo(s, start, reqs, n) ==
  s = [k \in 0..n |-> IF k = 0 THEN start ELSE AbortPrefill(s[k - 1], reqs[k])]

LEMMA AbortedExists ==
  ASSUME NEW start, NEW reqs, NEW n \in Nat
  PROVE  \E s : AbortedUpTo(s, start, reqs, n)
<1> DEFINE S == {k \in Nat : \E s : AbortedUpTo(s, start, reqs, k)}
<1>1. 0 \in S
  <2>1. AbortedUpTo([k \in 0..0 |-> start], start, reqs, 0)
    BY DEF AbortedUpTo
  <2>2. QED
    BY <2>1
<1>2. ASSUME NEW k \in Nat, k \in S
      PROVE  k + 1 \in S
  <2>1. PICK s : AbortedUpTo(s, start, reqs, k)
    BY <1>2
  <2>2. AbortedUpTo([j \in 0..k + 1 |-> IF j = k + 1 THEN AbortPrefill(s[k], reqs[k + 1]) ELSE s[j]],
                    start, reqs, k + 1)
    BY <2>1 DEF AbortedUpTo
  <2>3. QED
    BY <2>2
<1> HIDE DEF S
<1>3. n \in S
  BY <1>1, <1>2, SetInduction
<1>4. QED
  BY <1>3 DEF S

\* B are the requests that keep their slot.
AbortedOK(s, B, reqs, k) ==
  /\ s = [pool |-> s.pool, slots |-> s.slots, back |-> s.back]
  /\ s.back \in Seq(Entry) /\ \A i \in 1..Len(s.back) : s.back[i].chunk = <<>>
  /\ Held(s.slots, B \cup From(reqs, k))

LEMMA AbortOne ==
  ASSUME NEW B, NEW reqs \in Seq(Request), NEW k \in Nat, k + 1 <= Len(reqs),
         \A i, j \in DOMAIN reqs : reqs[i].slot = reqs[j].slot => i = j,
         \A r \in ToSet(reqs) : ~ r.chunked /\ Len(r.ids) = r.device /\ r \notin B,
         NEW s, AbortedOK(s, B, reqs, k)
  PROVE  AbortedOK(AbortPrefill(s, reqs[k + 1]), B, reqs, k + 1)
<1>1. PICK r : r = reqs[k + 1]
  OBVIOUS
<1>2. r \in From(reqs, k) /\ From(reqs, k + 1) = From(reqs, k) \ {r} /\ r \in ToSet(reqs) /\ k + 1 \in DOMAIN reqs
  BY <1>1, FromNext
<1>3. r \in Request /\ ~ r.chunked /\ Len(r.ids) = r.device /\ r \notin B
  BY <1>1, <1>2
<1> PICK e : e = ToPending(r)
  OBVIOUS
<1>4. e \in Entry /\ e.chunk = <<>>
  <2>1. r.device <= Len(r.ids)
    BY <1>3, RequestIs
  <2>2. QED
    BY <1>3, <2>1, ToPendingIs
<1> PICK x : x = AbortPrefill(s, r)
  OBVIOUS
<1> PICK p : p = UnlockPrefix(s.pool, r.handle)
  OBVIOUS
<1>5. x = [pool |-> p, slots |-> FreeSlot(s.slots, r), back |-> Append(s.back, e)]
  <2>1. x = [s EXCEPT !.back = Append(@, e), !.slots = FreeSlot(@, r), !.pool = UnlockPrefix(@, r.handle)]
    BY <1>3 DEF AbortPrefill
  <2>2. s = [pool |-> s.pool, slots |-> s.slots, back |-> s.back]
    BY DEF AbortedOK
  <2>3. QED
    BY <2>1, <2>2
<1>6. x.back \in Seq(Entry) /\ \A i \in 1..Len(x.back) : x.back[i].chunk = <<>>
  <2>1. PICK m \in Nat : m = Len(s.back)
    BY DEF AbortedOK
  <2>2. /\ x.back \in Seq(Entry) /\ Len(x.back) = m + 1 /\ x.back[m + 1] = e
        /\ \A i \in 1..m : x.back[i] = s.back[i]
    BY <1>4, <1>5, <2>1 DEF AbortedOK
  <2>3. \A i \in 1..m + 1 : i = m + 1 \/ i \in 1..m
    OBVIOUS
  <2>4. QED
    BY <1>4, <2>1, <2>2, <2>3 DEF AbortedOK
<1>7. Held(x.slots, B \cup From(reqs, k + 1))
  <2>1. PICK L : L = B \cup From(reqs, k)
    OBVIOUS
  <2>2. Held(s.slots, L) /\ r \in L
    BY <1>2, <2>1 DEF AbortedOK
  <2>3. Held(FreeSlot(s.slots, r), L \ {r})
    BY <2>2, HeldFree
  <2>4. L \ {r} = B \cup From(reqs, k + 1)
    BY <1>2, <1>3, <2>1
  <2>5. x.slots = FreeSlot(s.slots, r)
    BY <1>5
  <2>6. QED
    BY <2>3, <2>4, <2>5, Zenon
<1>8. AbortedOK(x, B, reqs, k + 1)
  BY <1>5, <1>6, <1>7 DEF AbortedOK
<1>9. QED
  BY <1>1, <1>8

LEMMA AbortedIs ==
  ASSUME SlotInv, Orderly, NoRoom
  PROVE  /\ Aborted.back \in Seq(Entry) /\ \A i \in 1..Len(Aborted.back) : Aborted.back[i].chunk = <<>>
         /\ Held(Aborted.slots, running \cup ChunksIn(pending))
<1> PICK reqs : reqs = batch.reqs
  OBVIOUS
<1> PICK A : A = running
  OBVIOUS
<1> PICK X : X = ChunksIn(pending)
  OBVIOUS
<1> PICK D : D = ToSet(reqs)
  OBVIOUS
<1> PICK B : B = A \cup X
  OBVIOUS
<1> PICK n : n = Len(reqs)
  OBVIOUS
<1> DEFINE room == [pool |-> MakeRoom(pool, PagesNeeded(reqs)), slots |-> slots, back |-> <<>>]
           f == CHOOSE f : AbortedUpTo(f, room, reqs, n)
<1>1. pc = "prepare" /\ \A i \in DOMAIN reqs : ~ reqs[i].chunked
  BY DEF Orderly, NoRoom
<1>2. reqs \in Seq(Request) /\ n \in Nat /\ DOMAIN reqs = 1..n
      /\ \A i, j \in DOMAIN reqs : reqs[i].slot = reqs[j].slot => i = j
  <2>1. reqs \in Seq(Request)
    BY DEF SlotInv, RequestsOK
  <2>2. \A i, j \in DOMAIN reqs : reqs[i].slot = reqs[j].slot => i = j
    BY DEF SlotInv, BatchOK
  <2>3. QED
    BY <2>1, <2>2
<1>3. \A r \in D : ~ r.chunked /\ Len(r.ids) = r.device /\ r \notin X
  <2>1. \A r \in D : ~ r.chunked
    BY <1>1 DEF ToSet
  <2>2. \A r \in D : Len(r.ids) = r.device
    BY <1>1 DEF SlotInv, RequestsOK
  <2>3. \A c \in X : c.chunked
    BY DEF SlotInv, ChunksOK, Chunks, ChunksIn
  <2>4. QED
    BY <2>1, <2>2, <2>3
<1>4. Held(slots, A \cup D \cup X)
  BY DEF SlotInv, SlotsOK, Live, Chunks, ChunksIn
<1>5. room.slots = slots /\ room.back = <<>>
      /\ room = [pool |-> room.pool, slots |-> room.slots, back |-> room.back]
      /\ room.back \in Seq(Entry) /\ \A i \in 1..Len(room.back) : room.back[i].chunk = <<>>
  OBVIOUS
<1>6. Aborted = IF batch.phase = "prefill" THEN f[n] ELSE room
  BY DEF Aborted, AbortedUpTo
<1> HIDE DEF room, f
<1>7. CASE batch.phase = "prefill"
  <2>1. D \cap A = {}
    BY <1>1, <1>7 DEF SlotInv, BatchOK
  <2>2. \A r \in ToSet(reqs) : ~ r.chunked /\ Len(r.ids) = r.device /\ r \notin B
    BY <1>3, <2>1
  <2>3. AbortedUpTo(f, room, reqs, n)
    BY <1>2, AbortedExists DEF f
  <2>4. AbortedOK(room, B, reqs, 0)
    <3>1. A \cup D \cup X = B \cup From(reqs, 0)
      BY <1>2, FromEnds
    <3>2. Held(slots, B \cup From(reqs, 0))
      BY <1>4, <3>1, Zenon
    <3>3. QED
      BY <1>5, <3>2 DEF AbortedOK
  <2> DEFINE S == {k \in Nat : k <= n => AbortedOK(f[k], B, reqs, k)}
  <2>5. 0 \in S
    BY <1>2, <2>3, <2>4 DEF AbortedUpTo
  <2>6. ASSUME NEW k \in Nat, k \in S
        PROVE  k + 1 \in S
    <3>1. SUFFICES ASSUME k + 1 <= n PROVE AbortedOK(f[k + 1], B, reqs, k + 1)
      OBVIOUS
    <3>2. AbortedOK(f[k], B, reqs, k) /\ k + 1 \in 1..n /\ k + 1 \in 0..n /\ (k + 1) - 1 = k /\ k + 1 # 0
      BY <1>2, <2>6, <3>1
    <3>3. f[k + 1] = AbortPrefill(f[k], reqs[k + 1])
      BY <2>3, <3>2 DEF AbortedUpTo
    <3>4. QED
      BY <1>2, <2>2, <3>1, <3>2, <3>3, AbortOne
  <2> HIDE DEF S
  <2>7. n \in S
    BY <1>2, <2>5, <2>6, SetInduction
  <2>8. AbortedOK(Aborted, B, reqs, n)
    BY <1>2, <1>6, <1>7, <2>7 DEF S
  <2>9. B \cup From(reqs, n) = A \cup X
    BY <1>2, FromEnds
  <2>10. Held(Aborted.slots, A \cup X)
    BY <2>8, <2>9, Zenon DEF AbortedOK
  <2>11. QED
    BY <2>8, <2>10 DEF AbortedOK
<1>8. CASE batch.phase # "prefill"
  <2>1. D = A
    BY <1>1, <1>8 DEF SlotInv, BatchOK
  <2>2. A \cup D \cup X = A \cup X
    BY <2>1
  <2>3. Held(slots, A \cup X)
    BY <1>4, <2>2, Zenon
  <2>4. Aborted = room
    BY <1>6, <1>8
  <2>5. QED
    BY <1>5, <2>3, <2>4
<1>9. QED
  BY <1>7, <1>8

\* What is put back holds nothing.
LEMMA RequeuedIs ==
  ASSUME SlotInv, NEW back \in Seq(Entry), \A i \in 1..Len(back) : back[i].chunk = <<>>
  PROVE  Requeued(back) \in Seq(Entry) /\ OnceEach(Requeued(back)) /\ ChunksIn(Requeued(back)) = ChunksIn(pending)
<1>1. pending \in Seq(Entry) /\ OnceEach(pending) /\ params \in Params
  BY DEF SlotInv, RequestsOK, ChunksOK
<1>2. ChunksIn(back) = {} /\ OnceEach(back)
  <2>1. DOMAIN back = 1..Len(back)
    OBVIOUS
  <2>2. QED
    BY <2>1 DEF ChunksIn, OnceEach
<1>3. CASE back = <<>>
  BY <1>1, <1>3 DEF Requeued
<1>4. CASE back # <<>>
  <2>1. PICK whole : whole = back \o pending
    OBVIOUS
  <2>2. whole \in Seq(Entry) /\ ChunksIn(whole) = ChunksIn(pending) /\ OnceEach(whole)
    <3>1. /\ back \o pending \in Seq(Entry) /\ ChunksIn(back \o pending) = ChunksIn(back) \cup ChunksIn(pending)
          /\ OnceEach(back \o pending)
      BY <1>1, <1>2, JoinedChunks
    <3>2. QED
      BY <1>2, <2>1, <3>1
  <2>3. Requeued(back) = SortPending(params, whole)
    BY <1>4, <2>1 DEF Requeued
  <2>4. QED
    BY <1>1, <2>2, <2>3, SortedChunks
<1>5. QED
  BY <1>3, <1>4

LEMMA CannotPreemptKeeps ==
  ASSUME SlotInv, Orderly, CannotPreempt
  PROVE  SlotInv'
<1>1. /\ NoRoom /\ slots' = Aborted.slots /\ pending' = Requeued(Aborted.back)
      /\ batch' = NoBatch /\ pc' = "receive" /\ UNCHANGED <<prompt, params, inbox, running>> /\ running = {}
  BY DEF CannotPreempt, input
<1>2. /\ Aborted.back \in Seq(Entry) /\ \A i \in 1..Len(Aborted.back) : Aborted.back[i].chunk = <<>>
      /\ Held(Aborted.slots, running \cup ChunksIn(pending))
  BY <1>1, AbortedIs
<1>3. pending' \in Seq(Entry) /\ OnceEach(pending') /\ ChunksIn(pending') = ChunksIn(pending)
  BY <1>1, <1>2, RequeuedIs
<1>4. \A c \in ChunksIn(pending') : c.chunked
  BY <1>3 DEF SlotInv, ChunksOK, Chunks, ChunksIn
<1>5. /\ params' \in Params /\ inbox' \in Seq(Uid) /\ prompt' = prompt
      /\ running' \in SUBSET Request /\ IsFiniteSet(running')
  BY <1>1 DEF SlotInv, RequestsOK
<1>6. Held(slots', running' \cup ChunksIn(pending'))
  BY <1>1, <1>2, <1>3
<1>7. QED
  BY <1>1, <1>3, <1>4, <1>5, <1>6, BatchDropped

LEMMA PreemptKeeps ==
  ASSUME SlotInv, Orderly, Preempt
  PROVE  SlotInv'
<1>1. PICK victim \in running :
        /\ running' = running \ {victim} /\ slots' = FreeSlot(Aborted.slots, victim)
        /\ pending' = SortPending(params, Append(Requeued(Aborted.back), ToPending(victim)))
  BY DEF Preempt
<1>2. NoRoom /\ batch' = NoBatch /\ pc' = "schedule" /\ UNCHANGED <<prompt, params, inbox>> /\ pc = "prepare"
  BY DEF Preempt, input, NoRoom
<1> PICK A : A = running
  OBVIOUS
<1> PICK X : X = ChunksIn(pending)
  OBVIOUS
<1> PICK free : free = Aborted.slots
  OBVIOUS
<1>3. /\ Aborted.back \in Seq(Entry) /\ \A i \in 1..Len(Aborted.back) : Aborted.back[i].chunk = <<>>
      /\ Held(free, A \cup X)
  BY <1>2, AbortedIs
<1> PICK q : q = Requeued(Aborted.back)
  OBVIOUS
<1>4. q \in Seq(Entry) /\ OnceEach(q) /\ ChunksIn(q) = X
  BY <1>3, RequeuedIs
<1>5. /\ A \in SUBSET Request /\ IsFiniteSet(A) /\ params \in Params
      /\ \A r \in A : CanDecode(r) /\ ~ r.chunked /\ Len(r.ids) = r.device
  BY <1>2 DEF SlotInv, RequestsOK, CanDecode
<1> PICK e : e = ToPending(victim)
  OBVIOUS
<1>6. e \in Entry /\ e.chunk = <<>>
  <2>1. victim \in Request /\ victim.device <= Len(victim.ids)
    BY <1>5, RequestIs
  <2>2. QED
    BY <2>1, ToPendingIs
<1> PICK longer : longer = Append(q, e)
  OBVIOUS
<1>7. longer \in Seq(Entry) /\ OnceEach(longer) /\ ChunksIn(longer) = X
  BY <1>4, <1>6, AppendedChunks
<1>8. pending' = SortPending(params, longer)
  BY <1>1
<1>9. pending' \in Seq(Entry) /\ OnceEach(pending') /\ ChunksIn(pending') = X
  BY <1>5, <1>7, <1>8, SortedChunks
<1>10. \A c \in X : c.chunked
  BY DEF SlotInv, ChunksOK, Chunks, ChunksIn
<1>11. Held(slots', running' \cup ChunksIn(pending'))
  <2>1. Held(FreeSlot(free, victim), (A \ {victim}) \cup X)
    BY <1>3, <1>5, <1>10, OneGoes
  <2>2. QED
    BY <1>1, <1>9, <2>1
<1>12. /\ running' \in SUBSET Request /\ IsFiniteSet(running')
       /\ \A r \in running' : CanDecode(r) /\ Len(r.ids) = r.device
  <2>1. running' \in SUBSET A
    BY <1>1
  <2>2. IsFiniteSet(running')
    BY <1>5, <2>1, FS_Subset
  <2>3. QED
    BY <1>5, <2>1, <2>2
<1>13. params' \in Params /\ inbox' \in Seq(Uid) /\ prompt' = prompt
  BY <1>2 DEF SlotInv, RequestsOK
<1>14. QED
  BY <1>2, <1>9, <1>10, <1>11, <1>12, <1>13, BatchDropped

LEMMA GiveUpKeeps ==
  ASSUME SlotInv, Orderly, GiveUp
  PROVE  SlotInv'
<1>1. /\ pc = "prepare" /\ batch' = NoBatch /\ pc' = "receive" /\ batch.phase = "decode"
      /\ UNCHANGED <<prompt, params, inbox, pending, running, slots>>
  BY DEF GiveUp, input, queues, Orderly
<1>2. ToSet(batch.reqs) = running
  BY <1>1 DEF SlotInv, BatchOK
<1>3. Live = running \cup ChunksIn(pending)
  BY <1>2 DEF Live, Chunks, ChunksIn
<1>4. Held(slots', running' \cup ChunksIn(pending'))
  BY <1>1, <1>3 DEF SlotInv, SlotsOK
<1>5. /\ params' \in Params /\ inbox' \in Seq(Uid) /\ prompt' = prompt
      /\ running' \in SUBSET Request /\ IsFiniteSet(running')
      /\ \A r \in running' : CanDecode(r) /\ Len(r.ids) = r.device
  BY <1>1 DEF SlotInv, RequestsOK
<1>6. pending' \in Seq(Entry) /\ OnceEach(pending') /\ \A c \in ChunksIn(pending') : c.chunked
  BY <1>1 DEF SlotInv, RequestsOK, ChunksOK, Chunks, ChunksIn
<1>7. QED
  BY <1>1, <1>4, <1>5, <1>6, BatchDropped

-----------------------------------------------------------------------------
(***************************************************************************)
(* A batch runs                                                            *)
(***************************************************************************)
\* A request after the batch old has run.
Advance(old, r) == IF r \in old THEN CompleteOne(r) ELSE r

LEMMA AdvanceIs ==
  ASSUME NEW old, NEW r \in Request
  PROVE  /\ Advance(old, r) \in Request
         /\ Advance(old, r).slot = r.slot /\ Advance(old, r).chunked = r.chunked
  BY CompletedIs DEF Advance

AdvancedQueue(p, old) ==
  [i \in DOMAIN p |->
     IF p[i].chunk # <<>> /\ p[i].chunk[1] \in old
     THEN [p[i] EXCEPT !.chunk = <<CompleteOne(@[1])>>]
     ELSE p[i]]

LEMMA AdvancedQueueIs ==
  ASSUME NEW p \in Seq(Entry), NEW old
  PROVE  /\ AdvancedQueue(p, old) \in Seq(Entry) /\ DOMAIN AdvancedQueue(p, old) = DOMAIN p
         /\ \A i \in DOMAIN p :
              /\ AdvancedQueue(p, old)[i].chunk = <<>> <=> p[i].chunk = <<>>
              /\ p[i].chunk # <<>> => /\ AdvancedQueue(p, old)[i].chunk = <<Advance(old, p[i].chunk[1])>>
                                      /\ p[i].chunk[1] \in ChunksIn(p) /\ p[i].chunk[1] \in Request
                                      /\ p[i].chunk = <<p[i].chunk[1]>>
<1> PICK s : s = AdvancedQueue(p, old)
  OBVIOUS
<1>1. PICK n \in Nat : n = Len(p)
  OBVIOUS
<1>2. DOMAIN p = 1..n /\ DOMAIN s = 1..n
  BY <1>1 DEF AdvancedQueue
<1>3. ASSUME NEW i \in 1..n
      PROVE  /\ s[i] \in Entry
             /\ s[i].chunk = <<>> <=> p[i].chunk = <<>>
             /\ p[i].chunk # <<>> => /\ s[i].chunk = <<Advance(old, p[i].chunk[1])>>
                                     /\ p[i].chunk[1] \in ChunksIn(p) /\ p[i].chunk[1] \in Request
                                     /\ p[i].chunk = <<p[i].chunk[1]>>
  <2>1. p[i] \in Entry
    BY <1>1
  <2>2. CASE p[i].chunk = <<>>
    <3>1. s[i] = p[i]
      BY <1>2, <2>2 DEF AdvancedQueue
    <3>2. QED
      BY <2>1, <2>2, <3>1
  <2>3. CASE p[i].chunk # <<>>
    <3>1. PICK c : c = p[i].chunk[1]
      OBVIOUS
    <3>2. c \in Request /\ c \in ChunksIn(p) /\ p[i].chunk = <<c>>
      BY <1>1, <2>3, <3>1, ChunksAre
    <3>3. PICK d : d = CompleteOne(c)
      OBVIOUS
    <3>4. d \in Request
      BY <3>2, <3>3, CompletedIs
    <3>5. CASE c \in old
      <4>1. s[i] = [p[i] EXCEPT !.chunk = <<d>>]
        BY <1>2, <2>3, <3>1, <3>3, <3>5 DEF AdvancedQueue
      <4>2. s[i] \in Entry /\ s[i].chunk = <<d>>
        BY <2>1, <3>4, <4>1, ChunkSet
      <4>3. <<d>> # <<>>
        OBVIOUS
      <4>4. Advance(old, c) = d
        BY <3>3, <3>5 DEF Advance
      <4>5. QED
        BY <2>3, <3>1, <3>2, <4>2, <4>3, <4>4
    <3>6. CASE c \notin old
      <4>1. s[i] = p[i]
        BY <1>2, <3>1, <3>6 DEF AdvancedQueue
      <4>2. Advance(old, c) = c
        BY <3>6 DEF Advance
      <4>3. QED
        BY <2>1, <2>3, <3>1, <3>2, <4>1, <4>2
    <3>7. QED
      BY <3>5, <3>6
  <2>4. QED
    BY <2>2, <2>3
<1>4. s \in Seq(Entry)
  <2>1. s = [i \in 1..n |-> s[i]]
    BY <1>2 DEF AdvancedQueue
  <2>2. s \in [1..n -> Entry]
    BY <1>3, <2>1
  <2>3. QED
    BY <1>1, <2>2
<1>5. QED
  BY <1>2, <1>3, <1>4

LEMMA ForwardKeeps ==
  ASSUME SlotInv, Forward
  PROVE  SlotInv'
<1> PICK reqs : reqs = batch.reqs
  OBVIOUS
<1> PICK old : old = ToSet(reqs)
  OBVIOUS
<1>a. PICK after : after = [i \in DOMAIN reqs |-> CompleteOne(reqs[i])]
  OBVIOUS
<1> PICK A : A = running
  OBVIOUS
<1> PICK X : X = ChunksIn(pending)
  OBVIOUS
<1>1. /\ pc = "forward" /\ pc' = "process" /\ UNCHANGED <<prompt, params, inbox, slots>>
      /\ batch' = [batch EXCEPT !.reqs = after]
      /\ running' = {r \in (A \ old) \cup ToSet(after) : CanDecode(r)}
      /\ pending' = AdvancedQueue(pending, old)
  BY <1>a DEF Forward, input, AdvancedQueue
<1>2. PICK tokens \in [{i \in DOMAIN reqs : ~ reqs[i].chunked} -> Token] :
        sampled' = [i \in DOMAIN reqs |-> IF i \in DOMAIN tokens THEN tokens[i] ELSE Eos]
  BY DEF Forward
<1>3. /\ reqs \in Seq(Request) /\ batch = [phase |-> batch.phase, reqs |-> reqs]
      /\ batch.phase \in {"none", "prefill", "decode"}
  BY DEF SlotInv, RequestsOK
<1>4. PICK n \in Nat : n = Len(reqs) /\ DOMAIN reqs = 1..n
  BY <1>3
<1>5. \A i \in 1..n : /\ reqs[i] \in Request /\ reqs[i] \in old /\ Len(reqs[i].ids) = reqs[i].device
                      /\ reqs[i].chunked => reqs[i] \in X
  <2>1. \A r \in old : Len(r.ids) = r.device
    BY <1>1 DEF SlotInv, RequestsOK
  <2>2. \A r \in old : r.chunked => r \in X
    BY DEF SlotInv, BatchOK, Chunks, ChunksIn
  <2>3. \A i \in 1..n : reqs[i] \in old /\ reqs[i] \in Request
    BY <1>3, <1>4 DEF ToSet
  <2>4. QED
    BY <2>1, <2>2, <2>3
<1>6. /\ DOMAIN after = 1..n /\ \A i \in 1..n : after[i] = CompleteOne(reqs[i])
      /\ \A i \in 1..n : /\ after[i] \in Request /\ after[i].slot = reqs[i].slot
                         /\ after[i].chunked = reqs[i].chunked /\ after[i].ids = reqs[i].ids
                         /\ after[i].device = reqs[i].device + 1 /\ after[i].cached = reqs[i].device
                         /\ reqs[i].device \in Nat /\ after[i] = Advance(old, reqs[i])
  <2>1. DOMAIN after = 1..n /\ \A i \in 1..n : after[i] = CompleteOne(reqs[i])
    BY <1>a, <1>4
  <2>2. \A i \in 1..n : reqs[i].device \in Nat
    BY <1>5, RequestIs
  <2>3. \A i \in 1..n : after[i] = Advance(old, reqs[i])
    BY <1>5, <2>1 DEF Advance
  <2>4. QED
    BY <1>5, <2>1, <2>2, <2>3, CompletedIs
<1>7. after \in Seq(Request)
  <2>1. after = [i \in 1..n |-> after[i]]
    BY <1>a, <1>4
  <2>2. after \in [1..n -> Request]
    BY <1>6, <2>1
  <2>3. QED
    BY <2>2
<1>8. batch' = [phase |-> batch.phase, reqs |-> after] /\ batch'.reqs = after /\ batch'.phase = batch.phase
  BY <1>1, <1>3
<1> PICK new : new = ToSet(after)
  OBVIOUS
<1>9. (\A q \in new : \E i \in 1..n : q = after[i]) /\ \A i \in 1..n : after[i] \in new
  BY <1>6 DEF ToSet
<1>10. /\ A \in SUBSET Request /\ IsFiniteSet(A) /\ pending \in Seq(Entry)
       /\ \A r \in A : CanDecode(r) /\ Len(r.ids) = r.device
  BY <1>1 DEF SlotInv, RequestsOK
<1> PICK p : p = pending'
  OBVIOUS
<1>11. /\ p \in Seq(Entry) /\ DOMAIN p = DOMAIN pending
       /\ \A i \in DOMAIN p :
            /\ p[i].chunk = <<>> <=> pending[i].chunk = <<>>
            /\ pending[i].chunk # <<>> => /\ p[i].chunk = <<Advance(old, pending[i].chunk[1])>>
                                          /\ pending[i].chunk[1] \in X /\ pending[i].chunk[1] \in Request
                                          /\ pending[i].chunk = <<pending[i].chunk[1]>>
  BY <1>1, <1>10, AdvancedQueueIs
<1>12. \A c \in ChunksIn(p) : \E d \in X : c = Advance(old, d) /\ d \in Request
  <2>1. SUFFICES ASSUME NEW c \in ChunksIn(p) PROVE \E d \in X : c = Advance(old, d) /\ d \in Request
    OBVIOUS
  <2>2. PICK i \in DOMAIN p : p[i].chunk # <<>> /\ c = p[i].chunk[1]
    BY <2>1 DEF ChunksIn
  <2>3. QED
    BY <1>11, <2>2
<1>13. \A d \in X : Advance(old, d) \in ChunksIn(p)
  <2>1. SUFFICES ASSUME NEW d \in X PROVE Advance(old, d) \in ChunksIn(p)
    OBVIOUS
  <2>2. PICK i \in DOMAIN pending : pending[i].chunk # <<>> /\ d = pending[i].chunk[1]
    BY <2>1 DEF ChunksIn
  <2>3. p[i].chunk = <<Advance(old, d)>> /\ p[i].chunk # <<>> /\ i \in DOMAIN p
    BY <1>11, <2>2
  <2>4. QED
    BY <2>3 DEF ChunksIn
<1>14. \A c \in X : c.chunked
  BY DEF SlotInv, ChunksOK, Chunks, ChunksIn
<1> PICK L : L = A \cup old \cup X
  OBVIOUS
<1>15. Held(slots, L) /\ L \subseteq Request /\ \A q, r \in L : q.slot = r.slot => q = r
  <2>1. Held(slots, L)
    BY DEF SlotInv, SlotsOK, Live, Chunks, ChunksIn
  <2>2. QED
    BY <2>1 DEF Held
<1>16. RequestsOK'
  <2>1. /\ prompt' \in [Uid -> Seq(Nat)] /\ params' \in Params /\ inbox' \in Seq(Uid)
    BY <1>1 DEF SlotInv, RequestsOK
  <2>2. running' \in SUBSET Request /\ (\A r \in running' : CanDecode(r))
        /\ running' \in SUBSET (A \cup new)
    BY <1>1, <1>6, <1>9, <1>10
  <2>3. IsFiniteSet(running')
    <3>1. IsFiniteSet(1..n)
      BY FS_Interval
    <3>2. after \in Surjection(1..n, new)
      <4>1. after \in [1..n -> new]
        BY <1>6, <1>7, <1>9
      <4>2. QED
        BY <1>9, <4>1 DEF Surjection
    <3>3. IsFiniteSet(new)
      BY <3>1, <3>2, FS_Surjection
    <3>4. IsFiniteSet(A \cup new)
      BY <1>10, <3>3, FS_Union
    <3>5. QED
      BY <2>2, <3>4, FS_Subset
  <2>4. \A r \in running' : (pc' = "process" /\ r \in ToSet(batch'.reqs)) \/ Len(r.ids) = r.device
    BY <1>1, <1>8, <1>10
  <2>5. batch' \in [phase : {"none", "prefill", "decode"}, reqs : Seq(Request)]
    BY <1>3, <1>7, <1>8
  <2>6. \A q \in new : Len(q.ids) = q.device - 1 /\ q.cached = q.device - 1
    <3>1. ASSUME NEW i \in 1..n
          PROVE  Len(after[i].ids) = after[i].device - 1 /\ after[i].cached = after[i].device - 1
      <4>1. PICK d \in Nat : d = reqs[i].device
        BY <1>6
      <4>2. Len(after[i].ids) = d /\ after[i].device = d + 1 /\ after[i].cached = d
        BY <1>5, <1>6, <4>1
      <4>3. QED
        BY <4>2
    <3>2. QED
      BY <1>9, <3>1
  <2>7. sampled' \in [DOMAIN batch'.reqs -> Token]
    <3>1. Eos \in Token
      BY SequenceAssumption
    <3>2. DOMAIN batch'.reqs = DOMAIN reqs
      BY <1>4, <1>6, <1>8
    <3>3. QED
      BY <1>2, <3>1, <3>2
  <2>8. QED
    BY <1>1, <1>8, <1>11, <2>1, <2>2, <2>3, <2>4, <2>5, <2>6, <2>7 DEF RequestsOK
<1>17. BatchOK'
  <2>1. \A i, j \in DOMAIN reqs : reqs[i].slot = reqs[j].slot => i = j
    BY DEF SlotInv, BatchOK
  <2>2. \A i, j \in DOMAIN after : after[i].slot = after[j].slot => i = j
    BY <1>4, <1>6, <2>1
  <2>3. \A q \in new : q.chunked => q \in Chunks'
    <3>1. \A i \in 1..n : after[i].chunked => after[i] \in ChunksIn(p)
      BY <1>5, <1>6, <1>13
    <3>2. QED
      BY <1>9, <3>1 DEF Chunks, ChunksIn
  <2>4. QED
    BY <1>1, <1>8, <2>2, <2>3 DEF BatchOK
<1>18. ChunksOK'
  <2>1. \A c \in ChunksIn(p) : c.chunked
    BY <1>12, <1>14, AdvanceIs
  <2>2. OnceEach(p)
    <3>1. SUFFICES ASSUME NEW i \in DOMAIN p, NEW j \in DOMAIN p, p[i].chunk # <<>>, p[i].chunk = p[j].chunk
                   PROVE  i = j
      BY DEF OnceEach
    <3>2. PICK c, d : c = pending[i].chunk[1] /\ d = pending[j].chunk[1]
      OBVIOUS
    <3>3. /\ pending[i].chunk # <<>> /\ pending[i].chunk = <<c>> /\ pending[j].chunk = <<d>>
          /\ c \in X /\ d \in X /\ c \in Request /\ d \in Request
          /\ <<Advance(old, c)>> = <<Advance(old, d)>>
      BY <1>11, <3>1, <3>2
    <3>4. Advance(old, c) = Advance(old, d)
      BY <3>3
    <3>5. c = d
      BY <1>15, <3>3, <3>4, AdvanceIs
    <3>6. OnceEach(pending)
      BY DEF SlotInv, ChunksOK
    <3>7. QED
      BY <1>11, <3>3, <3>5, <3>6 DEF OnceEach
  <2>3. QED
    BY <2>1, <2>2 DEF ChunksOK, Chunks, ChunksIn
<1>19. SlotsOK'
  <2>1. PICK M : M = running' \cup new \cup ChunksIn(p)
    OBVIOUS
  <2>2. \A q \in M : \E r \in L : q = Advance(old, r) /\ r \in Request
    <3>1. \A q \in new : \E r \in old : q = Advance(old, r) /\ r \in Request
      BY <1>5, <1>6, <1>9
    <3>2. \A q \in A \ old : q = Advance(old, q) /\ q \in Request
      BY <1>10 DEF Advance
    <3>3. QED
      BY <1>1, <1>12, <2>1, <3>1, <3>2
  <2>3. \A r \in L : Advance(old, r) \in M
    <3>1. \A r \in old : \E i \in 1..n : r = reqs[i]
      BY <1>4 DEF ToSet
    <3>2. \A r \in old : Advance(old, r) \in new
      BY <1>6, <1>9, <3>1
    <3>3. \A r \in A \ old : Advance(old, r) \in running'
      BY <1>1, <1>10 DEF Advance
    <3>4. QED
      BY <1>13, <2>1, <3>2, <3>3
  <2>4. \A r \in L : r \in Request /\ Advance(old, r) \in Request /\ Advance(old, r).slot = r.slot
    BY <1>15, AdvanceIs
  <2>5. M \in SUBSET Request /\ (\A q \in M : \E r \in L : r.slot = q.slot)
        /\ (\A r \in L : \E q \in M : q.slot = r.slot)
    BY <2>2, <2>3, <2>4
  <2>6. \A q, r \in M : q.slot = r.slot => q = r
    BY <1>15, <2>2, <2>4
  <2>7. Held(slots, M)
    BY <1>15, <2>5, <2>6, HeldByOthers
  <2>8. Live' = M
    BY <1>8, <2>1 DEF Live, Chunks, ChunksIn
  <2>9. QED
    BY <1>1, <2>7, <2>8, Zenon DEF SlotsOK
<1>20. QED
  BY <1>16, <1>17, <1>18, <1>19 DEF SlotInv

-----------------------------------------------------------------------------
(***************************************************************************)
(* A batch is processed                                                    *)
(***************************************************************************)
LEMMA InsertKeyIs ==
  ASSUME NEW r \in Request, r.cached <= Len(r.ids)
  PROVE  InsertKey(r) \in Seq(Seq(Nat))
<1>1. r.ids \in Seq(Nat) /\ r.cached \in 0..Len(r.ids)
  BY RequestIs
<1>2. SubSeq(r.ids, 1, r.cached) \in Seq(Nat)
  BY <1>1, PartOf
<1>3. QED
  BY <1>2, BlocksAre DEF InsertKey

\* The loop of _process_last_data: s[k] is the state after k requests.
ProcessedUpTo(s, start, n) ==
  s = [k \in 0..n |-> IF k = 0 THEN start ELSE ProcessOne(s[k - 1], k)]

LEMMA ProcessedExists ==
  ASSUME NEW start, NEW n \in Nat
  PROVE  \E s : ProcessedUpTo(s, start, n)
<1> DEFINE S == {k \in Nat : \E s : ProcessedUpTo(s, start, k)}
<1>1. 0 \in S
  <2>1. ProcessedUpTo([k \in 0..0 |-> start], start, 0)
    BY DEF ProcessedUpTo
  <2>2. QED
    BY <2>1
<1>2. ASSUME NEW k \in Nat, k \in S
      PROVE  k + 1 \in S
  <2>1. PICK s : ProcessedUpTo(s, start, k)
    BY <1>2
  <2>2. ProcessedUpTo([j \in 0..k + 1 |-> IF j = k + 1 THEN ProcessOne(s[k], k + 1) ELSE s[j]], start, k + 1)
    BY <2>1 DEF ProcessedUpTo
  <2>3. QED
    BY <2>2
<1> HIDE DEF S
<1>3. n \in S
  BY <1>1, <1>2, SetInduction
<1>4. QED
  BY <1>3 DEF S

ProcessedOK(A, free, reqs, X, k) ==
  /\ A \in SUBSET Request /\ IsFiniteSet(A)
  /\ \A r \in A : CanDecode(r) /\ (r \in From(reqs, k) \/ Len(r.ids) = r.device)
  /\ Held(free, A \cup From(reqs, k) \cup X)

\* What becomes of the running requests and of the slots with one request.
Ends(A, free, old, B, after) ==
  B = A \ {old} /\ after = FreeSlot(free, old)

GoesOn(A, free, old, B, after) ==
  /\ after = free
  /\ \E x \in Request : /\ B = (A \ {old}) \cup {x} /\ x.slot = old.slot
                        /\ CanDecode(x) /\ Len(x.ids) = x.device

LEMMA ProcessedStep ==
  ASSUME NEW reqs \in Seq(Request), NEW k \in Nat, k + 1 <= Len(reqs),
         \A i, j \in DOMAIN reqs : reqs[i].slot = reqs[j].slot => i = j,
         NEW X, \A c \in X : c.chunked, NEW old, old = reqs[k + 1],
         NEW A, NEW free, ProcessedOK(A, free, reqs, X, k),
         NEW B, NEW after,
         \/ old.chunked /\ old \in X /\ B = A /\ after = free
         \/ ~ old.chunked /\ Ends(A, free, old, B, after)
         \/ ~ old.chunked /\ GoesOn(A, free, old, B, after)
  PROVE  ProcessedOK(B, after, reqs, X, k + 1)
<1> PICK F : F = From(reqs, k)
  OBVIOUS
<1> PICK G : G = From(reqs, k + 1)
  OBVIOUS
<1>1. old \in F /\ G = F \ {old} /\ old \in Request
  <2>1. old \in ToSet(reqs) /\ old \in F /\ G = F \ {old}
    BY FromNext
  <2>2. QED
    BY <2>1, ToSetIs
<1>2. /\ A \in SUBSET Request /\ IsFiniteSet(A)
      /\ \A r \in A : CanDecode(r) /\ (r \in F \/ Len(r.ids) = r.device)
  BY DEF ProcessedOK
<1> PICK L : L = A \cup F \cup X
  OBVIOUS
<1>3. Held(free, L)
  BY DEF ProcessedOK
<1>4. L \subseteq Request /\ \A q, r \in L : q.slot = r.slot => q = r
  BY <1>3 DEF Held
<1> PICK M : M = B \cup G \cup X
  OBVIOUS
<1>5. IsFiniteSet(A \ {old}) /\ \A x : IsFiniteSet((A \ {old}) \cup {x})
  <2>1. IsFiniteSet(A \ {old})
    BY <1>2, FS_RemoveElement
  <2>2. QED
    BY <2>1, FS_AddElement
<1>6. SUFFICES B \in SUBSET Request /\ IsFiniteSet(B) /\ Held(after, M)
               /\ \A r \in B : CanDecode(r) /\ (r \in G \/ Len(r.ids) = r.device)
  BY DEF ProcessedOK
<1>7. CASE old.chunked /\ old \in X /\ B = A /\ after = free
  <2>1. M = L
    BY <1>1, <1>7
  <2>2. \A r \in A : r # old
    BY <1>2, <1>7 DEF CanDecode
  <2>3. QED
    BY <1>1, <1>2, <1>3, <1>7, <2>1, <2>2
<1>8. CASE ~ old.chunked /\ Ends(A, free, old, B, after)
  <2>1. B = A \ {old} /\ after = FreeSlot(free, old) /\ old \notin X
    BY <1>8 DEF Ends
  <2>2. Held(after, L \ {old})
    BY <1>1, <1>3, <2>1, HeldFree
  <2>3. M = L \ {old}
    BY <1>1, <2>1
  <2>4. QED
    BY <1>1, <1>2, <1>5, <2>1, <2>2, <2>3
<1>9. CASE ~ old.chunked /\ GoesOn(A, free, old, B, after)
  <2>1. PICK x \in Request : /\ B = (A \ {old}) \cup {x} /\ x.slot = old.slot
                             /\ CanDecode(x) /\ Len(x.ids) = x.device /\ after = free
    BY <1>9 DEF GoesOn
  <2>2. old \in L /\ old \notin X
    BY <1>1, <1>9
  <2>3. M = (L \ {old}) \cup {x}
    BY <1>1, <2>1, <2>2
  <2>4. \A r \in L \ {old} : r.slot # x.slot
    BY <1>4, <2>1, <2>2
  <2>5. M \in SUBSET Request /\ (\A q \in M : \E r \in L : r.slot = q.slot)
        /\ (\A r \in L : \E q \in M : q.slot = r.slot)
    BY <1>4, <2>1, <2>2, <2>3
  <2>6. \A q, r \in M : q.slot = r.slot => q = r
    BY <1>4, <2>3, <2>4
  <2>7. Held(after, M)
    BY <1>3, <2>1, <2>5, <2>6, HeldByOthers
  <2>8. B \in SUBSET Request /\ IsFiniteSet(B)
        /\ \A r \in B : CanDecode(r) /\ (r \in G \/ Len(r.ids) = r.device)
    BY <1>1, <1>2, <1>5, <2>1
  <2>9. QED
    BY <2>7, <2>8
<1>10. QED
  BY <1>7, <1>8, <1>9

LEMMA ProcessOneIs ==
  ASSUME SlotInv, pc = "process", NEW i \in DOMAIN batch.reqs, NEW s, NEW old, old = batch.reqs[i],
         NEW x, x = ProcessOne(s, i)
  PROVE  \/ old.chunked /\ old \in ChunksIn(pending) /\ x.running = s.running /\ x.slots = s.slots
         \/ ~ old.chunked /\ Ends(s.running, s.slots, old, x.running, x.slots)
         \/ ~ old.chunked /\ GoesOn(s.running, s.slots, old, x.running, x.slots)
<1>b. PICK token : token = sampled[i]
  OBVIOUS
<1>1. old \in ToSet(batch.reqs) /\ old \in Request /\ token \in Nat
  <2>1. batch.reqs \in Seq(Request) /\ sampled \in [DOMAIN batch.reqs -> Token] /\ Token \subseteq Nat
    BY SequenceAssumption DEF SlotInv, RequestsOK
  <2>2. token \in Nat
    BY <1>b, <2>1
  <2>3. old \in ToSet(batch.reqs)
    BY DEF ToSet
  <2>4. old \in Request
    BY <2>1
  <2>5. QED
    BY <2>2, <2>3, <2>4
<1>2. /\ Len(old.ids) = old.device - 1 /\ old.cached = old.device - 1
      /\ old.chunked => old \in ChunksIn(pending)
  BY <1>1 DEF SlotInv, RequestsOK, BatchOK, Chunks, ChunksIn
<1>a. PICK req : req = [old EXCEPT !.ids = Append(@, token)]
  OBVIOUS
<1>3. /\ req \in Request /\ req.ids = Append(old.ids, token)
      /\ req.slot = old.slot /\ req.chunked = old.chunked
      /\ req.cached = old.cached /\ req.device = old.device /\ req.maxDevice = old.maxDevice
  BY <1>1, <1>a, ExtendedIs
<1>4. Len(req.ids) = req.device /\ req.cached <= Len(req.ids)
  <2>1. PICK d \in Nat : d = old.device
    BY <1>1, RequestIs
  <2>2. old.ids \in Seq(Nat) /\ Len(old.ids) = d - 1
    BY <1>1, <1>2, <2>1, RequestIs
  <2>3. Len(req.ids) = (d - 1) + 1
    BY <1>1, <1>3, <2>2
  <2>4. QED
    BY <1>2, <1>3, <2>1, <2>3
<1>5. PICK done : done = Finished(req, token)
  OBVIOUS
<1>6. CASE old.chunked
  <2>1. x = s
    BY <1>6 DEF ProcessOne
  <2>2. QED
    BY <1>2, <1>6, <2>1
<1>7. CASE ~ old.chunked /\ done
  <2>1. x.running = s.running \ {old} /\ x.slots = FreeSlot(s.slots, req)
    BY <1>a, <1>b, <1>5, <1>7 DEF ProcessOne
  <2>2. FreeSlot(s.slots, req) = FreeSlot(s.slots, old)
    BY <1>3 DEF FreeSlot
  <2>3. QED
    BY <1>7, <2>1, <2>2 DEF Ends
<1>8. CASE ~ old.chunked /\ ~ done
  <2>1. CanDecode(req)
    BY <1>5, <1>8 DEF Finished
  <2>2. PICK h : h = InsertKey(req)
    OBVIOUS
  <2>b. PICK moved : moved = [req EXCEPT !.handle = h]
    OBVIOUS
  <2>3. h \in Seq(Seq(Nat))
    BY <1>3, <1>4, <2>2, InsertKeyIs
  <2>4. /\ moved \in Request /\ moved.slot = req.slot /\ moved.ids = req.ids /\ moved.device = req.device
        /\ moved.maxDevice = req.maxDevice /\ moved.chunked = req.chunked
    BY <1>3, <2>3, <2>b DEF Request
  <2>5. CanDecode(moved)
    BY <2>1, <2>4 DEF CanDecode, RemainLen
  <2>6. x.slots = s.slots /\ (x.running = (s.running \ {old}) \cup {req}
                              \/ x.running = (s.running \ {old}) \cup {moved})
    BY <1>a, <1>b, <1>5, <1>8, <2>2, <2>b DEF ProcessOne
  <2>7. GoesOn(s.running, s.slots, old, x.running, x.slots)
    BY <1>3, <1>4, <2>1, <2>4, <2>5, <2>6 DEF GoesOn
  <2>8. QED
    BY <1>8, <2>7
<1>9. QED
  BY <1>6, <1>7, <1>8

LEMMA ProcessKeeps ==
  ASSUME SlotInv, Process
  PROVE  SlotInv'
<1> PICK reqs : reqs = batch.reqs
  OBVIOUS
<1> PICK X : X = ChunksIn(pending)
  OBVIOUS
<1> PICK n : n = Len(reqs)
  OBVIOUS
<1> DEFINE first == [running |-> running, slots |-> slots, pool |-> pool, output |-> output, emitted |-> emitted]
           f == CHOOSE f : ProcessedUpTo(f, first, n)
<1>1. /\ pc = "process" /\ pc' = "receive" /\ batch' = NoBatch
      /\ running' = Processed.running /\ slots' = Processed.slots
      /\ UNCHANGED <<prompt, params, inbox, pending>>
  BY DEF Process, input
<1>2. reqs \in Seq(Request) /\ n \in Nat /\ DOMAIN reqs = 1..n
      /\ \A i, j \in DOMAIN reqs : reqs[i].slot = reqs[j].slot => i = j
  <2>1. reqs \in Seq(Request)
    BY DEF SlotInv, RequestsOK
  <2>2. \A i, j \in DOMAIN reqs : reqs[i].slot = reqs[j].slot => i = j
    BY DEF SlotInv, BatchOK
  <2>3. QED
    BY <2>1, <2>2
<1>3. \A c \in X : c.chunked
  BY DEF SlotInv, ChunksOK, Chunks, ChunksIn
<1>4. Processed = f[n]
  BY DEF Processed, ProcessedUpTo
<1>5. first.running = running /\ first.slots = slots
  OBVIOUS
<1>6. ProcessedUpTo(f, first, n)
  BY <1>2, ProcessedExists
<1> HIDE DEF first, f
<1>7. ProcessedOK(first.running, first.slots, reqs, X, 0)
  <2>1. From(reqs, 0) = ToSet(reqs)
    BY <1>2, FromEnds
  <2>2. \A r \in running : CanDecode(r) /\ (r \in ToSet(reqs) \/ Len(r.ids) = r.device)
    BY DEF SlotInv, RequestsOK
  <2>3. running \cup From(reqs, 0) \cup X = Live
    BY <2>1 DEF Live, Chunks, ChunksIn
  <2>4. Held(slots, running \cup From(reqs, 0) \cup X)
    BY <2>3, Zenon DEF SlotInv, SlotsOK
  <2>5. running \in SUBSET Request /\ IsFiniteSet(running)
    BY DEF SlotInv, RequestsOK
  <2>6. ProcessedOK(running, slots, reqs, X, 0)
    BY <2>1, <2>2, <2>4, <2>5 DEF ProcessedOK
  <2>7. QED
    BY <1>5, <2>6
<1> DEFINE S == {k \in Nat : k <= n => ProcessedOK(f[k].running, f[k].slots, reqs, X, k)}
<1>8. 0 \in S
  BY <1>2, <1>6, <1>7 DEF ProcessedUpTo
<1>9. ASSUME NEW k \in Nat, k \in S
      PROVE  k + 1 \in S
  <2>1. SUFFICES ASSUME k + 1 <= n PROVE ProcessedOK(f[k + 1].running, f[k + 1].slots, reqs, X, k + 1)
    OBVIOUS
  <2>2. /\ ProcessedOK(f[k].running, f[k].slots, reqs, X, k)
        /\ k + 1 \in 1..n /\ k + 1 \in 0..n /\ (k + 1) - 1 = k /\ k + 1 # 0
    BY <1>2, <1>9, <2>1
  <2>3. PICK s : s = f[k]
    OBVIOUS
  <2>4. PICK x : x = f[k + 1]
    OBVIOUS
  <2>5. x = ProcessOne(s, k + 1)
    BY <1>6, <2>2, <2>3, <2>4 DEF ProcessedUpTo
  <2>6. PICK old : old = reqs[k + 1]
    OBVIOUS
  <2>7. \/ old.chunked /\ old \in X /\ x.running = s.running /\ x.slots = s.slots
        \/ ~ old.chunked /\ Ends(s.running, s.slots, old, x.running, x.slots)
        \/ ~ old.chunked /\ GoesOn(s.running, s.slots, old, x.running, x.slots)
    BY <1>1, <1>2, <2>2, <2>5, <2>6, ProcessOneIs
  <2>8. ProcessedOK(s.running, s.slots, reqs, X, k)
    BY <2>2, <2>3
  <2>9. ProcessedOK(x.running, x.slots, reqs, X, k + 1)
    BY <1>2, <1>3, <2>1, <2>6, <2>7, <2>8, ProcessedStep
  <2>10. QED
    BY <2>4, <2>9
<1> HIDE DEF S
<1>10. n \in S
  BY <1>2, <1>8, <1>9, SetInduction
<1>11. ProcessedOK(running', slots', reqs, X, n)
  BY <1>1, <1>2, <1>4, <1>10 DEF S
<1>12. From(reqs, n) = {}
  BY <1>2, FromEnds
<1>13. /\ running' \in SUBSET Request /\ IsFiniteSet(running')
       /\ \A r \in running' : CanDecode(r) /\ Len(r.ids) = r.device
  BY <1>11, <1>12 DEF ProcessedOK
<1>14. Held(slots', running' \cup ChunksIn(pending'))
  <2>1. running' \cup From(reqs, n) \cup X = running' \cup ChunksIn(pending')
    BY <1>1, <1>12
  <2>2. QED
    BY <1>11, <2>1, Zenon DEF ProcessedOK
<1>15. /\ params' \in Params /\ inbox' \in Seq(Uid) /\ prompt' = prompt
       /\ pending' \in Seq(Entry) /\ OnceEach(pending') /\ \A c \in ChunksIn(pending') : c.chunked
  BY <1>1, <1>3 DEF SlotInv, RequestsOK, ChunksOK
<1>16. QED
  BY <1>1, <1>13, <1>14, <1>15, BatchDropped

-----------------------------------------------------------------------------
(***************************************************************************)
(* The slots                                                               *)
(***************************************************************************)
LEMMA SlotInvInit ==
  ASSUME Init
  PROVE  SlotInv
<1>a. PICK n : n = Cardinality(Uid)
  OBVIOUS
<1>1. n \in Nat /\ Uid = 0..n - 1
  BY <1>a, QueueAssumption, FS_CardinalityType
<1>2. /\ pc = "receive" /\ pending = <<>> /\ running = {} /\ batch = NoBatch /\ batch.reqs = <<>>
      /\ batch.phase = "none" /\ params = limit /\ slots = [s \in Slots |-> s]
      /\ prompt \in Prompts /\ limit \in [{ParamsOf[u] : u \in Uid} -> Limits]
      /\ inbox = [i \in 1..n |-> i - 1]
  BY <1>a DEF Init, NoBatch
<1>3. prompt \in [Uid -> Seq(Nat)]
  BY <1>2, SequenceAssumption
<1>4. params \in Params
  <2>1. Limits \subseteq Int
    BY SequenceAssumption
  <2>2. params \in [{ParamsOf[u] : u \in Uid} -> Limits]
    BY <1>2
  <2>3. QED
    BY <2>1, <2>2 DEF Params
<1>5. inbox \in Seq(Uid)
  <2>1. ASSUME NEW i \in 1..n
        PROVE  i - 1 \in Uid
    <3>1. i \in Nat /\ 1 <= i /\ i <= n
      BY <1>1
    <3>2. i - 1 \in 0..n - 1
      BY <1>1, <3>1
    <3>3. QED
      BY <1>1, <3>2
  <2>2. inbox \in [1..n -> Uid]
    BY <1>2, <2>1
  <2>3. QED
    BY <1>1, <2>2
<1>6. DOMAIN <<>> = {} /\ ToSet(batch.reqs) = {} /\ ChunksIn(pending) = {} /\ OnceEach(pending)
  <2>1. DOMAIN <<>> = {}
    OBVIOUS
  <2>2. QED
    BY <1>2, <2>1 DEF ToSet, ChunksIn, OnceEach
<1>7. RequestsOK
  <2>1. IsFiniteSet({})
    BY FS_EmptySet
  <2>2. batch \in [phase : {"none", "prefill", "decode"}, reqs : Seq(Request)]
    BY <1>2 DEF NoBatch
  <2>3. pending \in Seq(Entry)
    BY <1>2
  <2>4. QED
    BY <1>2, <1>3, <1>4, <1>5, <1>6, <2>1, <2>2, <2>3 DEF RequestsOK
<1>8. BatchOK
  BY <1>2, <1>6 DEF BatchOK
<1>9. ChunksOK
  BY <1>6 DEF ChunksOK, Chunks, ChunksIn
<1>10. SlotsOK
  <2>1. Live = {}
    BY <1>2, <1>6 DEF Live, Chunks, ChunksIn
  <2>2. PICK m \in Nat : Slots = 1..m
    BY GraphAssumption DEF Slots
  <2>3. slots \in Seq(Slots) /\ Len(slots) = m /\ \A i \in 1..m : slots[i] = i
    BY <1>2, <2>2
  <2>4. Held(slots, {})
    BY <2>2, <2>3 DEF Held
  <2>5. QED
    BY <2>1, <2>4 DEF SlotsOK
<1>11. QED
  BY <1>7, <1>8, <1>9, <1>10 DEF SlotInv

LEMMA SlotInvNext ==
  ASSUME SlotInv, Orderly, [Next]_vars
  PROVE  pc' = "too_large" \/ SlotInv'
<1>1. CASE Receive
  BY <1>1, ReceiveKeeps
<1>2. CASE Finish
  <2>1. batch = NoBatch
    BY <1>2, NoneInBatch DEF Finish
  <2>2. QED
    BY <1>2, <2>1, NothingMoved DEF Finish, input, queues
<1>3. CASE \E u \in Abortable : Abort(u)
  BY <1>3, AbortKeeps
<1>4. CASE SchedulePrefill
  BY <1>4, SchedulePrefillKeeps
<1>5. CASE ScheduleDecode
  BY <1>5, ScheduleDecodeKeeps
<1>6. CASE ScheduleNothing
  <2>1. batch = NoBatch
    BY <1>6, NoneInBatch DEF ScheduleNothing
  <2>2. QED
    BY <1>6, <2>1, NothingMoved DEF ScheduleNothing, input, queues
<1>7. CASE RejectTooLarge
  BY <1>7 DEF RejectTooLarge
<1>8. CASE Prepare
  BY <1>8, NothingMoved DEF Prepare, input, queues
<1>9. CASE Preempt
  BY <1>9, PreemptKeeps
<1>10. CASE CannotPreempt
  BY <1>10, CannotPreemptKeeps
<1>11. CASE GiveUp
  BY <1>11, GiveUpKeeps
<1>12. CASE EvictError
  BY <1>12, NothingMoved DEF EvictError, input, queues
<1>13. CASE Forward
  BY <1>13, ForwardKeeps
<1>14. CASE Process
  BY <1>14, ProcessKeeps
<1>15. CASE UNCHANGED vars
  <2>1. UNCHANGED <<prompt, params, inbox, pending, running, slots, batch, sampled, pc>>
    BY <1>15 DEF vars, input, queues
  <2>2. batch = NoBatch \/ pc \in {"prepare", "forward", "process", "evict_error"}
    BY DEF SlotInv, BatchOK
  <2>3. QED
    BY <2>1, <2>2, NothingMoved
<1>16. CASE Ended
  BY <1>15, <1>16 DEF Ended
<1>17. QED
  BY <1>1, <1>2, <1>3, <1>4, <1>5, <1>6, <1>7, <1>8, <1>9, <1>10, <1>11, <1>12, <1>13, <1>14, <1>15,
     <1>16 DEF Next

\* After the exception nothing moves.
LEMMA RaisedStays ==
  ASSUME pc = "too_large", [Next]_vars
  PROVE  UNCHANGED vars
  BY DEF Next, Receive, Finish, Abort, SchedulePrefill, ScheduleDecode, ScheduleNothing, RejectTooLarge,
     Prepare, NoRoom, Preempt, CannotPreempt, GiveUp, EvictError, Forward, Process, Ended

LEMMA SlotInvAlways == Spec /\ []Orderly => [](pc = "too_large" \/ SlotInv)
<1>1. Init => SlotInv
  BY SlotInvInit
<1>2. (pc = "too_large" \/ SlotInv) /\ Orderly /\ [Next]_vars => (pc = "too_large" \/ SlotInv)'
  <2>1. ASSUME pc = "too_large", [Next]_vars
        PROVE  pc' = "too_large"
    BY <2>1, RaisedStays DEF vars
  <2>2. QED
    BY <2>1, SlotInvNext
<1>3. QED
  BY <1>1, <1>2, PTL DEF Spec

\* As long as no step loses or doubles what a request holds, every table slot
\* is free once or belongs to one live request, through admission, chunks,
\* preemption, abort and completion; only the exception for a request that is
\* too large leaves a round half done.  The slot a request gives back is the
\* one it took from _free_slots (table.py), and the requests of the queue that
\* hold one are those between two chunks.
THEOREM EachSlotOneOwner == Spec /\ []Orderly => [](pc = "too_large" \/ SlotsPartitioned)
<1>1. SlotInv => SlotsPartitioned
  BY HeldOnce DEF SlotInv, SlotsOK, SlotsPartitioned
<1>2. QED
  BY <1>1, SlotInvAlways, PTL

-----------------------------------------------------------------------------
(***************************************************************************)
(* The work that is left                                                   *)
(***************************************************************************)
\* What there is to do for an entry of the queue, for a request that is ready
\* for the next batch, and for one that waits for its token: the uid, the text
\* so far, and how many tokens may follow it.
EntryWork(q, e) == <<e.uid, e.ids, MaxOutputLen(q, e)>>

ReadyWork(r) == <<r.uid, r.ids, RemainLen(r)>>

DueWork(r) == <<r.uid, r.ids, RemainLen(r) + 1>>

Works(q, E, A, D) ==
  {EntryWork(q, e) : e \in E} \cup {ReadyWork(r) : r \in A} \cup {DueWork(r) : r \in D}

Whole(S) == {r \in S : ~ r.chunked}

Awaiting == IF pc = "process" THEN Whole(ToSet(batch.reqs)) ELSE {}

Ready == (running \cup Whole(ToSet(batch.reqs))) \ Awaiting

\* What the caller asked for.
Task == [prompt |-> prompt, limit |-> limit, bound |-> [u \in Uid |-> TokenLimit(u)]]

\* The work w of the task t goes on where said has left it.
Continues(t, said, w) ==
  /\ w[2] = t.prompt[w[1]] \o said[w[1]]
  /\ w[3] = t.bound[w[1]] - Len(said[w[1]]) /\ w[3] > 0
  /\ said[w[1]] # <<>> => Last(said[w[1]]) # Eos

UidsOnce(p) == \A i, j \in DOMAIN p : p[i].uid = p[j].uid => i = j

OnePerUid(S) == \A x, y \in S : x.uid = y.uid => x = y

ApartFrom(S, T) == \A x \in S, y \in T : x.uid # y.uid

\* I are the uids to come, p is the queue, A are the requests that are ready
\* and D those that wait for their token.
WorkOnce(I, p, A, D) ==
  /\ UidsOnce(p) /\ OnePerUid(A \cup D) /\ A \cap D = {} /\ ApartFrom(ToSet(p), A \cup D)
  /\ \A x \in ToSet(p) \cup A \cup D : x.uid \in Uid \ I

TextOK(t, said, q, I, p, A, D) ==
  /\ \A u \in I : said[u] = <<>> /\ q[ParamsOf[u]] = t.limit[ParamsOf[u]]
  /\ \A w \in Works(q, ToSet(p), A, D) : Continues(t, said, w)
  /\ WorkOnce(I, p, A, D)

\* A uid whose text is as long as it may be.
Said(t, said, u) == Len(said[u]) >= t.bound[u] \/ (said[u] # <<>> /\ Last(said[u]) = Eos)

Present(t, said, I, W) == \A u \in Uid \ Abortable : u \in I \/ Said(t, said, u) \/ \E w \in W : w[1] = u

Injective(s) == \A i, j \in DOMAIN s : s[i] = s[j] => i = j

TextInv ==
  /\ prompt \in [Uid -> Seq(Nat)] /\ limit \in [{ParamsOf[u] : u \in Uid} -> Limits]
  /\ emitted \in [Uid -> Seq(Token)] /\ Injective(inbox)
  /\ TextOK(Task, emitted, params, ToSet(inbox), pending, Ready, Awaiting)

AllPresent == Present(Task, emitted, ToSet(inbox), Works(params, ToSet(pending), Ready, Awaiting))

LEMMA WorkIs ==
  ASSUME NEW q, NEW e, NEW r
  PROVE  /\ EntryWork(q, e)[1] = e.uid /\ EntryWork(q, e)[2] = e.ids /\ EntryWork(q, e)[3] = MaxOutputLen(q, e)
         /\ ReadyWork(r)[1] = r.uid /\ ReadyWork(r)[2] = r.ids /\ ReadyWork(r)[3] = RemainLen(r)
         /\ DueWork(r)[1] = r.uid /\ DueWork(r)[2] = r.ids /\ DueWork(r)[3] = RemainLen(r) + 1
  BY DEF EntryWork, ReadyWork, DueWork

LEMMA SortedEntries ==
  ASSUME NEW q \in Params, NEW p \in Seq(Entry), NEW s, s = SortPending(q, p)
  PROVE  s \in Seq(Entry) /\ ToSet(s) = ToSet(p) /\ (UidsOnce(p) => UidsOnce(s))
<1>a. /\ SortPending(q, p) \in Seq(Entry) /\ Len(SortPending(q, p)) = Len(p)
      /\ \E g \in [1..Len(p) -> 1..Len(p)] :
           /\ \A k \in 1..Len(p) : SortPending(q, p)[k] = p[g[k]]
           /\ \A k, l \in 1..Len(p) : g[k] = g[l] => k = l
           /\ \A i \in 1..Len(p) : \E k \in 1..Len(p) : g[k] = i
  BY SortedIs
<1>1. /\ s \in Seq(Entry) /\ Len(s) = Len(p)
      /\ \E g \in [1..Len(p) -> 1..Len(p)] :
           /\ \A k \in 1..Len(p) : s[k] = p[g[k]]
           /\ \A k, l \in 1..Len(p) : g[k] = g[l] => k = l
           /\ \A i \in 1..Len(p) : \E k \in 1..Len(p) : g[k] = i
  BY <1>a, Zenon
<1>2. PICK g \in [1..Len(p) -> 1..Len(p)] :
        /\ \A k \in 1..Len(p) : s[k] = p[g[k]]
        /\ \A k, l \in 1..Len(p) : g[k] = g[l] => k = l
        /\ \A i \in 1..Len(p) : \E k \in 1..Len(p) : g[k] = i
  BY <1>1
<1>3. PICK n \in Nat : n = Len(p)
  OBVIOUS
<1>4. /\ DOMAIN p = 1..n /\ DOMAIN s = 1..n
      /\ \A k \in 1..n : g[k] \in 1..n /\ s[k] = p[g[k]]
  <2>1. DOMAIN p = 1..n /\ DOMAIN s = 1..n
    BY <1>1, <1>3
  <2>2. g \in [1..n -> 1..n] /\ \A k \in 1..n : s[k] = p[g[k]]
    BY <1>2, <1>3, Zenon
  <2>3. QED
    BY <2>1, <2>2
<1>5. ToSet(s) = ToSet(p)
  <2>1. ASSUME NEW x \in ToSet(s) PROVE x \in ToSet(p)
    BY <1>4, <2>1 DEF ToSet
  <2>2. ASSUME NEW x \in ToSet(p) PROVE x \in ToSet(s)
    BY <1>2, <1>3, <1>4, <2>2 DEF ToSet
  <2>3. QED
    BY <2>1, <2>2
<1>6. ASSUME UidsOnce(p) PROVE UidsOnce(s)
  <2>1. SUFFICES ASSUME NEW k \in 1..n, NEW l \in 1..n, s[k].uid = s[l].uid PROVE k = l
    BY <1>4 DEF UidsOnce
  <2>2. p[g[k]].uid = p[g[l]].uid /\ g[k] \in DOMAIN p /\ g[l] \in DOMAIN p
    BY <1>4, <2>1
  <2>3. g[k] = g[l]
    BY <1>6, <2>2 DEF UidsOnce
  <2>4. QED
    BY <1>2, <1>3, <2>3
<1>7. QED
  BY <1>1, <1>5, <1>6

LEMMA JoinedEntries ==
  ASSUME NEW a \in Seq(Entry), NEW b \in Seq(Entry), NEW s, s = a \o b
  PROVE  /\ s \in Seq(Entry) /\ ToSet(s) = ToSet(a) \cup ToSet(b)
         /\ UidsOnce(a) /\ UidsOnce(b) /\ ApartFrom(ToSet(a), ToSet(b)) => UidsOnce(s)
<1>1. PICK m \in Nat, n \in Nat : m = Len(a) /\ n = Len(b)
  BY JoinedIs
<1>2. /\ s \in Seq(Entry) /\ Len(s) = m + n
      /\ \A i \in 1..m : s[i] = a[i]
      /\ \A i \in 1..n : s[m + i] = b[i]
  BY <1>1, JoinedIs
<1>3. DOMAIN a = 1..m /\ DOMAIN b = 1..n /\ DOMAIN s = 1..m + n
  BY <1>1, <1>2
<1>4. \A i \in 1..m + n : i \in 1..m \/ \E j \in 1..n : i = m + j
  <2>1. SUFFICES ASSUME NEW i \in 1..m + n, i \notin 1..m PROVE i - m \in 1..n /\ i = m + (i - m)
    BY Zenon
  <2>2. QED
    BY <2>1
<1>5. (\A i \in 1..m : i \in 1..m + n) /\ \A i \in 1..n : m + i \in 1..m + n
  OBVIOUS
<1>6. ToSet(s) = ToSet(a) \cup ToSet(b)
  <2>1. ASSUME NEW x \in ToSet(s) PROVE x \in ToSet(a) \cup ToSet(b)
    BY <1>2, <1>3, <1>4, <2>1 DEF ToSet
  <2>2. ASSUME NEW x \in ToSet(a) PROVE x \in ToSet(s)
    BY <1>2, <1>3, <1>5, <2>2 DEF ToSet
  <2>3. ASSUME NEW x \in ToSet(b) PROVE x \in ToSet(s)
    <3>1. PICK i \in 1..n : x = b[i]
      BY <1>3 DEF ToSet
    <3>2. x = s[m + i] /\ m + i \in DOMAIN s
      BY <1>2, <1>3, <1>5, <3>1
    <3>3. QED
      BY <3>2 DEF ToSet
  <2>4. QED
    BY <2>1, <2>2, <2>3
<1>7. ASSUME UidsOnce(a), UidsOnce(b), ApartFrom(ToSet(a), ToSet(b))
      PROVE  UidsOnce(s)
  <2>1. \A i \in 1..m, j \in 1..n : a[i].uid # b[j].uid
    BY <1>3, <1>7 DEF ApartFrom, ToSet
  <2>2. SUFFICES ASSUME NEW k \in 1..m + n, NEW l \in 1..m + n, s[k].uid = s[l].uid PROVE k = l
    BY <1>3 DEF UidsOnce
  <2>3. CASE k \in 1..m /\ l \in 1..m
    <3>1. k \in DOMAIN a /\ l \in DOMAIN a /\ a[k].uid = a[l].uid
      BY <1>2, <1>3, <2>2, <2>3
    <3>2. QED
      BY <1>7, <3>1 DEF UidsOnce
  <2>4. CASE k \in 1..m /\ \E j \in 1..n : l = m + j
    <3>1. PICK j \in 1..n : l = m + j
      BY <2>4
    <3>2. s[k] = a[k] /\ s[l] = b[j]
      BY <1>2, <2>4, <3>1
    <3>3. QED
      BY <2>1, <2>2, <2>4, <3>2
  <2>5. CASE l \in 1..m /\ \E j \in 1..n : k = m + j
    <3>1. PICK j \in 1..n : k = m + j
      BY <2>5
    <3>2. s[l] = a[l] /\ s[k] = b[j]
      BY <1>2, <2>5, <3>1
    <3>3. QED
      BY <2>1, <2>2, <2>5, <3>2
  <2>6. CASE (\E j \in 1..n : k = m + j) /\ \E j \in 1..n : l = m + j
    <3>1. PICK i \in 1..n, j \in 1..n : k = m + i /\ l = m + j
      BY <2>6
    <3>2. i \in DOMAIN b /\ j \in DOMAIN b /\ b[i].uid = b[j].uid
      BY <1>2, <1>3, <2>2, <3>1
    <3>3. i = j
      BY <1>7, <3>2 DEF UidsOnce
    <3>4. QED
      BY <3>1, <3>3
  <2>7. QED
    BY <1>4, <2>3, <2>4, <2>5, <2>6
<1>8. QED
  BY <1>2, <1>6, <1>7

LEMMA AppendedEntries ==
  ASSUME NEW p \in Seq(Entry), NEW e \in Entry, NEW s, s = Append(p, e)
  PROVE  /\ s \in Seq(Entry) /\ ToSet(s) = ToSet(p) \cup {e}
         /\ UidsOnce(p) /\ (\A x \in ToSet(p) : x.uid # e.uid) => UidsOnce(s)
<1>1. PICK n \in Nat : n = Len(p)
  OBVIOUS
<1>2. /\ s \in Seq(Entry) /\ DOMAIN p = 1..n /\ DOMAIN s = 1..n + 1 /\ s[n + 1] = e
      /\ \A i \in 1..n : s[i] = p[i]
  BY <1>1
<1>3. \A i \in 1..n + 1 : i = n + 1 \/ i \in 1..n
  OBVIOUS
<1>4. ToSet(s) = ToSet(p) \cup {e}
  BY AppendedSet
<1>5. ASSUME UidsOnce(p), \A x \in ToSet(p) : x.uid # e.uid
      PROVE  UidsOnce(s)
  <2>1. \A i \in 1..n : p[i].uid # e.uid
    BY <1>2, <1>5 DEF ToSet
  <2>2. \A i, j \in 1..n : p[i].uid = p[j].uid => i = j
    BY <1>2, <1>5 DEF UidsOnce
  <2>3. \A i, j \in 1..n + 1 : s[i].uid = s[j].uid => i = j
    BY <1>2, <1>3, <2>1, <2>2
  <2>4. QED
    BY <1>2, <2>3 DEF UidsOnce
<1>6. QED
  BY <1>2, <1>4, <1>5

EntriesPast(p, n) == {p[j] : j \in n + 1..Len(p)}

LEMMA RestEntries ==
  ASSUME NEW p \in Seq(Entry), UidsOnce(p), NEW n \in Nat, NEW s, s = SubSeq(p, n + 1, Len(p))
  PROVE  s \in Seq(Entry) /\ ToSet(s) = EntriesPast(p, n) /\ UidsOnce(s)
<1>1. PICK m \in Nat : m = Len(p)
  OBVIOUS
<1>2. n + 1 \in Nat \ {0} /\ m \in 0..Len(p)
  BY <1>1
<1>3. /\ s \in Seq(Entry) /\ Len(s) = IF n + 1 <= m THEN m - (n + 1) + 1 ELSE 0
      /\ \A i \in 1..Len(s) : s[i] = p[n + 1 + i - 1] /\ n + 1 + i - 1 \in 1..Len(p)
  BY <1>1, <1>2, PartOf
<1>4. Len(s) \in Nat /\ Len(s) = IF n + 1 <= m THEN m - n ELSE 0
  BY <1>3
<1>5. \A i \in 1..Len(s) : n + i \in n + 1..m /\ s[i] = p[n + i] /\ n + i \in 1..Len(p)
  <2>1. ASSUME NEW i \in 1..Len(s)
        PROVE  n + i \in n + 1..m /\ n + 1 + i - 1 = n + i
    BY <1>4
  <2>2. QED
    BY <1>3, <2>1
<1>6. \A j \in n + 1..m : j - n \in 1..Len(s) /\ s[j - n] = p[j]
  <2>1. ASSUME NEW j \in n + 1..m
        PROVE  j - n \in 1..Len(s) /\ n + (j - n) = j
    BY <1>4
  <2>2. QED
    BY <1>5, <2>1
<1>7. DOMAIN s = 1..Len(s) /\ DOMAIN p = 1..Len(p)
  BY <1>3
<1>8. ToSet(s) = EntriesPast(p, n)
  <2>1. ASSUME NEW x \in ToSet(s) PROVE x \in {p[j] : j \in n + 1..m}
    BY <1>5, <1>7, <2>1 DEF ToSet
  <2>2. ASSUME NEW j \in n + 1..m PROVE p[j] \in ToSet(s)
    BY <1>6, <1>7, <2>2 DEF ToSet
  <2>3. QED
    BY <1>1, <2>1, <2>2 DEF EntriesPast
<1>9. UidsOnce(s)
  <2>1. SUFFICES ASSUME NEW i \in 1..Len(s), NEW j \in 1..Len(s), s[i].uid = s[j].uid PROVE i = j
    BY <1>7 DEF UidsOnce
  <2>2. PICK a, b \in DOMAIN p : a = n + i /\ b = n + j
    BY <1>5, <1>7
  <2>3. p[a].uid = p[b].uid
    BY <1>5, <2>1, <2>2
  <2>4. a = b
    BY <2>3 DEF UidsOnce
  <2>5. QED
    BY <1>4, <2>2, <2>4
<1>10. QED
  BY <1>3, <1>8, <1>9

LEMMA RemovedEntries ==
  ASSUME NEW p \in Seq(Entry), UidsOnce(p), NEW i \in 1..Len(p), NEW s, s = RemoveAt(p, i)
  PROVE  /\ s \in Seq(Entry) /\ UidsOnce(s) /\ ToSet(s) \subseteq ToSet(p)
         /\ \A x \in ToSet(p) : x \in ToSet(s) \/ x = p[i]
<1> DEFINE up(j) == IF j < i THEN j ELSE j + 1
           down(j) == IF j < i THEN j ELSE j - 1
<1>1. /\ s \in Seq(Entry) /\ DOMAIN s = 1..Len(s) /\ DOMAIN p = 1..Len(p)
      /\ \A j \in 1..Len(s) : s[j] = p[up(j)] /\ up(j) \in 1..Len(p)
      /\ \A j \in 1..Len(p) : j # i => down(j) \in 1..Len(s) /\ s[down(j)] = p[j]
  BY RemovedIs, SMTT(30)
<1>2. \A j, k \in 1..Len(s) : up(j) = up(k) => j = k
  OBVIOUS
<1> HIDE DEF up, down
<1>3. UidsOnce(s)
  <2>1. SUFFICES ASSUME NEW j \in 1..Len(s), NEW k \in 1..Len(s), s[j].uid = s[k].uid PROVE j = k
    BY <1>1 DEF UidsOnce
  <2>2. p[up(j)].uid = p[up(k)].uid /\ up(j) \in DOMAIN p /\ up(k) \in DOMAIN p
    BY <1>1, <2>1
  <2>3. up(j) = up(k)
    BY <2>2 DEF UidsOnce
  <2>4. QED
    BY <1>2, <2>3
<1>4. ToSet(s) \subseteq ToSet(p)
  BY <1>1 DEF ToSet
<1>5. \A x \in ToSet(p) : x \in ToSet(s) \/ x = p[i]
  <2>1. SUFFICES ASSUME NEW j \in 1..Len(p), j # i PROVE p[j] \in ToSet(s)
    BY <1>1 DEF ToSet
  <2>2. QED
    BY <1>1, <2>1 DEF ToSet
<1>6. QED
  BY <1>1, <1>3, <1>4, <1>5

LEMMA WorkUids ==
  ASSUME NEW I, NEW p, NEW A, NEW D, WorkOnce(I, p, A, D), NEW q, NEW w \in Works(q, ToSet(p), A, D)
  PROVE  w[1] \in Uid \ I
<1>1. \A x \in ToSet(p) \cup A \cup D : x.uid \in Uid \ I
  BY DEF WorkOnce
<1>2. \/ \E x \in ToSet(p) : w = EntryWork(q, x)
      \/ \E x \in A : w = ReadyWork(x)
      \/ \E x \in D : w = DueWork(x)
  BY DEF Works
<1>3. QED
  BY <1>1, <1>2, WorkIs

LEMMA WorkOf ==
  ASSUME NEW q, NEW E, NEW A, NEW D
  PROVE  /\ \A x \in E : EntryWork(q, x) \in Works(q, E, A, D)
         /\ \A x \in A : ReadyWork(x) \in Works(q, E, A, D)
         /\ \A x \in D : DueWork(x) \in Works(q, E, A, D)
         /\ \A x \in E \cup A \cup D : \E w \in Works(q, E, A, D) : w[1] = x.uid
<1>1. /\ \A x \in E : EntryWork(q, x) \in Works(q, E, A, D)
      /\ \A x \in A : ReadyWork(x) \in Works(q, E, A, D)
      /\ \A x \in D : DueWork(x) \in Works(q, E, A, D)
  BY DEF Works
<1>2. QED
  BY <1>1, WorkIs

\* The work is in other places, and some may have gone.
LEMMA MovedText ==
  ASSUME NEW t, NEW said, NEW q, NEW I, NEW p, NEW A, TextOK(t, said, q, I, p, A, {}), NEW s, NEW B,
         UidsOnce(s), OnePerUid(B), ApartFrom(ToSet(s), B),
         Works(q, ToSet(s), B, {}) \subseteq Works(q, ToSet(p), A, {})
  PROVE  TextOK(t, said, q, I, s, B, {})
<1> PICK V : V = Works(q, ToSet(p), A, {})
  OBVIOUS
<1> PICK W : W = Works(q, ToSet(s), B, {})
  OBVIOUS
<1>1. \A w \in V : w[1] \in Uid \ I /\ Continues(t, said, w)
  BY WorkUids DEF TextOK
<1>2. \A x \in ToSet(s) \cup B : \E w \in W : w[1] = x.uid
  BY WorkOf
<1>3. \A x \in ToSet(s) \cup B : x.uid \in Uid \ I
  BY <1>1, <1>2
<1>4. B \cup {} = B /\ B \cap {} = {} /\ ToSet(s) \cup B \cup {} = ToSet(s) \cup B
  OBVIOUS
<1>5. WorkOnce(I, s, B, {})
  BY <1>3, <1>4 DEF WorkOnce
<1>6. QED
  BY <1>1, <1>5 DEF TextOK

\* Nothing of what there is to do has gone.
LEMMA StillPresent ==
  ASSUME NEW t, NEW said, NEW I, NEW V, NEW W, Present(t, said, I, V),
         \A v \in V : v[1] \in Abortable \/ \E w \in W : w[1] = v[1]
  PROVE  Present(t, said, I, W)
  BY DEF Present

-----------------------------------------------------------------------------
(***************************************************************************)
(* A round admits work                                                     *)
(***************************************************************************)
LEMMA AllOf ==
  ASSUME NEW s \in Seq(Nat)
  PROVE  SubSeq(s, 1, Len(s)) = s
  OBVIOUS

LEMMA AdmittedWork ==
  ASSUME NEW q \in Params, NEW e \in Entry, NEW req, AdmittedFor(e, MaxOutputLen(q, e), req), ~ req.chunked
  PROVE  ReadyWork(req) = EntryWork(q, e)
<1>1. PICK max \in Int : max = MaxOutputLen(q, e)
  BY DEF MaxOutputLen, Params, Entry
<1>2. PICK dev \in Nat : dev = req.device
  BY RequestIs DEF AdmittedFor
<1>3. req.uid = e.uid /\ dev = Len(e.ids) /\ req.ids = SubSeq(e.ids, 1, dev) /\ req.maxDevice = dev + max
  BY <1>1, <1>2 DEF AdmittedFor
<1>4. e.ids \in Seq(Nat)
  BY DEF Entry
<1>5. req.ids = e.ids
  BY <1>3, <1>4, AllOf
<1>6. RemainLen(req) = max
  BY <1>2, <1>3 DEF RemainLen
<1>7. QED
  BY <1>1, <1>3, <1>5, <1>6 DEF ReadyWork, EntryWork

LEMMA SameWork ==
  ASSUME NEW q, NEW e, NEW x, x.uid = e.uid, x.ids = e.ids, x.fresh = e.fresh, x.limit = e.limit
  PROVE  EntryWork(q, x) = EntryWork(q, e)
  BY DEF EntryWork, MaxOutputLen

RoundWork(q, r) == Works(q, ToSet(r.kept), Whole(ToSet(r.admitted)), {})

WorkUpTo(q, p, n) == {EntryWork(q, p[j]) : j \in 1..n}

RoundText(q, p, r) ==
  /\ RoundWork(q, r) = WorkUpTo(q, p, Reached(r))
  /\ UidsOnce(r.kept) /\ OnePerUid(Whole(ToSet(r.admitted)))
  /\ ApartFrom(ToSet(r.kept), Whole(ToSet(r.admitted)))

LEMMA WorkUpToNext ==
  ASSUME NEW q, NEW p, UidsOnce(p), NEW n \in Nat, DOMAIN p = 1..n, NEW k \in Nat, k + 1 <= n,
         NEW e, e = p[k + 1], NEW V, V = WorkUpTo(q, p, k), NEW W, W = WorkUpTo(q, p, k + 1)
  PROVE  /\ W = V \cup {EntryWork(q, e)}
         /\ \A w \in V : w[1] # e.uid
<1>1. /\ \A j \in 1..k + 1 : j = k + 1 \/ j \in 1..k
      /\ \A j \in 1..k : j \in 1..k + 1 /\ j \in 1..n /\ j # k + 1
      /\ k + 1 \in 1..k + 1 /\ k + 1 \in 1..n
  OBVIOUS
<1>2. WorkUpTo(q, p, k + 1) = WorkUpTo(q, p, k) \cup {EntryWork(q, p[k + 1])}
  <2>1. ASSUME NEW w \in WorkUpTo(q, p, k + 1) PROVE w \in WorkUpTo(q, p, k) \/ w = EntryWork(q, p[k + 1])
    BY <1>1, <2>1 DEF WorkUpTo
  <2>2. ASSUME NEW w, w \in WorkUpTo(q, p, k) \/ w = EntryWork(q, p[k + 1]) PROVE w \in WorkUpTo(q, p, k + 1)
    BY <1>1, <2>2 DEF WorkUpTo
  <2>3. QED
    BY <2>1, <2>2
<1>3. ASSUME NEW j \in 1..k PROVE p[j].uid # p[k + 1].uid
  BY <1>1 DEF UidsOnce
<1>4. \A w \in WorkUpTo(q, p, k) : \E j \in 1..k : w[1] = p[j].uid
  BY WorkIs DEF WorkUpTo
<1>5. QED
  BY <1>2, <1>3, <1>4

LEMMA RoundTextStep ==
  ASSUME NEW A, NEW q \in Params, NEW p \in Seq(Entry), UidsOnce(p), NEW k \in Nat, k + 1 <= Len(p),
         NEW r, RoundOK(A, p, r, k), RoundText(q, p, r),
         NEW e, e = p[k + 1], NEW x, x = TryAddOne(q, r, e), RoundOK(A, p, x, k + 1)
  PROVE  RoundText(q, p, x)
<1>a. PICK n \in Nat : n = Len(p)
  OBVIOUS
<1>1. e \in Entry /\ DOMAIN p = 1..n /\ k + 1 <= n
  BY <1>a
<1>2. IsRound(r) /\ r.slots \in Seq(Slots) /\ IsRound(x)
  BY DEF RoundOK, Held
<1>m. PICK max : max = MaxOutputLen(q, e)
  OBVIOUS
<1>3. /\ Halts(r, x) \/ Skips(r, x, e) \/ AdmitsNew(r, x, e, max) \/ AdmitsChunk(r, x, e, max)
      /\ r.stopped \/ r.tooLarge \/ r.budget <= 0 => Halts(r, x)
  BY <1>1, <1>2, <1>m, TryAddOneIs
<1>4. CASE Halts(r, x)
  <2>1. x.admitted = r.admitted /\ x.kept = r.kept
    BY <1>4 DEF Halts
  <2>2. Reached(x) = Reached(r)
    BY <2>1 DEF Reached, Cut
  <2>3. QED
    BY <2>1, <2>2, Zenon DEF RoundText, RoundWork
<1>b. PICK K : K = ToSet(r.kept)
  OBVIOUS
<1>c. PICK D : D = ToSet(r.admitted)
  OBVIOUS
<1>d. PICK V : V = WorkUpTo(q, p, k)
  OBVIOUS
<1>5. ASSUME ~ Halts(r, x)
      PROVE  /\ Works(q, K, Whole(D), {}) = V /\ UidsOnce(r.kept) /\ OnePerUid(Whole(D))
             /\ ApartFrom(K, Whole(D))
             /\ WorkUpTo(q, p, k + 1) = V \cup {EntryWork(q, e)}
             /\ \A y \in K \cup Whole(D) : y.uid # e.uid
  <2>1. Reached(r) = k
    BY <1>3, <1>5 DEF RoundOK
  <2>2. Works(q, K, Whole(D), {}) = V /\ UidsOnce(r.kept) /\ OnePerUid(Whole(D)) /\ ApartFrom(K, Whole(D))
    BY <1>b, <1>c, <1>d, <2>1 DEF RoundText, RoundWork
  <2>3. WorkUpTo(q, p, k + 1) = V \cup {EntryWork(q, e)} /\ \A w \in V : w[1] # e.uid
    <3>1. PICK W : W = WorkUpTo(q, p, k + 1)
      OBVIOUS
    <3>2. W = V \cup {EntryWork(q, e)} /\ \A w \in V : w[1] # e.uid
      BY <1>1, <1>d, <3>1, WorkUpToNext
    <3>3. QED
      BY <3>1, <3>2
  <2>4. \A y \in K \cup Whole(D) : \E w \in V : w[1] = y.uid
    BY <2>2, WorkOf
  <2>5. QED
    BY <2>2, <2>3, <2>4
<1>6. r.kept \in Seq(Entry) /\ r.admitted \in Seq(Request)
  BY <1>2 DEF IsRound
\* The entry is kept, with a chunk or without.
<1>7. ASSUME ~ Halts(r, x), Reached(x) = k + 1, NEW y \in Entry, x.kept = Append(r.kept, y),
             EntryWork(q, y) = EntryWork(q, e), y.uid = e.uid,
             Whole(ToSet(x.admitted)) = Whole(D)
      PROVE  RoundText(q, p, x)
  <2>1. UidsOnce(x.kept) /\ ToSet(x.kept) = K \cup {y}
    <3>1. \A z \in K : z.uid # y.uid
      BY <1>5, <1>7
    <3>2. QED
      BY <1>5, <1>6, <1>7, <1>b, <3>1, AppendedEntries
  <2>2. ApartFrom(K \cup {y}, Whole(D))
    BY <1>5, <1>7 DEF ApartFrom
  <2>3. RoundWork(q, x) = V \cup {EntryWork(q, e)}
    <3>1. Works(q, K \cup {y}, Whole(D), {}) = Works(q, K, Whole(D), {}) \cup {EntryWork(q, y)}
      BY DEF Works
    <3>2. RoundWork(q, x) = Works(q, K \cup {y}, Whole(D), {})
      BY <1>7, <2>1, Zenon DEF RoundWork
    <3>3. QED
      BY <1>5, <1>7, <3>1, <3>2, Zenon
  <2>4. QED
    BY <1>5, <1>7, <2>1, <2>2, <2>3 DEF RoundText
\* The entry is admitted to its end.
<1>8. ASSUME ~ Halts(r, x), Reached(x) = k + 1, NEW req, x.kept = r.kept, req.uid = e.uid,
             ReadyWork(req) = EntryWork(q, e), Whole(ToSet(x.admitted)) = Whole(D) \cup {req}
      PROVE  RoundText(q, p, x)
  <2>1. OnePerUid(Whole(D) \cup {req})
    BY <1>5, <1>8 DEF OnePerUid
  <2>2. ApartFrom(K, Whole(D) \cup {req})
    BY <1>5, <1>8 DEF ApartFrom
  <2>3. RoundWork(q, x) = V \cup {EntryWork(q, e)}
    <3>1. Works(q, K, Whole(D) \cup {req}, {}) = Works(q, K, Whole(D), {}) \cup {ReadyWork(req)}
      BY DEF Works
    <3>2. RoundWork(q, x) = Works(q, K, Whole(D) \cup {req}, {})
      BY <1>8, <1>b, Zenon DEF RoundWork
    <3>3. QED
      BY <1>5, <1>8, <3>1, <3>2, Zenon
  <2>4. /\ UidsOnce(x.kept) /\ OnePerUid(Whole(ToSet(x.admitted)))
        /\ ApartFrom(ToSet(x.kept), Whole(ToSet(x.admitted)))
    BY <1>5, <1>8, <1>b, <2>1, <2>2
  <2>5. RoundWork(q, x) = WorkUpTo(q, p, Reached(x))
    BY <1>5, <1>8, <2>3, Zenon
  <2>6. QED
    BY <2>4, <2>5 DEF RoundText
<1>9. CASE Skips(r, x, e) /\ ~ Halts(r, x)
  <2>1. Reached(x) = k + 1 /\ x.kept = Append(r.kept, e) /\ x.admitted = r.admitted
    BY <1>9 DEF Skips, RoundOK
  <2>2. Whole(ToSet(x.admitted)) = Whole(D)
    BY <1>c, <2>1
  <2>3. QED
    BY <1>1, <1>7, <1>9, <2>1, <2>2
<1>10. ASSUME ~ Halts(r, x), NEW req, Admits(r, x, e, max, req), ~ x.stopped, ~ x.tooLarge
       PROVE  RoundText(q, p, x)
  <2>1. Reached(x) = k + 1
    BY <1>10 DEF RoundOK
  <2>2. /\ AdmittedFor(e, max, req) /\ req \in Request /\ req.uid = e.uid
        /\ x.admitted = Append(r.admitted, req)
        /\ x.kept = IF req.chunked THEN Append(r.kept, [e EXCEPT !.chunk = <<req>>]) ELSE r.kept
    BY <1>10 DEF Admits, AdmittedFor
  <2>3. ToSet(x.admitted) = D \cup {req}
    BY <1>6, <1>c, <2>2, AppendedSet
  <2>4. CASE req.chunked
    <3>1. Whole(ToSet(x.admitted)) = Whole(D)
      BY <2>3, <2>4 DEF Whole
    <3>2. PICK y : y = [e EXCEPT !.chunk = <<req>>]
      OBVIOUS
    <3>3. y \in Entry /\ EntryWork(q, y) = EntryWork(q, e) /\ y.uid = e.uid
      <4>1. y \in Entry
        BY <1>1, <2>2, <3>2, ChunkSet
      <4>2. y.uid = e.uid /\ y.ids = e.ids /\ y.fresh = e.fresh /\ y.limit = e.limit
        BY <1>1, <3>2 DEF Entry
      <4>3. QED
        BY <4>1, <4>2, SameWork
    <3>4. x.kept = Append(r.kept, y)
      BY <2>2, <2>4, <3>2
    <3>5. QED
      BY <1>7, <1>10, <2>1, <3>1, <3>3, <3>4
  <2>5. CASE ~ req.chunked
    <3>1. Whole(ToSet(x.admitted)) = Whole(D) \cup {req}
      BY <2>3, <2>5 DEF Whole
    <3>2. ReadyWork(req) = EntryWork(q, e)
      BY <1>1, <1>m, <2>2, <2>5, AdmittedWork
    <3>3. QED
      BY <1>8, <1>10, <2>1, <2>2, <2>5, <3>1, <3>2
  <2>6. QED
    BY <2>4, <2>5
<1>11. CASE AdmitsNew(r, x, e, max) /\ ~ Halts(r, x)
  BY <1>10, <1>11 DEF AdmitsNew
<1>12. CASE AdmitsChunk(r, x, e, max) /\ ~ Halts(r, x)
  BY <1>10, <1>12 DEF AdmitsChunk
<1>13. QED
  BY <1>3, <1>4, <1>9, <1>11, <1>12

LEMMA RoundTextIs ==
  ASSUME NEW A \in SUBSET Request, \A r \in A : ~ r.chunked,
         NEW p \in Seq(Entry), OnceEach(p), \A c \in ChunksIn(p) : c.chunked, UidsOnce(p),
         NEW q \in Params, NEW start, NEW free, Held(free, A \cup ChunksIn(p))
  PROVE  RoundText(q, p, PrefillRound(q, start, free, p))
<1> DEFINE first == NewRound(start, free)
           r == CHOOSE r : RoundUpTo(r, q, first, p, Len(p))
<1>1. Len(p) \in Nat
  OBVIOUS
<1>2. RoundUpTo(r, q, first, p, Len(p))
  BY <1>1, RoundExists
<1>3. PrefillRound(q, start, free, p) = r[Len(p)]
  BY DEF PrefillRound, RoundUpTo
<1>4. RoundText(q, p, first)
  <2>1. first.admitted = <<>> /\ first.kept = <<>>
    BY DEF NewRound
  <2> HIDE DEF first
  <2>2. Len(<<>>) = 0 /\ DOMAIN <<>> = {} /\ 1..0 = {}
    OBVIOUS
  <2>3. Reached(first) = 0
    BY <2>1, <2>2 DEF Cut, Reached
  <2>4. ToSet(first.kept) = {} /\ Whole(ToSet(first.admitted)) = {}
    BY <2>1, <2>2 DEF ToSet, Whole
  <2>5. RoundWork(q, first) = {} /\ WorkUpTo(q, p, 0) = {}
    BY <2>2, <2>4 DEF RoundWork, Works, WorkUpTo
  <2>6. UidsOnce(first.kept)
    BY <2>1, <2>2 DEF UidsOnce
  <2>7. QED
    BY <2>3, <2>4, <2>5, <2>6 DEF RoundText, OnePerUid, ApartFrom
<1>5. RoundOK(A, p, first, 0)
  BY RoundAtFirst
<1> HIDE DEF first, r
<1> DEFINE S == {k \in Nat : k <= Len(p) => RoundOK(A, p, r[k], k) /\ RoundText(q, p, r[k])}
<1>6. 0 \in S
  BY <1>1, <1>2, <1>4, <1>5 DEF RoundUpTo
<1>7. ASSUME NEW k \in Nat, k \in S
      PROVE  k + 1 \in S
  <2>1. SUFFICES ASSUME k + 1 <= Len(p) PROVE RoundOK(A, p, r[k + 1], k + 1) /\ RoundText(q, p, r[k + 1])
    OBVIOUS
  <2>2. /\ RoundOK(A, p, r[k], k) /\ RoundText(q, p, r[k])
        /\ k + 1 \in 1..Len(p) /\ k + 1 \in 0..Len(p) /\ (k + 1) - 1 = k /\ k + 1 # 0
    BY <1>1, <1>7, <2>1
  <2>3. r[k + 1] = TryAddOne(q, r[k], p[k + 1])
    BY <1>2, <2>2 DEF RoundUpTo
  <2>4. RoundOK(A, p, r[k + 1], k + 1)
    BY <2>1, <2>2, <2>3, RoundStep
  <2>5. QED
    BY <2>1, <2>2, <2>3, <2>4, RoundTextStep
<1> HIDE DEF S
<1>8. Len(p) \in S
  BY <1>1, <1>6, <1>7, SetInduction
<1>9. QED
  BY <1>1, <1>3, <1>8 DEF S

\* Who has work has an entry among those the work is of.
LEMMA WorkFrom ==
  ASSUME NEW q, NEW E, NEW A, NEW F, \A w \in Works(q, E, A, {}) : \E e \in F : w = EntryWork(q, e)
  PROVE  \A x \in E \cup A : \E e \in F : e.uid = x.uid
<1>1. SUFFICES ASSUME NEW x \in E \cup A PROVE \E e \in F : e.uid = x.uid
  OBVIOUS
<1>2. PICK w \in Works(q, E, A, {}) : w[1] = x.uid
  BY WorkOf
<1>3. PICK e \in F : w = EntryWork(q, e)
  OBVIOUS
<1>4. QED
  BY <1>2, <1>3, WorkIs

LEMMA AfterRoundText ==
  ASSUME NEW A, NEW p \in Seq(Entry), UidsOnce(p), NEW q \in Params,
         NEW r, RoundOK(A, p, r, Len(p)), r.admitted # <<>>, RoundText(q, p, r),
         NEW s, s = PendingAfter(q, r, p), NEW D, D = Whole(ToSet(r.admitted))
  PROVE  /\ s \in Seq(Entry) /\ UidsOnce(s) /\ ApartFrom(ToSet(s), D) /\ OnePerUid(D)
         /\ Works(q, ToSet(s), D, {}) \subseteq {EntryWork(q, e) : e \in ToSet(p)}
         /\ (Cut(r) => Len(r.admitted) + Len(r.kept) \notin DOMAIN p)
              => \A e \in ToSet(p) : EntryWork(q, e) \in Works(q, ToSet(s), D, {})
<1>1. r.kept \in Seq(Entry) /\ r.admitted \in Seq(Request)
  BY DEF RoundOK, IsRound
<1>2. PICK n \in Nat : n = Len(r.admitted) + Len(r.kept)
  <2>1. PICK a \in Nat, b \in Nat : a = Len(r.admitted) /\ b = Len(r.kept)
    BY <1>1
  <2>2. a + b = Len(r.admitted) + Len(r.kept)
    BY <2>1, Zenon
  <2>3. a + b \in Nat
    OBVIOUS
  <2>4. QED
    BY <2>2, <2>3, Zenon
<1>3. PICK m \in Nat : m = Len(p)
  OBVIOUS
<1>4. PICK c \in 0..m : c = Reached(r)
  BY <1>3 DEF RoundOK
<1>5. c <= n /\ (~ Cut(r) => c = n) /\ (Cut(r) => c = n - 1)
  <2>1. CASE Cut(r)
    <3>1. Reached(r) = n - 1
      BY <1>2, <2>1 DEF Reached
    <3>2. QED
      BY <1>4, <2>1, <3>1
  <2>2. CASE ~ Cut(r)
    <3>1. Reached(r) = n
      BY <1>2, <2>2 DEF Reached
    <3>2. QED
      BY <1>4, <2>2, <3>1
  <2>3. QED
    BY <2>1, <2>2
<1>6. PICK rest : rest = SubSeq(p, n + 1, Len(p))
  OBVIOUS
<1>7. PICK K : K = ToSet(r.kept)
  OBVIOUS
<1>8. PICK R : R = ToSet(rest)
  OBVIOUS
<1>9. rest \in Seq(Entry) /\ R = {p[j] : j \in n + 1..m} /\ UidsOnce(rest)
  <2>1. rest \in Seq(Entry) /\ ToSet(rest) = EntriesPast(p, n) /\ UidsOnce(rest)
    BY <1>6, RestEntries
  <2>2. QED
    BY <1>3, <1>8, <2>1 DEF EntriesPast
<1>10. PICK V : V = Works(q, K, D, {})
  OBVIOUS
<1>11. /\ V = {EntryWork(q, p[j]) : j \in 1..c} /\ UidsOnce(r.kept) /\ OnePerUid(D) /\ ApartFrom(K, D)
  BY <1>4, <1>7, <1>10, Zenon DEF RoundText, RoundWork, WorkUpTo
<1>12. DOMAIN p = 1..m /\ (\A j \in 1..c : j \in 1..m) /\ (\A j \in n + 1..m : j \in 1..m)
       /\ \A j \in 1..c, i \in n + 1..m : i # j
  BY <1>3, <1>5
<1>13. \A x \in K \cup D : \E j \in 1..c : p[j].uid = x.uid
  <2>1. ASSUME NEW x \in K \cup D PROVE \E j \in 1..c : p[j].uid = x.uid
    <3>1. PICK w \in V : w[1] = x.uid
      BY <1>10, <2>1, WorkOf
    <3>2. PICK j \in 1..c : w = EntryWork(q, p[j])
      BY <1>11
    <3>3. QED
      BY <3>1, <3>2, WorkIs
  <2>2. QED
    BY <2>1
<1>14. \A x \in K \cup D, y \in R : x.uid # y.uid
  <2>1. SUFFICES ASSUME NEW x \in K \cup D, NEW i \in n + 1..m PROVE x.uid # p[i].uid
    BY <1>9
  <2>2. PICK j \in 1..c : p[j].uid = x.uid
    BY <1>13
  <2>3. QED
    BY <1>12, <2>2 DEF UidsOnce
<1>15. PICK all : all = r.kept \o rest
  OBVIOUS
<1>16. all \in Seq(Entry) /\ ToSet(all) = K \cup R /\ UidsOnce(all)
  <2>1. ApartFrom(K, R)
    BY <1>14 DEF ApartFrom
  <2>2. QED
    <3>1. /\ all \in Seq(Entry) /\ ToSet(all) = ToSet(r.kept) \cup ToSet(rest)
          /\ UidsOnce(r.kept) /\ UidsOnce(rest) /\ ApartFrom(ToSet(r.kept), ToSet(rest)) => UidsOnce(all)
      BY <1>1, <1>9, <1>15, JoinedEntries
    <3>2. QED
      BY <1>7, <1>8, <1>9, <1>11, <2>1, <3>1
<1>17. s = SortPending(q, all)
  BY <1>2, <1>6, <1>15 DEF PendingAfter
<1>18. s \in Seq(Entry) /\ ToSet(s) = K \cup R /\ UidsOnce(s)
  BY <1>16, <1>17, SortedEntries
<1>19. ApartFrom(ToSet(s), D)
  <2>1. ApartFrom(K \cup R, D)
    BY <1>11, <1>14 DEF ApartFrom
  <2>2. QED
    BY <1>18, <2>1
<1>20. PICK W : W = Works(q, ToSet(s), D, {})
  OBVIOUS
<1>21. W = V \cup {EntryWork(q, e) : e \in R}
  BY <1>10, <1>18, <1>20 DEF Works
<1>22. ToSet(p) = {p[j] : j \in 1..m}
  BY <1>12 DEF ToSet
<1>23. \A w \in W : w \in {EntryWork(q, e) : e \in ToSet(p)}
  BY <1>9, <1>11, <1>12, <1>21, <1>22
<1>24. ASSUME Cut(r) => n \notin DOMAIN p, NEW e \in ToSet(p)
       PROVE  EntryWork(q, e) \in W
  <2>1. PICK j \in 1..m : e = p[j]
    BY <1>22
  <2>2. j \in 1..c \/ j \in n + 1..m
    BY <1>5, <1>12, <1>24
  <2>3. QED
    BY <1>9, <1>11, <1>21, <2>1, <2>2
<1>25. QED
  BY <1>2, <1>11, <1>18, <1>19, <1>20, <1>23, <1>24

-----------------------------------------------------------------------------
(***************************************************************************)
(* The steps that move work                                                *)
(***************************************************************************)
LEMMA SameTask ==
  ASSUME UNCHANGED input
  PROVE  Task' = Task /\ prompt' = prompt /\ limit' = limit
<1>1. prompt' = prompt /\ limit' = limit
  BY DEF input
<1>2. QED
  BY <1>1 DEF Task, TokenLimit

\* Outside processing no request waits for its token.
LEMMA NoneAwaited ==
  ASSUME pc # "process"
  PROVE  Awaiting = {} /\ Ready = running \cup Whole(ToSet(batch.reqs))
  BY DEF Awaiting, Ready

LEMMA Moves ==
  ASSUME TextInv, UNCHANGED <<input, inbox, params, emitted>>, Awaiting = {}, Awaiting' = {},
         NEW s, s = pending', NEW B, B = Ready', UidsOnce(s), OnePerUid(B), ApartFrom(ToSet(s), B),
         NEW V, V = Works(params, ToSet(pending), Ready, {}),
         NEW W, W = Works(params, ToSet(s), B, {}), W \subseteq V
  PROVE  /\ TextInv'
         /\ AllPresent /\ (\A v \in V : v[1] \in Abortable \/ \E w \in W : w[1] = v[1]) => AllPresent'
<1>1. PICK t : t = Task
  OBVIOUS
<1>2. PICK said : said = emitted
  OBVIOUS
<1>3. PICK I : I = ToSet(inbox)
  OBVIOUS
<1>4. PICK q : q = params
  OBVIOUS
<1>5. /\ Task' = t /\ prompt' = prompt /\ limit' = limit
      /\ emitted' = said /\ inbox' = inbox /\ ToSet(inbox') = I /\ params' = q
  BY <1>1, <1>2, <1>3, <1>4, SameTask
<1>6. TextOK(t, said, q, I, pending, Ready, {})
  BY <1>1, <1>2, <1>3, <1>4 DEF TextInv
<1>7. TextOK(t, said, q, I, s, B, {})
  BY <1>4, <1>6, MovedText
<1>8. TextOK(Task', emitted', params', ToSet(inbox'), pending', Ready', Awaiting')
  BY <1>5, <1>7
<1>9. TextInv'
  BY <1>5, <1>8 DEF TextInv
<1>10. ASSUME AllPresent, \A v \in V : v[1] \in Abortable \/ \E w \in W : w[1] = v[1]
       PROVE  AllPresent'
  <2>1. Present(t, said, I, V)
    BY <1>1, <1>2, <1>3, <1>10 DEF AllPresent
  <2>2. Present(t, said, I, W)
    BY <1>10, <2>1, StillPresent
  <2>3. Works(params', ToSet(pending'), Ready', Awaiting') = W
    BY <1>4, <1>5
  <2>4. QED
    BY <1>5, <2>2, <2>3 DEF AllPresent
<1>11. QED
  BY <1>9, <1>10

\* Nothing moves.
LEMMA NothingSaid ==
  ASSUME TextInv, UNCHANGED <<input, inbox, params, emitted, pending, running, batch>>,
         pc' = "process" <=> pc = "process"
  PROVE  TextInv' /\ (AllPresent => AllPresent')
<1>1. Awaiting' = Awaiting
  BY DEF Awaiting
<1>2. Ready' = Ready
  BY <1>1 DEF Ready
<1>3. Task' = Task /\ prompt' = prompt /\ limit' = limit
  BY SameTask
<1>4. TextInv'
  BY <1>1, <1>2, <1>3 DEF TextInv
<1>5. AllPresent => AllPresent'
  BY <1>1, <1>2, <1>3 DEF AllPresent
<1>6. QED
  BY <1>4, <1>5

\* The requests of a batch change, and not what is ready.
LEMMA SameReady ==
  ASSUME TextInv, UNCHANGED <<input, inbox, params, emitted, pending>>,
         pc # "process", pc' # "process", Ready' = Ready
  PROVE  TextInv' /\ (AllPresent => AllPresent')
<1>1. Awaiting = {} /\ Awaiting' = {}
  BY DEF Awaiting
<1>2. Task' = Task /\ prompt' = prompt /\ limit' = limit
  BY SameTask
<1>3. TextInv'
  BY <1>1, <1>2 DEF TextInv
<1>4. AllPresent => AllPresent'
  BY <1>1, <1>2 DEF AllPresent
<1>5. QED
  BY <1>3, <1>4

LEMMA TextIs ==
  ASSUME TextInv, pc # "process"
  PROVE  /\ UidsOnce(pending) /\ OnePerUid(Ready) /\ ApartFrom(ToSet(pending), Ready)
         /\ Awaiting = {} /\ Ready = running \cup Whole(ToSet(batch.reqs))
<1>1. Awaiting = {} /\ Ready = running \cup Whole(ToSet(batch.reqs))
  BY NoneAwaited
<1>2. WorkOnce(ToSet(inbox), pending, Ready, {})
  BY <1>1 DEF TextInv, TextOK
<1>3. Ready \cup {} = Ready
  OBVIOUS
<1>4. QED
  BY <1>1, <1>2, <1>3 DEF WorkOnce

LEMMA SchedulePrefillText ==
  ASSUME SlotInv, TextInv, SchedulePrefill
  PROVE  TextInv' /\ (AllPresent /\ NonePassedOver => AllPresent')
<1>a. PICK r : r = Round
  OBVIOUS
<1>b. PICK A : A = running
  OBVIOUS
<1>c. PICK p : p = pending
  OBVIOUS
<1>d. PICK q : q = params
  OBVIOUS
<1>1. /\ pc = "schedule" /\ pc' = "prepare" /\ r.admitted # <<>>
      /\ batch' = [phase |-> "prefill", reqs |-> r.admitted]
      /\ pending' = PendingAfter(q, r, p)
      /\ UNCHANGED <<input, inbox, params, running, emitted>>
  BY <1>a, <1>c, <1>d DEF SchedulePrefill, history
<1>2. /\ A \in SUBSET Request /\ (\A a \in A : ~ a.chunked) /\ Held(slots, A \cup ChunksIn(p))
      /\ ToSet(batch.reqs) = {}
  BY <1>1, <1>b, <1>c, NoneInBatch DEF SlotInv, RequestsOK
<1>3. p \in Seq(Entry) /\ q \in Params /\ OnceEach(p) /\ \A x \in ChunksIn(p) : x.chunked
  BY <1>c, <1>d DEF SlotInv, RequestsOK, ChunksOK, Chunks, ChunksIn
<1>4. Ready = A /\ UidsOnce(p) /\ OnePerUid(A) /\ ApartFrom(ToSet(p), A) /\ Awaiting = {}
  <2>1. pc # "process" /\ Whole({}) = {}
    BY <1>1 DEF Whole
  <2>2. Ready = A
    BY <1>2, <1>b, <2>1, TextIs
  <2>3. QED
    BY <1>c, <2>1, <2>2, TextIs
<1>5. r = PrefillRound(q, pool, slots, p)
  BY <1>a, <1>c, <1>d DEF Round
<1>6. RoundOK(A, p, r, Len(p)) /\ RoundText(q, p, r)
  BY <1>2, <1>3, <1>4, <1>5, RoundIs, RoundTextIs
<1>7. PICK D : D = Whole(ToSet(r.admitted))
  OBVIOUS
<1>8. PICK s : s = PendingAfter(q, r, p)
  OBVIOUS
<1>9. /\ s \in Seq(Entry) /\ UidsOnce(s) /\ ApartFrom(ToSet(s), D) /\ OnePerUid(D)
      /\ Works(q, ToSet(s), D, {}) \subseteq {EntryWork(q, e) : e \in ToSet(p)}
      /\ (Cut(r) => Len(r.admitted) + Len(r.kept) \notin DOMAIN p)
           => \A e \in ToSet(p) : EntryWork(q, e) \in Works(q, ToSet(s), D, {})
  BY <1>1, <1>3, <1>4, <1>6, <1>7, <1>8, AfterRoundText
<1>10. PICK B : B = A \cup D
  OBVIOUS
<1>11. Ready' = B /\ Awaiting' = {}
  <2>1. pc' # "process" /\ batch'.reqs = r.admitted /\ running' = A
    BY <1>1, <1>b
  <2>2. Awaiting' = {}
    BY <2>1 DEF Awaiting
  <2>3. QED
    BY <1>7, <1>10, <2>1, <2>2 DEF Ready
<1>12. \A x \in ToSet(s) \cup D : \E e \in ToSet(p) : e.uid = x.uid
  <2>1. \A w \in Works(q, ToSet(s), D, {}) : \E e \in ToSet(p) : w = EntryWork(q, e)
    BY <1>9
  <2>2. QED
    BY <2>1, WorkFrom
<1>13. OnePerUid(B) /\ ApartFrom(ToSet(s), B)
  <2>1. \A x \in ToSet(s) \cup D, a \in A : x.uid # a.uid
    BY <1>4, <1>12 DEF ApartFrom
  <2>2. OnePerUid(B)
    BY <1>4, <1>9, <1>10, <2>1 DEF OnePerUid
  <2>3. QED
    BY <1>9, <1>10, <2>1, <2>2 DEF ApartFrom
<1>14. PICK V : V = Works(q, ToSet(p), A, {})
  OBVIOUS
<1>15. PICK W : W = Works(q, ToSet(s), B, {})
  OBVIOUS
<1>16. PICK U : U = Works(q, ToSet(s), D, {})
  OBVIOUS
<1>17. /\ V = {EntryWork(q, e) : e \in ToSet(p)} \cup {ReadyWork(a) : a \in A}
       /\ W = U \cup {ReadyWork(a) : a \in A}
  BY <1>10, <1>14, <1>15, <1>16 DEF Works
<1>18. W \subseteq V
  BY <1>9, <1>16, <1>17
<1>19. NonePassedOver => \A v \in V : \E w \in W : w[1] = v[1]
  <2>1. NonePassedOver => (Cut(r) => Len(r.admitted) + Len(r.kept) \notin DOMAIN p)
    BY <1>1, <1>a, <1>c DEF NonePassedOver, Cut
  <2>2. NonePassedOver => \A e \in ToSet(p) : EntryWork(q, e) \in U
    BY <1>9, <1>16, <2>1
  <2>3. QED
    BY <1>17, <2>2
<1>20. /\ TextInv'
       /\ AllPresent /\ (\A v \in V : v[1] \in Abortable \/ \E w \in W : w[1] = v[1]) => AllPresent'
  <2>1. V = Works(params, ToSet(pending), Ready, {}) /\ W = Works(params, ToSet(s), B, {})
    BY <1>4, <1>c, <1>d, <1>14, <1>15
  <2>2. s = pending' /\ B = Ready'
    BY <1>1, <1>8, <1>11
  <2>3. QED
    BY <1>1, <1>4, <1>9, <1>11, <1>13, <1>18, <2>1, <2>2, Moves
<1>21. QED
  BY <1>19, <1>20

LEMMA ScheduleDecodeText ==
  ASSUME SlotInv, TextInv, ScheduleDecode
  PROVE  TextInv' /\ (AllPresent => AllPresent')
<1>1. /\ pc = "schedule" /\ pc' = "prepare" /\ UNCHANGED <<input, inbox, params, emitted, pending, running>>
      /\ \E order \in SetToSeqs(running) : batch' = [phase |-> "decode", reqs |-> order]
  BY DEF ScheduleDecode, history, queues
<1>2. PICK order \in SetToSeqs(running) : batch'.reqs = order
  BY <1>1
<1>3. ToSet(order) = running
  BY OrdersOf DEF SlotInv, RequestsOK
<1>4. ToSet(batch.reqs) = {}
  BY <1>1, NoneInBatch
<1>5. Awaiting = {} /\ Awaiting' = {}
  BY <1>1 DEF Awaiting
<1>6. Ready' = Ready
  BY <1>1, <1>2, <1>3, <1>4, <1>5 DEF Ready, Whole
<1>7. QED
  BY <1>1, <1>6, SameReady

LEMMA GiveUpText ==
  ASSUME SlotInv, TextInv, Orderly, GiveUp
  PROVE  TextInv' /\ (AllPresent => AllPresent')
<1>1. /\ pc = "prepare" /\ pc' = "receive" /\ depth > MaxRetries /\ batch' = NoBatch
      /\ UNCHANGED <<input, inbox, params, emitted, pending, running>>
  BY DEF GiveUp, history, queues
<1>2. ToSet(batch.reqs) = running
  BY <1>1 DEF Orderly, SlotInv, BatchOK
<1>3. batch'.reqs = <<>> /\ DOMAIN <<>> = {}
  BY <1>1 DEF NoBatch
<1>4. ToSet(batch'.reqs) = {}
  BY <1>3 DEF ToSet
<1>5. Awaiting = {} /\ Awaiting' = {}
  BY <1>1 DEF Awaiting
<1>6. Ready' = Ready
  BY <1>1, <1>2, <1>4, <1>5 DEF Ready, Whole
<1>7. QED
  BY <1>1, <1>6, SameReady

-----------------------------------------------------------------------------
(***************************************************************************)
(* Work that is put back into the queue                                    *)
(***************************************************************************)
\* A request that is put back goes on with the same work.
LEMMA ToPendingWork ==
  ASSUME NEW q, NEW r \in Request, Len(r.ids) = r.device, NEW e, e = ToPending(r)
  PROVE  e \in Entry /\ EntryWork(q, e) = ReadyWork(r) /\ e.uid = r.uid
<1>1. PICK dev \in Nat : dev = r.device
  BY RequestIs
<1>2. r.ids \in Seq(Nat) /\ Len(r.ids) = dev
  BY <1>1, RequestIs
<1>3. SubSeq(r.ids, 1, dev) = r.ids
  BY <1>2, AllOf
<1>4. r.device <= Len(r.ids)
  BY <1>1, <1>2
<1>5. e \in Entry
  BY <1>4, ToPendingIs
<1>6. e.uid = r.uid /\ e.ids = r.ids /\ e.limit = RemainLen(r) /\ e.fresh = FALSE
  BY <1>1, <1>3 DEF ToPending
<1>7. QED
  BY <1>5, <1>6 DEF EntryWork, ReadyWork, MaxOutputLen

\* The first k requests of reqs as entries.
BackUpTo(b, reqs, k) ==
  b \in Seq(Entry) /\ Len(b) = k /\ \A i \in 1..k : b[i] = ToPending(reqs[i])

LEMMA BackOne ==
  ASSUME NEW reqs \in Seq(Request), NEW k \in Nat, k + 1 <= Len(reqs),
         \A r \in ToSet(reqs) : ~ r.chunked /\ Len(r.ids) = r.device,
         NEW s, BackUpTo(s.back, reqs, k), DOMAIN s = {"pool", "slots", "back"}, NEW x, x = AbortPrefill(s, reqs[k + 1])
  PROVE  BackUpTo(x.back, reqs, k + 1) /\ DOMAIN x = {"pool", "slots", "back"}
<1>1. PICK r : r = reqs[k + 1]
  OBVIOUS
<1>2. r \in Request /\ r \in ToSet(reqs)
  BY <1>1 DEF ToSet
<1>3. PICK e : e = ToPending(r)
  OBVIOUS
<1>4. e \in Entry
  BY <1>2, <1>3, ToPendingWork
<1>5. PICK b : b = s.back
  OBVIOUS
<1>6. x = [s EXCEPT !.back = Append(@, e), !.slots = FreeSlot(@, r), !.pool = UnlockPrefix(@, r.handle)]
  BY <1>1, <1>2, <1>3 DEF AbortPrefill
<1>7. x.back = Append(b, e) /\ DOMAIN x = {"pool", "slots", "back"}
  BY <1>5, <1>6
<1>8. b \in Seq(Entry) /\ Len(b) = k /\ \A i \in 1..k : b[i] = ToPending(reqs[i])
  BY <1>5 DEF BackUpTo
<1>9. /\ x.back \in Seq(Entry) /\ Len(x.back) = k + 1 /\ x.back[k + 1] = e
      /\ \A i \in 1..k : x.back[i] = b[i]
  BY <1>4, <1>7, <1>8
<1>10. \A i \in 1..k + 1 : i = k + 1 \/ i \in 1..k
  OBVIOUS
<1>11. \A i \in 1..k + 1 : x.back[i] = ToPending(reqs[i])
  BY <1>1, <1>3, <1>8, <1>9, <1>10
<1>12. QED
  BY <1>7, <1>9, <1>11 DEF BackUpTo

LEMMA BackIs ==
  ASSUME SlotInv, Orderly, NoRoom
  PROVE  IF batch.phase = "prefill" THEN BackUpTo(Aborted.back, batch.reqs, Len(batch.reqs))
         ELSE Aborted.back = <<>> /\ ToSet(batch.reqs) = running
<1>a. PICK reqs : reqs = batch.reqs
  OBVIOUS
<1>b. PICK n : n = Len(reqs)
  OBVIOUS
<1> DEFINE room == [pool |-> MakeRoom(pool, PagesNeeded(reqs)), slots |-> slots, back |-> <<>>]
           f == CHOOSE f : AbortedUpTo(f, room, reqs, n)
<1>1. pc = "prepare" /\ \A i \in DOMAIN reqs : ~ reqs[i].chunked
  BY <1>a DEF Orderly, NoRoom
<1>2. reqs \in Seq(Request) /\ n \in Nat /\ DOMAIN reqs = 1..n
  <2>1. reqs \in Seq(Request)
    BY <1>a DEF SlotInv, RequestsOK
  <2>2. QED
    BY <1>b, <2>1
<1>3. \A r \in ToSet(reqs) : ~ r.chunked /\ Len(r.ids) = r.device
  <2>1. \A r \in ToSet(reqs) : ~ r.chunked
    BY <1>1 DEF ToSet
  <2>2. \A r \in ToSet(reqs) : Len(r.ids) = r.device
    BY <1>1, <1>a DEF SlotInv, RequestsOK
  <2>3. QED
    BY <2>1, <2>2
<1>4. room.back = <<>> /\ DOMAIN room = {"pool", "slots", "back"}
  OBVIOUS
<1>5. Aborted = IF batch.phase = "prefill" THEN f[n] ELSE room
  BY <1>a, <1>b DEF Aborted, AbortedUpTo
<1> HIDE DEF room, f
<1>6. CASE batch.phase = "prefill"
  <2>1. AbortedUpTo(f, room, reqs, n)
    BY <1>2, AbortedExists DEF f
  <2>2. BackUpTo(room.back, reqs, 0)
    BY <1>4 DEF BackUpTo
  <2> DEFINE S == {k \in Nat : k <= n => BackUpTo(f[k].back, reqs, k) /\ DOMAIN f[k] = {"pool", "slots", "back"}}
  <2>3. 0 \in S
    BY <1>2, <1>4, <2>1, <2>2 DEF AbortedUpTo
  <2>4. ASSUME NEW k \in Nat, k \in S
        PROVE  k + 1 \in S
    <3>1. SUFFICES ASSUME k + 1 <= n
                   PROVE  BackUpTo(f[k + 1].back, reqs, k + 1) /\ DOMAIN f[k + 1] = {"pool", "slots", "back"}
      OBVIOUS
    <3>2. /\ BackUpTo(f[k].back, reqs, k) /\ DOMAIN f[k] = {"pool", "slots", "back"}
          /\ k + 1 \in 1..n /\ k + 1 \in 0..n /\ (k + 1) - 1 = k /\ k + 1 # 0
      BY <1>2, <2>4, <3>1
    <3>3. f[k + 1] = AbortPrefill(f[k], reqs[k + 1])
      BY <2>1, <3>2 DEF AbortedUpTo
    <3>4. k + 1 <= Len(reqs)
      BY <1>b, <3>1
    <3>5. QED
      BY <1>2, <1>3, <3>2, <3>3, <3>4, BackOne
  <2> HIDE DEF S
  <2>5. n \in S
    BY <1>2, <2>3, <2>4, SetInduction
  <2>6. BackUpTo(f[n].back, reqs, n)
    BY <1>2, <2>5 DEF S
  <2>7. QED
    BY <1>5, <1>6, <1>a, <1>b, <2>6
<1>7. CASE batch.phase # "prefill"
  <2>1. ToSet(reqs) = running
    BY <1>1, <1>7, <1>a DEF SlotInv, BatchOK
  <2>2. QED
    BY <1>4, <1>5, <1>7, <1>a, <2>1
<1>8. QED
  BY <1>6, <1>7

\* b are the entries of the requests D that are not in R.
PutBack(q, b, D, R) ==
  /\ b \in Seq(Entry) /\ UidsOnce(b)
  /\ \A e \in ToSet(b) : \E r \in D \ R : EntryWork(q, e) = ReadyWork(r) /\ e.uid = r.uid
  /\ \A r \in D \ R : \E e \in ToSet(b) : EntryWork(q, e) = ReadyWork(r)

LEMMA BackText ==
  ASSUME SlotInv, TextInv, Orderly, NoRoom, NEW b, b = Aborted.back
  PROVE  PutBack(params, b, ToSet(batch.reqs), running) /\ Whole(ToSet(batch.reqs)) = ToSet(batch.reqs)
<1>a. PICK D : D = ToSet(batch.reqs)
  OBVIOUS
<1>b. PICK A : A = running
  OBVIOUS
<1>c. PICK q : q = params
  OBVIOUS
<1>1. pc = "prepare" /\ \A i \in DOMAIN batch.reqs : ~ batch.reqs[i].chunked
  BY DEF Orderly, NoRoom
<1>2. Whole(D) = D
  BY <1>1, <1>a DEF ToSet, Whole
<1>3. CASE batch.phase = "prefill"
  <2>1. PICK reqs : reqs = batch.reqs
    OBVIOUS
  <2>2. PICK n : n = Len(reqs)
    OBVIOUS
  <2>3. BackUpTo(b, reqs, n)
    BY <1>3, <2>1, <2>2, BackIs
  <2>4. reqs \in Seq(Request) /\ n \in Nat /\ DOMAIN reqs = 1..n
    <3>1. reqs \in Seq(Request)
      BY <2>1 DEF SlotInv, RequestsOK
    <3>2. QED
      BY <2>2, <3>1
  <2>5. \A i \in 1..n : reqs[i] \in D /\ reqs[i] \in Request /\ Len(reqs[i].ids) = reqs[i].device
    <3>1. \A i \in 1..n : reqs[i] \in D /\ reqs[i] \in Request
      BY <1>a, <2>1, <2>4 DEF ToSet
    <3>2. \A r \in D : Len(r.ids) = r.device
      BY <1>1, <1>a DEF SlotInv, RequestsOK
    <3>3. QED
      BY <3>1, <3>2
  <2>6. D \cap A = {}
    BY <1>1, <1>3, <1>a, <1>b DEF SlotInv, BatchOK
  <2>7. b \in Seq(Entry) /\ DOMAIN b = 1..n /\ \A i \in 1..n : b[i] = ToPending(reqs[i])
    <3>1. b \in Seq(Entry) /\ Len(b) = n /\ \A i \in 1..n : b[i] = ToPending(reqs[i])
      BY <2>3 DEF BackUpTo
    <3>2. QED
      BY <3>1
  <2>8. \A i \in 1..n : EntryWork(q, b[i]) = ReadyWork(reqs[i]) /\ b[i].uid = reqs[i].uid
    BY <2>5, <2>7, ToPendingWork
  <2>9. UidsOnce(b)
    <3>1. SUFFICES ASSUME NEW i \in 1..n, NEW j \in 1..n, b[i].uid = b[j].uid PROVE i = j
      BY <2>7 DEF UidsOnce
    <3>2. reqs[i].uid = reqs[j].uid
      BY <2>8, <3>1
    <3>3. pc # "process"
      BY <1>1
    <3>4. OnePerUid(Ready) /\ Ready = A \cup D
      BY <1>2, <1>a, <1>b, <3>3, TextIs
    <3>5. reqs[i] = reqs[j]
      BY <2>5, <3>2, <3>4 DEF OnePerUid
    <3>6. reqs[i].slot = reqs[j].slot => i = j
      BY <2>1, <2>4 DEF SlotInv, BatchOK
    <3>7. QED
      BY <3>5, <3>6
  <2>10. \A e \in ToSet(b) : \E r \in D \ A : EntryWork(q, e) = ReadyWork(r) /\ e.uid = r.uid
    BY <2>5, <2>6, <2>7, <2>8 DEF ToSet
  <2>11. \A r \in D \ A : \E e \in ToSet(b) : EntryWork(q, e) = ReadyWork(r)
    <3>1. SUFFICES ASSUME NEW r \in D PROVE \E e \in ToSet(b) : EntryWork(q, e) = ReadyWork(r)
      OBVIOUS
    <3>2. PICK i \in 1..n : r = reqs[i]
      BY <1>a, <2>1, <2>4 DEF ToSet
    <3>3. b[i] \in ToSet(b) /\ EntryWork(q, b[i]) = ReadyWork(r)
      BY <2>7, <2>8, <3>2 DEF ToSet
    <3>4. QED
      BY <3>3
  <2>12. QED
    BY <1>2, <1>a, <1>b, <1>c, <2>7, <2>9, <2>10, <2>11 DEF PutBack
<1>4. CASE batch.phase # "prefill"
  <2>1. b = <<>> /\ D = A
    BY <1>4, <1>a, <1>b, BackIs
  <2>2. b \in Seq(Entry) /\ DOMAIN b = {}
    BY <2>1
  <2>3. ToSet(b) = {} /\ UidsOnce(b) /\ D \ A = {}
    BY <2>1, <2>2 DEF ToSet, UidsOnce
  <2>4. QED
    BY <1>2, <1>a, <1>b, <1>c, <2>2, <2>3 DEF PutBack
<1>5. QED
  BY <1>3, <1>4

LEMMA RequeuedText ==
  ASSUME SlotInv, NEW p, p = pending, UidsOnce(p), NEW b, NEW D, NEW A, PutBack(params, b, D, A),
         ApartFrom(ToSet(p), A \cup D), OnePerUid(A \cup D), NEW s, s = Requeued(b),
         NEW E, E = ToSet(p) \cup ToSet(b)
  PROVE  s \in Seq(Entry) /\ UidsOnce(s) /\ ToSet(s) = E /\ ApartFrom(E, A)
<1>a. PICK q : q = params
  OBVIOUS
<1>1. p \in Seq(Entry) /\ q \in Params
  BY <1>a DEF SlotInv, RequestsOK
<1>2. /\ b \in Seq(Entry) /\ UidsOnce(b)
      /\ \A e \in ToSet(b) : \E r \in D \ A : EntryWork(q, e) = ReadyWork(r) /\ e.uid = r.uid
  BY <1>a DEF PutBack
<1>3. ApartFrom(ToSet(b), A) /\ ApartFrom(ToSet(b), ToSet(p))
  <2>1. ASSUME NEW e \in ToSet(b), NEW a \in A
        PROVE  e.uid # a.uid
    <3>1. PICK r \in D \ A : e.uid = r.uid
      BY <1>2
    <3>2. r \in A \cup D /\ a \in A \cup D /\ r # a
      BY <3>1
    <3>3. QED
      BY <3>1, <3>2 DEF OnePerUid
  <2>2. ASSUME NEW e \in ToSet(b), NEW x \in ToSet(p)
        PROVE  e.uid # x.uid
    <3>1. PICK r \in D : e.uid = r.uid
      BY <1>2
    <3>2. QED
      BY <3>1 DEF ApartFrom
  <2>3. QED
    BY <2>1, <2>2 DEF ApartFrom
<1>4. ApartFrom(E, A)
  <2>1. ApartFrom(ToSet(p), A)
    BY DEF ApartFrom
  <2>2. QED
    BY <1>3, <2>1 DEF ApartFrom
<1>5. CASE b = <<>>
  <2>1. s = p
    BY <1>5 DEF Requeued
  <2>2. ToSet(b) = {}
    BY <1>5 DEF ToSet
  <2>3. ToSet(s) = E
    BY <2>1, <2>2
  <2>4. QED
    BY <1>1, <1>4, <2>1, <2>3
<1>6. CASE b # <<>>
  <2>1. PICK all : all = b \o p
    OBVIOUS
  <2>2. /\ all \in Seq(Entry) /\ ToSet(all) = ToSet(b) \cup ToSet(p)
        /\ UidsOnce(b) /\ UidsOnce(p) /\ ApartFrom(ToSet(b), ToSet(p)) => UidsOnce(all)
    BY <1>1, <1>2, <2>1, JoinedEntries
  <2>3. s = SortPending(q, all)
    BY <1>6, <1>a, <2>1 DEF Requeued
  <2>4. s \in Seq(Entry) /\ ToSet(s) = ToSet(all) /\ UidsOnce(s)
    BY <1>1, <1>2, <1>3, <2>2, <2>3, SortedEntries
  <2>5. ToSet(s) = E
    BY <2>2, <2>4
  <2>6. QED
    BY <1>4, <2>4, <2>5
<1>7. QED
  BY <1>5, <1>6

LEMMA RequeuedWork ==
  ASSUME NEW q, NEW b, NEW D, NEW A, PutBack(q, b, D, A), NEW P,
         NEW V, V = Works(q, P, A \cup D, {}), NEW W, W = Works(q, P \cup ToSet(b), A, {})
  PROVE  W = V
<1>1. /\ \A e \in ToSet(b) : \E r \in D \ A : EntryWork(q, e) = ReadyWork(r)
      /\ \A r \in D \ A : \E e \in ToSet(b) : EntryWork(q, e) = ReadyWork(r)
  BY DEF PutBack
<1>2. \A w \in W : w \in V
  BY <1>1 DEF Works
<1>3. \A v \in V : v \in W
  <2>1. SUFFICES ASSUME NEW r \in A \cup D PROVE ReadyWork(r) \in W
    BY DEF Works
  <2>2. CASE r \in A
    BY <2>2 DEF Works
  <2>3. CASE r \in D \ A
    <3>1. PICK e \in ToSet(b) : EntryWork(q, e) = ReadyWork(r)
      BY <1>1, <2>3
    <3>2. EntryWork(q, e) \in W
      BY DEF Works
    <3>3. QED
      BY <3>1, <3>2
  <2>4. QED
    BY <2>2, <2>3
<1>4. QED
  BY <1>2, <1>3

LEMMA CannotPreemptText ==
  ASSUME SlotInv, TextInv, Orderly, CannotPreempt
  PROVE  TextInv' /\ (AllPresent => AllPresent')
<1>a. PICK D : D = ToSet(batch.reqs)
  OBVIOUS
<1>b. PICK p : p = pending
  OBVIOUS
<1>c. PICK q : q = params
  OBVIOUS
<1>d. PICK b : b = Aborted.back
  OBVIOUS
<1>e. PICK s : s = Requeued(b)
  OBVIOUS
<1>1. /\ NoRoom /\ running = {} /\ pending' = s /\ batch' = NoBatch /\ pc' = "receive" /\ pc = "prepare"
      /\ UNCHANGED <<input, inbox, params, running, emitted>>
  BY <1>d, <1>e DEF CannotPreempt, NoRoom, history
<1>2. PutBack(q, b, D, {}) /\ Whole(D) = D
  BY <1>1, <1>a, <1>c, <1>d, BackText
<1>3. Ready = D /\ UidsOnce(p) /\ OnePerUid(D) /\ ApartFrom(ToSet(p), D) /\ Awaiting = {}
  <2>1. pc # "process"
    BY <1>1
  <2>2. Ready = D
    BY <1>1, <1>2, <1>a, <2>1, TextIs
  <2>3. QED
    BY <1>b, <2>1, <2>2, TextIs
<1>4. PICK E : E = ToSet(p) \cup ToSet(b)
  OBVIOUS
<1>5. s \in Seq(Entry) /\ UidsOnce(s) /\ ToSet(s) = E
  <2>1. {} \cup D = D
    OBVIOUS
  <2>2. QED
    BY <1>2, <1>3, <1>4, <1>b, <1>c, <1>e, <2>1, RequeuedText
<1>6. Ready' = {} /\ Awaiting' = {}
  <2>1. batch'.reqs = <<>> /\ DOMAIN <<>> = {} /\ running' = {}
    BY <1>1 DEF NoBatch
  <2>2. ToSet(batch'.reqs) = {}
    BY <2>1 DEF ToSet
  <2>3. Awaiting' = {}
    BY <1>1 DEF Awaiting
  <2>4. QED
    BY <2>1, <2>2, <2>3 DEF Ready, Whole
<1>7. PICK V : V = Works(q, ToSet(p), D, {})
  OBVIOUS
<1>8. PICK W : W = Works(q, ToSet(s), {}, {})
  OBVIOUS
<1>9. W = V
  <2>1. {} \cup D = D
    OBVIOUS
  <2>2. V = Works(q, ToSet(p), {} \cup D, {}) /\ W = Works(q, ToSet(p) \cup ToSet(b), {}, {})
    BY <1>4, <1>5, <1>7, <1>8, <2>1
  <2>3. QED
    BY <1>2, <2>2, RequeuedWork
<1>10. OnePerUid({}) /\ ApartFrom(ToSet(s), {})
  BY DEF OnePerUid, ApartFrom
<1>11. /\ TextInv'
       /\ AllPresent /\ (\A v \in V : v[1] \in Abortable \/ \E w \in W : w[1] = v[1]) => AllPresent'
  <2>1. V = Works(params, ToSet(pending), Ready, {}) /\ W = Works(params, ToSet(s), {}, {})
    BY <1>3, <1>7, <1>8, <1>b, <1>c
  <2>2. W \subseteq V
    BY <1>9
  <2>3. QED
    BY <1>1, <1>3, <1>5, <1>6, <1>10, <2>1, <2>2, Moves
<1>12. QED
  BY <1>9, <1>11

LEMMA PreemptText ==
  ASSUME SlotInv, TextInv, Orderly, Preempt
  PROVE  TextInv' /\ (AllPresent => AllPresent')
<1>a. PICK D : D = ToSet(batch.reqs)
  OBVIOUS
<1>b. PICK p : p = pending
  OBVIOUS
<1>c. PICK q : q = params
  OBVIOUS
<1>d. PICK b : b = Aborted.back
  OBVIOUS
<1>e. PICK s : s = Requeued(b)
  OBVIOUS
<1>f. PICK A : A = running
  OBVIOUS
<1>1. PICK victim \in A :
        running' = A \ {victim} /\ pending' = SortPending(q, Append(s, ToPending(victim)))
  BY <1>c, <1>d, <1>e, <1>f DEF Preempt
<1>2. /\ NoRoom /\ batch' = NoBatch /\ pc' = "schedule" /\ pc = "prepare"
      /\ UNCHANGED <<input, inbox, params, emitted>>
  BY DEF Preempt, NoRoom
<1>3. PutBack(q, b, D, A) /\ Whole(D) = D
  BY <1>2, <1>a, <1>c, <1>d, <1>f, BackText
<1>4. Ready = A \cup D /\ UidsOnce(p) /\ OnePerUid(A \cup D) /\ ApartFrom(ToSet(p), A \cup D) /\ Awaiting = {}
  <2>1. pc # "process"
    BY <1>2
  <2>2. Ready = A \cup D
    BY <1>3, <1>a, <1>f, <2>1, TextIs
  <2>3. QED
    BY <1>b, <2>1, <2>2, TextIs
<1>5. PICK E : E = ToSet(p) \cup ToSet(b)
  OBVIOUS
<1>6. s \in Seq(Entry) /\ UidsOnce(s) /\ ToSet(s) = E /\ ApartFrom(E, A)
  BY <1>3, <1>4, <1>5, <1>b, <1>c, <1>e, RequeuedText
<1>7. A \in SUBSET Request /\ q \in Params /\ \A r \in A : Len(r.ids) = r.device
  BY <1>2, <1>c, <1>f DEF SlotInv, RequestsOK
<1>8. PICK e : e = ToPending(victim)
  OBVIOUS
<1>9. e \in Entry /\ EntryWork(q, e) = ReadyWork(victim) /\ e.uid = victim.uid
  BY <1>7, <1>8, ToPendingWork
<1>10. PICK longer : longer = Append(s, e)
  OBVIOUS
<1>11. longer \in Seq(Entry) /\ ToSet(longer) = E \cup {e} /\ UidsOnce(longer)
  <2>1. \A x \in ToSet(s) : x.uid # e.uid
    BY <1>6, <1>9 DEF ApartFrom
  <2>2. /\ longer \in Seq(Entry) /\ ToSet(longer) = ToSet(s) \cup {e}
        /\ UidsOnce(s) /\ (\A x \in ToSet(s) : x.uid # e.uid) => UidsOnce(longer)
    BY <1>6, <1>9, <1>10, AppendedEntries
  <2>3. QED
    BY <1>6, <2>1, <2>2
<1>12. PICK z : z = pending'
  OBVIOUS
<1>13. z \in Seq(Entry) /\ ToSet(z) = E \cup {e} /\ UidsOnce(z)
  <2>1. z = SortPending(q, longer)
    BY <1>1, <1>8, <1>10, <1>12
  <2>2. z \in Seq(Entry) /\ ToSet(z) = ToSet(longer) /\ UidsOnce(z)
    BY <1>7, <1>11, <2>1, SortedEntries
  <2>3. QED
    BY <1>11, <2>2
<1>14. PICK B : B = A \ {victim}
  OBVIOUS
<1>15. Ready' = B /\ Awaiting' = {}
  <2>1. batch'.reqs = <<>> /\ DOMAIN <<>> = {} /\ running' = B
    BY <1>1, <1>2, <1>14 DEF NoBatch
  <2>2. ToSet(batch'.reqs) = {}
    BY <2>1 DEF ToSet
  <2>3. Awaiting' = {}
    BY <1>2 DEF Awaiting
  <2>4. QED
    BY <2>1, <2>2, <2>3 DEF Ready, Whole
<1>16. OnePerUid(B) /\ ApartFrom(ToSet(z), B)
  <2>1. OnePerUid(B)
    BY <1>4, <1>14 DEF OnePerUid
  <2>2. \A x \in B : x.uid # e.uid
    BY <1>4, <1>9, <1>14 DEF OnePerUid
  <2>3. ApartFrom(E \cup {e}, B)
    BY <1>6, <1>14, <2>2 DEF ApartFrom
  <2>4. QED
    BY <1>13, <2>1, <2>3
<1>17. PICK V : V = Works(q, ToSet(p), A \cup D, {})
  OBVIOUS
<1>18. PICK U : U = Works(q, E, A, {})
  OBVIOUS
<1>19. PICK W : W = Works(q, ToSet(z), B, {})
  OBVIOUS
<1>20. U = V
  <2>1. U = Works(q, ToSet(p) \cup ToSet(b), A, {})
    BY <1>5, <1>18
  <2>2. QED
    BY <1>3, <1>17, <2>1, RequeuedWork
<1>21. W = U
  <2>1. W = Works(q, E \cup {e}, B, {})
    BY <1>13, <1>19
  <2>2. QED
    BY <1>9, <1>14, <1>18, <2>1 DEF Works
<1>22. /\ TextInv'
       /\ AllPresent /\ (\A v \in V : v[1] \in Abortable \/ \E w \in W : w[1] = v[1]) => AllPresent'
  <2>1. V = Works(params, ToSet(pending), Ready, {}) /\ W = Works(params, ToSet(z), B, {})
    BY <1>4, <1>17, <1>19, <1>b, <1>c
  <2>2. W \subseteq V
    BY <1>20, <1>21
  <2>3. UNCHANGED <<input, inbox, params, emitted>> /\ Awaiting = {} /\ Awaiting' = {}
    BY <1>2, <1>4, <1>15
  <2>4. z = pending' /\ B = Ready' /\ UidsOnce(z)
    BY <1>12, <1>13, <1>15
  <2>5. QED
    BY <1>16, <2>1, <2>2, <2>3, <2>4, Moves
<1>23. QED
  BY <1>20, <1>21, <1>22

LEMMA AbortText ==
  ASSUME SlotInv, TextInv, NEW u \in Abortable, Abort(u)
  PROVE  TextInv' /\ (AllPresent => AllPresent')
<1> DEFINE waiting == {i \in DOMAIN pending : pending[i].uid = u}
           active  == {r \in running : r.uid = u}
<1>a. PICK p : p = pending
  OBVIOUS
<1>b. PICK q : q = params
  OBVIOUS
<1>c. PICK A : A = running
  OBVIOUS
<1>1. /\ pc = "receive" /\ pc' = "receive" /\ UNCHANGED <<input, inbox, params, batch, emitted>>
      /\ pending' = IF waiting = {} THEN pending ELSE RemoveAt(pending, Min(waiting))
  BY DEF Abort, history, input
<1>2. running' = running \/ \E r \in active : running' = running \ {r}
  BY DEF Abort
<1>3. p \in Seq(Entry) /\ waiting = {i \in 1..Len(p) : p[i].uid = u}
  <2>1. p \in Seq(Entry)
    BY <1>a DEF SlotInv, RequestsOK
  <2>2. QED
    BY <1>a, <2>1
<1>4. waiting # {} => \E i \in 1..Len(p) : i = Min(waiting) /\ p[i].uid = u
  <2>1. waiting \subseteq Nat /\ \A i \in waiting : i \in 1..Len(p) /\ p[i].uid = u
    BY <1>3
  <2> HIDE DEF waiting
  <2>2. SUFFICES ASSUME waiting # {} PROVE Min(waiting) \in waiting
    BY <2>1
  <2>3. PICK m \in waiting : \A k \in waiting : m <= k
    BY <2>1, <2>2, LeastNumber
  <2>4. Min(waiting) = CHOOSE x \in waiting : \A y \in waiting : x <= y
    BY DEF Min
  <2>5. QED
    BY <2>3, <2>4
<1>5. Ready = A /\ UidsOnce(p) /\ OnePerUid(A) /\ ApartFrom(ToSet(p), A) /\ Awaiting = {}
  <2>1. pc # "process" /\ Whole({}) = {} /\ ToSet(batch.reqs) = {}
    BY <1>1, NoneInBatch DEF Whole
  <2>2. Ready = A
    BY <1>c, <2>1, TextIs
  <2>3. QED
    BY <1>a, <2>1, <2>2, TextIs
<1>6. PICK s : s = pending'
  OBVIOUS
<1>7. UidsOnce(s) /\ ToSet(s) \subseteq ToSet(p) /\ \A x \in ToSet(p) : x \in ToSet(s) \/ x.uid = u
  <2>1. CASE waiting = {}
    <3>1. s = p
      BY <1>1, <1>6, <1>a, <2>1
    <3>2. QED
      BY <1>5, <3>1
  <2>2. CASE waiting # {}
    <3>1. PICK i \in 1..Len(p) : i = Min(waiting) /\ p[i].uid = u
      BY <1>4, <2>2
    <3>2. s = RemoveAt(p, i)
      BY <1>1, <1>6, <1>a, <2>2, <3>1
    <3>3. UidsOnce(s) /\ ToSet(s) \subseteq ToSet(p) /\ \A x \in ToSet(p) : x \in ToSet(s) \/ x = p[i]
      BY <1>3, <1>5, <3>2, RemovedEntries
    <3>4. QED
      BY <3>1, <3>3
  <2>3. QED
    BY <2>1, <2>2
<1>8. PICK B : B = running'
  OBVIOUS
<1>9. B \subseteq A /\ \A x \in A : x \in B \/ x.uid = u
  BY <1>2, <1>8, <1>c
<1>10. Ready' = B /\ Awaiting' = {}
  <2>1. batch' = batch /\ Whole(ToSet(batch.reqs)) = {}
    BY <1>1, NoneInBatch DEF Whole
  <2>2. Awaiting' = {}
    BY <1>1 DEF Awaiting
  <2>3. QED
    BY <1>8, <2>1, <2>2 DEF Ready
<1>11. OnePerUid(B) /\ ApartFrom(ToSet(s), B)
  BY <1>5, <1>7, <1>9 DEF OnePerUid, ApartFrom
<1>12. PICK V : V = Works(q, ToSet(p), A, {})
  OBVIOUS
<1>13. PICK W : W = Works(q, ToSet(s), B, {})
  OBVIOUS
<1>14. /\ V = {EntryWork(q, x) : x \in ToSet(p)} \cup {ReadyWork(x) : x \in A}
       /\ W = {EntryWork(q, x) : x \in ToSet(s)} \cup {ReadyWork(x) : x \in B}
  BY <1>12, <1>13 DEF Works
<1>15. W \subseteq V
  BY <1>7, <1>9, <1>14
<1>16. ASSUME NEW v \in V
       PROVE  v[1] \in Abortable \/ \E w \in W : w[1] = v[1]
  <2>1. CASE \E x \in ToSet(p) : v = EntryWork(q, x)
    <3>1. PICK x \in ToSet(p) : v = EntryWork(q, x)
      BY <2>1
    <3>2. v[1] = x.uid
      BY <3>1, WorkIs
    <3>3. QED
      BY <1>7, <1>14, <3>1, <3>2
  <2>2. CASE \E x \in A : v = ReadyWork(x)
    <3>1. PICK x \in A : v = ReadyWork(x)
      BY <2>2
    <3>2. v[1] = x.uid
      BY <3>1, WorkIs
    <3>3. QED
      BY <1>9, <1>14, <3>1, <3>2
  <2>3. QED
    BY <1>14, <2>1, <2>2
<1> HIDE DEF waiting, active
<1>17. /\ TextInv'
       /\ AllPresent /\ (\A v \in V : v[1] \in Abortable \/ \E w \in W : w[1] = v[1]) => AllPresent'
  <2>1. V = Works(params, ToSet(pending), Ready, {}) /\ W = Works(params, ToSet(s), B, {})
    BY <1>5, <1>12, <1>13, <1>a, <1>b
  <2>2. UNCHANGED <<input, inbox, params, emitted>> /\ Awaiting = {} /\ Awaiting' = {}
    BY <1>1, <1>5, <1>10
  <2>3. s = pending' /\ B = Ready' /\ UidsOnce(s)
    BY <1>6, <1>7, <1>10
  <2>4. QED
    BY <1>11, <1>15, <2>1, <2>2, <2>3, Moves
<1>18. QED
  BY <1>16, <1>17

-----------------------------------------------------------------------------
(***************************************************************************)
(* A batch runs: its requests wait for their token                         *)
(***************************************************************************)
LEMMA KeptText ==
  ASSUME NEW t, NEW said, NEW q, NEW I, NEW p, NEW A, NEW D, TextOK(t, said, q, I, p, A, D),
         NEW s, NEW B, NEW E, UidsOnce(s), OnePerUid(B \cup E), B \cap E = {}, ApartFrom(ToSet(s), B \cup E),
         Works(q, ToSet(s), B, E) \subseteq Works(q, ToSet(p), A, D)
  PROVE  TextOK(t, said, q, I, s, B, E)
<1>1. \A w \in Works(q, ToSet(p), A, D) : w[1] \in Uid \ I /\ Continues(t, said, w)
  BY WorkUids DEF TextOK
<1>2. \A x \in ToSet(s) \cup B \cup E : \E w \in Works(q, ToSet(s), B, E) : w[1] = x.uid
  BY WorkOf
<1>3. \A x \in ToSet(s) \cup B \cup E : x.uid \in Uid \ I
  BY <1>1, <1>2
<1>4. WorkOnce(I, s, B, E)
  BY <1>3 DEF WorkOnce
<1>5. QED
  BY <1>1, <1>4 DEF TextOK

SameEntries(q, p, s) ==
  /\ UidsOnce(s)
  /\ \A x \in ToSet(s) : \E e \in ToSet(p) : EntryWork(q, x) = EntryWork(q, e) /\ x.uid = e.uid
  /\ \A e \in ToSet(p) : \E x \in ToSet(s) : EntryWork(q, x) = EntryWork(q, e) /\ x.uid = e.uid

LEMMA AdvancedQueueWork ==
  ASSUME NEW q, NEW p \in Seq(Entry), UidsOnce(p), NEW old, NEW s, s = AdvancedQueue(p, old)
  PROVE  SameEntries(q, p, s)
<1>1. DOMAIN s = DOMAIN p
  BY DEF AdvancedQueue
<1>2. ASSUME NEW i \in DOMAIN p
      PROVE  EntryWork(q, s[i]) = EntryWork(q, p[i]) /\ s[i].uid = p[i].uid
  <2>1. PICK e \in Entry : e = p[i]
    OBVIOUS
  <2>2. PICK x : x = s[i]
    OBVIOUS
  <2>3. x = e \/ \E c : x = [e EXCEPT !.chunk = <<c>>]
    BY <2>1, <2>2 DEF AdvancedQueue
  <2>4. x.uid = e.uid /\ x.ids = e.ids /\ x.fresh = e.fresh /\ x.limit = e.limit
    BY <2>1, <2>3 DEF Entry
  <2>5. EntryWork(q, x) = EntryWork(q, e)
    BY <2>4, SameWork
  <2>6. QED
    BY <2>1, <2>2, <2>4, <2>5
<1>3. UidsOnce(s)
  BY <1>1, <1>2 DEF UidsOnce
<1>4. QED
  BY <1>1, <1>2, <1>3 DEF ToSet, SameEntries

LEMMA CompletedWork ==
  ASSUME NEW r \in Request, NEW d, d = CompleteOne(r)
  PROVE  DueWork(d) = ReadyWork(r) /\ d.uid = r.uid /\ d.chunked = r.chunked
<1>1. /\ d \in Request /\ d.uid = r.uid /\ d.ids = r.ids /\ d.device = r.device + 1
      /\ d.maxDevice = r.maxDevice /\ d.chunked = r.chunked
  BY CompletedIs
<1>2. PICK dev \in Nat, max \in Int : dev = r.device /\ max = r.maxDevice
  BY RequestIs
<1>3. RemainLen(d) + 1 = RemainLen(r)
  <2>1. RemainLen(d) = max - (dev + 1) /\ RemainLen(r) = max - dev
    BY <1>1, <1>2 DEF RemainLen
  <2>2. QED
    BY <2>1
<1>4. QED
  BY <1>1, <1>3 DEF DueWork, ReadyWork

LEMMA ForwardText ==
  ASSUME SlotInv, TextInv, Forward
  PROVE  TextInv' /\ (AllPresent => AllPresent')
<1>a. PICK reqs : reqs = batch.reqs
  OBVIOUS
<1>b. PICK old : old = ToSet(reqs)
  OBVIOUS
<1>c. PICK after : after = [i \in DOMAIN reqs |-> CompleteOne(reqs[i])]
  OBVIOUS
<1>d. PICK A : A = running
  OBVIOUS
<1>e. PICK p : p = pending
  OBVIOUS
<1>f. PICK q : q = params
  OBVIOUS
<1>g. PICK s : s = pending'
  OBVIOUS
<1>1. /\ pc = "forward" /\ pc' = "process" /\ UNCHANGED <<input, params, inbox, emitted>>
      /\ batch' = [batch EXCEPT !.reqs = after]
      /\ running' = {r \in (A \ old) \cup ToSet(after) : CanDecode(r)}
      /\ s = AdvancedQueue(p, old)
  BY <1>a, <1>b, <1>c, <1>d, <1>e, <1>g DEF Forward, AdvancedQueue
<1>2. /\ reqs \in Seq(Request) /\ batch'.reqs = after /\ p \in Seq(Entry)
      /\ A \in SUBSET Request
      /\ \A r \in A : CanDecode(r) /\ Len(r.ids) = r.device
  <2>1. batch \in [phase : {"none", "prefill", "decode"}, reqs : Seq(Request)]
    BY DEF SlotInv, RequestsOK
  <2>2. batch'.reqs = after
    BY <1>1, <2>1
  <2>3. QED
    BY <1>1, <1>a, <1>d, <1>e, <2>1, <2>2 DEF SlotInv, RequestsOK
<1>3. PICK new : new = ToSet(after)
  OBVIOUS
<1>4. /\ \A r \in old : r \in Request /\ Len(r.ids) = r.device /\ CompleteOne(r) \in new
      /\ \A d \in new : \E r \in old : d = CompleteOne(r)
  <2>1. \A r \in old : Len(r.ids) = r.device
    BY <1>1, <1>a, <1>b DEF SlotInv, RequestsOK
  <2>2. DOMAIN after = DOMAIN reqs /\ \A i \in DOMAIN reqs : after[i] = CompleteOne(reqs[i]) /\ reqs[i] \in Request
    BY <1>2, <1>c
  <2>3. (\A r \in old : \E i \in DOMAIN reqs : r = reqs[i]) /\ (\A i \in DOMAIN reqs : reqs[i] \in old)
        /\ (\A r \in new : \E i \in DOMAIN reqs : r = after[i]) /\ (\A i \in DOMAIN reqs : after[i] \in new)
    BY <1>3, <1>b, <2>2 DEF ToSet
  <2>4. QED
    BY <2>1, <2>2, <2>3
<1>5. PICK E : E = Whole(new)
  OBVIOUS
<1>6. PICK B : B = A \ old
  OBVIOUS
<1>7. PICK R : R = Ready
  OBVIOUS
<1>8. R = B \cup Whole(old) /\ UidsOnce(p) /\ OnePerUid(R) /\ ApartFrom(ToSet(p), R) /\ Awaiting = {}
  <2>1. pc # "process"
    BY <1>1
  <2>2. R = A \cup Whole(old)
    BY <1>7, <1>a, <1>b, <1>d, <2>1, TextIs
  <2>3. \A r \in A : ~ r.chunked
    BY <1>2 DEF CanDecode
  <2>4. R = B \cup Whole(old)
    BY <1>6, <2>2, <2>3 DEF Whole
  <2>5. QED
    BY <1>7, <1>e, <2>1, <2>4, TextIs
<1>9. /\ \A r \in Whole(old) : CompleteOne(r) \in E /\ DueWork(CompleteOne(r)) = ReadyWork(r)
      /\ \A d \in E : \E r \in Whole(old) : d = CompleteOne(r) /\ DueWork(d) = ReadyWork(r) /\ d.uid = r.uid
  BY <1>4, <1>5, CompletedWork DEF Whole
<1>10. B \cap new = {}
  <2>1. SUFFICES ASSUME NEW r \in old, CompleteOne(r) \in A PROVE FALSE
    BY <1>4, <1>6
  <2>2. PICK d : d = CompleteOne(r)
    OBVIOUS
  <2>3. PICK dev \in Nat : dev = r.device
    BY <1>4, RequestIs
  <2>4. Len(d.ids) = dev /\ d.device = dev + 1
    BY <1>4, <2>2, <2>3, CompletedIs
  <2>5. Len(d.ids) = d.device
    BY <1>2, <2>1, <2>2
  <2>6. QED
    BY <2>4, <2>5
<1>11. Awaiting' = E /\ Ready' = B
  <2>1. Awaiting' = E
    BY <1>1, <1>2, <1>3, <1>5 DEF Awaiting
  <2>2. B \subseteq running' /\ running' \subseteq B \cup E
    <3>1. running' = {r \in B \cup new : CanDecode(r)}
      BY <1>1, <1>3, <1>6
    <3>2. \A r \in B : CanDecode(r)
      BY <1>2, <1>6
    <3>3. \A r \in new : CanDecode(r) => r \in E
      BY <1>5 DEF CanDecode, Whole
    <3>4. QED
      BY <3>1, <3>2, <3>3
  <2>3. B \cap E = {}
    BY <1>5, <1>10 DEF Whole
  <2>4. (running' \cup E) \ E = B
    BY <2>2, <2>3
  <2>5. Ready' = (running' \cup E) \ E
    BY <1>2, <1>3, <1>5, <2>1 DEF Ready
  <2>6. QED
    BY <2>1, <2>4, <2>5
<1>12. /\ UidsOnce(s)
       /\ \A x \in ToSet(s) : \E e \in ToSet(p) : EntryWork(q, x) = EntryWork(q, e) /\ x.uid = e.uid
       /\ \A e \in ToSet(p) : \E x \in ToSet(s) : EntryWork(q, x) = EntryWork(q, e) /\ x.uid = e.uid
  <2>1. SameEntries(q, p, s)
    BY <1>1, <1>2, <1>8, AdvancedQueueWork
  <2>2. QED
    BY <2>1 DEF SameEntries
<1>13. B \cap E = {} /\ OnePerUid(B \cup E) /\ ApartFrom(ToSet(s), B \cup E)
  <2>1. B \cap E = {}
    BY <1>5, <1>10 DEF Whole
  <2>2. \A x \in B : x \in R /\ x \notin old
    BY <1>6, <1>8
  <2>3. \A x \in E : \E r \in R : x = CompleteOne(r) /\ r \in old /\ x.uid = r.uid
    BY <1>8, <1>9 DEF Whole
  <2>4. OnePerUid(B \cup E)
    <3>1. SUFFICES ASSUME NEW x \in B \cup E, NEW y \in B \cup E, x.uid = y.uid PROVE x = y
      BY DEF OnePerUid
    <3>2. \A a, b \in R : a.uid = b.uid => a = b
      BY <1>8 DEF OnePerUid
    <3>3. CASE x \in B /\ y \in B
      BY <2>2, <3>1, <3>2, <3>3
    <3>4. CASE x \in B /\ y \in E
      BY <2>2, <2>3, <3>1, <3>2, <3>4
    <3>5. CASE x \in E /\ y \in B
      BY <2>2, <2>3, <3>1, <3>2, <3>5
    <3>6. CASE x \in E /\ y \in E
      BY <2>3, <3>1, <3>2, <3>6
    <3>7. QED
      BY <3>3, <3>4, <3>5, <3>6
  <2>5. \A x \in B \cup E : \E r \in R : x.uid = r.uid
    BY <2>2, <2>3
  <2>6. ApartFrom(ToSet(s), B \cup E)
    BY <1>8, <1>12, <2>5 DEF ApartFrom
  <2>7. QED
    BY <2>1, <2>4, <2>6
<1>14. PICK V : V = Works(q, ToSet(p), R, {})
  OBVIOUS
<1>15. PICK W : W = Works(q, ToSet(s), B, E)
  OBVIOUS
<1>16. W = V
  <2>1. /\ V = {EntryWork(q, e) : e \in ToSet(p)} \cup {ReadyWork(r) : r \in R}
        /\ W = {EntryWork(q, e) : e \in ToSet(s)} \cup {ReadyWork(r) : r \in B} \cup {DueWork(r) : r \in E}
    BY <1>14, <1>15 DEF Works
  <2>2. ASSUME NEW w \in W PROVE w \in V
    BY <1>8, <1>9, <1>12, <2>1
  <2>3. ASSUME NEW v \in V PROVE v \in W
    BY <1>8, <1>9, <1>12, <2>1
  <2>4. QED
    BY <2>2, <2>3
<1>17. PICK t : t = Task
  OBVIOUS
<1>18. PICK I : I = ToSet(inbox)
  OBVIOUS
<1>19. PICK said : said = emitted
  OBVIOUS
<1>20. /\ Task' = t /\ prompt' = prompt /\ limit' = limit /\ emitted' = said /\ inbox' = inbox
       /\ ToSet(inbox') = I /\ params' = q /\ pending' = s
  BY <1>1, <1>17, <1>18, <1>19, <1>f, <1>g, SameTask
<1>21. TextOK(t, said, q, I, p, R, {})
  BY <1>7, <1>8, <1>17, <1>18, <1>19, <1>e, <1>f DEF TextInv
<1>22. TextOK(t, said, q, I, s, B, E)
  <2>1. Works(q, ToSet(s), B, E) \subseteq Works(q, ToSet(p), R, {})
    BY <1>14, <1>15, <1>16
  <2>2. QED
    BY <1>12, <1>13, <1>21, <2>1, KeptText
<1>23. TextInv'
  BY <1>11, <1>19, <1>20, <1>22 DEF TextInv
<1>24. AllPresent => AllPresent'
  <2>1. AllPresent => Present(t, said, I, W)
    BY <1>7, <1>8, <1>14, <1>16, <1>17, <1>18, <1>19, <1>e, <1>f DEF AllPresent
  <2>2. Works(params', ToSet(pending'), Ready', Awaiting') = W
    BY <1>11, <1>15, <1>20
  <2>3. QED
    BY <1>20, <2>1, <2>2 DEF AllPresent
<1>25. QED
  BY <1>23, <1>24

-----------------------------------------------------------------------------
(***************************************************************************)
(* Messages become entries                                                 *)
(***************************************************************************)
LEMMA FewerToCome ==
  ASSUME NEW t, NEW said, NEW q, NEW I, NEW J, J \subseteq I, NEW p, NEW R, TextOK(t, said, q, I, p, R, {})
  PROVE  TextOK(t, said, q, J, p, R, {})
<1>1. WorkOnce(J, p, R, {})
  BY DEF TextOK, WorkOnce
<1>2. QED
  BY <1>1 DEF TextOK

LEMMA BoundIs ==
  ASSUME OwnLimits, prompt \in [Uid -> Seq(Nat)], limit \in [{ParamsOf[u] : u \in Uid} -> Limits],
         NEW u \in Uid
  PROVE  /\ limit[ParamsOf[u]] \in Nat \ {0} /\ MaxSeqLen - Len(prompt[u]) \in Int
         /\ Task.bound[u] = Min2(limit[ParamsOf[u]], MaxSeqLen - Len(prompt[u]))
<1>1. limit[ParamsOf[u]] \in Limits /\ Limits \subseteq Nat /\ 0 \notin Limits
  BY SequenceAssumption DEF OwnLimits
<1>2. Len(prompt[u]) \in Nat
  OBVIOUS
<1>3. MaxSeqLen \in Int
  BY SequenceAssumption, PoolAssumption DEF TotalCapacity
<1>4. limit[ParamsOf[u]] \in Nat \ {0} /\ MaxSeqLen - Len(prompt[u]) \in Int
  <2>1. PICK n \in Nat : n = Len(prompt[u])
    BY <1>2
  <2>2. MaxSeqLen - n \in Int
    BY <1>3
  <2>3. PICK k : k = limit[ParamsOf[u]]
    OBVIOUS
  <2>4. k \in Limits
    BY <1>1, <2>3
  <2>5. k \in Nat \ {0}
    BY <1>1, <2>4
  <2>6. QED
    BY <2>1, <2>2, <2>3, <2>5
<1>5. Task.bound[u] = TokenLimit(u)
  BY DEF Task
<1>6. QED
  BY <1>4, <1>5 DEF TokenLimit

LEMMA AcceptText ==
  ASSUME OwnLimits, prompt \in [Uid -> Seq(Nat)], limit \in [{ParamsOf[u] : u \in Uid} -> Limits],
         NEW t, t = Task, NEW said, NEW old, NEW c, QueueIs(c, old),
         NEW u \in Uid, NEW J \in SUBSET Uid, u \notin J, NEW R,
         TextOK(t, said, c.params, J \cup {u}, c.pending, R, {}), NEW d, d = Accept(c, u)
  PROVE  /\ TextOK(t, said, d.params, J, d.pending, R, {})
         /\ Present(t, said, J \cup {u}, Works(c.params, ToSet(c.pending), R, {}))
              => Present(t, said, J, Works(d.params, ToSet(d.pending), R, {}))
<1>a. PICK room \in Int : room = MaxSeqLen - Len(prompt[u])
  BY BoundIs
<1>b. PICK lim \in Nat \ {0} : lim = limit[ParamsOf[u]]
  BY BoundIs
<1>c. PICK q \in Params : q = c.params
  BY DEF QueueIs
<1>d. PICK p \in Seq(Entry) : p = c.pending
  BY DEF QueueIs
<1>e. PICK max : max = Min2(lim, room)
  OBVIOUS
<1>1. /\ t.bound[u] = max /\ said[u] = <<>> /\ Len(said[u]) = 0 /\ q[ParamsOf[u]] = lim
      /\ t.prompt = prompt
  <2>1. t.bound[u] = max
    BY <1>a, <1>b, <1>e, BoundIs
  <2>2. said[u] = <<>> /\ q[ParamsOf[u]] = t.limit[ParamsOf[u]]
    BY <1>c DEF TextOK
  <2>3. t.limit = limit /\ t.prompt = prompt
    BY DEF Task
  <2>4. QED
    BY <1>b, <2>1, <2>2, <2>3
<1>f. PICK V : V = Works(q, ToSet(p), R, {})
  OBVIOUS
<1>2. TextOK(t, said, q, J \cup {u}, p, R, {})
  BY <1>c, <1>d
<1>3. CASE room <= 0
  <2>1. d = c
    BY <1>3, <1>a DEF Accept
  <2>2. TextOK(t, said, q, J, p, R, {})
    BY <1>2, FewerToCome
  <2>3. max <= 0
    BY <1>3, <1>e DEF Min2
  <2>4. Said(t, said, u)
    BY <1>1, <2>3, <1>e DEF Said, Min2
  <2>5. Present(t, said, J \cup {u}, V) => Present(t, said, J, V)
    BY <2>4 DEF Present
  <2>6. QED
    BY <1>c, <1>d, <1>f, <2>1, <2>2, <2>5
<1>4. CASE room > 0
  <2>1. max \in Nat \ {0}
    BY <1>4, <1>e DEF Min2
  <2>2. PICK prm : prm = [q EXCEPT ![ParamsOf[u]] = Min2(@, room)]
    OBVIOUS
  <2>3. prm \in Params /\ prm[ParamsOf[u]] = max
        /\ \A v \in Uid : v # u => prm[ParamsOf[v]] = q[ParamsOf[v]]
    <3>1. q \in [{ParamsOf[v] : v \in Uid} -> Int]
      BY DEF Params
    <3>2. prm = [q EXCEPT ![ParamsOf[u]] = max]
      BY <1>1, <1>e, <2>2
    <3>3. \A v \in Uid : v # u => ParamsOf[v] # ParamsOf[u]
      BY DEF OwnLimits
    <3>4. prm \in [{ParamsOf[v] : v \in Uid} -> Int]
      BY <2>1, <3>1, <3>2
    <3>5. QED
      BY <3>1, <3>2, <3>3, <3>4 DEF Params
  <2>4. PICK e \in Entry : e = FreshPending(u)
    BY FreshIs
  <2>5. PICK longer : longer = Append(p, e)
    OBVIOUS
  <2>6. PICK s : s = SortPending(prm, longer)
    OBVIOUS
  <2>7. d = [params |-> prm, pending |-> s]
    <3>1. ~ room <= 0
      BY <1>4
    <3>2. QED
      BY <1>a, <1>c, <1>d, <2>2, <2>4, <2>5, <2>6, <3>1 DEF Accept
  <2>8. /\ UidsOnce(p) /\ OnePerUid(R) /\ ApartFrom(ToSet(p), R)
        /\ \A x \in ToSet(p) \cup R : x.uid \in Uid \ (J \cup {u})
    <3>1. R \cup {} = R /\ ToSet(p) \cup R \cup {} = ToSet(p) \cup R
      OBVIOUS
    <3>2. WorkOnce(J \cup {u}, p, R, {})
      BY <1>2 DEF TextOK
    <3>3. QED
      BY <3>1, <3>2 DEF WorkOnce
  <2>9. e.uid = u /\ EntryWork(prm, e) = <<u, prompt[u], max>>
    BY <2>3, <2>4 DEF FreshPending, EntryWork, MaxOutputLen
  <2>10. s \in Seq(Entry) /\ ToSet(s) = ToSet(p) \cup {e} /\ UidsOnce(s)
    <3>1. \A x \in ToSet(p) : x.uid # e.uid
      BY <2>8, <2>9
    <3>2. longer \in Seq(Entry) /\ ToSet(longer) = ToSet(p) \cup {e} /\ UidsOnce(longer)
      BY <2>5, <2>8, <3>1, AppendedEntries
    <3>3. QED
      BY <2>3, <2>6, <3>2, SortedEntries
  <2>11. \A x \in ToSet(p) : EntryWork(prm, x) = EntryWork(q, x)
    BY <2>3, <2>8 DEF EntryWork, MaxOutputLen
  <2>12. PICK W : W = Works(prm, ToSet(s), R, {})
    OBVIOUS
  <2>13. W = V \cup {EntryWork(prm, e)}
    <3>1. V = {EntryWork(q, x) : x \in ToSet(p)} \cup {ReadyWork(r) : r \in R}
      BY <1>f DEF Works
    <3>2. W = {EntryWork(prm, x) : x \in ToSet(p) \cup {e}} \cup {ReadyWork(r) : r \in R}
      BY <2>10, <2>12 DEF Works
    <3>3. QED
      BY <2>11, <3>1, <3>2
  <2>14. Continues(t, said, EntryWork(prm, e))
    <3>1. prompt[u] \o <<>> = prompt[u]
      <4>1. prompt[u] \in Seq(Nat)
        OBVIOUS
      <4>2. QED
        BY <4>1
    <3>2. PICK w : w = <<u, prompt[u], max>>
      OBVIOUS
    <3>3. w[1] = u /\ w[2] = prompt[u] /\ w[3] = max
      BY <3>2
    <3>4. w[2] = t.prompt[w[1]] \o said[w[1]]
      BY <1>1, <3>1, <3>3
    <3>5. w[3] = t.bound[w[1]] - Len(said[w[1]]) /\ w[3] > 0
      BY <1>1, <2>1, <3>3
    <3>6. Continues(t, said, w)
      BY <1>1, <3>3, <3>4, <3>5 DEF Continues
    <3>7. QED
      BY <2>9, <3>2, <3>6
  <2>15. \A v \in V : Continues(t, said, v)
    BY <1>2, <1>f DEF TextOK
  <2>16. \A v \in J : said[v] = <<>> /\ prm[ParamsOf[v]] = t.limit[ParamsOf[v]]
    BY <1>2, <2>3 DEF TextOK
  <2>17. WorkOnce(J, s, R, {})
    <3>1. R \cup {} = R /\ R \cap {} = {} /\ ToSet(s) \cup R \cup {} = ToSet(s) \cup R
      OBVIOUS
    <3>2. ApartFrom(ToSet(s), R) /\ \A x \in ToSet(s) \cup R : x.uid \in Uid \ J
      BY <2>8, <2>9, <2>10 DEF ApartFrom
    <3>3. QED
      BY <2>8, <2>10, <3>1, <3>2 DEF WorkOnce
  <2>18. TextOK(t, said, prm, J, s, R, {})
    <3>1. \A w \in W : Continues(t, said, w)
      BY <2>13, <2>14, <2>15
    <3>2. QED
      BY <2>12, <2>16, <2>17, <3>1 DEF TextOK
  <2>19. Present(t, said, J \cup {u}, V) => Present(t, said, J, W)
    <3>1. EntryWork(prm, e)[1] = u
      BY <2>9
    <3>2. QED
      BY <2>13, <3>1 DEF Present
  <2>20. d.params = prm /\ d.pending = s
    BY <2>7
  <2>21. QED
    BY <1>c, <1>d, <1>f, <2>12, <2>18, <2>19, <2>20
<1>5. QED
  BY <1>3, <1>4

\* The uids of inbox from the one after k.
ToCome(s, k) == {s[i] : i \in k + 1..Len(s)}

LEMMA ToComeIs ==
  ASSUME NEW s \in Seq(Uid), Injective(s), NEW k \in 0..Len(s)
  PROVE  /\ ToCome(s, 0) = ToSet(s) /\ ToCome(s, k) \in SUBSET Uid
         /\ k + 1 <= Len(s) => /\ ToCome(s, k) = ToCome(s, k + 1) \cup {s[k + 1]}
                               /\ s[k + 1] \notin ToCome(s, k + 1) /\ s[k + 1] \in Uid
<1>1. PICK n \in Nat : n = Len(s)
  OBVIOUS
<1>2. DOMAIN s = 1..n /\ (\A i \in 1..n : s[i] \in Uid) /\ 0 + 1 = 1 /\ (k + 1) + 1 = k + 2 /\ k \in 0..n
  BY <1>1
<1>3. \A i \in k + 1..n : i \in 1..n
  BY <1>2
<1>4. ToCome(s, 0) = ToSet(s) /\ ToCome(s, k) \in SUBSET Uid
  BY <1>1, <1>2, <1>3 DEF ToCome, ToSet
<1>5. ASSUME k + 1 <= n
      PROVE  ToCome(s, k) = ToCome(s, k + 1) \cup {s[k + 1]} /\ s[k + 1] \notin ToCome(s, k + 1) /\ s[k + 1] \in Uid
  <2>1. /\ k + 1 \in k + 1..n /\ k + 1 \in 1..n
        /\ \A i \in k + 1..n : i = k + 1 \/ i \in k + 2..n
        /\ \A i \in k + 2..n : i \in k + 1..n /\ i \in 1..n /\ i # k + 1
    BY <1>2, <1>5
  <2>2. ToCome(s, k) = {s[i] : i \in k + 1..n} /\ ToCome(s, k + 1) = {s[i] : i \in k + 2..n}
    BY <1>1, <1>2 DEF ToCome
  <2>3. ToCome(s, k) = ToCome(s, k + 1) \cup {s[k + 1]}
    BY <2>1, <2>2
  <2>4. s[k + 1] \notin ToCome(s, k + 1)
    BY <1>2, <2>1, <2>2 DEF Injective
  <2>5. QED
    BY <1>2, <2>1, <2>3, <2>4
<1>6. QED
  BY <1>1, <1>4, <1>5

LEMMA RestToCome ==
  ASSUME NEW s \in Seq(Uid), Injective(s), NEW k \in 0..Len(s), NEW x, x = SubSeq(s, k + 1, Len(s))
  PROVE  ToSet(x) = ToCome(s, k) /\ Injective(x)
<1>1. PICK m \in Nat : m = Len(s)
  OBVIOUS
<1>2. k \in 0..m /\ k + 1 \in Nat \ {0} /\ m \in 0..Len(s)
  BY <1>1
<1>3. /\ x \in Seq(Uid) /\ Len(x) = IF k + 1 <= m THEN m - (k + 1) + 1 ELSE 0
      /\ \A i \in 1..Len(x) : x[i] = s[k + 1 + i - 1] /\ k + 1 + i - 1 \in 1..Len(s)
  BY <1>1, <1>2, PartOf
<1>4. PICK n \in Nat : n = Len(x)
  <2>1. x \in Seq(Uid)
    BY <1>3
  <2>2. QED
    BY <2>1
<1>5. n = m - k
  BY <1>2, <1>3, <1>4
<1>6. \A i \in 1..n : k + i \in k + 1..m /\ k + i \in 1..m /\ k + 1 + i - 1 = k + i
  BY <1>2, <1>5
<1>7. \A i \in 1..n : x[i] = s[k + i]
  BY <1>3, <1>4, <1>6
<1>8. \A j \in k + 1..m : j - k \in 1..n /\ k + (j - k) = j
  BY <1>2, <1>5
<1>9. DOMAIN x = 1..n /\ DOMAIN s = 1..m
  BY <1>1, <1>3, <1>4
<1>10. ToSet(x) = ToCome(s, k)
  <2>1. ASSUME NEW y \in ToSet(x) PROVE y \in ToCome(s, k)
    BY <1>1, <1>6, <1>7, <1>9, <2>1 DEF ToSet, ToCome
  <2>2. ASSUME NEW y \in ToCome(s, k) PROVE y \in ToSet(x)
    <3>1. PICK j \in k + 1..m : y = s[j]
      BY <1>1, <2>2 DEF ToCome
    <3>2. j - k \in 1..n /\ x[j - k] = y
      BY <1>7, <1>8, <3>1
    <3>3. QED
      BY <1>9, <3>2 DEF ToSet
  <2>3. QED
    BY <2>1, <2>2
<1>11. Injective(x)
  <2>1. SUFFICES ASSUME NEW i \in 1..n, NEW j \in 1..n, x[i] = x[j] PROVE i = j
    BY <1>9 DEF Injective
  <2>2. s[k + i] = s[k + j] /\ k + i \in 1..m /\ k + j \in 1..m
    BY <1>6, <1>7, <2>1
  <2>3. k + i = k + j
    BY <1>9, <2>2 DEF Injective
  <2>4. QED
    BY <1>2, <2>3
<1>12. QED
  BY <1>10, <1>11

\* The messages up to n have become entries of c.
AcceptedText(t, said, uids, R, c, n) ==
  TextOK(t, said, c.params, ToCome(uids, n), c.pending, R, {})

AcceptedPresent(t, said, uids, R, c, n) ==
  Present(t, said, ToCome(uids, n), Works(c.params, ToSet(c.pending), R, {}))

LEMMA AcceptedTextIs ==
  ASSUME OwnLimits, SlotInv, TextInv, Awaiting = {}
  PROVE  /\ AcceptedText(Task, emitted, inbox, Ready, Accepted, TakeCount)
         /\ AllPresent => AcceptedPresent(Task, emitted, inbox, Ready, Accepted, TakeCount)
<1> DEFINE start == [params |-> params, pending |-> pending]
           n == TakeCount
           f == CHOOSE f : AcceptedUpTo(f, start, inbox, n)
<1>a. PICK t : t = Task
  OBVIOUS
<1>b. PICK R : R = Ready
  OBVIOUS
<1>c. PICK said : said = emitted
  OBVIOUS
<1>1. n \in 0..Len(inbox) /\ n \in Nat /\ inbox \in Seq(Uid) /\ Injective(inbox) /\ Len(inbox) \in Nat
  <2>1. inbox \in Seq(Uid)
    BY DEF SlotInv, RequestsOK
  <2>2. n \in 0..Len(inbox)
    BY <2>1, TakesSome
  <2> HIDE DEF n
  <2>3. QED
    BY <2>1, <2>2 DEF TextInv
<1> HIDE DEF n
<1>2. AcceptedUpTo(f, start, inbox, n)
  BY <1>1, AcceptedExists
<1>3. Accepted = f[n]
  BY DEF Accepted, AcceptedUpTo, n
<1>4. prompt \in [Uid -> Seq(Nat)] /\ limit \in [{ParamsOf[u] : u \in Uid} -> Limits]
  BY DEF TextInv
<1>5. /\ QueueIs(start, pending) /\ AcceptedText(t, said, inbox, R, start, 0)
      /\ AllPresent => AcceptedPresent(t, said, inbox, R, start, 0)
  <2>1. QueueIs(start, pending)
    BY DEF SlotInv, RequestsOK, ChunksOK, QueueIs
  <2>2. start.params = params /\ start.pending = pending
    OBVIOUS
  <2>3. ToCome(inbox, 0) = ToSet(inbox)
    BY <1>1, ToComeIs
  <2> HIDE DEF start
  <2>4. TextOK(t, said, params, ToSet(inbox), pending, R, {})
    BY <1>a, <1>b, <1>c DEF TextInv
  <2>5. AllPresent => Present(t, said, ToSet(inbox), Works(params, ToSet(pending), R, {}))
    BY <1>a, <1>b, <1>c DEF AllPresent
  <2>6. QED
    BY <2>1, <2>2, <2>3, <2>4, <2>5 DEF AcceptedText, AcceptedPresent
<1> HIDE DEF start, f
<1> DEFINE S == {k \in Nat : k <= n => /\ QueueIs(f[k], pending) /\ AcceptedText(t, said, inbox, R, f[k], k)
                                       /\ AllPresent => AcceptedPresent(t, said, inbox, R, f[k], k)}
<1>6. 0 \in S
  BY <1>1, <1>2, <1>5 DEF AcceptedUpTo
<1>7. ASSUME NEW k \in Nat, k \in S
      PROVE  k + 1 \in S
  <2>1. SUFFICES ASSUME k + 1 <= n
                 PROVE  /\ QueueIs(f[k + 1], pending) /\ AcceptedText(t, said, inbox, R, f[k + 1], k + 1)
                        /\ AllPresent => AcceptedPresent(t, said, inbox, R, f[k + 1], k + 1)
    OBVIOUS
  <2>2. /\ QueueIs(f[k], pending) /\ AcceptedText(t, said, inbox, R, f[k], k)
        /\ AllPresent => AcceptedPresent(t, said, inbox, R, f[k], k)
        /\ k + 1 \in 1..n /\ k + 1 \in 0..n /\ (k + 1) - 1 = k /\ k + 1 # 0
        /\ k \in 0..Len(inbox) /\ k + 1 <= Len(inbox) /\ k + 1 \in 0..Len(inbox)
    BY <1>1, <1>7, <2>1
  <2>3. PICK c : c = f[k]
    OBVIOUS
  <2>4. PICK d : d = f[k + 1]
    OBVIOUS
  <2>5. PICK u : u = inbox[k + 1]
    OBVIOUS
  <2>6. PICK J : J = ToCome(inbox, k + 1)
    OBVIOUS
  <2>7. d = Accept(c, u)
    BY <1>2, <2>2, <2>3, <2>4, <2>5 DEF AcceptedUpTo
  <2>8. ToCome(inbox, k) = J \cup {u} /\ u \notin J /\ u \in Uid
    BY <1>1, <2>2, <2>5, <2>6, ToComeIs
  <2>9. J \in SUBSET Uid
    BY <1>1, <2>2, <2>6, ToComeIs
  <2>10. QueueIs(c, pending) /\ TextOK(t, said, c.params, J \cup {u}, c.pending, R, {})
    BY <2>2, <2>3, <2>8 DEF AcceptedText
  <2>11. QueueIs(d, pending)
    BY <1>4, <2>7, <2>8, <2>10, AcceptKeeps
  <2>12. /\ TextOK(t, said, d.params, J, d.pending, R, {})
         /\ Present(t, said, J \cup {u}, Works(c.params, ToSet(c.pending), R, {}))
              => Present(t, said, J, Works(d.params, ToSet(d.pending), R, {}))
    BY <1>4, <1>a, <2>7, <2>8, <2>9, <2>10, AcceptText
  <2>13. AcceptedText(t, said, inbox, R, d, k + 1)
    BY <2>6, <2>12 DEF AcceptedText
  <2>14. AcceptedPresent(t, said, inbox, R, c, k) => AcceptedPresent(t, said, inbox, R, d, k + 1)
    BY <2>6, <2>8, <2>12 DEF AcceptedPresent
  <2>15. QED
    BY <2>2, <2>3, <2>4, <2>11, <2>13, <2>14
<1> HIDE DEF S
<1>8. n \in S
  BY <1>1, <1>6, <1>7, SetInduction
<1>9. QED
  BY <1>1, <1>3, <1>8, <1>a, <1>b, <1>c DEF S, n

LEMMA ReceiveText ==
  ASSUME OwnLimits, SlotInv, TextInv, Receive
  PROVE  TextInv' /\ (AllPresent => AllPresent')
<1>1. /\ pc = "receive" /\ pc' = "schedule" /\ params' = Accepted.params /\ pending' = Accepted.pending
      /\ inbox' = SubSeq(inbox, TakeCount + 1, Len(inbox))
      /\ UNCHANGED <<input, running, batch, emitted>>
  BY DEF Receive, history
<1>2. Awaiting = {} /\ Awaiting' = {}
  BY <1>1 DEF Awaiting
<1>3. Ready' = Ready
  BY <1>1, <1>2 DEF Ready
<1>4. Task' = Task /\ prompt' = prompt /\ limit' = limit
  BY <1>1, SameTask
<1>5. /\ AcceptedText(Task, emitted, inbox, Ready, Accepted, TakeCount)
      /\ AllPresent => AcceptedPresent(Task, emitted, inbox, Ready, Accepted, TakeCount)
  BY <1>2, AcceptedTextIs
<1>6. ToSet(inbox') = ToCome(inbox, TakeCount) /\ Injective(inbox')
  <2>1. inbox \in Seq(Uid) /\ Injective(inbox)
    BY DEF SlotInv, RequestsOK, TextInv
  <2>2. TakeCount \in 0..Len(inbox)
    BY <2>1, TakesSome
  <2>3. PICK k \in 0..Len(inbox) : k = TakeCount
    BY <2>2
  <2>4. PICK x : x = inbox'
    OBVIOUS
  <2>5. x = SubSeq(inbox, k + 1, Len(inbox))
    BY <1>1, <2>3, <2>4
  <2>6. ToSet(x) = ToCome(inbox, k) /\ Injective(x)
    BY <2>1, <2>5, RestToCome
  <2>7. QED
    BY <2>3, <2>4, <2>6
<1>7. TextInv'
  <2>1. TextOK(Task', emitted', params', ToSet(inbox'), pending', Ready', Awaiting')
    BY <1>1, <1>2, <1>3, <1>4, <1>5, <1>6 DEF AcceptedText
  <2>2. prompt' \in [Uid -> Seq(Nat)] /\ limit' \in [{ParamsOf[u] : u \in Uid} -> Limits]
        /\ emitted' \in [Uid -> Seq(Token)]
    BY <1>1, <1>4 DEF TextInv
  <2>3. QED
    BY <1>6, <2>1, <2>2 DEF TextInv
<1>8. AllPresent => AllPresent'
  BY <1>1, <1>2, <1>3, <1>4, <1>5, <1>6 DEF AcceptedPresent, AllPresent
<1>9. QED
  BY <1>7, <1>8

-----------------------------------------------------------------------------
(***************************************************************************)
(* A batch is processed: each of its requests has one token more           *)
(***************************************************************************)
\* The token ends the request old: said has become new.
EndsText(said, old, token, A, B, new) ==
  /\ B = A /\ (RemainLen(old) <= 0 \/ token = Eos)
  /\ new = [said EXCEPT ![old.uid] = Append(@, token)]

\* It does not, and the request goes on as z.
GoesOnText(said, old, token, A, B, new, z) ==
  /\ B = A \cup {z} /\ z.uid = old.uid /\ z.ids = Append(old.ids, token)
  /\ RemainLen(z) = RemainLen(old) /\ RemainLen(old) > 0 /\ token # Eos
  /\ new = [said EXCEPT ![old.uid] = Append(@, token)]

Spoken(said, old, token, A, B, new) ==
  EndsText(said, old, token, A, B, new) \/ \E z : GoesOnText(said, old, token, A, B, new, z)

LEMMA TokenNumbers ==
  ASSUME NEW b \in Seq(Token), NEW token \in Token
  PROVE  b \in Seq(Nat) /\ token \in Nat
<1>1. \A x \in Token : x \in Nat
  BY SequenceAssumption
<1>2. PICK n \in Nat : n = Len(b)
  OBVIOUS
<1>3. DOMAIN b = 1..n /\ \A i \in 1..n : b[i] \in Nat
  BY <1>1, <1>2
<1>4. QED
  BY <1>1, <1>2, <1>3

LEMMA LongerText ==
  ASSUME NEW a \in Seq(Nat), NEW b \in Seq(Nat), NEW x \in Nat
  PROVE  /\ a \o Append(b, x) = Append(a \o b, x) /\ Append(b, x) # <<>>
         /\ Last(Append(b, x)) = x /\ Len(Append(b, x)) = Len(b) + 1
<1>1. a \o Append(b, x) = Append(a \o b, x)
  OBVIOUS
<1>2. Append(b, x) # <<>> /\ Len(Append(b, x)) = Len(b) + 1 /\ Append(b, x)[Len(b) + 1] = x
  <2>1. PICK n \in Nat : n = Len(b)
    OBVIOUS
  <2>2. Len(Append(b, x)) = n + 1 /\ Append(b, x)[n + 1] = x
    BY <2>1
  <2>3. Len(<<>>) = 0 /\ n + 1 # 0
    OBVIOUS
  <2>4. QED
    BY <2>1, <2>2, <2>3
<1>3. Last(Append(b, x)) = x
  BY <1>2 DEF Last
<1>4. QED
  BY <1>1, <1>2, <1>3

\* V is the work to do, and U what is left of it without that of old.
IsDue(t, said, I, old, V, U) ==
  /\ old.uid \in Uid \ I /\ old.ids = t.prompt[old.uid] \o said[old.uid]
  /\ RemainLen(old) + 1 = t.bound[old.uid] - Len(said[old.uid]) /\ RemainLen(old) + 1 > 0
  /\ said[old.uid] # <<>> => Last(said[old.uid]) # Eos
  /\ \A w \in U : w \in V /\ w[1] # old.uid

LEMMA DueIs ==
  ASSUME NEW t, NEW said, NEW q, NEW I, NEW p, NEW A, NEW D, TextOK(t, said, q, I, p, A, D), NEW old \in D,
         NEW V, V = Works(q, ToSet(p), A, D), NEW W, W = Works(q, ToSet(p), A, D \ {old})
  PROVE  IsDue(t, said, I, old, V, W)
<1>c. PICK d : d = DueWork(old)
  OBVIOUS
<1>1. d \in V /\ d[1] = old.uid /\ d[2] = old.ids /\ d[3] = RemainLen(old) + 1
  BY <1>c, WorkOf, WorkIs
<1>2. Continues(t, said, d) /\ d[1] \in Uid \ I
  BY <1>1, WorkUids DEF TextOK
<1>3. /\ \A x \in ToSet(p) \cup A \cup (D \ {old}) : x.uid # old.uid
  <2>1. OnePerUid(A \cup D) /\ A \cap D = {} /\ ApartFrom(ToSet(p), A \cup D)
    BY DEF TextOK, WorkOnce
  <2>2. \A x \in ToSet(p) : x.uid # old.uid
    BY <2>1 DEF ApartFrom
  <2>3. \A x \in A \cup (D \ {old}) : x.uid # old.uid
    BY <2>1 DEF OnePerUid
  <2>4. QED
    BY <2>2, <2>3
<1>4. ASSUME NEW w \in W
      PROVE  w \in V /\ w[1] # old.uid
  <2>1. \/ \E x \in ToSet(p) : w = EntryWork(q, x)
        \/ \E x \in A : w = ReadyWork(x)
        \/ \E x \in D \ {old} : w = DueWork(x)
    BY <1>4 DEF Works
  <2>2. w[1] # old.uid
    <3>1. PICK x \in ToSet(p) \cup A \cup (D \ {old}) : w = EntryWork(q, x) \/ w = ReadyWork(x) \/ w = DueWork(x)
      BY <2>1
    <3>2. w[1] = x.uid
      BY <3>1, WorkIs
    <3>3. QED
      BY <1>3, <3>2
  <2>3. w \in V
    BY <2>1 DEF Works
  <2>4. QED
    BY <2>2, <2>3
<1>5. QED
  BY <1>1, <1>2, <1>4 DEF Continues, IsDue

KeepsPresent(t, said, I, q, p, A, D, new, B, E) ==
  Present(t, said, I, Works(q, ToSet(p), A, D)) => Present(t, new, I, Works(q, ToSet(p), B, E))

TaskOK(t) == t.prompt \in [Uid -> Seq(Nat)] /\ t.bound \in [Uid -> Int]

LEMMA TokenText ==
  ASSUME NEW t, NEW said \in [Uid -> Seq(Token)], NEW q, NEW I, NEW p, NEW A, NEW D,
         TextOK(t, said, q, I, p, A, D), NEW old \in D, old \in Request,
         TaskOK(t),
         NEW token \in Token, NEW B, NEW new, NEW E, E = D \ {old},
         Spoken(said, old, token, A, B, new)
  PROVE  /\ new \in [Uid -> Seq(Token)] /\ TextOK(t, new, q, I, p, B, E)
         /\ KeepsPresent(t, said, I, q, p, A, D, new, B, E)
<1>a. PICK u : u = old.uid
  OBVIOUS
<1>b. PICK V : V = Works(q, ToSet(p), A, D)
  OBVIOUS
<1>c. PICK U : U = Works(q, ToSet(p), A, E)
  OBVIOUS
<1>d. PICK W : W = Works(q, ToSet(p), B, E)
  OBVIOUS
<1>e. PICK left \in Int : left = RemainLen(old)
  BY RequestIs DEF RemainLen
<1>1. /\ u \in Uid \ I /\ old.ids = t.prompt[u] \o said[u]
      /\ left + 1 = t.bound[u] - Len(said[u]) /\ left + 1 > 0
      /\ said[u] # <<>> => Last(said[u]) # Eos
      /\ \A w \in U : w \in V /\ w[1] # u
  <2>1. U = Works(q, ToSet(p), A, D \ {old})
    BY <1>c, Zenon
  <2>2. IsDue(t, said, I, old, V, U)
    BY <1>b, <2>1, DueIs
  <2>3. QED
    BY <1>a, <1>e, <2>2 DEF IsDue
<1>2. /\ new = [said EXCEPT ![u] = Append(@, token)]
      /\ \/ B = A /\ (left <= 0 \/ token = Eos)
         \/ /\ left > 0 /\ token # Eos
            /\ \E z : B = A \cup {z} /\ z.uid = u /\ z.ids = Append(old.ids, token) /\ RemainLen(z) = left
  BY <1>a, <1>e DEF Spoken, EndsText, GoesOnText
<1>3. PICK a \in Seq(Nat) : a = t.prompt[u]
  BY <1>1 DEF TaskOK
<1>4. PICK b \in Seq(Token) : b = said[u]
  BY <1>1
<1>5. b \in Seq(Nat) /\ token \in Nat
  BY TokenNumbers
<1>6. /\ a \o Append(b, token) = Append(a \o b, token) /\ Append(b, token) # <<>>
      /\ Last(Append(b, token)) = token /\ Len(Append(b, token)) = Len(b) + 1
  BY <1>5, LongerText
<1>7. /\ new \in [Uid -> Seq(Token)] /\ new[u] = Append(b, token)
      /\ \A v \in Uid : v # u => new[v] = said[v]
  BY <1>1, <1>2, <1>4
<1>8. PICK bound \in Int : bound = t.bound[u]
  BY <1>1 DEF TaskOK
<1>9. PICK n \in Nat : n = Len(b)
  OBVIOUS
<1>10. left + 1 = bound - n /\ Len(new[u]) = n + 1
  BY <1>1, <1>4, <1>6, <1>7, <1>8, <1>9
<1>11. \A v \in V : v[1] \in Uid \ I /\ Continues(t, said, v)
  BY <1>b, WorkUids DEF TextOK
<1>12. ASSUME NEW w \in U
       PROVE  Continues(t, new, w)
  <2>1. w[1] \in Uid /\ w[1] # u /\ Continues(t, said, w)
    BY <1>1, <1>11
  <2>2. new[w[1]] = said[w[1]]
    BY <1>7, <2>1
  <2>3. QED
    BY <2>1, <2>2 DEF Continues
<1>13. \A v \in I : new[v] = <<>> /\ q[ParamsOf[v]] = t.limit[ParamsOf[v]]
  <2>1. ASSUME NEW v \in I PROVE new[v] = said[v]
    <3>1. v # u
      BY <1>1
    <3>2. QED
      BY <1>2, <3>1
  <2>2. QED
    BY <2>1 DEF TextOK
<1>14. /\ UidsOnce(p) /\ OnePerUid(A \cup D) /\ A \cap D = {} /\ ApartFrom(ToSet(p), A \cup D)
       /\ \A x \in ToSet(p) \cup A \cup D : x.uid \in Uid \ I
  BY DEF TextOK, WorkOnce
<1>15. Present(t, said, I, V) => \A v \in Uid \ Abortable : v \in I \/ Said(t, new, v) \/ v = u \/ \E w \in U : w[1] = v
  <2>1. SUFFICES ASSUME Present(t, said, I, V), NEW v \in Uid \ Abortable, v \notin I, v # u, ~ Said(t, new, v)
                 PROVE  \E w \in U : w[1] = v
    OBVIOUS
  <2>2. ~ Said(t, said, v)
    BY <1>7, <2>1 DEF Said
  <2>3. PICK w \in V : w[1] = v
    BY <2>1, <2>2 DEF Present
  <2>4. \/ \E x \in ToSet(p) : w = EntryWork(q, x)
        \/ \E x \in A : w = ReadyWork(x)
        \/ \E x \in D : w = DueWork(x)
    BY <1>b DEF Works
  <2>5. w # DueWork(old)
    BY <1>a, <2>1, <2>3, WorkIs
  <2>6. w \in U
    BY <1>c, <2>4, <2>5 DEF Works
  <2>7. QED
    BY <2>3, <2>6
<1>16. CASE B = A /\ (left <= 0 \/ token = Eos)
  <2>1. W = U
    BY <1>16, <1>c, <1>d
  <2>2. WorkOnce(I, p, B, E)
    BY <1>14, <1>16 DEF WorkOnce, OnePerUid, ApartFrom
  <2>3. TextOK(t, new, q, I, p, B, E)
    BY <1>12, <1>13, <1>d, <2>1, <2>2 DEF TextOK
  <2>4. Said(t, new, u)
    <3>1. CASE left <= 0
      <4>1. n + 1 >= bound
        BY <1>10, <3>1
      <4>2. QED
        BY <1>8, <1>10, <4>1 DEF Said
    <3>2. CASE token = Eos
      BY <1>6, <1>7, <3>2 DEF Said
    <3>3. QED
      BY <1>16, <3>1, <3>2
  <2>5. Present(t, said, I, V) => Present(t, new, I, W)
    BY <1>15, <2>1, <2>4 DEF Present
  <2>6. QED
    BY <1>7, <1>b, <1>d, <2>3, <2>5 DEF KeepsPresent
<1>17. CASE /\ left > 0 /\ token # Eos
            /\ \E z : B = A \cup {z} /\ z.uid = u /\ z.ids = Append(old.ids, token) /\ RemainLen(z) = left
  <2>1. PICK z : B = A \cup {z} /\ z.uid = u /\ z.ids = Append(old.ids, token) /\ RemainLen(z) = left
    BY <1>17
  <2>2. PICK w : w = ReadyWork(z)
    OBVIOUS
  <2>3. w[1] = u /\ w[2] = Append(old.ids, token) /\ w[3] = left
    BY <2>1, <2>2, WorkIs
  <2>4. W = U \cup {w}
    BY <1>c, <1>d, <2>1, <2>2 DEF Works
  <2>5. Continues(t, new, w)
    <3>1. w[2] = t.prompt[w[1]] \o new[w[1]]
      BY <1>1, <1>3, <1>4, <1>6, <1>7, <2>3
    <3>2. w[3] = t.bound[w[1]] - Len(new[w[1]])
      <4>1. left = bound - (n + 1)
        BY <1>10
      <4>2. QED
        BY <1>8, <1>10, <2>3, <4>1
    <3>3. w[3] > 0 /\ Last(new[w[1]]) # Eos
      BY <1>6, <1>7, <1>17, <2>3
    <3>4. QED
      BY <3>1, <3>2, <3>3 DEF Continues
  <2>6. z \notin E
    BY <1>14, <1>a, <2>1 DEF OnePerUid
  <2>7. WorkOnce(I, p, B, E)
    <3>1. \A x \in ToSet(p) : x.uid # u
      BY <1>14, <1>a DEF ApartFrom
    <3>2. \A x \in A \cup E : x.uid # u
      BY <1>14, <1>a DEF OnePerUid
    <3>3. OnePerUid(B \cup E)
      BY <1>14, <2>1, <3>2 DEF OnePerUid
    <3>4. ApartFrom(ToSet(p), B \cup E)
      BY <1>14, <2>1, <3>1 DEF ApartFrom
    <3>5. B \cap E = {}
      BY <1>14, <2>1, <2>6
    <3>6. \A x \in ToSet(p) \cup B \cup E : x.uid \in Uid \ I
      BY <1>1, <1>14, <2>1
    <3>7. QED
      BY <1>14, <3>3, <3>4, <3>5, <3>6 DEF WorkOnce
  <2>8. TextOK(t, new, q, I, p, B, E)
    BY <1>12, <1>13, <1>d, <2>4, <2>5, <2>7 DEF TextOK
  <2>9. Present(t, said, I, V) => Present(t, new, I, W)
    BY <1>15, <2>3, <2>4 DEF Present
  <2>10. QED
    BY <1>7, <1>b, <1>d, <2>8, <2>9 DEF KeepsPresent
<1>18. QED
  BY <1>2, <1>16, <1>17

\* What a text shows without its end.
Trimmed(s) == IF s # <<>> /\ Last(s) = Eos THEN Front(s) ELSE s

OutputOK(out, said) == out \in [Uid -> Seq(Token)] /\ \A u \in Uid : out[u] = Trimmed(said[u])

LEMMA TrimmedToken ==
  ASSUME NEW b \in Seq(Token), b # <<>> => Last(b) # Eos, NEW token \in Token
  PROVE  Trimmed(b) = b /\ Trimmed(Append(b, token)) = IF token = Eos THEN b ELSE Append(b, token)
<1>1. Trimmed(b) = b
  BY DEF Trimmed
<1>2. b \in Seq(Nat) /\ token \in Nat
  BY TokenNumbers
<1>3. Append(b, token) # <<>> /\ Last(Append(b, token)) = token
  <2>1. PICK a \in Seq(Nat) : TRUE
    BY <1>2
  <2>2. QED
    BY <1>2, <2>1, LongerText
<1>4. Front(Append(b, token)) = b
  <2>1. PICK n \in Nat : n = Len(b)
    OBVIOUS
  <2>2. Len(Append(b, token)) = n + 1
    BY <2>1
  <2>3. (n + 1) - 1 = n
    OBVIOUS
  <2>4. Front(Append(b, token)) = SubSeq(Append(b, token), 1, n)
    BY <2>2, <2>3 DEF Front
  <2>5. SubSeq(Append(b, token), 1, Len(b)) = b
    OBVIOUS
  <2>6. QED
    BY <2>1, <2>4, <2>5
<1>5. QED
  BY <1>1, <1>3, <1>4 DEF Trimmed

\* offline_send_result for a token.
SaysOutput(out, old, token, new) ==
  new = [out EXCEPT ![old.uid] = IF token = Eos THEN @ ELSE Append(@, token)]

Speaks(s, old, token, x) ==
  LET others == s.running \ {old}
  IN /\ SaysOutput(s.output, old, token, x.output)
     /\ Spoken(s.emitted, old, token, others, x.running, x.emitted)

LEMMA ProcessOneSays ==
  ASSUME SlotInv, pc = "process", NEW i \in DOMAIN batch.reqs, NEW s, NEW old, old = batch.reqs[i],
         NEW token, token = sampled[i], NEW x, x = ProcessOne(s, i)
  PROVE  /\ old \in Request /\ token \in Token
         /\ IF old.chunked THEN x = s ELSE Speaks(s, old, token, x)
<1>1. old \in Request /\ token \in Token /\ token \in Nat
  <2>1. batch.reqs \in Seq(Request) /\ sampled \in [DOMAIN batch.reqs -> Token] /\ Token \subseteq Nat
    BY SequenceAssumption DEF SlotInv, RequestsOK
  <2>2. token \in Token
    BY <2>1
  <2>3. old \in Request
    BY <2>1
  <2>4. QED
    BY <2>1, <2>2, <2>3
<1>a. PICK req : req = [old EXCEPT !.ids = Append(@, token)]
  OBVIOUS
<1>2. /\ req \in Request /\ req.ids = Append(old.ids, token) /\ req.uid = old.uid
      /\ req.chunked = old.chunked /\ req.device = old.device /\ req.maxDevice = old.maxDevice
  <2>1. req.uid = old.uid
    BY <1>1, <1>a DEF Request
  <2>2. QED
    BY <1>1, <1>a, <2>1, ExtendedIs
<1>3. RemainLen(req) = RemainLen(old) /\ RemainLen(old) \in Int
  BY <1>1, <1>2, RequestIs DEF RemainLen
<1>4. PICK done : done = Finished(req, token)
  OBVIOUS
<1>5. CASE old.chunked
  <2>1. x = s
    BY <1>5 DEF ProcessOne
  <2>2. QED
    BY <1>1, <1>5, <2>1
<1>6. ASSUME ~ old.chunked
      PROVE  /\ x.emitted = [s.emitted EXCEPT ![old.uid] = Append(@, token)]
             /\ x.output = [s.output EXCEPT ![old.uid] = Reply(@, token, done)]
             /\ done => x.running = s.running \ {old}
             /\ ~ done => \/ x.running = (s.running \ {old}) \cup {req}
                          \/ x.running = (s.running \ {old}) \cup {[req EXCEPT !.handle = InsertKey(req)]}
  BY <1>2, <1>4, <1>6, <1>a DEF ProcessOne
<1>7. ASSUME ~ old.chunked
      PROVE  done <=> RemainLen(old) <= 0 \/ token = Eos
  <2>1. ~ req.chunked
    BY <1>2, <1>7
  <2>2. CanDecode(req) <=> RemainLen(old) > 0
    BY <1>3, <2>1 DEF CanDecode
  <2>3. RemainLen(old) > 0 <=> ~ RemainLen(old) <= 0
    BY <1>3
  <2>4. done <=> ~ CanDecode(req) \/ token = Eos
    BY <1>4 DEF Finished
  <2>5. QED
    BY <2>2, <2>3, <2>4
<1>8. ASSUME ~ old.chunked
      PROVE  SaysOutput(s.output, old, token, x.output)
  <2>1. CASE token = Eos
    <3>1. done
      BY <1>7, <1>8, <2>1
    <3>2. QED
      BY <1>6, <1>8, <2>1, <3>1 DEF SaysOutput, Reply
  <2>2. CASE token # Eos
    BY <1>6, <1>8, <2>2 DEF SaysOutput, Reply
  <2>3. QED
    BY <2>1, <2>2
<1>9. PICK others : others = s.running \ {old}
  OBVIOUS
<1>10. CASE ~ old.chunked /\ done
  <2>1. EndsText(s.emitted, old, token, others, x.running, x.emitted)
    BY <1>6, <1>7, <1>9, <1>10 DEF EndsText
  <2>2. Speaks(s, old, token, x)
    BY <1>8, <1>9, <1>10, <2>1 DEF Speaks, Spoken
  <2>3. QED
    BY <1>1, <1>10, <2>2
<1>11. CASE ~ old.chunked /\ ~ done
  <2>1. PICK z : x.running = others \cup {z} /\ (z = req \/ z = [req EXCEPT !.handle = InsertKey(req)])
    BY <1>6, <1>9, <1>11
  <2>2. z.uid = old.uid /\ z.ids = Append(old.ids, token) /\ z.device = req.device /\ z.maxDevice = req.maxDevice
    BY <1>2, <2>1 DEF Request
  <2>3. RemainLen(z) = RemainLen(old)
    BY <1>3, <2>2 DEF RemainLen
  <2>4. RemainLen(old) > 0 /\ token # Eos
    BY <1>3, <1>7, <1>11
  <2>5. GoesOnText(s.emitted, old, token, others, x.running, x.emitted, z)
    BY <1>6, <1>11, <2>1, <2>2, <2>3, <2>4 DEF GoesOnText
  <2>6. Speaks(s, old, token, x)
    BY <1>8, <1>9, <1>11, <2>5 DEF Speaks, Spoken
  <2>7. QED
    BY <1>1, <1>11, <2>6
<1>12. QED
  BY <1>5, <1>10, <1>11

\* What was said has become said, except for the requests D still to come.
Grown(t, was, said, D) ==
  \A u \in Uid :
    \/ said[u] = was[u]
    \/ /\ \E token \in Token : said[u] = Append(was[u], token)
       /\ ~ Said(t, was, u) /\ \A d \in D : d.uid # u

SpokenOK(t, was, q, I, p, s, D) ==
  /\ s.emitted \in [Uid -> Seq(Token)] /\ Grown(t, was, s.emitted, D)
  /\ TextOK(t, s.emitted, q, I, p, s.running \ D, D)

SpokenPresent(t, q, I, p, s, D) == Present(t, s.emitted, I, Works(q, ToSet(p), s.running \ D, D))

SpeechKept(t, q, I, p, s, D, x, E) ==
  /\ SpokenPresent(t, q, I, p, s, D) => SpokenPresent(t, q, I, p, x, E)
  /\ OutputOK(s.output, s.emitted) => OutputOK(x.output, x.emitted)

LEMMA SpeakStep ==
  ASSUME NEW t, TaskOK(t),
         NEW was, NEW q, NEW I, NEW p, NEW s, NEW D, SpokenOK(t, was, q, I, p, s, D),
         NEW old \in D, old \in Request, NEW token \in Token, NEW x, Speaks(s, old, token, x),
         NEW E, E = D \ {old}
  PROVE  SpokenOK(t, was, q, I, p, x, E) /\ SpeechKept(t, q, I, p, s, D, x, E)
<1>a. PICK said \in [Uid -> Seq(Token)] : said = s.emitted
  BY DEF SpokenOK
<1>b. PICK new : new = x.emitted
  OBVIOUS
<1>c. PICK A : A = s.running \ D
  OBVIOUS
<1>d. PICK B : B = x.running \ E
  OBVIOUS
<1>e. PICK u : u = old.uid
  OBVIOUS
<1>f. PICK V : V = Works(q, ToSet(p), A, D)
  OBVIOUS
<1>g. PICK U : U = Works(q, ToSet(p), A, D \ {old})
  OBVIOUS
<1>1. TextOK(t, said, q, I, p, A, D) /\ Grown(t, was, said, D)
  BY <1>a, <1>c DEF SpokenOK
<1>2. /\ u \in Uid \ I /\ RemainLen(old) + 1 = t.bound[u] - Len(said[u]) /\ RemainLen(old) + 1 > 0
      /\ said[u] # <<>> => Last(said[u]) # Eos
  <2>1. IsDue(t, said, I, old, V, U)
    BY <1>1, <1>f, <1>g, DueIs
  <2>2. QED
    BY <1>e, <2>1 DEF IsDue
<1>3. ~ Said(t, said, u)
  <2>1. PICK left \in Int : left = RemainLen(old)
    BY RequestIs DEF RemainLen
  <2>2. PICK bound \in Int : bound = t.bound[u]
    BY <1>2 DEF TaskOK
  <2>3. PICK n \in Nat : n = Len(said[u])
    BY <1>2
  <2>4. ~ n >= bound
    BY <1>2, <2>1, <2>2, <2>3
  <2>5. QED
    BY <1>2, <2>2, <2>3, <2>4 DEF Said
<1>4. new = [said EXCEPT ![u] = Append(@, token)]
  BY <1>a, <1>b, <1>e DEF Speaks, Spoken, EndsText, GoesOnText
<1>5. Spoken(said, old, token, A, B, new)
  <2>1. PICK others : others = s.running \ {old}
    OBVIOUS
  <2>2. \/ EndsText(said, old, token, others, x.running, new)
        \/ \E z : GoesOnText(said, old, token, others, x.running, new, z)
    BY <1>a, <1>b, <2>1 DEF Speaks, Spoken
  <2>3. others \ E = A
    BY <1>c, <2>1
  <2>4. CASE EndsText(said, old, token, others, x.running, new)
    <3>1. B = A
      BY <1>d, <2>3, <2>4 DEF EndsText
    <3>2. EndsText(said, old, token, A, B, new)
      BY <2>4, <3>1 DEF EndsText
    <3>3. QED
      BY <3>2 DEF Spoken
  <2>5. ASSUME NEW z, GoesOnText(said, old, token, others, x.running, new, z)
        PROVE  Spoken(said, old, token, A, B, new)
    <3>1. x.running = others \cup {z} /\ z.uid = u
      BY <1>e, <2>5 DEF GoesOnText
    <3>2. z \notin E
      <4>1. OnePerUid(A \cup D)
        BY <1>1 DEF TextOK, WorkOnce
      <4>2. QED
        BY <1>e, <3>1, <4>1 DEF OnePerUid
    <3>3. B = A \cup {z}
      BY <1>d, <2>3, <3>1, <3>2
    <3>4. GoesOnText(said, old, token, A, B, new, z)
      BY <2>5, <3>3 DEF GoesOnText
    <3>5. QED
      BY <3>4 DEF Spoken
  <2>6. QED
    BY <2>2, <2>4, <2>5
<1>6. /\ new \in [Uid -> Seq(Token)] /\ TextOK(t, new, q, I, p, B, E)
      /\ KeepsPresent(t, said, I, q, p, A, D, new, B, E)
  <2>1. TextOK(t, said, q, I, p, A, D)
    BY <1>1
  <2>2. said \in [Uid -> Seq(Token)] /\ old \in D /\ old \in Request /\ TaskOK(t) /\ token \in Token
    OBVIOUS
  <2>3. E = D \ {old}
    OBVIOUS
  <2>4. QED
    BY <2>1, <2>2, <2>3, <1>5, TokenText, ZenonT(60)
<1>7. new[u] = Append(said[u], token) /\ \A v \in Uid : v # u => new[v] = said[v]
  BY <1>2, <1>4
<1>8. Grown(t, was, new, E)
  <2>1. said[u] = was[u]
    BY <1>1, <1>2, <1>e DEF Grown
  <2>2. SUFFICES ASSUME NEW v \in Uid
                 PROVE  \/ new[v] = was[v]
                        \/ /\ \E k \in Token : new[v] = Append(was[v], k)
                           /\ ~ Said(t, was, v) /\ \A d \in E : d.uid # v
    BY DEF Grown
  <2>3. CASE v = u
    <3>1. ~ Said(t, was, u)
      BY <1>3, <2>1 DEF Said
    <3>2. \A d \in E : d.uid # u
      <4>1. OnePerUid(A \cup D)
        BY <1>1 DEF TextOK, WorkOnce
      <4>2. QED
        BY <1>e, <4>1 DEF OnePerUid
    <3>3. QED
      BY <1>7, <2>1, <2>3, <3>1, <3>2
  <2>4. CASE v # u
    BY <1>1, <1>7, <2>4 DEF Grown
  <2>5. QED
    BY <2>3, <2>4
<1>9. SpokenOK(t, was, q, I, p, x, E)
  BY <1>6, <1>8, <1>b, <1>d DEF SpokenOK
<1>10. SpokenPresent(t, q, I, p, s, D) => SpokenPresent(t, q, I, p, x, E)
  BY <1>6, <1>a, <1>b, <1>c, <1>d DEF SpokenPresent, KeepsPresent
<1>11. ASSUME OutputOK(s.output, said)
       PROVE  OutputOK(x.output, new)
  <2>1. PICK out \in [Uid -> Seq(Token)] : out = s.output
    BY <1>11 DEF OutputOK
  <2>2. x.output = [out EXCEPT ![u] = IF token = Eos THEN @ ELSE Append(@, token)]
    BY <1>e, <2>1 DEF Speaks, SaysOutput
  <2>3. PICK b \in Seq(Token) : b = said[u]
    BY <1>2
  <2>4. Trimmed(b) = b /\ Trimmed(Append(b, token)) = IF token = Eos THEN b ELSE Append(b, token)
    BY <1>2, <2>3, TrimmedToken
  <2>5. out[u] = b
    BY <1>2, <1>11, <2>1, <2>3, <2>4 DEF OutputOK
  <2>6. x.output = [out EXCEPT ![u] = Trimmed(new[u])]
    BY <1>7, <2>2, <2>3, <2>4, <2>5
  <2>7. Trimmed(new[u]) \in Seq(Token)
    BY <1>7, <2>3, <2>4
  <2>8. \A v \in Uid : x.output[v] = Trimmed(new[v])
    BY <1>2, <1>7, <1>11, <2>1, <2>6 DEF OutputOK
  <2>9. x.output \in [Uid -> Seq(Token)]
    BY <2>6, <2>7
  <2>10. QED
    BY <2>8, <2>9 DEF OutputOK
<1>12. QED
  BY <1>9, <1>10, <1>11, <1>a, <1>b DEF SpeechKept

LEMMA TaskIs ==
  ASSUME OwnLimits, TextInv
  PROVE  TaskOK(Task)
<1>1. prompt \in [Uid -> Seq(Nat)] /\ limit \in [{ParamsOf[u] : u \in Uid} -> Limits]
  BY DEF TextInv
<1>2. ASSUME NEW u \in Uid
      PROVE  TokenLimit(u) \in Int
  <2>1. PICK lim \in Int, room \in Int : lim = limit[ParamsOf[u]] /\ room = MaxSeqLen - Len(prompt[u])
    BY <1>1, BoundIs
  <2>2. TokenLimit(u) = Min2(lim, room)
    BY <2>1 DEF TokenLimit
  <2>3. QED
    BY <2>2 DEF Min2
<1>3. Task.prompt = prompt /\ Task.bound = [u \in Uid |-> TokenLimit(u)]
  BY DEF Task
<1>4. QED
  BY <1>1, <1>2, <1>3 DEF TaskOK

\* s is the loop of _process_last_data after k requests.
Speaking(t, q, I, reqs, s, k) ==
  /\ SpokenOK(t, emitted, q, I, pending, s, Whole(From(reqs, k)))
  /\ AllPresent => SpokenPresent(t, q, I, pending, s, Whole(From(reqs, k)))
  /\ OutputOK(output, emitted) => OutputOK(s.output, s.emitted)

LEMMA SpeakingStep ==
  ASSUME SlotInv, pc = "process", NEW t, TaskOK(t), NEW q, NEW I, NEW reqs, reqs = batch.reqs,
         NEW k \in Nat, k + 1 <= Len(reqs), NEW s, Speaking(t, q, I, reqs, s, k),
         NEW x, x = ProcessOne(s, k + 1)
  PROVE  Speaking(t, q, I, reqs, x, k + 1)
<1>1. reqs \in Seq(Request) /\ \A i, j \in DOMAIN reqs : reqs[i].slot = reqs[j].slot => i = j
  BY DEF SlotInv, RequestsOK, BatchOK
<1>2. PICK old : old = reqs[k + 1]
  OBVIOUS
<1>3. PICK F : F = From(reqs, k)
  OBVIOUS
<1>4. PICK G : G = From(reqs, k + 1)
  OBVIOUS
<1>5. old \in F /\ G = F \ {old} /\ k + 1 \in DOMAIN reqs
  BY <1>1, <1>2, <1>3, <1>4, FromNext
<1>6. PICK token : token = sampled[k + 1]
  OBVIOUS
<1>7. old \in Request /\ token \in Token /\ IF old.chunked THEN x = s ELSE Speaks(s, old, token, x)
  BY <1>2, <1>5, <1>6, ProcessOneSays
<1>8. PICK D : D = Whole(F)
  OBVIOUS
<1>9. PICK E : E = Whole(G)
  OBVIOUS
<1>10. /\ SpokenOK(t, emitted, q, I, pending, s, D)
       /\ AllPresent => SpokenPresent(t, q, I, pending, s, D)
       /\ OutputOK(output, emitted) => OutputOK(s.output, s.emitted)
  BY <1>3, <1>8 DEF Speaking
<1>11. CASE old.chunked
  <2>1. E = D /\ x = s
    BY <1>5, <1>7, <1>8, <1>9, <1>11 DEF Whole
  <2>2. QED
    BY <1>4, <1>9, <1>10, <2>1 DEF Speaking
<1>12. CASE ~ old.chunked
  <2>1. old \in D /\ E = D \ {old} /\ Speaks(s, old, token, x)
    BY <1>5, <1>7, <1>8, <1>9, <1>12 DEF Whole
  <2>2. SpokenOK(t, emitted, q, I, pending, x, E) /\ SpeechKept(t, q, I, pending, s, D, x, E)
    BY <1>7, <1>10, <2>1, SpeakStep
  <2>3. QED
    BY <1>4, <1>9, <1>10, <2>2 DEF Speaking, SpeechKept
<1>13. QED
  BY <1>11, <1>12

LEMMA SpeakingIs ==
  ASSUME OwnLimits, SlotInv, TextInv, pc = "process", NEW reqs, reqs = batch.reqs
  PROVE  Speaking(Task, params, ToSet(inbox), reqs, Processed, Len(reqs))
<1> PICK n : n = Len(reqs)
  OBVIOUS
<1> PICK t : t = Task
  OBVIOUS
<1> PICK I : I = ToSet(inbox)
  OBVIOUS
<1> PICK q : q = params
  OBVIOUS
<1> DEFINE first == [running |-> running, slots |-> slots, pool |-> pool, output |-> output, emitted |-> emitted]
           f == CHOOSE f : ProcessedUpTo(f, first, n)
<1>1. reqs \in Seq(Request) /\ n \in Nat
  <2>1. reqs \in Seq(Request)
    BY DEF SlotInv, RequestsOK
  <2>2. QED
    BY <2>1
<1>2. Processed = f[n]
  BY DEF Processed, ProcessedUpTo
<1>3. first.running = running /\ first.output = output /\ first.emitted = emitted
  OBVIOUS
<1>4. ProcessedUpTo(f, first, n)
  BY <1>1, ProcessedExists
<1>5. TaskOK(t)
  BY TaskIs
<1> HIDE DEF first, f
<1>6. Speaking(t, q, I, reqs, first, 0)
  <2>1. PICK D : D = Whole(ToSet(reqs))
    OBVIOUS
  <2>2. Whole(From(reqs, 0)) = D
    BY <1>1, <2>1, FromEnds
  <2>3. Awaiting = D /\ Ready = running \ D
    BY <2>1 DEF Awaiting, Ready
  <2>4. TextOK(t, emitted, q, I, pending, running \ D, D) /\ emitted \in [Uid -> Seq(Token)]
    BY <2>3 DEF TextInv
  <2>5. Grown(t, emitted, emitted, D)
    BY DEF Grown
  <2>6. SpokenOK(t, emitted, q, I, pending, first, D)
    BY <1>3, <2>4, <2>5 DEF SpokenOK
  <2>7. AllPresent => SpokenPresent(t, q, I, pending, first, D)
    BY <1>3, <2>3 DEF AllPresent, SpokenPresent
  <2>8. QED
    BY <1>3, <2>2, <2>6, <2>7 DEF Speaking
<1> DEFINE S == {k \in Nat : k <= n => Speaking(t, q, I, reqs, f[k], k)}
<1>7. 0 \in S
  BY <1>1, <1>4, <1>6 DEF ProcessedUpTo
<1>8. ASSUME NEW k \in Nat, k \in S
      PROVE  k + 1 \in S
  <2>1. SUFFICES ASSUME k + 1 <= n PROVE Speaking(t, q, I, reqs, f[k + 1], k + 1)
    OBVIOUS
  <2>2. /\ Speaking(t, q, I, reqs, f[k], k)
        /\ k + 1 \in 1..n /\ k + 1 \in 0..n /\ (k + 1) - 1 = k /\ k + 1 # 0
    BY <1>1, <1>8, <2>1
  <2>3. PICK s : s = f[k]
    OBVIOUS
  <2>4. PICK x : x = f[k + 1]
    OBVIOUS
  <2>5. x = ProcessOne(s, k + 1)
    BY <1>4, <2>2, <2>3, <2>4 DEF ProcessedUpTo
  <2>6. Speaking(t, q, I, reqs, s, k) /\ k + 1 <= Len(reqs)
    BY <2>1, <2>2, <2>3
  <2>7. Speaking(t, q, I, reqs, x, k + 1)
    BY <1>5, <2>5, <2>6, SpeakingStep
  <2>8. QED
    BY <2>4, <2>7
<1> HIDE DEF S
<1>9. n \in S
  BY <1>1, <1>7, <1>8, SetInduction
<1>10. QED
  BY <1>1, <1>2, <1>9 DEF S

LEMMA ProcessText ==
  ASSUME OwnLimits, SlotInv, TextInv, Process
  PROVE  /\ TextInv' /\ (AllPresent => AllPresent')
         /\ Grown(Task, emitted, emitted', {})
         /\ OutputOK(output, emitted) => OutputOK(output', emitted')
<1>a. PICK reqs : reqs = batch.reqs
  OBVIOUS
<1>1. /\ pc = "process" /\ pc' = "receive" /\ batch' = NoBatch
      /\ running' = Processed.running /\ output' = Processed.output /\ emitted' = Processed.emitted
      /\ UNCHANGED <<input, inbox, params, pending>>
  BY DEF Process
<1>2. Whole(From(reqs, Len(reqs))) = {}
  <2>1. reqs \in Seq(Request)
    BY <1>a DEF SlotInv, RequestsOK
  <2>2. From(reqs, Len(reqs)) = {}
    BY <2>1, FromEnds
  <2>3. QED
    BY <2>2 DEF Whole
<1>3. Speaking(Task, params, ToSet(inbox), reqs, Processed, Len(reqs))
  BY <1>1, <1>a, SpeakingIs
<1>4. /\ SpokenOK(Task, emitted, params, ToSet(inbox), pending, Processed, {})
      /\ AllPresent => SpokenPresent(Task, params, ToSet(inbox), pending, Processed, {})
      /\ OutputOK(output, emitted) => OutputOK(Processed.output, Processed.emitted)
  BY <1>2, <1>3 DEF Speaking
<1>5. Awaiting' = {} /\ Ready' = running'
  <2>1. batch'.reqs = <<>> /\ DOMAIN <<>> = {} /\ pc' # "process"
    BY <1>1 DEF NoBatch
  <2>2. ToSet(batch'.reqs) = {}
    BY <2>1 DEF ToSet
  <2>3. Awaiting' = {}
    BY <2>1 DEF Awaiting
  <2>4. QED
    BY <2>2, <2>3 DEF Ready, Whole
<1>6. Task' = Task /\ prompt' = prompt /\ limit' = limit
  BY <1>1, SameTask
<1>7. Processed.running \ {} = running'
  BY <1>1
<1>8. TextOK(Task', emitted', params', ToSet(inbox'), pending', Ready', Awaiting')
  <2>1. TextOK(Task, Processed.emitted, params, ToSet(inbox), pending, Processed.running \ {}, {})
    BY <1>4 DEF SpokenOK
  <2>2. QED
    BY <1>1, <1>5, <1>6, <1>7, <2>1
<1>9. TextInv'
  <2>1. emitted' \in [Uid -> Seq(Token)]
    BY <1>1, <1>4 DEF SpokenOK
  <2>2. prompt' \in [Uid -> Seq(Nat)] /\ limit' \in [{ParamsOf[u] : u \in Uid} -> Limits] /\ Injective(inbox')
    BY <1>1, <1>6 DEF TextInv
  <2>3. QED
    BY <1>8, <2>1, <2>2 DEF TextInv
<1>10. AllPresent => AllPresent'
  BY <1>1, <1>4, <1>5, <1>6, <1>7 DEF SpokenPresent, AllPresent
<1>11. Grown(Task, emitted, emitted', {})
  BY <1>1, <1>4 DEF SpokenOK
<1>12. QED
  BY <1>1, <1>4, <1>9, <1>10, <1>11

-----------------------------------------------------------------------------
(***************************************************************************)
(* The text of every run                                                   *)
(***************************************************************************)
LEMMA TextInit ==
  ASSUME Init
  PROVE  TextInv /\ AllPresent /\ OutputOK(output, emitted)
<1>1. PICK n : n = Cardinality(Uid)
  OBVIOUS
<1>2. n \in Nat /\ Uid = 0..n - 1
  BY <1>1, QueueAssumption, FS_CardinalityType
<1>3. /\ pc = "receive" /\ pending = <<>> /\ running = {} /\ batch.reqs = <<>> /\ params = limit
      /\ prompt \in Prompts /\ limit \in [{ParamsOf[u] : u \in Uid} -> Limits]
      /\ inbox = [i \in 1..n |-> i - 1] /\ emitted = [u \in Uid |-> <<>>] /\ output = [u \in Uid |-> <<>>]
  BY <1>1 DEF Init, NoBatch
<1>4. prompt \in [Uid -> Seq(Nat)] /\ emitted \in [Uid -> Seq(Token)]
  BY <1>3, SequenceAssumption
<1>5. DOMAIN <<>> = {}
  OBVIOUS
<1>6. ToSet(pending) = {} /\ Ready = {} /\ Awaiting = {}
  BY <1>3, <1>5 DEF ToSet, Ready, Awaiting, Whole
<1>7. Injective(inbox) /\ ToSet(inbox) = Uid
  <2>1. \A i, j \in 1..n : i - 1 = j - 1 => i = j
    OBVIOUS
  <2>2. (\A i \in 1..n : i - 1 \in 0..n - 1) /\ \A u \in 0..n - 1 : u + 1 \in 1..n /\ (u + 1) - 1 = u
    BY <1>2
  <2>3. Injective(inbox)
    BY <1>3, <2>1 DEF Injective
  <2>4. ToSet(inbox) = {i - 1 : i \in 1..n}
    BY <1>3 DEF ToSet
  <2>5. QED
    BY <1>2, <2>2, <2>3, <2>4
<1>8. Works(params, ToSet(pending), Ready, Awaiting) = {}
  BY <1>6 DEF Works
<1>9. WorkOnce(ToSet(inbox), pending, Ready, Awaiting)
  BY <1>3, <1>5, <1>6 DEF WorkOnce, UidsOnce, OnePerUid, ApartFrom
<1>10. \A u \in Uid : emitted[u] = <<>> /\ params[ParamsOf[u]] = Task.limit[ParamsOf[u]]
  BY <1>3 DEF Task
<1>11. TextInv
  <2>1. TextOK(Task, emitted, params, ToSet(inbox), pending, Ready, Awaiting)
    BY <1>7, <1>8, <1>9, <1>10 DEF TextOK
  <2>2. QED
    BY <1>3, <1>4, <1>7, <2>1 DEF TextInv
<1>12. AllPresent
  BY <1>7 DEF AllPresent, Present
<1>13. OutputOK(output, emitted)
  BY <1>3 DEF OutputOK, Trimmed
<1>14. QED
  BY <1>11, <1>12, <1>13

LEMMA TextNext ==
  ASSUME OwnLimits, SlotInv, TextInv, Orderly, [Next]_vars
  PROVE  TextInv' /\ (AllPresent /\ NonePassedOver => AllPresent')
<1>1. CASE Receive
  BY <1>1, ReceiveText
<1>2. CASE Finish
  BY <1>2, NothingSaid DEF Finish, queues, history
<1>3. CASE \E u \in Abortable : Abort(u)
  BY <1>3, AbortText
<1>4. CASE SchedulePrefill
  BY <1>4, SchedulePrefillText
<1>5. CASE ScheduleDecode
  BY <1>5, ScheduleDecodeText
<1>6. CASE ScheduleNothing
  BY <1>6, NothingSaid DEF ScheduleNothing, queues, history
<1>7. CASE RejectTooLarge
  BY <1>7, NothingSaid DEF RejectTooLarge, history
<1>8. CASE Prepare
  BY <1>8, NothingSaid DEF Prepare, queues, history
<1>9. CASE Preempt
  BY <1>9, PreemptText
<1>10. CASE CannotPreempt
  BY <1>10, CannotPreemptText
<1>11. CASE GiveUp
  BY <1>11, GiveUpText
<1>12. CASE EvictError
  BY <1>12, NothingSaid DEF EvictError, queues, history
<1>13. CASE Forward
  BY <1>13, ForwardText
<1>14. CASE Process
  BY <1>14, ProcessText
<1>15. CASE UNCHANGED vars
  BY <1>15, NothingSaid DEF vars, queues, history
<1>16. CASE Ended
  BY <1>15, <1>16 DEF Ended
<1>17. QED
  BY <1>1, <1>2, <1>3, <1>4, <1>5, <1>6, <1>7, <1>8, <1>9, <1>10, <1>11, <1>12, <1>13, <1>14, <1>15,
     <1>16 DEF Next

\* The request that is too large ends the run, and leaves the text alone.
RunInv == (pc = "too_large" \/ SlotInv) /\ TextInv

LEMMA RunInvNext ==
  ASSUME OwnLimits, RunInv, Orderly, [Next]_vars
  PROVE  RunInv' /\ (AllPresent /\ NonePassedOver => AllPresent')
<1>1. CASE pc = "too_large"
  <2>1. UNCHANGED vars
    BY <1>1, RaisedStays
  <2>2. pc' = "too_large"
    BY <1>1, <2>1 DEF vars
  <2>3. TextInv' /\ (AllPresent => AllPresent')
    BY <2>1, NothingSaid DEF RunInv, vars, queues, history
  <2>4. QED
    BY <2>2, <2>3 DEF RunInv
<1>2. CASE pc # "too_large"
  BY <1>2, SlotInvNext, TextNext DEF RunInv
<1>3. QED
  BY <1>1, <1>2

LEMMA RunInvAlways ==
  ASSUME OwnLimits
  PROVE  Spec /\ []Orderly => []RunInv
<1>1. Init => RunInv
  BY SlotInvInit, TextInit DEF RunInv
<1>2. RunInv /\ Orderly /\ [Next]_vars => RunInv'
  BY RunInvNext
<1>3. QED
  BY <1>1, <1>2, PTL DEF Spec

LEMMA AllPresentAlways ==
  ASSUME OwnLimits
  PROVE  Spec /\ []Orderly /\ []NonePassedOver => []AllPresent
<1>1. Init => AllPresent
  BY TextInit
<1>2. RunInv /\ Orderly /\ NonePassedOver /\ AllPresent /\ [Next]_vars => AllPresent'
  BY RunInvNext
<1>3. QED
  BY <1>1, <1>2, RunInvAlways, PTL DEF Spec

LEMMA TextResumes ==
  ASSUME TextInv
  PROVE  ResumesWhereItStopped
<1>1. PICK t : t = Task
  OBVIOUS
<1>2. t.prompt = prompt /\ \A u \in Uid : t.bound[u] = TokenLimit(u)
  BY <1>1 DEF Task
<1>3. PICK W : W = Works(params, ToSet(pending), Ready, Awaiting)
  OBVIOUS
<1>4. WorkOnce(ToSet(inbox), pending, Ready, Awaiting)
  BY DEF TextInv, TextOK
<1>5. \A w \in W : Continues(t, emitted, w)
  BY <1>1, <1>3 DEF TextInv, TextOK
<1>6. \A x \in ToSet(pending) \cup Ready \cup Awaiting : x.uid \in Uid
  BY <1>4 DEF WorkOnce
<1>7. ASSUME NEW r \in running
      PROVE  r.ids = prompt[r.uid] \o emitted[r.uid]
  <2>1. r \in Ready \/ r \in Awaiting
    BY <1>7 DEF Ready
  <2>2. \E w \in W : w[1] = r.uid /\ w[2] = r.ids
    BY <1>3, <2>1, WorkOf, WorkIs
  <2>3. QED
    BY <1>2, <1>5, <2>2 DEF Continues
<1>8. ASSUME NEW r \in running, pc # "process"
      PROVE  RemainLen(r) = TokenLimit(r.uid) - Len(emitted[r.uid])
  <2>1. r \in Ready
    BY <1>8, NoneAwaited
  <2>2. r.uid \in Uid
    BY <1>6, <2>1
  <2>3. \E w \in W : w[1] = r.uid /\ w[3] = RemainLen(r)
    BY <1>3, <2>1, WorkOf, WorkIs
  <2>4. QED
    BY <1>2, <1>5, <2>2, <2>3 DEF Continues
<1>9. ASSUME NEW i \in DOMAIN pending
      PROVE  /\ pending[i].ids = prompt[pending[i].uid] \o emitted[pending[i].uid]
             /\ MaxOutputLen(params, pending[i]) = TokenLimit(pending[i].uid) - Len(emitted[pending[i].uid])
  <2>1. PICK e : e = pending[i]
    OBVIOUS
  <2>2. e \in ToSet(pending)
    BY <1>9, <2>1 DEF ToSet
  <2>3. e.uid \in Uid
    BY <1>6, <2>2
  <2>4. \E w \in W : w[1] = e.uid /\ w[2] = e.ids /\ w[3] = MaxOutputLen(params, e)
    BY <1>3, <2>2, WorkOf, WorkIs
  <2>5. QED
    BY <1>2, <1>5, <2>1, <2>3, <2>4 DEF Continues
<1>10. QED
  BY <1>7, <1>8, <1>9 DEF ResumesWhereItStopped

\* As long as no step loses or doubles what a request holds, each request of
\* the running batch and each entry of the queue carries the prompt and every
\* token sampled for it, and what is left of its limit: the chunks of a long
\* prompt (prefill.py), the entries a preempted batch leaves in the queue
\* (_preempt_decode_batch) and the trimmed requests of _process_last_data all
\* resume without decoding a token again. Each prompt has a SamplingParams
\* object of its own, as generate_request_batch gives it; what the one object
\* of a batch with one limit does to them is not proved.
THEOREM ResumesAlways ==
  ASSUME OwnLimits
  PROVE  Spec /\ []Orderly => []ResumesWhereItStopped
<1>1. RunInv => ResumesWhereItStopped
  BY TextResumes DEF RunInv
<1>2. QED
  BY <1>1, RunInvAlways, PTL

-----------------------------------------------------------------------------
(***************************************************************************)
(* Each prompt once, its output, and the promise                           *)
(***************************************************************************)
LEMMA AtMostOne ==
  ASSUME NEW S, \A x, y \in S : x = y
  PROVE  Cardinality(S) = IF S = {} THEN 0 ELSE 1
<1>1. CASE S = {}
  BY <1>1, FS_EmptySet
<1>2. CASE S # {}
  <2>1. PICK x \in S : S = {x}
    BY <1>2
  <2>2. Cardinality({x}) = 1
    BY FS_Singleton
  <2>3. QED
    BY <1>2, <2>1, <2>2
<1>3. QED
  BY <1>1, <1>2

\* Where a uid is at the end of an iteration.
InInbox(u) == {i \in DOMAIN inbox : inbox[i] = u}

InQueue(u) == {i \in DOMAIN pending : pending[i].uid = u}

InRunning(u) == {r \in running : r.uid = u}

LEMMA PlacesAre ==
  ASSUME TextInv, Awaiting = {}, Ready = running, NEW u
  PROVE  /\ Cardinality(InInbox(u)) = IF u \in ToSet(inbox) THEN 1 ELSE 0
         /\ Cardinality(InQueue(u)) = IF \E e \in ToSet(pending) : e.uid = u THEN 1 ELSE 0
         /\ Cardinality(InRunning(u)) = IF \E r \in running : r.uid = u THEN 1 ELSE 0
         /\ ~ ((\E e \in ToSet(pending) : e.uid = u) /\ (\E r \in running : r.uid = u))
         /\ u \in ToSet(inbox) => ~ \E x \in ToSet(pending) \cup running : x.uid = u
<1>1. Injective(inbox) /\ WorkOnce(ToSet(inbox), pending, running, {})
  BY DEF TextInv, TextOK
<1>2. running \cup {} = running /\ ToSet(pending) \cup running \cup {} = ToSet(pending) \cup running
  OBVIOUS
<1>3. /\ UidsOnce(pending) /\ OnePerUid(running) /\ ApartFrom(ToSet(pending), running)
      /\ \A x \in ToSet(pending) \cup running : x.uid \notin ToSet(inbox)
  BY <1>1, <1>2 DEF WorkOnce
<1>4. Cardinality(InInbox(u)) = IF u \in ToSet(inbox) THEN 1 ELSE 0
  <2>1. \A x, y \in InInbox(u) : x = y
    BY <1>1 DEF Injective, InInbox
  <2>2. InInbox(u) = {} <=> u \notin ToSet(inbox)
    BY DEF InInbox, ToSet
  <2>3. Cardinality(InInbox(u)) = IF InInbox(u) = {} THEN 0 ELSE 1
    BY <2>1, AtMostOne
  <2>4. QED
    BY <2>2, <2>3
<1>5. Cardinality(InQueue(u)) = IF \E e \in ToSet(pending) : e.uid = u THEN 1 ELSE 0
  <2>1. \A x, y \in InQueue(u) : x = y
    BY <1>3 DEF UidsOnce, InQueue
  <2>2. InQueue(u) = {} <=> ~ \E e \in ToSet(pending) : e.uid = u
    BY DEF InQueue, ToSet
  <2>3. Cardinality(InQueue(u)) = IF InQueue(u) = {} THEN 0 ELSE 1
    BY <2>1, AtMostOne
  <2>4. QED
    BY <2>2, <2>3
<1>6. Cardinality(InRunning(u)) = IF \E r \in running : r.uid = u THEN 1 ELSE 0
  <2>1. \A x, y \in InRunning(u) : x = y
    BY <1>3 DEF OnePerUid, InRunning
  <2>2. InRunning(u) = {} <=> ~ \E r \in running : r.uid = u
    BY DEF InRunning
  <2>3. Cardinality(InRunning(u)) = IF InRunning(u) = {} THEN 0 ELSE 1
    BY <2>1, AtMostOne
  <2>4. QED
    BY <2>2, <2>3
<1>7. QED
  BY <1>3, <1>4, <1>5, <1>6 DEF ApartFrom

LEMMA CompleteIs ==
  ASSUME NEW u \in Uid
  PROVE  Said(Task, emitted, u) <=> Complete(u)
<1>1. Task.bound[u] = TokenLimit(u)
  BY DEF Task
<1>2. QED
  BY <1>1 DEF Said, Complete

\* Who has work is not complete.
LEMMA WorkNotSaid ==
  ASSUME OwnLimits, TextInv, NEW w \in Works(params, ToSet(pending), Ready, Awaiting)
  PROVE  w[1] \in Uid /\ ~ Said(Task, emitted, w[1])
<1>1. /\ WorkOnce(ToSet(inbox), pending, Ready, Awaiting) /\ Continues(Task, emitted, w)
      /\ emitted \in [Uid -> Seq(Token)]
  BY DEF TextInv, TextOK
<1>2. w[1] \in Uid
  BY <1>1, WorkUids
<1>3. PICK bound \in Int : bound = Task.bound[w[1]]
  BY <1>2, TaskIs DEF TaskOK
<1>4. PICK n \in Nat : n = Len(emitted[w[1]])
  BY <1>1, <1>2
<1>5. bound - n > 0
  BY <1>1, <1>3, <1>4 DEF Continues
<1>6. ~ n >= bound
  BY <1>5
<1>7. QED
  BY <1>1, <1>2, <1>3, <1>4, <1>6 DEF Said, Continues

LEMMA AtReceive ==
  ASSUME SlotInv, pc \in {"receive", "done"}
  PROVE  Awaiting = {} /\ Ready = running
<1>1. batch.reqs = <<>> /\ DOMAIN <<>> = {}
  BY DEF SlotInv, BatchOK, NoBatch
<1>2. ToSet(batch.reqs) = {}
  BY <1>1 DEF ToSet
<1>3. QED
  BY <1>2, NoneAwaited DEF Whole

LEMMA OnceIs ==
  ASSUME OwnLimits, RunInv, AllPresent
  PROVE  EachPromptOnce
<1>1. SUFFICES ASSUME pc = "receive", NEW u \in Uid \ Abortable
               PROVE  Cardinality(InInbox(u)) + Cardinality(InQueue(u)) + Cardinality(InRunning(u))
                        = IF Complete(u) /\ u \notin ToSet(inbox) THEN 0 ELSE 1
  BY DEF EachPromptOnce, InInbox, InQueue, InRunning
<1>2. SlotInv /\ TextInv /\ Awaiting = {} /\ Ready = running
  BY <1>1, AtReceive DEF RunInv
<1>3. /\ Cardinality(InInbox(u)) = IF u \in ToSet(inbox) THEN 1 ELSE 0
      /\ Cardinality(InQueue(u)) = IF \E e \in ToSet(pending) : e.uid = u THEN 1 ELSE 0
      /\ Cardinality(InRunning(u)) = IF \E r \in running : r.uid = u THEN 1 ELSE 0
      /\ ~ ((\E e \in ToSet(pending) : e.uid = u) /\ (\E r \in running : r.uid = u))
      /\ u \in ToSet(inbox) => ~ \E x \in ToSet(pending) \cup running : x.uid = u
  BY <1>2, PlacesAre
<1>4. CASE u \in ToSet(inbox)
  BY <1>3, <1>4
<1>5. CASE u \notin ToSet(inbox) /\ \E x \in ToSet(pending) \cup running : x.uid = u
  <2>1. ~ Complete(u)
    <3>1. PICK w \in Works(params, ToSet(pending), Ready, Awaiting) : w[1] = u
      BY <1>2, <1>5, WorkOf
    <3>2. ~ Said(Task, emitted, u)
      BY <1>2, <3>1, WorkNotSaid
    <3>3. QED
      BY <3>2, CompleteIs
  <2>2. QED
    BY <1>3, <1>5, <2>1
<1>6. CASE u \notin ToSet(inbox) /\ ~ \E x \in ToSet(pending) \cup running : x.uid = u
  <2>1. ~ \E w \in Works(params, ToSet(pending), Ready, Awaiting) : w[1] = u
    BY <1>2, <1>6, WorkIs DEF Works
  <2>2. Said(Task, emitted, u)
    BY <1>6, <2>1 DEF AllPresent, Present
  <2>3. Complete(u)
    BY <2>2, CompleteIs
  <2>4. QED
    BY <1>3, <1>6, <2>3
<1>7. QED
  BY <1>4, <1>5, <1>6

\* When moreover no round passes over an entry (the break after a request
\* that only partly fits, schedule_next_batch), a prompt that was not aborted
\* is, between two iterations of overlap_loop, in the inbox, the queue or the
\* running set exactly once until its last token is sampled, and nowhere
\* afterwards: no order of admission, chunks, preemption and completion loses
\* it or serves it twice.
THEOREM OnceAlways ==
  ASSUME OwnLimits
  PROVE  Spec /\ []Orderly /\ []NonePassedOver => []EachPromptOnce
<1>1. RunInv /\ AllPresent => EachPromptOnce
  BY OnceIs
<1>2. QED
  BY <1>1, RunInvAlways, AllPresentAlways, PTL

\* A batch that finds no room has no running request to give up.
Unpreempted == NoRoom => running = {}

LEMMA OutputNext ==
  ASSUME OwnLimits, RunInv, OutputOK(output, emitted), Unpreempted, [Next]_vars
  PROVE  OutputOK(output', emitted')
<1>1. CASE Process
  <2>1. SlotInv /\ TextInv
    BY <1>1 DEF Process, RunInv
  <2>2. QED
    BY <1>1, <2>1, ProcessText
<1>2. ASSUME ~ Process
      PROVE  UNCHANGED <<output, emitted>>
  BY <1>2 DEF Next, Receive, Finish, Abort, SchedulePrefill, ScheduleDecode, ScheduleNothing, RejectTooLarge,
     Prepare, Unpreempted, Preempt, CannotPreempt, GiveUp, EvictError, Forward, Ended, vars, history
<1>3. QED
  BY <1>1, <1>2

\* As long as no batch without room meets running requests, what
\* offline_send_result has written for a prompt is the tokens sampled for it,
\* without the end of the text: nothing is sampled and not written, or
\* written twice. The hypothesis excludes the preemption whose request starts
\* its output anew.
THEOREM OutputAlways ==
  ASSUME OwnLimits
  PROVE  Spec /\ []Orderly /\ []Unpreempted => []OutputIsWhatWasSampled
<1>1. Init => OutputOK(output, emitted)
  BY TextInit
<1>2. RunInv /\ Unpreempted /\ OutputOK(output, emitted) /\ [Next]_vars => OutputOK(output, emitted)'
  <2>1. OutputOK(output', emitted') => OutputOK(output, emitted)'
    BY DEF OutputOK, Trimmed
  <2>2. QED
    BY <2>1, OutputNext
<1>3. OutputOK(output, emitted) => OutputIsWhatWasSampled
  BY DEF OutputOK, Trimmed, OutputIsWhatWasSampled
<1>4. QED
  BY <1>1, <1>2, <1>3, RunInvAlways, PTL DEF Spec

\* Every prompt has its last token.
AllSaid == \A u \in Uid : Said(Task, emitted, u)

LEMMA FinishedAll ==
  ASSUME Abortable = {}, RunInv, AllPresent, Finish
  PROVE  AllSaid
<1>1. pc = "receive" /\ pending = <<>> /\ running = {} /\ inbox = <<>> /\ DOMAIN <<>> = {}
  BY DEF Finish, Idle
<1>2. SlotInv
  BY <1>1 DEF RunInv
<1>3. Awaiting = {} /\ Ready = {}
  BY <1>1, <1>2, AtReceive
<1>4. ToSet(pending) = {} /\ ToSet(inbox) = {}
  BY <1>1 DEF ToSet
<1>5. Works(params, ToSet(pending), Ready, Awaiting) = {}
  BY <1>3, <1>4 DEF Works
<1>6. QED
  BY <1>4, <1>5 DEF AllPresent, Present, AllSaid

LEMMA PromiseGrows ==
  ASSUME OwnLimits, TextInv, SlotInv, Process
  PROVE  Promise!Grow \/ UNCHANGED Promise!vars
<1>1. /\ Grown(Task, emitted, emitted', {}) /\ TextInv'
      /\ pc = "process" /\ pc' = "receive" /\ UNCHANGED input
  BY ProcessText DEF Process
<1>2. Outcome = "running" /\ Outcome' = "running"
  BY <1>1 DEF Outcome, Stopped
<1>3. emitted \in [Uid -> Seq(Token)] /\ emitted' \in [Uid -> Seq(Token)]
  BY <1>1 DEF TextInv
<1>4. Task' = Task
  BY <1>1, SameTask
<1>5. [u \in Uid |-> TokenLimit(u)]' = [u \in Uid |-> TokenLimit(u)]
  BY <1>4 DEF Task
<1>6. CASE emitted' = emitted
  BY <1>2, <1>5, <1>6 DEF Promise!vars
<1>7. CASE emitted' # emitted
  <2> DEFINE S == {u \in Uid : emitted'[u] # emitted[u]}
             token == [u \in S |-> CHOOSE k \in Token : emitted'[u] = Append(emitted[u], k)]
  <2>1. \A u \in S : /\ \E k \in Token : emitted'[u] = Append(emitted[u], k)
                     /\ ~ Said(Task, emitted, u)
    BY <1>1 DEF Grown
  <2>2. token \in [S -> Token] /\ \A u \in S : emitted'[u] = Append(emitted[u], token[u])
    BY <2>1
  <2>3. S # {}
    BY <1>3, <1>7
  <2>4. S \in SUBSET {u \in Uid : ~ Promise!Ended(u)}
    <3>1. \A u \in Uid : Task.bound[u] = TokenLimit(u) /\ [v \in Uid |-> TokenLimit(v)][u] = TokenLimit(u)
      BY DEF Task
    <3>2. \A u \in Uid : Promise!Ended(u) <=> Said(Task, emitted, u)
      BY <3>1 DEF Promise!Ended, Said, Last
    <3>3. QED
      BY <2>1, <3>2
  <2>5. emitted' = [u \in Uid |-> IF u \in S THEN Append(emitted[u], token[u]) ELSE emitted[u]]
    BY <1>3, <2>2
  <2> HIDE DEF S, token
  <2>6. Promise!Grow
    BY <1>2, <1>5, <2>2, <2>3, <2>4, <2>5 DEF Promise!Grow
  <2>7. QED
    BY <2>6
<1>8. QED
  BY <1>6, <1>7

LEMMA PromiseStep ==
  ASSUME OwnLimits, Abortable = {}, RunInv, AllPresent, [Next]_vars
  PROVE  Promise!Next \/ UNCHANGED Promise!vars
<1>1. CASE pc = "too_large"
  <2>1. UNCHANGED vars
    BY <1>1, RaisedStays
  <2>2. UNCHANGED <<input, pc, emitted>>
    BY <2>1 DEF vars, history
  <2>3. Task' = Task
    BY <2>2, SameTask
  <2>4. UNCHANGED Promise!vars
    BY <2>2, <2>3 DEF Promise!vars, Outcome, Stopped, Task
  <2>5. QED
    BY <2>4
<1>2. CASE pc # "too_large" /\ Process
  <2>1. Promise!Grow \/ UNCHANGED Promise!vars
    BY <1>2, PromiseGrows DEF RunInv
  <2>2. QED
    BY <2>1 DEF Promise!Next
<1>3. CASE pc # "too_large" /\ ~ Process
  <2>1. /\ UNCHANGED <<input, emitted>>
        /\ Finish => pc = "receive" /\ pc' = "done"
        /\ Outcome' = Outcome \/ Finish \/ (Outcome = "running" /\ Outcome' = "raised")
    <3>1. UNCHANGED <<input, emitted>>
      BY <1>3 DEF Next, Receive, Finish, Abort, SchedulePrefill, ScheduleDecode, ScheduleNothing, RejectTooLarge,
         Prepare, NoRoom, Preempt, CannotPreempt, GiveUp, EvictError, Forward, Ended, vars, history
    <3>2. \/ Finish
          \/ pc' = pc
          \/ pc \notin {"done", "too_large", "evict_error"} /\ pc' # "done"
      BY <1>3 DEF Next, Receive, Abort, SchedulePrefill, ScheduleDecode, ScheduleNothing, RejectTooLarge,
         Prepare, NoRoom, Preempt, CannotPreempt, GiveUp, EvictError, Forward, Ended, vars, history
    <3>3. CASE pc' = pc
      BY <3>1, <3>3 DEF Outcome, Stopped, Finish
    <3>4. CASE pc \notin {"done", "too_large", "evict_error"} /\ pc' # "done"
      <4>1. Outcome = "running" /\ (Outcome' = "running" \/ Outcome' = "raised")
        BY <3>4 DEF Outcome, Stopped
      <4>2. QED
        BY <3>1, <3>4, <4>1 DEF Finish
    <3>5. CASE Finish
      BY <3>1, <3>5 DEF Finish
    <3>6. QED
      BY <3>2, <3>3, <3>4, <3>5
  <2>2. Task' = Task
    BY <2>1, SameTask
  <2>3. [u \in Uid |-> TokenLimit(u)]' = [u \in Uid |-> TokenLimit(u)]
    BY <2>2 DEF Task
  <2>4. CASE Finish
    <3>1. AllSaid
      BY <2>4, FinishedAll
    <3>2. \A u \in Uid : Promise!Ended(u)
      <4>1. \A u \in Uid : Task.bound[u] = TokenLimit(u) /\ [v \in Uid |-> TokenLimit(v)][u] = TokenLimit(u)
        BY DEF Task
      <4>2. QED
        BY <3>1, <4>1 DEF AllSaid, Said, Promise!Ended, Last
    <3>3. Outcome = "running" /\ Outcome' = "returned"
      BY <2>1, <2>4 DEF Outcome, Stopped
    <3>4. Promise!Return
      BY <2>1, <2>3, <3>2, <3>3 DEF Promise!Return
    <3>5. QED
      BY <3>4 DEF Promise!Next
  <2>5. CASE Outcome' = Outcome
    BY <2>1, <2>3, <2>5 DEF Promise!vars
  <2>6. CASE Outcome = "running" /\ Outcome' = "raised"
    BY <2>1, <2>3, <2>6 DEF Promise!Raise, Promise!Next
  <2>7. QED
    BY <2>1, <2>4, <2>5, <2>6
<1>4. QED
  BY <1>1, <1>2, <1>3

LEMMA PromiseInit ==
  ASSUME OwnLimits, Init
  PROVE  Promise!Init
<1>1. TextInv
  BY TextInit
<1>2. \A u \in Uid : TokenLimit(u) \in Int
  <2>1. TaskOK(Task)
    BY <1>1, TaskIs
  <2>2. QED
    BY <2>1 DEF TaskOK, Task
<1>3. pc = "receive" /\ emitted = [u \in Uid |-> <<>>]
  BY DEF Init
<1>4. Outcome = "running"
  BY <1>3 DEF Outcome, Stopped
<1>5. QED
  BY <1>2, <1>3, <1>4 DEF Promise!Init

\* The scheduler loop implements what a rollout promises (module Rollout),
\* for every number of prompts, slots and pages: each step lets some prompts
\* grow by one token, none beyond its limit or past its end, or returns when
\* every prompt is complete, or raises, or changes nothing a caller sees.
\* Chunked prefill, eviction, preemption and the retry of allocation are
\* stutters.
THEOREM PromiseKept ==
  ASSUME OwnLimits, Abortable = {}
  PROVE  Spec /\ []Orderly /\ []NonePassedOver => ImplementsRollout
<1>1. Init => Promise!Init
  BY PromiseInit
<1>2. RunInv /\ AllPresent /\ [Next]_vars => [Promise!Next]_Promise!vars
  BY PromiseStep
<1>3. QED
  BY <1>1, <1>2, RunInvAlways, AllPresentAlways, PTL DEF Spec, ImplementsRollout, Promise!Spec

DoneIdle == pc = "done" => Idle /\ inbox = <<>>

LEMMA DoneStays ==
  ASSUME DoneIdle, [Next]_vars
  PROVE  DoneIdle'
<1>1. CASE Finish
  BY <1>1 DEF Finish, DoneIdle, Idle, queues
<1>2. CASE UNCHANGED vars
  BY <1>2 DEF DoneIdle, Idle, vars, queues
<1>3. CASE Process
  BY <1>3 DEF Process, DoneIdle
<1>4. CASE ~ Finish /\ ~ Process /\ ~ UNCHANGED vars
  <2>1. pc' # "done"
    BY <1>4 DEF Next, Receive, Abort, SchedulePrefill, ScheduleDecode, ScheduleNothing, RejectTooLarge,
       Prepare, NoRoom, Preempt, CannotPreempt, GiveUp, EvictError, Forward, Ended, vars
  <2>2. QED
    BY <2>1 DEF DoneIdle
<1>5. QED
  BY <1>1, <1>2, <1>3, <1>4

\* When the loop of generate ends (no message, nothing queued or running),
\* every prompt that was not aborted has all its tokens: the exit test of the
\* scheduler, which looks at its own queues only, never leaves a prompt
\* short.
THEOREM CompleteAtEnd ==
  ASSUME OwnLimits
  PROVE  Spec /\ []Orderly /\ []NonePassedOver => []AllComplete
<1>1. Init => DoneIdle
  BY DEF Init, DoneIdle
<1>2. DoneIdle /\ [Next]_vars => DoneIdle'
  BY DoneStays
<1>3. DoneIdle /\ RunInv /\ AllPresent => AllComplete
  <2>1. SUFFICES ASSUME DoneIdle, RunInv, AllPresent, pc = "done", NEW u \in Uid \ Abortable PROVE Complete(u)
    BY DEF AllComplete
  <2>2. pending = <<>> /\ running = {} /\ inbox = <<>> /\ DOMAIN <<>> = {} /\ SlotInv
    BY <2>1 DEF DoneIdle, Idle, RunInv
  <2>3. ToSet(pending) = {} /\ ToSet(inbox) = {} /\ Awaiting = {} /\ Ready = {}
    BY <2>1, <2>2, AtReceive DEF ToSet
  <2>4. Works(params, ToSet(pending), Ready, Awaiting) = {}
    BY <2>3 DEF Works
  <2>5. Said(Task, emitted, u)
    BY <2>1, <2>3, <2>4 DEF AllPresent, Present
  <2>6. QED
    BY <2>5, CompleteIs
<1>4. QED
  BY <1>1, <1>2, <1>3, RunInvAlways, AllPresentAlways, PTL DEF Spec
=============================================================================
