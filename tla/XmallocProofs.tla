---------------------------- MODULE XmallocProofs ----------------------------
(***************************************************************************)
(* Proofs about xmalloc.c: until is_freelist_sane(), which the program      *)
(* asserts between its calls, finds the heap damaged (Intact), the blocks   *)
(* the program holds and the blocks of the free list tile what sbrk() gave  *)
(* (HeapTiled), and xfree() leaves no free block touching the one it freed  *)
(* (FreeCoalesces).                                                         *)
(*                                                                          *)
(* The free list is a chain of next and prev fields in memory.  Linked says *)
(* that a set of blocks is threaded by such a chain, Tiles that blocks and  *)
(* foreign bytes cover the heap without overlap, Apart that no two free     *)
(* blocks touch, and HeapOK joins them.  Each function of xmalloc.c gets    *)
(* one lemma saying what it does to the fields and one saying what it does  *)
(* to HeapOK; the last part puts them together action by action.            *)
(***************************************************************************)
EXTENDS Xmalloc, TLAPS, WellFoundedInduction, FiniteSetTheorems

USE ZenonT(30)

\* A nonempty set of natural numbers has a least element.
LEMMA LeastNatural ==
    ASSUME NEW T \in SUBSET Nat, T # {}
    PROVE  \E n \in T : \A k \in T : n <= k
<1> DEFINE R == {ss \in Nat \X Nat : ss[1] < ss[2]}
<1>1. IsWellFoundedOn(R, Nat)
  BY NatLessThanWellFounded DEF OpToRel
<1>2. \A k, n \in Nat : k < n => <<k, n>> \in R
  OBVIOUS
<1> HIDE DEF R
<1>3. PICK n \in T : \A k \in T : ~(<<k, n>> \in R)
  BY <1>1, WFMin
<1>4. \A k \in T : ~(k < n)
  BY <1>2, <1>3
<1>5. \A k \in T : k \in Nat /\ n \in Nat
  OBVIOUS
<1> QED  BY <1>4, <1>5, SMTT(30)

\* The functions that follow the next links from start.
Follows(m, start, f) ==
    f = [k \in 0..HeapLimit |->
            IF k = 0 THEN start
            ELSE IF f[k - 1] = NULL THEN NULL ELSE m.next[f[k - 1]]]

\* The k-th block from start, as the recursion in Nodes() finds it.
Nth(m, start) == CHOOSE f : Follows(m, start, f)

\* Nodes(), the walk of the free list, lists the blocks Nth() finds up to NULL.
LEMMA NodesNth ==
    ASSUME NEW m, NEW start
    PROVE  LET n == CHOOSE k \in 0..HeapLimit :
                        /\ Nth(m, start)[k] = NULL
                        /\ \A j \in 0..k - 1 : Nth(m, start)[j] # NULL
           IN  Nodes(m, start) = [k \in 1..n |-> Nth(m, start)[k - 1]]
  BY DEF Nodes, Nth, Follows

\* The recursion of Nodes() defines a function: one of each length exists.
LEMMA NthRecursion ==
    ASSUME NEW m, NEW start, HeapLimit \in Nat
    PROVE  /\ Nth(m, start)[0] = start
           /\ \A k \in 1..HeapLimit :
                 Nth(m, start)[k] = IF Nth(m, start)[k - 1] = NULL THEN NULL
                                    ELSE m.next[Nth(m, start)[k - 1]]
<1> DEFINE Step(a) == IF a = NULL THEN NULL ELSE m.next[a]
           Part(n, f) == f = [k \in 0..n |-> IF k = 0 THEN start ELSE Step(f[k - 1])]
           T == {n \in Nat : ~\E f : Part(n, f)}
<1> HIDE DEF Step
<1>1. T = {}
  <2> SUFFICES ASSUME T # {} PROVE FALSE
    OBVIOUS
  <2>1. PICK n \in T : \A k \in T : n <= k
    BY LeastNatural
  <2>4. n \in Nat
    OBVIOUS
  <2>2. CASE n = 0
    <3>1. Part(n, [k \in 0..n |-> start])
      BY <2>2, SMTT(30)
    <3> QED  BY <3>1
  <2>3. CASE n # 0
    <3> HIDE DEF T
    <3>1. n - 1 \in Nat /\ n - 1 \notin T
      BY <2>1, <2>3, <2>4, SMTT(30)
    <3> USE DEF T
    <3>2. PICK g : Part(n - 1, g)
      BY <3>1
    <3> DEFINE f == [k \in 0..n |-> IF k < n THEN g[k] ELSE Step(g[n - 1])]
    <3>3. Part(n, f)
      BY <2>3, <3>2, SMTT(30)
    <3> HIDE DEF f
    <3> QED  BY <3>3
  <2> QED  BY <2>2, <2>3
<1>2. \E f : Part(HeapLimit, f)
  BY <1>1
<1>3. \A f : Follows(m, start, f) <=> Part(HeapLimit, f)
  BY DEF Follows, Step
<1>4. Follows(m, start, Nth(m, start))
  BY <1>2, <1>3 DEF Nth
<1>5. Part(HeapLimit, Nth(m, start))
  BY <1>3, <1>4
<1> QED  BY <1>5, SMTT(30) DEF Step

\* F is the set of the nodes met by following next from start, in an increasing
\* address order.
Linked(m, start, F) ==
    /\ IF F = {} THEN start = NULL ELSE start \in F /\ \A f \in F : start <= f
    /\ \A f \in F : IF m.next[f] = NULL THEN \A g \in F : g <= f
                    ELSE /\ m.next[f] \in F /\ f < m.next[f]
                         /\ \A g \in F : g <= f \/ m.next[f] <= g

\* The sequence s lists the set F in an increasing order along next.
Lists(m, start, F, s) ==
    /\ s \in Seq(Addr)
    /\ \A k \in 1..Len(s) : s[k] \in F
    /\ \A f \in F : \E k \in 1..Len(s) : s[k] = f
    /\ \A j, k \in 1..Len(s) : j < k => s[j] < s[k]
    /\ s # <<>> => s[1] = start /\ m.next[s[Len(s)]] = NULL
    /\ \A k \in 1..Len(s) - 1 : m.next[s[k]] = s[k + 1]

\* The list that Nodes() follows is the set its links describe: following next
\* from the first block ends, misses no block and goes up in addresses.
LEMMA NodesList ==
    ASSUME NEW m, NEW start, NEW F \in SUBSET Addr, Linked(m, start, F)
    PROVE  Lists(m, start, F, Nodes(m, start))
<1> DEFINE N == Nth(m, start)
<1>0. HeapLimit \in Nat /\ HeapLimit > 0
  BY SizesAssumption, SMTT(30)
<1>a. \A f \in F : f \in Nat /\ f > 0 /\ f <= HeapLimit
  BY <1>0, SMTT(30) DEF Addr
<1>1. /\ N[0] = start
      /\ \A k \in 1..HeapLimit : N[k] = IF N[k - 1] = NULL THEN NULL ELSE m.next[N[k - 1]]
  BY <1>0, NthRecursion, SMTT(30)
<1> DEFINE Good(k) == N[k] # NULL => N[k] \in F /\ N[k] > k
           IsEnd(k) == N[k] = NULL /\ \A j \in 0..k - 1 : N[j] # NULL
           n == CHOOSE k \in 0..HeapLimit : IsEnd(k)
<1>2. Nodes(m, start) = [k \in 1..n |-> N[k - 1]]
  BY NodesNth
<1> HIDE DEF N
<1>3. \A k \in 0..HeapLimit : Good(k)
  <2> DEFINE T == {k \in Nat : k <= HeapLimit /\ ~Good(k)}
  <2> SUFFICES ASSUME T # {} PROVE FALSE
    BY <1>0, SMTT(30)
  <2>1. PICK k \in T : \A j \in T : k <= j
    BY LeastNatural
  <2>2. k \in 0..HeapLimit /\ ~Good(k)
    BY <1>0, SMTT(30)
  <2>3. k # 0
    <3>1. start = NULL \/ start \in F
      BY DEF Linked
    <3>2. Good(0)
      BY <3>1, <1>1, <1>a
    <3> QED  BY <3>2, <2>2
  <2>4. k - 1 \notin T
    <3> HIDE DEF T
    <3> QED  BY <2>1, <2>2, <1>0, SMTT(30)
  <2>5. Good(k - 1)
    BY <2>2, <2>3, <2>4, <1>0, SMTT(30)
  <2>6. N[k] = IF N[k - 1] = NULL THEN NULL ELSE m.next[N[k - 1]]
    BY <1>1, <2>2, <2>3, <1>0, SMTT(30)
  <2>7. CASE N[k - 1] = NULL
    BY <2>6, <2>7, <2>2
  <2>8. CASE N[k - 1] # NULL
    <3>1. N[k - 1] \in F /\ N[k - 1] > k - 1
      BY <2>5, <2>8
    <3>2. N[k] = NULL \/ (N[k] \in F /\ N[k - 1] < N[k])
      BY <2>6, <2>8, <3>1 DEF Linked
    <3>3. N[k - 1] \in Nat /\ (N[k] # NULL => N[k] \in Nat /\ N[k] \in F)
      BY <3>1, <3>2, <1>a
    <3>4. N[k] # NULL => N[k] > k
      BY <3>1, <3>2, <3>3, <2>2, <1>0, SMTT(30)
    <3> QED  BY <3>3, <3>4, <2>2
  <2> QED  BY <2>7, <2>8
<1>4. N[HeapLimit] = NULL
  <2>1. Good(HeapLimit)
    BY <1>3, <1>0, SMTT(30)
  <2> QED  BY <2>1, <1>a, <1>0, SMTT(30)
<1>5. n \in 0..HeapLimit /\ IsEnd(n)
  <2> DEFINE T == {k \in Nat : k <= HeapLimit /\ N[k] = NULL}
  <2>1. T # {} /\ T \in SUBSET Nat
    BY <1>4, <1>0, SMTT(30)
  <2>2. PICK k \in T : \A j \in T : k <= j
    BY <2>1, LeastNatural
  <2>3. k \in 0..HeapLimit /\ N[k] = NULL
    BY <1>0, SMTT(30)
  <2>4. \A j \in 0..k - 1 : N[j] # NULL
    <3> SUFFICES ASSUME NEW j \in 0..k - 1, N[j] = NULL PROVE FALSE
      OBVIOUS
    <3>1. j \in Nat /\ j <= HeapLimit /\ j < k
      BY <2>3, <1>0, SMTT(30)
    <3>2. j \in T
      BY <3>1
    <3> HIDE DEF T
    <3> QED  BY <3>1, <3>2, <2>2, <2>3, <1>0, SMTT(30)
  <2>5. \E e \in 0..HeapLimit : IsEnd(e)
    BY <2>3, <2>4
  <2> QED  BY <2>5
<1> HIDE DEF n
<1> DEFINE s == Nodes(m, start)
<1>6. \A k \in 1..n : s[k] = N[k - 1] /\ N[k - 1] \in F
  BY <1>2, <1>3, <1>5, <1>0, SMTT(30)
<1>7. s \in Seq(Addr) /\ Len(s) = n
  <2>1. \A k \in 1..n : N[k - 1] \in Addr
    BY <1>6
  <2>2. [k \in 1..n |-> N[k - 1]] \in Seq(Addr) /\ Len([k \in 1..n |-> N[k - 1]]) = n
    BY <2>1, <1>5, <1>0, SMTT(30)
  <2> QED  BY <2>2, <1>2
<1> HIDE DEF s
<1>8. /\ n \in Nat
      /\ \A k \in 1..n : s[k] \in F
      /\ \A k \in 1..n - 1 : m.next[s[k]] = s[k + 1]
      /\ n > 0 => m.next[s[n]] = NULL
  <2>1. \A k \in 1..n : N[k] = m.next[s[k]]
    BY <1>1, <1>5, <1>6, <1>0, SMTT(30)
  <2> QED  BY <2>1, <1>5, <1>6, <1>0, SMTT(30)
<1>9. ASSUME NEW j \in 1..n PROVE \A k \in 1..n : j < k => s[j] < s[k]
  <2> DEFINE T == {k \in Nat : j < k /\ k <= n /\ ~(s[j] < s[k])}
  <2> SUFFICES ASSUME T # {} PROVE FALSE
    BY <1>8, SMTT(30)
  <2>1. PICK k \in T : \A i \in T : k <= i
    BY LeastNatural
  <2>2. k \in Nat /\ j < k /\ k <= n /\ ~(s[j] < s[k])
    OBVIOUS
  <2>3. k - 1 \notin T
    <3> HIDE DEF T
    <3> QED  BY <2>1, <2>2, <1>8, SMTT(30)
  <2>4. k - 1 = j \/ s[j] < s[k - 1]
    BY <2>2, <2>3, <1>8, SMTT(30)
  <2>5. s[k - 1] < s[k]
    <3>1. k - 1 \in 1..n /\ k \in 1..n /\ s[k] = m.next[s[k - 1]]
      BY <2>2, <1>8, SMTT(30)
    <3>2. s[k - 1] \in F /\ s[k] \in F /\ s[k] # NULL
      BY <3>1, <1>8, <1>a, SMTT(30) DEF NULL
    <3> QED  BY <3>1, <3>2 DEF Linked
  <2>6. s[j] \in Nat /\ s[k - 1] \in Nat /\ s[k] \in Nat
    BY <2>2, <1>8, <1>a, SMTT(30)
  <2> QED  BY <2>2, <2>4, <2>5, <2>6, SMTT(30)
<1>10. ASSUME NEW f \in F PROVE \E k \in 1..n : s[k] = f
  <2> DEFINE Below(k) == N[k] # NULL /\ N[k] < f
             T == {k \in Nat : k <= n /\ ~Below(k)}
  <2> SUFFICES ASSUME \A k \in 1..n : s[k] # f PROVE FALSE
    OBVIOUS
  <2>1. n \in T
    BY <1>5, <1>8, SMTT(30)
  <2>2. PICK k \in T : \A i \in T : k <= i
    BY <2>1, LeastNatural
  <2>3. k \in Nat /\ k <= n /\ ~Below(k)
    OBVIOUS
  <2>4. start # NULL /\ start \in F /\ start <= f
    BY <1>a, SMTT(30) DEF Linked, NULL
  <2>5. n # 0
    BY <1>1, <1>5, <2>4
  <2>6. k # 0
    <3>1. s[1] = start /\ 1 \in 1..n
      BY <1>1, <1>6, <1>8, <2>5, SMTT(30)
    <3>2. start < f
      BY <3>1, <2>4, <1>a, SMTT(30)
    <3> QED  BY <3>2, <2>3, <2>4, <1>1
  <2>7. Below(k - 1)
    <3>1. k - 1 \notin T
      <4> HIDE DEF T
      <4> QED  BY <2>2, <2>3, <2>6, <1>8, SMTT(30)
    <3> QED  BY <3>1, <2>3, <2>6, <1>8, SMTT(30)
  <2>8. k \in 1..n /\ s[k] = N[k - 1] /\ s[k] \in F /\ N[k] = m.next[s[k]]
    BY <1>1, <1>5, <1>6, <1>8, <2>3, <2>6, <2>7, <1>0, SMTT(30)
  <2>9. s[k] < f /\ s[k] \in Nat /\ f \in Nat
    BY <2>7, <2>8, <1>a
  <2>11. N[k] # NULL
    <3> SUFFICES ASSUME N[k] = NULL PROVE FALSE
      OBVIOUS
    <3>1. f <= s[k]
      BY <2>8 DEF Linked
    <3> QED  BY <3>1, <2>9, SMTT(30)
  <2>12. N[k] \in F /\ N[k] <= f
    <3>1. N[k] \in F /\ (f <= s[k] \/ N[k] <= f)
      BY <2>8, <2>11 DEF Linked
    <3> QED  BY <3>1, <2>9, SMTT(30)
  <2>13. N[k] # f
    <3>1. k # n
      BY <2>11, <1>5
    <3>2. k + 1 \in 1..n /\ s[k + 1] = N[k]
      BY <3>1, <2>8, <1>6, <1>8, SMTT(30)
    <3> QED  BY <3>2
  <2>14. N[k] \in Nat
    BY <2>12, <1>a
  <2> QED  BY <2>3, <2>9, <2>11, <2>12, <2>13, <2>14, SMTT(30)
<1>11. n > 0 => s[1] = start
  BY <1>1, <1>6, <1>8, SMTT(30)
<1>12. s # <<>> => n > 0
  BY <1>7, <1>8, SMTT(30)
<1>13. Lists(m, start, F, s)
  BY <1>7, <1>8, <1>9, <1>10, <1>11, <1>12 DEF Lists
<1> QED  BY <1>13 DEF s

-----------------------------------------------------------------------------
(* The inductive invariant.                                                *)

\* The types of the headers: links are addresses or NULL, lengths are not
\* negative.
Memory == [FreeList : 0..HeapLimit, prev : [Addr -> 0..HeapLimit],
           next : [Addr -> 0..HeapLimit], length : [Addr -> Nat]]

\* The first address above block b.
End(m, b) == b + HDR + m.length[b]

\* The free blocks F, the client's blocks L and the foreign cells X tile the
\* heap below top.
Tiles(m, F, L, top, X) ==
    /\ F \subseteq Addr /\ L \subseteq Addr /\ F \cap L = {}
    /\ top \in 1..HeapLimit + 1
    /\ \A b \in F \cup L : End(m, b) <= top
    /\ \A b, c \in F \cup L : b < c => End(m, b) <= c
    /\ \A a \in X : a \in 1..top - 1 /\ \A b \in F \cup L : a < b \/ End(m, b) <= a
    /\ \A a \in 1..top - 1 : a \in X \/ \E b \in F \cup L : b <= a /\ a < End(m, b)

\* The headers of the client's blocks have no links, which the first block that
\* goes into an empty list relies on.
Quiet(m, L) == \A b \in L : m.prev[b] = NULL /\ m.next[b] = NULL

\* No two free blocks touch.
Apart(m, F) == \A f, g \in F : End(m, f) # g

\* The client's blocks are as long as it asked for.
Served(m, lv) ==
    /\ lv \subseteq [b : Addr, size : Nat]
    /\ \A x, y \in lv : x.b = y.b => x = y
    /\ \A x \in lv : m.length[x.b] >= x.size

Starts(lv) == {x.b : x \in lv}

HeapOK(m, F, lv, top, X) ==
    /\ m \in Memory
    /\ Linked(m, m.FreeList, F)
    /\ Tiles(m, F, Starts(lv), top, X)
    /\ Quiet(m, Starts(lv))
    /\ Apart(m, F)
    /\ Served(m, lv)

FreeSet(m) == Range(FreeNodes(m))

\* The inductive invariant: while no assertion of the client has failed, the
\* links, the tiling and the client's blocks are right.
IInv == Intact => HeapOK(mem, FreeSet(mem), live, brk, foreign)

\* Every prev link is the inverse of next.
BackAt(m, F, f) == IF f = m.FreeList THEN m.prev[f] = NULL
                   ELSE m.prev[f] \in F /\ m.next[m.prev[f]] = f

BackLinked(m, F) == \A f \in F : BackAt(m, F, f)

-----------------------------------------------------------------------------
(* The list functions.                                                     *)

\* The constants are the positive numbers they are assumed to be.
LEMMA Constants ==
    /\ HDR \in Nat /\ HDR > 0 /\ HeapLimit \in Nat /\ WORD \in Nat
    /\ MIN_HEAP_ALLOC_SIZE \in Nat /\ HDR < MIN_HEAP_ALLOC_SIZE /\ HeapLimit < WORD
    /\ MIN_HEAP_FREE_SIZE \in Nat /\ MIN_HEAP_FREE_SIZE > 0
    /\ Sizes \in SUBSET Nat
    /\ \A a \in Addr : a \in Nat /\ a > 0 /\ a <= HeapLimit
  BY SizesAssumption, SMTT(30) DEF Addr

\* The free list is the set its links describe.
LEMMA FreeSetIs ==
    ASSUME NEW m, NEW F \in SUBSET Addr, Linked(m, m.FreeList, F)
    PROVE  FreeSet(m) = F
<1> DEFINE s == Nodes(m, m.FreeList)
<1>1. Lists(m, m.FreeList, F, s)
  BY NodesList
<1>2. FreeSet(m) = {s[k] : k \in DOMAIN s}
  BY DEF FreeSet, FreeNodes, Range
<1> HIDE DEF s
<1>3. DOMAIN s = 1..Len(s) /\ \A k \in 1..Len(s) : s[k] \in F
  BY <1>1, SMTT(30) DEF Lists
<1>4. \A f \in F : \E k \in DOMAIN s : s[k] = f
  BY <1>1, <1>3 DEF Lists
<1> QED  BY <1>2, <1>3, <1>4

\* is_freelist_sane() checks the inverse of every next link.
LEMMA SaneIsBackLinked ==
    ASSUME NEW m, NEW F \in SUBSET Addr, Linked(m, m.FreeList, F), is_freelist_sane(m)
    PROVE  BackLinked(m, F)
<1> DEFINE s == Nodes(m, m.FreeList)
<1>1. Lists(m, m.FreeList, F, s)
  BY NodesList
<1>2. \A k \in DOMAIN s : m.prev[s[k]] = IF k = 1 THEN NULL ELSE s[k - 1]
  BY DEF is_freelist_sane, FreeNodes
<1> HIDE DEF s
<1>3. DOMAIN s = 1..Len(s) /\ Len(s) \in Nat
  BY <1>1, SMTT(30) DEF Lists
<1> SUFFICES ASSUME NEW f \in F
             PROVE  IF f = m.FreeList THEN m.prev[f] = NULL
                    ELSE m.prev[f] \in F /\ m.next[m.prev[f]] = f
  BY DEF BackLinked, BackAt
<1>4. PICK k \in 1..Len(s) : s[k] = f
  BY <1>1 DEF Lists
<1>5. s # <<>> /\ s[1] = m.FreeList
  BY <1>1, <1>3, SMTT(30) DEF Lists
<1>6. CASE k = 1
  BY <1>2, <1>3, <1>4, <1>5, <1>6
<1>7. CASE k # 1
  <2>1. k - 1 \in 1..Len(s) /\ k - 1 \in 1..Len(s) - 1 /\ 1 \in 1..Len(s) /\ 1 < k
    BY <1>3, <1>7, SMTT(30)
  <2>2. s[k - 1] \in F /\ m.next[s[k - 1]] = s[k] /\ s[1] < s[k] /\ s[1] \in F
    BY <1>1, <2>1, SMTT(30) DEF Lists
  <2>3. f # m.FreeList
    BY <2>2, <1>4, <1>5, Constants, SMTT(30)
  <2> QED  BY <2>1, <2>2, <2>3, <1>2, <1>3, <1>4, <1>7
<1> QED  BY <1>6, <1>7
\* What a list function may do: the lengths and the links of the blocks that are
\* not in F are kept, and the links of F are right.
ListOf(r, m, F) ==
    /\ r \in Memory
    /\ r.length = m.length
    /\ \A c \in Addr \ F : r.prev[c] = m.prev[c] /\ r.next[c] = m.next[c]
    /\ Linked(r, r.FreeList, F)

\* freelist_insert() adds a block that has no links to the list, in its place.
LEMMA InsertOK ==
    ASSUME NEW m \in Memory, NEW F \in SUBSET Addr, NEW b \in Addr \ F,
           Linked(m, m.FreeList, F), BackLinked(m, F),
           m.prev[b] = NULL, m.next[b] = NULL
    PROVE  LET r == freelist_insert(m, b)
           IN  ListOf(r, m, F \cup {b}) /\ BackLinked(r, F \cup {b})
<1> DEFINE list == Nodes(m, m.FreeList)
           above == {k \in DOMAIN list : b <= list[k]}
           k == Min(above)
           last == list[Len(list)]
           r == freelist_insert(m, b)
<1>1. Lists(m, m.FreeList, F, list)
  BY NodesList
<1> HIDE DEF list
<1>2. /\ list \in Seq(Addr) /\ Len(list) \in Nat /\ DOMAIN list = 1..Len(list)
      /\ \A i \in 1..Len(list) : list[i] \in F
      /\ \A f \in F : \E i \in 1..Len(list) : list[i] = f
      /\ \A i, j \in 1..Len(list) : i < j => list[i] < list[j]
  BY <1>1, SMTT(30) DEF Lists
<1>m. /\ m.FreeList \in 0..HeapLimit /\ m.prev \in [Addr -> 0..HeapLimit]
      /\ m.next \in [Addr -> 0..HeapLimit]
      /\ m = [FreeList |-> m.FreeList, prev |-> m.prev, next |-> m.next, length |-> m.length]
      /\ b \in 0..HeapLimit
  BY Constants, SMTT(30) DEF Memory
<1>3. CASE list = <<>>
  <2>1. F = {}
    BY <1>2, <1>3, SMTT(30)
  <2>2. r = [m EXCEPT !.FreeList = b]
    BY <1>3 DEF freelist_insert, FreeNodes, list
  <2>3. r \in Memory /\ r.FreeList = b /\ r.prev = m.prev /\ r.next = m.next /\ r.length = m.length
    BY <2>2, <1>m DEF Memory
  <2> HIDE DEF r
  <2>4. Linked(r, r.FreeList, F \cup {b}) /\ BackLinked(r, F \cup {b})
    BY <2>1, <2>3, Constants, SMTT(30) DEF Linked, BackLinked, BackAt
  <2> QED  BY <2>3, <2>4 DEF ListOf, r
<1>4. CASE list # <<>> /\ above = {}
  <2>1. Len(list) \in 1..Len(list)
    BY <1>2, <1>4, SMTT(30)
  <2>2. /\ last \in F /\ last < b /\ m.next[last] = NULL
        /\ \A f \in F : f < b /\ f <= last
        /\ m.FreeList \in F
    <3>1. last \in F /\ m.next[last] = NULL /\ m.FreeList \in F
      BY <1>1, <1>2, <1>4, <2>1, SMTT(30) DEF Lists
    <3>2. \A f \in F : f < b
      BY <1>2, <1>4, Constants, SMTT(30)
    <3>3. \A f \in F : f <= last
      BY <1>2, <2>1, Constants, SMTT(30)
    <3> QED  BY <3>1, <3>2, <3>3
  <2>3. r = [m EXCEPT !.next = [@ EXCEPT ![last] = b, ![b] = NULL], !.prev[b] = last]
    BY <1>4 DEF freelist_insert, FreeNodes, list
  <2> HIDE DEF last, r
  <2>4. r = [FreeList |-> m.FreeList, prev |-> [m.prev EXCEPT ![b] = last],
             next |-> [m.next EXCEPT ![last] = b, ![b] = NULL], length |-> m.length]
    BY <2>3, <1>m
  <2>5. /\ r.FreeList = m.FreeList /\ r.length = m.length
        /\ \A c \in Addr : /\ r.prev[c] = IF c = b THEN last ELSE m.prev[c]
                           /\ r.next[c] = IF c = b THEN NULL
                                          ELSE IF c = last THEN b ELSE m.next[c]
    BY <2>4, <2>2, <1>m DEF NULL
  <2>6. r \in Memory
    BY <2>4, <2>2, <1>m, Constants, SMTT(30) DEF Memory, NULL
  <2>7. Linked(r, r.FreeList, F \cup {b})
    BY <2>5, <2>2, Constants, SMTT(30) DEF Linked, NULL
  <2>8. BackLinked(r, F \cup {b})
    BY <2>5, <2>2, Constants, SMTT(30) DEF BackLinked, BackAt, NULL
  <2>9. \A c \in Addr \ (F \cup {b}) : r.prev[c] = m.prev[c] /\ r.next[c] = m.next[c]
    BY <2>5, <2>2
  <2> QED  BY <2>5, <2>6, <2>7, <2>8, <2>9 DEF ListOf, r
<1>5. CASE list # <<>> /\ above # {}
  <2> DEFINE n == list[k]
             p == list[k - 1]
  <2>1. k \in above /\ \A j \in above : k <= j
    <3>1. above \in SUBSET Nat
      BY <1>2, SMTT(30)
    <3>2. \E i \in above : \A j \in above : i <= j
      BY <3>1, <1>5, LeastNatural
    <3> QED  BY <3>2 DEF Min
  <2>2. k \in 1..Len(list) /\ n \in F /\ b < n
    BY <2>1, <1>2, Constants, SMTT(30)
  <2>3. \A j \in 1..Len(list) : j < k => list[j] < b
    <3> SUFFICES ASSUME NEW j \in 1..Len(list), j < k PROVE list[j] < b
      OBVIOUS
    <3>1. j \notin above
      <4> HIDE DEF above, k
      <4> QED  BY <2>1, <2>2, <1>2, SMTT(30)
    <3> QED  BY <3>1, <1>2, Constants, SMTT(30)
  <2>4. \A f \in F : f < b \/ n <= f
    <3> SUFFICES ASSUME NEW f \in F PROVE f < b \/ n <= f
      OBVIOUS
    <3>1. PICK j \in 1..Len(list) : list[j] = f
      BY <1>2
    <3> HIDE DEF k
    <3>2. j < k \/ j = k \/ k < j
      BY <2>2, <1>2, SMTT(30)
    <3> QED  BY <3>1, <3>2, <2>2, <2>3, <1>2, Constants, SMTT(30)
  <2>5. r = LET m1 == [m EXCEPT !.next[b] = n,
                                !.prev = [@ EXCEPT ![b] = m.prev[n], ![n] = b]]
            IN  IF k > 1 THEN [m1 EXCEPT !.next[p] = b] ELSE [m1 EXCEPT !.FreeList = b]
    <3>1. list[k] # b
      BY <2>2
    <3> QED  BY <3>1, <1>5 DEF freelist_insert, FreeNodes, list
  <2>6. CASE k > 1
    <3>1. p \in F /\ p < b /\ m.next[p] = n /\ n # m.FreeList /\ m.FreeList \in F
      <4> HIDE DEF k
      <4>1. k - 1 \in 1..Len(list) /\ k - 1 < k /\ k - 1 \in 1..Len(list) - 1 /\ 1 \in 1..Len(list)
        BY <2>2, <2>6, <1>2, SMTT(30)
      <4>2. /\ p \in F /\ p < b /\ m.next[p] = list[k - 1 + 1]
            /\ list[1] = m.FreeList /\ list[1] < list[k] /\ list[1] \in F
        BY <4>1, <2>2, <2>3, <2>6, <1>1, <1>2, <1>5 DEF Lists
      <4> QED  BY <4>2, <2>2, <1>2, Constants, SMTT(30)
    <3>2. m.prev[n] = p
      <4>1. m.prev[n] \in F /\ m.next[m.prev[n]] = n
        BY <3>1, <2>2 DEF BackLinked, BackAt
      <4> HIDE DEF p, n
      <4>2. m.prev[n] < n /\ p < n /\ (p <= m.prev[n] \/ n <= p) /\ (m.prev[n] <= p \/ n <= m.prev[n])
        BY <4>1, <3>1, <2>2, Constants, SMTT(30) DEF Linked, NULL
      <4> QED  BY <4>1, <4>2, <3>1, <2>2, Constants, SMTT(30)
    <3> HIDE DEF k, n, p, r
    <3> DEFINE m1 == [m EXCEPT !.next[b] = n, !.prev = [@ EXCEPT ![b] = p, ![n] = b]]
    <3>3. /\ r = [m1 EXCEPT !.next[p] = b]
          /\ n \in 0..HeapLimit /\ p \in 0..HeapLimit /\ n \in Addr /\ p \in Addr
      BY <2>2, <2>5, <2>6, <3>1, <3>2, Constants, SMTT(30)
    <3>5. /\ m1 \in Memory /\ m1.FreeList = m.FreeList /\ m1.length = m.length
          /\ m1.next = [m.next EXCEPT ![b] = n]
          /\ m1.prev = [m.prev EXCEPT ![b] = p, ![n] = b]
      BY <1>m, <3>3 DEF Memory
    <3> HIDE DEF m1
    <3>9. /\ r \in Memory /\ r.FreeList = m.FreeList /\ r.length = m.length
          /\ r.next = [m1.next EXCEPT ![p] = b] /\ r.prev = m1.prev
      BY <1>m, <3>3, <3>5 DEF Memory
    <3>4. \A c \in Addr : /\ r.prev[c] = IF c = n THEN b ELSE IF c = b THEN p ELSE m.prev[c]
                          /\ r.next[c] = IF c = p THEN b ELSE IF c = b THEN n ELSE m.next[c]
      BY <3>3, <3>5, <3>9, <1>m, SMTT(30)
    <3>6. Linked(r, r.FreeList, F \cup {b})
      BY <3>4, <3>9, <3>1, <2>2, <2>4, Constants, SMTT(30) DEF Linked, NULL
    <3>7. BackLinked(r, F \cup {b})
      BY <3>4, <3>9, <3>1, <3>2, <2>2, <2>4, Constants, SMTT(30)
         DEF Linked, BackLinked, BackAt, NULL
    <3>8. \A c \in Addr \ (F \cup {b}) : r.prev[c] = m.prev[c] /\ r.next[c] = m.next[c]
      BY <3>4, <3>1, <2>2
    <3> QED  BY <3>9, <3>6, <3>7, <3>8 DEF ListOf, r
  <2>7. CASE ~(k > 1)
    <3>1. n = m.FreeList /\ m.prev[n] = NULL /\ \A f \in F : b < f
      <4>1. k = 1
        BY <2>2, <2>7, SMTT(30)
      <4>2. n = m.FreeList
        BY <4>1, <1>1, <1>5 DEF Lists
      <4>3. \A f \in F : n <= f
        BY <4>2, <2>2 DEF Linked
      <4> HIDE DEF n
      <4> QED  BY <4>2, <4>3, <2>2, Constants, SMTT(30) DEF BackLinked, BackAt
    <3> HIDE DEF k, n, p, r
    <3> DEFINE m1 == [m EXCEPT !.next[b] = n, !.prev = [@ EXCEPT ![b] = NULL, ![n] = b]]
    <3>3. r = [m1 EXCEPT !.FreeList = b] /\ n \in 0..HeapLimit /\ NULL \in 0..HeapLimit
      BY <2>2, <2>5, <2>7, <3>1, Constants, SMTT(30) DEF NULL
    <3>5. /\ m1 \in Memory /\ m1.length = m.length
          /\ m1.next = [m.next EXCEPT ![b] = n]
          /\ m1.prev = [m.prev EXCEPT ![b] = NULL, ![n] = b]
      BY <1>m, <3>3 DEF Memory
    <3> HIDE DEF m1
    <3>9. /\ r \in Memory /\ r.FreeList = b /\ r.length = m.length
          /\ r.next = m1.next /\ r.prev = m1.prev
      BY <1>m, <3>3, <3>5 DEF Memory
    <3>4. \A c \in Addr : /\ r.prev[c] = IF c = n THEN b ELSE IF c = b THEN NULL ELSE m.prev[c]
                          /\ r.next[c] = IF c = b THEN n ELSE m.next[c]
      BY <3>3, <3>5, <3>9, <1>m, SMTT(30)
    <3>6. Linked(r, r.FreeList, F \cup {b})
      BY <3>4, <3>9, <3>1, <2>2, <2>4, Constants, SMTT(30) DEF Linked, NULL
    <3>7. BackLinked(r, F \cup {b})
      BY <3>4, <3>9, <3>1, <2>2, <2>4, Constants, SMTT(30)
         DEF Linked, BackLinked, BackAt, NULL
    <3>8. \A c \in Addr \ (F \cup {b}) : r.prev[c] = m.prev[c] /\ r.next[c] = m.next[c]
      BY <3>4, <3>1, <2>2
    <3> QED  BY <3>9, <3>6, <3>7, <3>8 DEF ListOf, r
  <2> QED  BY <2>6, <2>7
<1> QED  BY <1>3, <1>4, <1>5

\* What freelist_remove() assigns, in each of its four cases.
LEMMA RemoveFields ==
    ASSUME NEW m \in Memory, NEW b \in Addr
    PROVE  LET r == freelist_remove(m, b)
               prev == m.prev[b]
               next == m.next[b]
           IN  /\ r \in Memory /\ r.length = m.length
               /\ r.FreeList = IF prev = NULL THEN next ELSE m.FreeList
               /\ \A c \in Addr :
                     /\ r.next[c] = IF prev # NULL /\ c = prev THEN next ELSE m.next[c]
                     /\ r.prev[c] = IF next # NULL /\ c = next THEN prev ELSE m.prev[c]
<1> DEFINE prev == m.prev[b]
           next == m.next[b]
           r == freelist_remove(m, b)
<1>1. /\ prev \in 0..HeapLimit /\ (prev # NULL => prev \in Addr)
      /\ next \in 0..HeapLimit /\ (next # NULL => next \in Addr)
      /\ m.prev \in [Addr -> 0..HeapLimit] /\ m.next \in [Addr -> 0..HeapLimit]
      /\ m.length \in [Addr -> Nat] /\ NULL \in 0..HeapLimit
  BY Constants, SMTT(30) DEF Memory, Addr, NULL
<1> HIDE DEF prev, next
<1>2. CASE prev # NULL /\ next # NULL
  <2>1. r = [m EXCEPT !.next[prev] = next, !.prev[next] = prev]
    BY <1>2 DEF freelist_remove, prev, next
  <2>2. /\ r.length = m.length /\ r.FreeList = m.FreeList
        /\ r.next = [m.next EXCEPT ![prev] = next] /\ r.prev = [m.prev EXCEPT ![next] = prev]
        /\ r = [FreeList |-> r.FreeList, prev |-> r.prev, next |-> r.next, length |-> r.length]
    BY <2>1, <1>1 DEF Memory
  <2> HIDE DEF r
  <2>3. r \in Memory
    <3>1. m.FreeList \in 0..HeapLimit
      BY DEF Memory
    <3>2. r.prev \in [Addr -> 0..HeapLimit] /\ r.next \in [Addr -> 0..HeapLimit]
      BY <2>2, <1>1, <1>2
    <3> QED  BY <2>2, <3>1, <3>2, <1>1 DEF Memory
  <2> QED  BY <2>2, <2>3, <1>1, <1>2 DEF prev, next, r
<1>3. CASE prev # NULL /\ next = NULL
  <2>1. r = [m EXCEPT !.next[prev] = NULL]
    BY <1>3 DEF freelist_remove, prev, next
  <2>2. /\ r \in Memory /\ r.length = m.length /\ r.FreeList = m.FreeList
        /\ r.next = [m.next EXCEPT ![prev] = NULL] /\ r.prev = m.prev
    BY <2>1, <1>1, <1>3 DEF Memory
  <2> QED  BY <2>2, <1>1, <1>3 DEF prev, next
<1>4. CASE prev = NULL /\ next # NULL
  <2>1. r = [m EXCEPT !.FreeList = next, !.prev[next] = NULL]
    BY <1>4 DEF freelist_remove, prev, next
  <2>2. /\ r.length = m.length /\ r.FreeList = next
        /\ r.next = m.next /\ r.prev = [m.prev EXCEPT ![next] = NULL]
        /\ r = [FreeList |-> r.FreeList, prev |-> r.prev, next |-> r.next, length |-> r.length]
    BY <2>1, <1>1 DEF Memory
  <2> HIDE DEF r
  <2>3. r \in Memory
    <3>1. m.FreeList \in 0..HeapLimit
      BY DEF Memory
    <3>2. r.prev \in [Addr -> 0..HeapLimit] /\ r.next \in [Addr -> 0..HeapLimit]
      BY <2>2, <1>1, <1>4
    <3> QED  BY <2>2, <3>1, <3>2, <1>1 DEF Memory
  <2> QED  BY <2>2, <2>3, <1>1, <1>4 DEF prev, next, r
<1>5. CASE prev = NULL /\ next = NULL
  <2>1. r = [m EXCEPT !.FreeList = NULL]
    BY <1>5 DEF freelist_remove, prev, next
  <2>2. /\ r \in Memory /\ r.length = m.length /\ r.FreeList = NULL
        /\ r.next = m.next /\ r.prev = m.prev
    BY <2>1, <1>1, <1>5 DEF Memory
  <2> QED  BY <2>2, <1>1, <1>5 DEF prev, next
<1> QED  BY <1>2, <1>3, <1>4, <1>5

\* freelist_remove() takes a block out of the list.  It relies on the block's
\* own prev link only.
LEMMA RemoveOK ==
    ASSUME NEW m \in Memory, NEW F \in SUBSET Addr, NEW b \in F,
           Linked(m, m.FreeList, F), BackAt(m, F, b)
    PROVE  LET r == freelist_remove(m, b)
           IN  /\ ListOf(r, m, F \ {b})
               /\ BackLinked(m, F) => BackLinked(r, F \ {b})
<1> DEFINE prev == m.prev[b]
           next == m.next[b]
           r == freelist_remove(m, b)
<1>1. /\ r \in Memory /\ r.length = m.length
      /\ r.FreeList = IF prev = NULL THEN next ELSE m.FreeList
      /\ \A c \in Addr :
            /\ r.next[c] = IF prev # NULL /\ c = prev THEN next ELSE m.next[c]
            /\ r.prev[c] = IF next # NULL /\ c = next THEN prev ELSE m.prev[c]
  BY RemoveFields
<1> HIDE DEF r
<1>2. /\ IF b = m.FreeList THEN prev = NULL
         ELSE prev \in F /\ m.next[prev] = b /\ prev # NULL /\ prev < b
      /\ m.FreeList \in F /\ m.FreeList <= b
  BY Constants, SMTT(30) DEF Linked, BackAt, NULL
<1>3. IF next = NULL THEN \A g \in F : g <= b
      ELSE next \in F /\ b < next /\ \A g \in F : g <= b \/ next <= g
  BY DEF Linked
<1>4. \A f \in F : m.next[f] = b => f = prev /\ prev # NULL
  <2> SUFFICES ASSUME NEW f \in F, m.next[f] = b PROVE f = prev /\ prev # NULL
    OBVIOUS
  <2>1. f < b /\ \A g \in F : g <= f \/ b <= g
    BY Constants, SMTT(30) DEF Linked, NULL
  <2>2. b # m.FreeList
    BY <2>1, <1>2, Constants, SMTT(30) DEF Linked, NULL
  <2>3. \A g \in F : g <= prev \/ b <= g
    BY <2>2, <1>2, Constants DEF Linked, NULL
  <2> QED  BY <2>1, <2>2, <2>3, <1>2, Constants, SMTT(30)
<1>5. \A c \in Addr \ (F \ {b}) : r.prev[c] = m.prev[c] /\ r.next[c] = m.next[c]
  BY <1>1, <1>2, <1>3, Constants
<1>6. Linked(r, r.FreeList, F \ {b})
  <2>1. IF F \ {b} = {} THEN r.FreeList = NULL
        ELSE r.FreeList \in F \ {b} /\ \A f \in F \ {b} : r.FreeList <= f
    BY <1>1, <1>2, <1>3, Constants, SMTT(30) DEF Linked, NULL
  <2>2. ASSUME NEW f \in F \ {b}
        PROVE  IF r.next[f] = NULL THEN \A g \in F \ {b} : g <= f
               ELSE /\ r.next[f] \in F \ {b} /\ f < r.next[f]
                    /\ \A g \in F \ {b} : g <= f \/ r.next[f] <= g
    <3>1. CASE prev # NULL /\ f = prev
      <4>1. r.next[f] = next /\ f < b /\ \A g \in F : g <= f \/ b <= g
        BY <3>1, <1>1, <1>2, Constants DEF Linked, NULL
      <4> QED  BY <4>1, <1>3, Constants, SMTT(30)
    <3>2. CASE ~(prev # NULL /\ f = prev)
      <4>1. r.next[f] = m.next[f] /\ m.next[f] # b
        BY <3>2, <1>1, <1>4
      <4> QED  BY <4>1, Constants DEF Linked
    <3> QED  BY <3>1, <3>2
  <2> QED  BY <2>1, <2>2 DEF Linked
<1>7. ASSUME BackLinked(m, F) PROVE BackLinked(r, F \ {b})
  <2> SUFFICES ASSUME NEW f \in F \ {b} PROVE BackAt(r, F \ {b}, f)
    BY DEF BackLinked
  <2>1. BackAt(m, F, f)
    BY <1>7 DEF BackLinked
  <2>2. CASE next # NULL /\ f = next
    BY <2>2, <1>1, <1>2, <1>3, Constants, SMTT(30) DEF BackAt, NULL
  <2>3. CASE ~(next # NULL /\ f = next)
    <3>1. r.prev[f] = m.prev[f]
      BY <2>3, <1>1
    <3>2. f # m.FreeList => m.prev[f] # b
      BY <2>1, <2>3, <1>3, Constants, SMTT(30) DEF BackAt, NULL
    <3>3. f # m.FreeList => f # r.FreeList
      BY <2>3, <1>1, <1>2, <1>3, Constants, SMTT(30) DEF NULL
    <3>4. f = m.FreeList => f = r.FreeList
      BY <1>1, <1>2
    <3>5. f # m.FreeList => (m.prev[f] \in F /\ r.next[m.prev[f]] = f)
      BY <2>1, <3>2, <1>1, <1>2, <1>4 DEF BackAt
    <3> QED  BY <2>1, <3>1, <3>2, <3>3, <3>4, <3>5 DEF BackAt
  <2> QED  BY <2>2, <2>3
<1> QED  BY <1>1, <1>5, <1>6, <1>7 DEF ListOf, r

-----------------------------------------------------------------------------
(* Blocks.                                                                 *)

\* block_init() clears a header.
LEMMA InitFields ==
    ASSUME NEW m \in Memory, NEW b \in Addr
    PROVE  LET r == block_init(m, b)
           IN  /\ r \in Memory /\ r.FreeList = m.FreeList
               /\ \A c \in Addr : /\ r.prev[c] = IF c = b THEN NULL ELSE m.prev[c]
                                  /\ r.next[c] = IF c = b THEN NULL ELSE m.next[c]
                                  /\ r.length[c] = IF c = b THEN 0 ELSE m.length[c]
<1> DEFINE r == block_init(m, b)
<1>1. /\ m.prev \in [Addr -> 0..HeapLimit] /\ m.next \in [Addr -> 0..HeapLimit]
      /\ m.length \in [Addr -> Nat] /\ m.FreeList \in 0..HeapLimit /\ NULL \in 0..HeapLimit
  BY Constants, SMTT(30) DEF Memory, NULL
<1> DEFINE a == [m EXCEPT !.prev[b] = NULL]
           d == [a EXCEPT !.next[b] = NULL]
<1>2. r = [d EXCEPT !.length[b] = 0]
  BY DEF block_init
<1>3. /\ a \in Memory /\ a.FreeList = m.FreeList /\ a.next = m.next /\ a.length = m.length
      /\ a.prev = [m.prev EXCEPT ![b] = NULL]
  BY <1>1 DEF Memory
<1> HIDE DEF a
<1>4. /\ d \in Memory /\ d.FreeList = a.FreeList /\ d.prev = a.prev /\ d.length = a.length
      /\ d.next = [a.next EXCEPT ![b] = NULL]
  BY <1>1, <1>3 DEF Memory
<1> HIDE DEF d, r
<1>5. /\ r \in Memory /\ r.FreeList = d.FreeList /\ r.prev = d.prev /\ r.next = d.next
      /\ r.length = [d.length EXCEPT ![b] = 0]
  BY <1>1, <1>2, <1>3, <1>4 DEF Memory
<1> QED  BY <1>1, <1>3, <1>4, <1>5, SMTT(30) DEF r

\* What block_merge() assigns.
LEMMA MergeFields ==
    ASSUME NEW m \in Memory, NEW l \in Addr, NEW r \in Addr, l # r, m.next[r] # r
    PROVE  LET q == block_merge(m, l, r)
           IN  /\ q \in Memory /\ q.FreeList = m.FreeList
               /\ \A c \in Addr :
                     /\ q.prev[c] = IF c = r THEN NULL
                                    ELSE IF m.next[r] # NULL /\ c = m.next[r] THEN l
                                    ELSE m.prev[c]
                     /\ q.next[c] = IF c = r THEN NULL
                                    ELSE IF c = l THEN m.next[r] ELSE m.next[c]
                     /\ q.length[c] = IF c = r THEN 0
                                      ELSE IF c = l THEN m.length[l] + m.length[r] + HDR
                                      ELSE m.length[c]
<1> DEFINE next == m.next[r]
           sum == m.length[l] + m.length[r] + HDR
           m1 == [m EXCEPT !.length[l] = @ + m.length[r] + HDR, !.next[l] = next]
           m2 == IF next = NULL THEN m1 ELSE [m1 EXCEPT !.prev[next] = l]
           q == block_merge(m, l, r)
<1>1. /\ m.prev \in [Addr -> 0..HeapLimit] /\ m.next \in [Addr -> 0..HeapLimit]
      /\ m.length \in [Addr -> Nat] /\ m.FreeList \in 0..HeapLimit
      /\ next \in 0..HeapLimit /\ (next # NULL => next \in Addr) /\ sum \in Nat /\ l \in 0..HeapLimit
  <2>1. m.length \in [Addr -> Nat] /\ m.next \in [Addr -> 0..HeapLimit]
    BY DEF Memory
  <2>2. sum \in Nat /\ l \in 0..HeapLimit
    BY <2>1, Constants, SMTT(30)
  <2>3. next \in 0..HeapLimit /\ (next # NULL => next \in Addr)
    BY <2>1, Constants, SMTT(30) DEF NULL, Addr
  <2> QED  BY <2>1, <2>2, <2>3 DEF Memory
<1>2. q = block_init(m2, r)
  BY DEF block_merge
<1> DEFINE m0 == [m EXCEPT !.length[l] = @ + m.length[r] + HDR]
<1>3. /\ m0 \in Memory /\ m0.FreeList = m.FreeList /\ m0.prev = m.prev /\ m0.next = m.next
      /\ m0.length = [m.length EXCEPT ![l] = sum]
  BY <1>1 DEF Memory
<1>4. m1 = [m0 EXCEPT !.next[l] = next]
  OBVIOUS
<1> HIDE DEF m0, m1, sum, next
<1>5. /\ m1 \in Memory /\ m1.FreeList = m.FreeList /\ m1.prev = m.prev
      /\ m1.next = [m.next EXCEPT ![l] = next] /\ m1.length = [m.length EXCEPT ![l] = sum]
  BY <1>1, <1>3, <1>4 DEF Memory
<1>6. /\ m2 \in Memory /\ m2.FreeList = m.FreeList /\ m2.next = m1.next /\ m2.length = m1.length
      /\ m2.prev = IF next = NULL THEN m.prev ELSE [m.prev EXCEPT ![next] = l]
  <2>1. CASE next = NULL
    BY <2>1, <1>5
  <2>2. CASE next # NULL
    BY <2>2, <1>1, <1>5 DEF Memory
  <2> QED  BY <2>1, <2>2
<1> HIDE DEF m2
<1>7. /\ q \in Memory /\ q.FreeList = m2.FreeList
      /\ \A c \in Addr : /\ q.prev[c] = IF c = r THEN NULL ELSE m2.prev[c]
                         /\ q.next[c] = IF c = r THEN NULL ELSE m2.next[c]
                         /\ q.length[c] = IF c = r THEN 0 ELSE m2.length[c]
  <2>1. m2 \in Memory
    BY <1>6
  <2>2. LET b == block_init(m2, r)
        IN  /\ b \in Memory /\ b.FreeList = m2.FreeList
            /\ \A c \in Addr : /\ b.prev[c] = IF c = r THEN NULL ELSE m2.prev[c]
                               /\ b.next[c] = IF c = r THEN NULL ELSE m2.next[c]
                               /\ b.length[c] = IF c = r THEN 0 ELSE m2.length[c]
    BY <2>1, InitFields
  <2> HIDE DEF q
  <2> QED  BY <1>2, <2>2
<1> HIDE DEF q
<1> QED  BY <1>1, <1>5, <1>6, <1>7, SMTT(30) DEF next, sum, q

\* What joining the free blocks l and r leaves: l reaches to the end of r, which is
\* no longer in the list, and the other blocks are as they were.
MergedOK(q, m, l, r, F, L, top, X) ==
    /\ q \in Memory /\ q.FreeList = m.FreeList
    /\ q.prev[l] = m.prev[l] /\ q.next[l] = m.next[r] /\ End(q, l) = End(m, r)
    /\ \A c \in F \ {l, r} : End(q, c) = End(m, c)
    /\ \A c \in Addr \ F : /\ q.prev[c] = m.prev[c] /\ q.next[c] = m.next[c]
                           /\ q.length[c] = m.length[c]
    /\ Linked(q, q.FreeList, F \ {r}) /\ BackLinked(q, F \ {r})
    /\ Tiles(q, F \ {r}, L, top, X)

\* block_merge() joins a free block to the free block that follows it in the
\* list and in memory: the links and the tiling of the heap stay right.
LEMMA MergeOK ==
    ASSUME NEW m \in Memory, NEW F \in SUBSET Addr, NEW L, NEW top, NEW X,
           NEW l \in F, NEW r \in F,
           Linked(m, m.FreeList, F), BackLinked(m, F), Tiles(m, F, L, top, X),
           m.next[l] = r, End(m, l) = r
    PROVE  MergedOK(block_merge(m, l, r), m, l, r, F, L, top, X)
<1> DEFINE q == block_merge(m, l, r)
           n == m.next[r]
<1>0. /\ l < r /\ n # r /\ n # l /\ l # r /\ r # NULL
      /\ \A g \in F : g <= l \/ r <= g
      /\ IF n = NULL THEN \A g \in F : g <= r
         ELSE n \in F /\ r < n /\ \A g \in F : g <= r \/ n <= g
  BY Constants, SMTT(30) DEF Linked, NULL
<1>1. /\ q \in Memory /\ q.FreeList = m.FreeList
      /\ \A c \in Addr :
            /\ q.prev[c] = IF c = r THEN NULL ELSE IF n # NULL /\ c = n THEN l ELSE m.prev[c]
            /\ q.next[c] = IF c = r THEN NULL ELSE IF c = l THEN n ELSE m.next[c]
            /\ q.length[c] = IF c = r THEN 0
                             ELSE IF c = l THEN m.length[l] + m.length[r] + HDR
                             ELSE m.length[c]
  <2>1. l \in Addr /\ r \in Addr /\ l # r /\ m.next[r] # r
    BY <1>0
  <2> QED  BY <2>1, MergeFields, SMTT(30)
<1> HIDE DEF q
<1>2. \A f \in F : m.next[f] = r => f = l
  <2> SUFFICES ASSUME NEW f \in F, m.next[f] = r PROVE f = l
    OBVIOUS
  <2>1. f < r /\ \A g \in F : g <= f \/ r <= g
    BY <1>0 DEF Linked
  <2> QED  BY <2>1, <1>0, Constants, SMTT(30)
<1>3. \A c \in Addr : m.length[c] \in Nat
  BY DEF Memory
<1>4. /\ q.prev[l] = m.prev[l] /\ q.next[l] = n /\ End(q, l) = End(m, r)
      /\ \A c \in Addr \ {l, r} : End(q, c) = End(m, c)
      /\ \A c \in Addr \ F : /\ q.prev[c] = m.prev[c] /\ q.next[c] = m.next[c]
                             /\ q.length[c] = m.length[c]
  <2>1. End(q, l) = End(m, r)
    BY <1>0, <1>1, <1>3, Constants, SMTT(30) DEF End
  <2>2. \A c \in Addr \ {l, r} : End(q, c) = End(m, c)
    BY <1>1 DEF End
  <2> QED  BY <2>1, <2>2, <1>0, <1>1
<1>5. Linked(q, q.FreeList, F \ {r})
  <2>1. q.FreeList \in F \ {r} /\ \A f \in F \ {r} : q.FreeList <= f
    BY <1>0, <1>1, Constants, SMTT(30) DEF Linked
  <2>2. ASSUME NEW f \in F \ {r}
        PROVE  IF q.next[f] = NULL THEN \A g \in F \ {r} : g <= f
               ELSE /\ q.next[f] \in F \ {r} /\ f < q.next[f]
                    /\ \A g \in F \ {r} : g <= f \/ q.next[f] <= g
    <3>1. CASE f = l
      BY <3>1, <1>0, <1>4, Constants, SMTT(30)
    <3>2. CASE f # l
      <4>1. q.next[f] = m.next[f] /\ m.next[f] # r
        BY <3>2, <1>1, <1>2
      <4> QED  BY <4>1 DEF Linked
    <3> QED  BY <3>1, <3>2
  <2> QED  BY <2>1, <2>2 DEF Linked
<1>6. BackLinked(q, F \ {r})
  <2> SUFFICES ASSUME NEW f \in F \ {r} PROVE BackAt(q, F \ {r}, f)
    BY DEF BackLinked
  <2>1. BackAt(m, F, f)
    BY DEF BackLinked
  <2>2. CASE n # NULL /\ f = n
    <3>1. f # q.FreeList
      BY <2>2, <1>0, <1>1, Constants, SMTT(30) DEF Linked
    <3> QED  BY <2>2, <3>1, <1>0, <1>1 DEF BackAt
  <2>3. CASE ~(n # NULL /\ f = n)
    <3>1. q.prev[f] = m.prev[f]
      BY <2>3, <1>1
    <3>2. f # m.FreeList => m.prev[f] # r /\ m.prev[f] # l
      BY <2>1, <2>3, <1>0, Constants, SMTT(30) DEF BackAt, NULL
    <3> QED  BY <2>1, <3>1, <3>2, <1>1 DEF BackAt
  <2> QED  BY <2>2, <2>3
<1>7. Tiles(q, F \ {r}, L, top, X)
  <2>0. /\ r \notin L /\ l \notin L /\ F \subseteq Addr /\ L \subseteq Addr
        /\ F \cap L = {} /\ top \in 1..HeapLimit + 1
    BY DEF Tiles
  <2> DEFINE B == (F \ {r}) \cup L
  <2>1. /\ \A b \in F \cup L : End(m, b) <= top
        /\ \A b, c \in F \cup L : b < c => End(m, b) <= c
    BY DEF Tiles
  <2>2. /\ \A a \in X : a \in 1..top - 1 /\ \A b \in F \cup L : a < b \/ End(m, b) <= a
        /\ \A a \in 1..top - 1 : a \in X \/ \E b \in F \cup L : b <= a /\ a < End(m, b)
    BY DEF Tiles
  <2>3. \A b \in B : b \in F \cup L /\ b \in Addr /\ b # r /\ (b # l => End(q, b) = End(m, b))
    BY <2>0, <1>4
  <2>4. \A b \in Addr : b \in Nat /\ End(m, b) \in Nat /\ End(m, b) > b
    BY <1>3, Constants, SMTT(30) DEF End
  <2>5. /\ l \in B /\ End(q, l) = End(m, r) /\ End(m, l) = r /\ l < r
        /\ r \in F \cup L /\ l \in F \cup L
    BY <1>0, <1>4
  <2> HIDE DEF B
  <2>6. \A b \in B : End(q, b) <= top
    BY <2>1, <2>3, <2>5
  <2>7. \A b, c \in B : b < c => End(q, b) <= c
    <3> SUFFICES ASSUME NEW b \in B, NEW c \in B, b < c PROVE End(q, b) <= c
      OBVIOUS
    <3>1. CASE b # l
      BY <3>1, <2>1, <2>3
    <3>2. CASE b = l
      <4>1. r <= c
        BY <3>2, <2>1, <2>3, <2>5
      <4>2. r < c
        BY <4>1, <2>3, <2>5, <2>4, SMTT(30)
      <4> QED  BY <3>2, <4>2, <2>1, <2>3, <2>5
    <3> QED  BY <3>1, <3>2
  <2>8. ASSUME NEW a \in X PROVE a \in 1..top - 1 /\ \A b \in B : a < b \/ End(q, b) <= a
    <3>1. a \in 1..top - 1 /\ \A b \in F \cup L : a < b \/ End(m, b) <= a
      BY <2>2
    <3>2. a < l \/ End(m, r) <= a
      BY <3>1, <2>0, <2>4, <2>5, SMTT(30)
    <3> QED  BY <3>1, <3>2, <2>3, <2>5
  <2>9. ASSUME NEW a \in 1..top - 1, a \notin X PROVE \E b \in B : b <= a /\ a < End(q, b)
    <3>1. PICK b \in F \cup L : b <= a /\ a < End(m, b)
      BY <2>2, <2>9
    <3>2. CASE b = r
      BY <3>1, <3>2, <2>0, <2>4, <2>5, SMTT(30)
    <3>3. CASE b = l
      <4>1. End(m, l) < End(m, r)
        BY <2>4, <2>5
      <4>2. a < End(q, l)
        BY <4>1, <3>1, <3>3, <2>0, <2>4, <2>5, SMTT(30)
      <4> QED  BY <4>2, <3>1, <3>3, <2>5
    <3>4. CASE b # r /\ b # l
      BY <3>1, <3>4, <2>3 DEF B
    <3> QED  BY <3>2, <3>3, <3>4
  <2> QED  BY <2>0, <2>6, <2>7, <2>8, <2>9 DEF Tiles, B
<1> QED  BY <1>1, <1>4, <1>5, <1>6, <1>7 DEF q, MergedOK

-----------------------------------------------------------------------------
(* Taking a free block.                                                    *)

\* Arithmetic on size_t that does not wrap.
LEMMA NoWrapPlus ==
    ASSUME NEW a \in Nat, NEW b \in Nat, a + b < WORD
    PROVE  Plus(a, b) = a + b
  BY Constants, SMTT(30) DEF Plus

\* Subtraction on size_t, as in block_split()'s remainder, does not wrap below zero.
LEMMA NoWrapMinus ==
    ASSUME NEW a \in Nat, NEW b \in Nat, b <= a, a < WORD
    PROVE  Minus(a, b) = a - b
  BY Constants, SMTT(30) DEF Minus

\* The links of a list are those of its own nodes.
LEMMA LinkedSame ==
    ASSUME NEW m, NEW q, NEW start, NEW F, Linked(m, start, F),
           \A f \in F : q.next[f] = m.next[f]
    PROVE  Linked(q, start, F)
  BY DEF Linked

\* The tiling is that of the lengths, whoever holds a block.
LEMMA TilesSame ==
    ASSUME NEW m, NEW q, NEW F, NEW L, NEW F1, NEW L1, NEW top, NEW X,
           Tiles(m, F, L, top, X), F1 \cup L1 = F \cup L, F1 \cap L1 = {},
           \A b \in F \cup L : q.length[b] = m.length[b]
    PROVE  Tiles(q, F1, L1, top, X)
<1>1. \A b \in F \cup L : End(q, b) = End(m, b)
  BY DEF End
<1>2. F1 \subseteq Addr /\ L1 \subseteq Addr
  BY DEF Tiles
<1> DEFINE B == F \cup L
<1>3. /\ top \in 1..HeapLimit + 1
      /\ \A b \in B : End(m, b) <= top
      /\ \A b, c \in B : b < c => End(m, b) <= c
      /\ \A a \in X : a \in 1..top - 1 /\ \A b \in B : a < b \/ End(m, b) <= a
      /\ \A a \in 1..top - 1 : a \in X \/ \E b \in B : b <= a /\ a < End(m, b)
  BY DEF Tiles
<1>4. F1 \cup L1 = B /\ \A b \in B : End(q, b) = End(m, b)
  BY <1>1
<1> HIDE DEF B
<1>5. /\ \A b \in B : End(q, b) <= top
      /\ \A b, c \in B : b < c => End(q, b) <= c
      /\ \A a \in X : a \in 1..top - 1 /\ \A b \in B : a < b \/ End(q, b) <= a
      /\ \A a \in 1..top - 1 : a \in X \/ \E b \in B : b <= a /\ a < End(q, b)
  BY <1>3, <1>4
<1> QED  BY <1>2, <1>3, <1>4, <1>5 DEF Tiles

\* The memory after freelist_get_free_block() has chosen block b.
Taken(m, b, size) ==
    LET split == CanSplit(m, b, size)
        m1 == IF split THEN block_split(m, b, size) ELSE m
        m2 == block_init(freelist_remove(m1, b), b)
    IN  [m2 EXCEPT !.length[b] = IF split THEN size ELSE m.length[b]]

\* First fit chooses a block that fits, if the list has one.
LEMMA FirstFit ==
    ASSUME NEW m, NEW start, NEW G \in SUBSET Addr, Linked(m, start, G), NEW size
    PROVE  LET got == freelist_get_free_block(m, start, size)
           IN  \/ got.b = NULL /\ \A b \in G : ~Fits(m, b, size)
               \/ \E b \in G : /\ Fits(m, b, size)
                               /\ got.b = b /\ got.m = Taken(m, b, size)
<1> DEFINE list == Nodes(m, start)
           fit == {k \in DOMAIN list : Fits(m, list[k], size)}
           b == list[Min(fit)]
           got == freelist_get_free_block(m, start, size)
<1>1. Lists(m, start, G, list)
  BY NodesList
<1>2. got = IF \A k \in DOMAIN list : ~Fits(m, list[k], size)
            THEN [m |-> m, b |-> NULL]
            ELSE [b |-> b, m |-> Taken(m, b, size)]
  BY DEF freelist_get_free_block, Taken
<1> HIDE DEF list, got
<1>3. /\ DOMAIN list = 1..Len(list) /\ Len(list) \in Nat
      /\ \A k \in DOMAIN list : list[k] \in G
      /\ \A f \in G : \E k \in DOMAIN list : list[k] = f
  BY <1>1, SMTT(30) DEF Lists
<1>4. CASE fit = {}
  <2>1. \A k \in DOMAIN list : ~Fits(m, list[k], size)
    BY <1>4
  <2>2. got = [m |-> m, b |-> NULL]
    BY <2>1, <1>2
  <2>3. got.b = NULL
    BY <2>2
  <2>4. \A f \in G : ~Fits(m, f, size)
    BY <2>1, <1>3
  <2> QED  BY <2>3, <2>4 DEF got
<1>5. CASE fit # {}
  <2>1. \E k \in fit : \A j \in fit : k <= j
    <3>1. fit \in SUBSET Nat
      BY <1>3, SMTT(30)
    <3> QED  BY <3>1, <1>5, LeastNatural
  <2>2. Min(fit) \in fit
    BY <2>1 DEF Min
  <2>3. b \in G /\ Fits(m, b, size)
    BY <2>2, <1>3
  <2>4. got = [b |-> b, m |-> Taken(m, b, size)]
    BY <1>2, <1>5
  <2> HIDE DEF b
  <2>5. got.b = b /\ got.m = Taken(m, b, size)
    BY <2>4
  <2> QED  BY <2>3, <2>5 DEF got
<1> QED  BY <1>4, <1>5

\* What block_split() assigns, in a block that is long enough for two.
LEMMA SplitFields ==
    ASSUME NEW m \in Memory, NEW b \in Addr, NEW size \in Nat,
           End(m, b) <= HeapLimit + 1, m.length[b] >= size + HDR
    PROVE  LET q == block_split(m, b, size)
               right == b + HDR + size
           IN  /\ q \in Memory /\ q.FreeList = m.FreeList /\ right \in Addr
               /\ \A c \in Addr :
                     /\ q.prev[c] = IF c = right THEN b ELSE m.prev[c]
                     /\ q.next[c] = IF c = b THEN right
                                    ELSE IF c = right THEN m.next[b] ELSE m.next[c]
                     /\ q.length[c] = IF c = b THEN size
                                      ELSE IF c = right THEN m.length[b] - size - HDR
                                      ELSE m.length[c]
<1> DEFINE right == b + HDR + size
           rest == m.length[b] - size - HDR
           q == block_split(m, b, size)
<1>1. /\ m.prev \in [Addr -> 0..HeapLimit] /\ m.next \in [Addr -> 0..HeapLimit]
      /\ m.length \in [Addr -> Nat] /\ m.length[b] \in Nat /\ b \in 0..HeapLimit
      /\ m.next[b] \in 0..HeapLimit
  BY Constants, SMTT(30) DEF Memory
<1>2. /\ right \in Addr /\ right \in 0..HeapLimit /\ b < right /\ rest \in Nat
      /\ right < WORD /\ m.length[b] < WORD
  <2>1. PICK n \in Nat : n = m.length[b]
    BY <1>1
  <2>2. b \in Nat /\ b > 0 /\ b + HDR + n <= HeapLimit + 1 /\ n >= size + HDR
    BY <2>1, Constants DEF End
  <2>3. /\ right \in 1..HeapLimit /\ right \in 0..HeapLimit /\ b < right
        /\ n - size - HDR \in Nat /\ right < WORD /\ n < WORD
    BY <2>2, Constants, SMTT(30)
  <2> QED  BY <2>1, <2>3 DEF Addr
<1>3. right_of(b, size) = right
  <2>1. Plus(b, HDR) = b + HDR
    BY <1>2, NoWrapPlus, Constants, SMTT(30)
  <2>2. Plus(b + HDR, size) = right
    BY <1>2, NoWrapPlus, Constants, SMTT(30)
  <2> QED  BY <2>1, <2>2 DEF right_of
<1>4. Minus(Minus(m.length[b], size), HDR) = rest
  <2>1. Minus(m.length[b], size) = m.length[b] - size
    BY <1>1, <1>2, NoWrapMinus, Constants, SMTT(30)
  <2>2. Minus(m.length[b] - size, HDR) = rest
    BY <1>1, <1>2, NoWrapMinus, Constants, SMTT(30)
  <2> QED  BY <2>1, <2>2
<1> HIDE DEF right, rest
<1> DEFINE len == [[m.length EXCEPT ![right] = rest] EXCEPT ![b] = size]
           nxt == [m.next EXCEPT ![right] = m.next[b], ![b] = right]
           m1 == [m EXCEPT !.length = len]
           m2 == [m1 EXCEPT !.prev[right] = b]
<1>5. q = [m2 EXCEPT !.next = [@ EXCEPT ![right] = m.next[b], ![b] = right]]
  BY <1>3, <1>4 DEF block_split
<1>6. len \in [Addr -> Nat] /\ nxt \in [Addr -> 0..HeapLimit]
  BY <1>1, <1>2
<1>7. /\ m1 \in Memory /\ m1.FreeList = m.FreeList /\ m1.prev = m.prev /\ m1.next = m.next
      /\ m1.length = len
  <2> HIDE DEF len
  <2> QED  BY <1>6 DEF Memory
<1> HIDE DEF m1
<1>8. /\ m2 \in Memory /\ m2.FreeList = m.FreeList /\ m2.next = m.next /\ m2.length = len
      /\ m2.prev = [m.prev EXCEPT ![right] = b]
  BY <1>1, <1>2, <1>7 DEF Memory
<1> HIDE DEF m2, q
<1>9. /\ q \in Memory /\ q.FreeList = m.FreeList /\ q.prev = m2.prev /\ q.length = len
      /\ q.next = nxt
  BY <1>1, <1>2, <1>5, <1>6, <1>8 DEF Memory
<1> QED  BY <1>1, <1>2, <1>8, <1>9, SMTT(30) DEF right, rest, q

\* The only free block that another one may touch is b.
TouchesOnly(m, F, b) == \A f, g \in F : End(m, f) = g => g = b

\* What taking block b for size cells leaves: the free blocks G and the client's
\* blocks L with b, whose headers have no links and which is long enough.
TakenOK(t, m, b, size, G, L, top, X) ==
    /\ t \in Memory /\ Linked(t, t.FreeList, G) /\ Apart(t, G)
    /\ Tiles(t, G, L \cup {b}, top, X) /\ Quiet(t, L \cup {b})
    /\ t.length[b] >= size
    /\ \A c \in L : t.length[c] = m.length[c]

\* A block used whole leaves the list.
LEMMA TakeWhole ==
    ASSUME NEW m \in Memory, NEW F \in SUBSET Addr, NEW b \in F, NEW L, NEW top, NEW X,
           NEW size \in Nat, ~CanSplit(m, b, size), m.length[b] >= size,
           Linked(m, m.FreeList, F), BackAt(m, F, b), Tiles(m, F, L, top, X), Quiet(m, L),
           TouchesOnly(m, F, b)
    PROVE  TakenOK(Taken(m, b, size), m, b, size, F \ {b}, L, top, X)
<1> DEFINE r == freelist_remove(m, b)
           i == block_init(r, b)
           t == Taken(m, b, size)
           G == F \ {b}
<1>1. ListOf(r, m, G)
  BY RemoveOK
<1>2. r \in Memory /\ b \in Addr
  BY <1>1 DEF ListOf
<1>3. /\ i \in Memory /\ i.FreeList = r.FreeList
      /\ \A c \in Addr : /\ i.prev[c] = IF c = b THEN NULL ELSE r.prev[c]
                         /\ i.next[c] = IF c = b THEN NULL ELSE r.next[c]
                         /\ i.length[c] = IF c = b THEN 0 ELSE r.length[c]
  BY <1>2, InitFields
<1>4. t = [i EXCEPT !.length[b] = m.length[b]]
  BY DEF Taken
<1>5. m.length \in [Addr -> Nat]
  BY DEF Memory
<1> HIDE DEF i, t, r
<1>6. /\ t \in Memory /\ t.FreeList = r.FreeList /\ t.prev = i.prev /\ t.next = i.next
      /\ t.length = [i.length EXCEPT ![b] = m.length[b]]
  BY <1>2, <1>3, <1>4, <1>5 DEF Memory
<1>7. \A c \in Addr : t.length[c] = m.length[c]
  <2>1. i.length \in [Addr -> Nat]
    BY <1>3 DEF Memory
  <2> QED  BY <2>1, <1>1, <1>3, <1>6 DEF ListOf
<1>8. Linked(t, t.FreeList, G)
  <2>1. Linked(r, r.FreeList, G)
    BY <1>1 DEF ListOf
  <2>2. \A f \in G : t.next[f] = r.next[f]
    BY <1>3, <1>6
  <2> QED  BY <2>1, <2>2, <1>6, LinkedSame
<1>9. L \subseteq Addr /\ F \cap L = {}
  BY DEF Tiles
<1>10. Tiles(t, G, L \cup {b}, top, X)
  <2>1. G \cup (L \cup {b}) = F \cup L /\ G \cap (L \cup {b}) = {}
    BY <1>9
  <2>2. \A c \in F \cup L : t.length[c] = m.length[c]
    BY <1>7, <1>9
  <2> QED  BY <2>1, <2>2, TilesSame, SMTT(30)
<1>11. Quiet(t, L \cup {b})
  <2>1. \A c \in L : c \in Addr \ G /\ c \in Addr /\ c # b
    BY <1>9
  <2>2. \A c \in L : t.prev[c] = NULL /\ t.next[c] = NULL
    BY <2>1, <1>1, <1>3, <1>6, SMTT(30) DEF ListOf, Quiet
  <2>3. t.prev[b] = NULL /\ t.next[b] = NULL
    BY <1>2, <1>3, <1>6
  <2> QED  BY <2>2, <2>3 DEF Quiet
<1>12. Apart(t, G)
  BY <1>7 DEF Apart, TouchesOnly, End
<1> QED  BY <1>2, <1>6, <1>7, <1>8, <1>9, <1>10, <1>11, <1>12 DEF TakenOK, t

\* A block that is long enough is split: its right part takes its place in the
\* list.
LEMMA TakeSplit ==
    ASSUME NEW m \in Memory, NEW F \in SUBSET Addr, NEW b \in F, NEW L, NEW top, NEW X,
           NEW size \in Nat, CanSplit(m, b, size), m.length[b] >= size + HDR,
           Linked(m, m.FreeList, F), BackAt(m, F, b), Tiles(m, F, L, top, X), Quiet(m, L),
           TouchesOnly(m, F, b)
    PROVE  TakenOK(Taken(m, b, size), m, b, size, (F \ {b}) \cup {b + HDR + size}, L, top, X)
<1> DEFINE right == b + HDR + size
           rest == m.length[b] - size - HDR
           q == block_split(m, b, size)
           r == freelist_remove(q, b)
           i == block_init(r, b)
           t == Taken(m, b, size)
           F1 == F \cup {right}
           G == (F \ {b}) \cup {right}
<1>0. /\ b \in Addr /\ L \subseteq Addr /\ F \cap L = {} /\ top \in 1..HeapLimit + 1
      /\ \A c \in Addr : m.length[c] \in Nat /\ End(m, c) \in Nat /\ c \in Nat /\ End(m, c) > c
      /\ End(m, b) <= top
  BY Constants, SMTT(30) DEF Tiles, Memory, End
<1>1. /\ q \in Memory /\ q.FreeList = m.FreeList /\ right \in Addr
      /\ \A c \in Addr :
            /\ q.prev[c] = IF c = right THEN b ELSE m.prev[c]
            /\ q.next[c] = IF c = b THEN right
                           ELSE IF c = right THEN m.next[b] ELSE m.next[c]
            /\ q.length[c] = IF c = b THEN size ELSE IF c = right THEN rest ELSE m.length[c]
  <2>1. End(m, b) <= HeapLimit + 1
    BY <1>0, Constants, SMTT(30)
  <2> QED  BY <2>1, <1>0, SplitFields, SMTT(30)
<1>2. /\ b < right /\ right < End(m, b) /\ right \in Nat /\ rest \in Nat
      /\ right + HDR + rest = End(m, b)
  BY <1>0, Constants, SMTT(30) DEF End
<1>3. right \notin F /\ right \notin L
  <2> SUFFICES ASSUME right \in F \cup L PROVE FALSE
    OBVIOUS
  <2>1. End(m, b) <= right
    BY <1>2 DEF Tiles
  <2> QED  BY <2>1, <1>0, <1>2, SMTT(30)
<1> HIDE DEF right, rest, q
<1>4. \A g \in F : g <= b \/ right < g
  BY <1>0, <1>2, SMTT(30) DEF Tiles
<1>5. Linked(q, q.FreeList, F1)
  <2>1. q.FreeList \in F1 /\ \A f \in F1 : q.FreeList <= f
    <3>1. m.FreeList \in F /\ \A f \in F : m.FreeList <= f
      BY DEF Linked
    <3>2. m.FreeList <= right
      BY <3>1, <1>0, <1>2, SMTT(30)
    <3> QED  BY <3>1, <3>2, <1>1
  <2>2. ASSUME NEW f \in F1
        PROVE  IF q.next[f] = NULL THEN \A g \in F1 : g <= f
               ELSE /\ q.next[f] \in F1 /\ f < q.next[f]
                    /\ \A g \in F1 : g <= f \/ q.next[f] <= g
    <3>1. CASE f = b
      <4>1. q.next[f] = right /\ right # NULL
        BY <3>1, <1>0, <1>1, Constants, SMTT(30) DEF NULL
      <4> QED  BY <3>1, <4>1, <1>0, <1>2, <1>4, SMTT(30)
    <3>2. CASE f = right
      <4>1. q.next[f] = m.next[b]
        BY <3>2, <1>1, <1>2, SMTT(30)
      <4>2. IF m.next[b] = NULL THEN \A g \in F : g <= b
            ELSE m.next[b] \in F /\ b < m.next[b] /\ \A g \in F : g <= b \/ m.next[b] <= g
        BY DEF Linked
      <4>3. \A g \in F : g \in Nat
        BY <1>0
      <4>4. CASE m.next[b] = NULL
        <5>1. \A g \in F1 : g <= right
          BY <4>2, <4>3, <4>4, <1>0, <1>2, SMTT(30)
        <5> QED  BY <5>1, <3>2, <4>1, <4>4
      <4>5. CASE m.next[b] # NULL
        <5>1. m.next[b] \in F /\ right < m.next[b]
          BY <4>2, <4>3, <4>5, <1>0, <1>4, SMTT(30)
        <5>2. \A g \in F1 : g <= right \/ m.next[b] <= g
          BY <4>2, <4>3, <4>5, <1>0, <1>2, SMTT(30)
        <5> QED  BY <5>1, <5>2, <3>2, <4>1, <4>5
      <4> QED  BY <4>4, <4>5
    <3>3. CASE f # b /\ f # right
      <4>1. q.next[f] = m.next[f] /\ f \in F
        BY <3>3, <1>1
      <4>2. IF m.next[f] = NULL THEN \A g \in F : g <= f
            ELSE m.next[f] \in F /\ f < m.next[f] /\ \A g \in F : g <= f \/ m.next[f] <= g
        BY <4>1 DEF Linked
      <4>3. f < b \/ right < f
        BY <3>3, <4>1, <1>4, <1>0, SMTT(30)
      <4>4. CASE m.next[f] = NULL
        <5>1. b <= f
          BY <4>2, <4>4
        <5> QED  BY <5>1, <4>1, <4>2, <4>3, <4>4, <1>0, <1>2, SMTT(30)
      <4>5. CASE m.next[f] # NULL
        <5>1. right <= f \/ m.next[f] <= right
          <6>1. b <= f \/ m.next[f] <= b
            BY <4>2, <4>5
          <6> QED  BY <6>1, <4>1, <4>2, <4>3, <4>5, <1>0, <1>2, SMTT(30)
        <5> QED  BY <5>1, <4>1, <4>2, <4>5
      <4> QED  BY <4>4, <4>5
    <3> QED  BY <3>1, <3>2, <3>3
  <2> QED  BY <2>1, <2>2 DEF Linked
<1>6. BackAt(q, F1, b)
  <2>1. b # right /\ q.prev[b] = m.prev[b]
    BY <1>0, <1>1, <1>2, SMTT(30)
  <2>2. b # m.FreeList => m.prev[b] \in F /\ m.next[m.prev[b]] = b /\ m.prev[b] # b
    BY <1>0, Constants, SMTT(30) DEF BackAt, Linked, NULL
  <2>3. b # m.FreeList => q.next[m.prev[b]] = b
    BY <2>2, <1>1, <1>3
  <2> QED  BY <2>1, <2>2, <2>3, <1>1 DEF BackAt
<1>7. ListOf(r, q, G)
  <2>1. F1 \in SUBSET Addr /\ b \in F1 /\ F1 \ {b} = G
    BY <1>0, <1>1, <1>2, SMTT(30)
  <2>2. q \in Memory
    BY <1>1
  <2> HIDE DEF F1, G
  <2>3. ListOf(r, q, F1 \ {b})
    BY <2>1, <2>2, <1>5, <1>6, RemoveOK
  <2> QED  BY <2>1, <2>3
<1>8. r \in Memory
  BY <1>7 DEF ListOf
<1>9. /\ i \in Memory /\ i.FreeList = r.FreeList
      /\ \A c \in Addr : /\ i.prev[c] = IF c = b THEN NULL ELSE r.prev[c]
                         /\ i.next[c] = IF c = b THEN NULL ELSE r.next[c]
                         /\ i.length[c] = IF c = b THEN 0 ELSE r.length[c]
  BY <1>0, <1>8, InitFields
<1>10. t = [i EXCEPT !.length[b] = size]
  BY DEF Taken, q
<1> HIDE DEF i, t, r
<1>11. /\ t \in Memory /\ t.FreeList = r.FreeList /\ t.prev = i.prev /\ t.next = i.next
       /\ t.length = [i.length EXCEPT ![b] = size]
  BY <1>0, <1>9, <1>10 DEF Memory
<1>12. \A c \in Addr : t.length[c] = IF c = b THEN size
                                     ELSE IF c = right THEN rest ELSE m.length[c]
  <2>1. i.length \in [Addr -> Nat]
    BY <1>9 DEF Memory
  <2> QED  BY <2>1, <1>1, <1>7, <1>9, <1>11, SMTT(30) DEF ListOf
<1>13. Linked(t, t.FreeList, G)
  <2>1. Linked(r, r.FreeList, G)
    BY <1>7 DEF ListOf
  <2>2. \A f \in G : t.next[f] = r.next[f]
    BY <1>1, <1>2, <1>9, <1>11, SMTT(30)
  <2> QED  BY <2>1, <2>2, <1>11, LinkedSame
<1>14. Quiet(t, L \cup {b})
  <2>1. \A c \in L : c \in Addr \ G /\ c \in Addr /\ c # b /\ c # right
    BY <1>0, <1>3
  <2>2. \A c \in L : t.prev[c] = NULL /\ t.next[c] = NULL
    BY <2>1, <1>1, <1>7, <1>9, <1>11, SMTT(30) DEF ListOf, Quiet
  <2>3. t.prev[b] = NULL /\ t.next[b] = NULL
    BY <1>0, <1>9, <1>11
  <2> QED  BY <2>2, <2>3 DEF Quiet
<1>15. /\ End(t, b) = right /\ End(t, right) = End(m, b)
       /\ \A c \in Addr \ {b, right} : End(t, c) = End(m, c)
  BY <1>0, <1>1, <1>2, <1>12, SMTT(30) DEF End, right
<1>16. Apart(t, G)
  <2> SUFFICES ASSUME NEW f \in G, NEW g \in G PROVE End(t, f) # g
    BY DEF Apart
  <2>1. CASE f = right
    <3>1. End(t, f) = End(m, b) /\ End(m, b) # right
      BY <2>1, <1>0, <1>2, <1>15, SMTT(30)
    <3> QED  BY <3>1 DEF TouchesOnly
  <2>2. CASE f # right /\ g = right
    <3>1. f \in F /\ f # b /\ End(t, f) = End(m, f)
      BY <2>2, <1>15
    <3>2. End(m, f) <= b \/ End(m, b) <= f
      BY <3>1, <1>0, SMTT(30) DEF Tiles
    <3> QED  BY <2>2, <3>1, <3>2, <1>0, <1>2, SMTT(30)
  <2>3. CASE f # right /\ g # right
    BY <2>3, <1>15 DEF TouchesOnly
  <2> QED  BY <2>1, <2>2, <2>3
<1>17. Tiles(t, G, L \cup {b}, top, X)
  <2> DEFINE A == F \cup L
             B == G \cup (L \cup {b})
  <2>1. /\ \A c \in A : End(m, c) <= top
        /\ \A c, d \in A : c < d => End(m, c) <= d
        /\ \A a \in X : a \in 1..top - 1 /\ \A c \in A : a < c \/ End(m, c) <= a
        /\ \A a \in 1..top - 1 : a \in X \/ \E c \in A : c <= a /\ a < End(m, c)
    BY DEF Tiles
  <2>2. /\ \A c : c \in B <=> c \in A \/ c = right
        /\ b \in A /\ right \in B /\ b \in B /\ right \notin A
        /\ \A c \in B : c \in Addr /\ c \in Nat
        /\ \A c \in A : c \in Addr /\ End(m, c) \in Nat
    BY <1>0, <1>1, <1>3
  <2>3. G \subseteq Addr /\ L \cup {b} \subseteq Addr /\ G \cap (L \cup {b}) = {}
    BY <1>0, <1>1, <1>2, <1>3, SMTT(30)
  <2> HIDE DEF A, B
  <2>4. \A c \in B : c # b /\ c # right => c \in A /\ End(t, c) = End(m, c)
    BY <2>2, <1>15
  <2>5. \A c \in B : End(t, c) <= top
    BY <2>1, <2>2, <2>4, <1>0, <1>2, <1>15, SMTT(30)
  <2>6. \A c, d \in B : c < d => End(t, c) <= d
    <3> SUFFICES ASSUME NEW c \in B, NEW d \in B, c < d PROVE End(t, c) <= d
      OBVIOUS
    <3>1. CASE c = b
      <4>1. CASE d = right
        BY <3>1, <4>1, <1>2, <1>15, SMTT(30)
      <4>2. CASE d # right
        BY <3>1, <4>2, <2>1, <2>2, <1>0, <1>2, <1>15, SMTT(30)
      <4> QED  BY <4>1, <4>2
    <3>2. CASE c = right
      <4>1. d \in A /\ b < d
        BY <3>2, <2>2, <1>0, <1>2, SMTT(30)
      <4> QED  BY <3>2, <4>1, <2>1, <2>2, <1>15
    <3>3. CASE c # b /\ c # right
      <4>1. c \in A /\ End(t, c) = End(m, c)
        BY <3>3, <2>4
      <4>2. CASE d = right
        <5>1. c < b
          BY <3>3, <4>1, <4>2, <2>1, <2>2, <1>0, <1>2, SMTT(30)
        <5> QED  BY <4>1, <4>2, <5>1, <2>1, <2>2, <1>0, <1>2, SMTT(30)
      <4>3. CASE d # right
        BY <4>1, <4>3, <2>1, <2>2
      <4> QED  BY <4>2, <4>3
    <3> QED  BY <3>1, <3>2, <3>3
  <2>7. ASSUME NEW a \in X
        PROVE  a \in 1..top - 1 /\ \A c \in B : a < c \/ End(t, c) <= a
    <3>1. a \in 1..top - 1 /\ \A c \in A : a < c \/ End(m, c) <= a
      BY <2>1
    <3>2. a < b \/ End(m, b) <= a
      BY <3>1, <2>2
    <3>3. a \in Nat
      BY <3>1, <1>0, SMTT(30)
    <3>4. \A c \in B : a < c \/ End(t, c) <= a
      BY <3>1, <3>2, <3>3, <2>2, <2>4, <1>0, <1>2, <1>15, SMTT(30)
    <3> QED  BY <3>1, <3>4
  <2>8. ASSUME NEW a \in 1..top - 1, a \notin X PROVE \E c \in B : c <= a /\ a < End(t, c)
    <3>1. PICK c \in A : c <= a /\ a < End(m, c)
      BY <2>1, <2>8
    <3>2. a \in Nat
      BY <1>0, SMTT(30)
    <3>3. CASE c = b
      <4>1. a < right \/ right <= a
        BY <3>2, <1>2, SMTT(30)
      <4> QED  BY <4>1, <3>1, <3>3, <2>2, <1>15
    <3>4. CASE c # b
      BY <3>1, <3>4, <2>2, <2>4
    <3> QED  BY <3>3, <3>4
  <2> QED  BY <2>3, <2>5, <2>6, <2>7, <2>8, <1>0 DEF Tiles, B
<1>18. t.length[b] >= size /\ \A c \in L : t.length[c] = m.length[c]
  BY <1>0, <1>3, <1>12, SMTT(30)
<1> QED  BY <1>11, <1>13, <1>14, <1>16, <1>17, <1>18 DEF TakenOK, t, right

\* A block that fits is split or used whole, and either way the heap stays tiled.
LEMMA TakeOK ==
    ASSUME NEW m \in Memory, NEW F \in SUBSET Addr, NEW b \in F, NEW L, NEW top, NEW X,
           NEW size \in Nat, size + HDR < WORD, Fits(m, b, size),
           Linked(m, m.FreeList, F), BackAt(m, F, b), Tiles(m, F, L, top, X), Quiet(m, L),
           TouchesOnly(m, F, b)
    PROVE  \E G \in SUBSET Addr : TakenOK(Taken(m, b, size), m, b, size, G, L, top, X)
<1>1. \A G : TakenOK(Taken(m, b, size), m, b, size, G, L, top, X) => G \in SUBSET Addr
  BY DEF TakenOK, Tiles
<1>2. Plus(size, HDR) = size + HDR
  BY NoWrapPlus, Constants
<1>3. CASE CanSplit(m, b, size)
  <2>1. m.length[b] >= size + HDR
    BY <1>2, <1>3 DEF CanSplit
  <2> QED  BY <1>1, <1>3, <2>1, TakeSplit
<1>4. CASE ~CanSplit(m, b, size)
  <2>1. m.length[b] >= size
    BY <1>4 DEF Fits
  <2> QED  BY <1>1, <1>4, <2>1, TakeWhole
<1> QED  BY <1>3, <1>4

\* Overwrite() clears the cells it is given and nothing else.
LEMMA OverwriteFields ==
    ASSUME NEW m \in Memory, NEW cells
    PROVE  LET q == Overwrite(m, cells)
           IN  /\ q \in Memory /\ q.FreeList = m.FreeList
               /\ \A c \in Addr : /\ q.prev[c] = IF c \in cells THEN 0 ELSE m.prev[c]
                                  /\ q.next[c] = IF c \in cells THEN 0 ELSE m.next[c]
                                  /\ q.length[c] = IF c \in cells THEN 0 ELSE m.length[c]
<1> DEFINE clear(f) == [a \in Addr |-> IF a \in cells THEN 0 ELSE f[a]]
           q == Overwrite(m, cells)
           m1 == [m EXCEPT !.prev = clear(@)]
           m2 == [m1 EXCEPT !.next = clear(@)]
<1>1. q = [m2 EXCEPT !.length = clear(@)]
  BY DEF Overwrite
<1>2. /\ m.prev \in [Addr -> 0..HeapLimit] /\ m.next \in [Addr -> 0..HeapLimit]
      /\ m.length \in [Addr -> Nat]
  BY DEF Memory
<1>3. /\ clear(m.prev) \in [Addr -> 0..HeapLimit] /\ clear(m.next) \in [Addr -> 0..HeapLimit]
      /\ clear(m.length) \in [Addr -> Nat]
  BY <1>2, Constants, SMTT(30)
<1>4. \A f : \A c \in Addr : clear(f)[c] = IF c \in cells THEN 0 ELSE f[c]
  OBVIOUS
<1> HIDE DEF clear
<1>5. /\ m1 \in Memory /\ m1.FreeList = m.FreeList /\ m1.prev = clear(m.prev)
      /\ m1.next = m.next /\ m1.length = m.length
  BY <1>3 DEF Memory
<1> HIDE DEF m1
<1>6. /\ m2 \in Memory /\ m2.FreeList = m.FreeList /\ m2.prev = m1.prev
      /\ m2.next = clear(m.next) /\ m2.length = m.length
  BY <1>3, <1>5 DEF Memory
<1> HIDE DEF m2, q
<1>7. /\ q \in Memory /\ q.FreeList = m.FreeList /\ q.prev = m1.prev
      /\ q.next = m2.next /\ q.length = clear(m.length)
  BY <1>1, <1>3, <1>6 DEF Memory
<1> QED  BY <1>4, <1>5, <1>6, <1>7, SMTT(30) DEF q

\* The client may use every cell of the block it was handed: no header is there.
LEMMA HandOK ==
    ASSUME NEW t, NEW m, NEW b \in Addr, NEW size \in Nat, NEW G \in SUBSET Addr,
           NEW lv, NEW top, NEW X,
           TakenOK(t, m, b, size, G, Starts(lv), top, X), Served(m, lv), b \notin Starts(lv)
    PROVE  HeapOK(Overwrite(t, UserCells(b, size)), G, lv \cup {[b |-> b, size |-> size]}, top, X)
<1> DEFINE cells == UserCells(b, size)
           q == Overwrite(t, cells)
           L == Starts(lv) \cup {b}
           x == [b |-> b, size |-> size]
           lw == lv \cup {x}
<1>1. /\ t \in Memory /\ Linked(t, t.FreeList, G) /\ Apart(t, G) /\ Tiles(t, G, L, top, X)
      /\ Quiet(t, L) /\ t.length[b] >= size /\ \A c \in Starts(lv) : t.length[c] = m.length[c]
  BY DEF TakenOK
<1>2. /\ q \in Memory /\ q.FreeList = t.FreeList
      /\ \A c \in Addr : /\ q.prev[c] = IF c \in cells THEN 0 ELSE t.prev[c]
                         /\ q.next[c] = IF c \in cells THEN 0 ELSE t.next[c]
                         /\ q.length[c] = IF c \in cells THEN 0 ELSE t.length[c]
  BY <1>1, OverwriteFields, SMTT(30)
<1>3. \A c \in G \cup L : c \in Addr /\ c \notin cells
  <2> SUFFICES ASSUME NEW c \in G \cup L PROVE c \in Addr /\ c \notin cells
    OBVIOUS
  <2>1. c \in Addr /\ t.length[b] \in Nat
    BY <1>1 DEF Tiles, Memory
  <2>2. b < c => End(t, b) <= c
    BY <1>1 DEF Tiles
  <2>3. c \in cells => b + HDR <= c /\ c <= b + HDR + size - 1
    BY <2>1, Constants, SMTT(30) DEF UserCells
  <2>4. c \notin cells
    BY <2>1, <2>2, <2>3, <1>1, Constants, SMTT(30) DEF End
  <2> QED  BY <2>1, <2>4
<1>4. Starts(lw) = L
  <2>1. x.b = b
    OBVIOUS
  <2> QED  BY <2>1 DEF Starts
<1> HIDE DEF q, cells, L, x
<1>5. \A c \in G \cup L : /\ q.length[c] = t.length[c] /\ q.prev[c] = t.prev[c]
                          /\ q.next[c] = t.next[c]
  BY <1>2, <1>3
<1>6. Linked(q, q.FreeList, G)
  BY <1>1, <1>2, <1>5, LinkedSame
<1>7. Tiles(q, G, L, top, X)
  <2>1. G \cap L = {}
    BY <1>1 DEF Tiles
  <2> QED  BY <2>1, <1>1, <1>5, TilesSame, SMTT(30)
<1>8. Quiet(q, L)
  BY <1>1, <1>5 DEF Quiet
<1>9. Apart(q, G)
  BY <1>1, <1>5 DEF Apart, End
<1>10. Served(q, lw)
  <2>1. x.b = b /\ x.size = size /\ x \in [b : Addr, size : Nat]
    BY DEF x
  <2>2. /\ lv \subseteq [b : Addr, size : Nat]
        /\ \A y, z \in lv : y.b = z.b => y = z
        /\ \A y \in lv : m.length[y.b] >= y.size
    BY DEF Served
  <2>3. \A y \in lv : y.b \in Starts(lv) /\ y.b # b
    BY DEF Starts
  <2>4. \A y \in lv : q.length[y.b] = m.length[y.b]
    BY <2>3, <1>1, <1>5 DEF L
  <2>5. q.length[b] >= size
    BY <1>1, <1>5 DEF L
  <2>6. lw \subseteq [b : Addr, size : Nat]
    BY <2>1, <2>2
  <2>7. \A y, z \in lw : y.b = z.b => y = z
    BY <2>1, <2>2, <2>3
  <2>8. \A y \in lw : q.length[y.b] >= y.size
    BY <2>1, <2>2, <2>4, <2>5
  <2> QED  BY <2>6, <2>7, <2>8 DEF Served
<1>11. HeapOK(q, G, lw, top, X)
  BY <1>2, <1>4, <1>6, <1>7, <1>8, <1>9, <1>10 DEF HeapOK
<1> QED  BY <1>11 DEF q, cells, x

-----------------------------------------------------------------------------
(* Freeing a block.                                                        *)

\* A free block that touches another one is followed by it in the list.
LEMMA TouchIsNext ==
    ASSUME NEW m \in Memory, NEW F \in SUBSET Addr, NEW L, NEW top, NEW X,
           Linked(m, m.FreeList, F), Tiles(m, F, L, top, X),
           NEW f \in F, NEW g \in F, End(m, f) = g
    PROVE  m.next[f] = g /\ Adjacent(m, f, g)
<1>1. f \in Nat /\ g \in Nat /\ f < g /\ m.length[f] \in Nat /\ f > 0 /\ g > 0
  BY Constants, SMTT(30) DEF Memory, End
<1>2. m.next[f] \in F /\ f < m.next[f] /\ m.next[f] <= g
  <2>1. IF m.next[f] = NULL THEN g <= f
        ELSE m.next[f] \in F /\ f < m.next[f] /\ (g <= f \/ m.next[f] <= g)
    BY DEF Linked
  <2> QED  BY <2>1, <1>1, SMTT(30)
<1>3. g <= m.next[f] /\ m.next[f] \in Nat
  <2>1. End(m, f) <= m.next[f]
    BY <1>2 DEF Tiles
  <2> QED  BY <2>1, <1>2, Constants
<1>4. m.next[f] = g
  BY <1>1, <1>2, <1>3, SMTT(30)
<1> QED  BY <1>1, <1>4, Constants, SMTT(30) DEF Adjacent, End, NULL

\* The node before b in the list is the one its prev link names.
LEMMA PrevIs ==
    ASSUME NEW m \in Memory, NEW F \in SUBSET Addr, NEW b \in F, NEW f \in F,
           Linked(m, m.FreeList, F), BackAt(m, F, b), m.next[f] = b
    PROVE  m.prev[b] = f
<1>1. f < b /\ \A g \in F : g <= f \/ b <= g
  BY Constants, SMTT(30) DEF Linked, NULL
<1>2. m.FreeList <= f /\ m.FreeList \in F
  BY DEF Linked
<1>3. m.prev[b] \in F /\ m.next[m.prev[b]] = b
  BY <1>1, <1>2, Constants, SMTT(30) DEF BackAt
<1>4. m.prev[b] < b /\ \A g \in F : g <= m.prev[b] \/ b <= g
  BY <1>3, Constants, SMTT(30) DEF Linked, NULL
<1> QED  BY <1>1, <1>3, <1>4, Constants, SMTT(30)

\* What merging leaves: the free blocks G, of which no two touch.
CoalescedOK(q, m, G, F, L, top, X) ==
    /\ q \in Memory /\ G \subseteq F /\ G # {}
    /\ Linked(q, q.FreeList, G) /\ BackLinked(q, G) /\ Apart(q, G)
    /\ Tiles(q, G, L, top, X)
    /\ \A c \in Addr \ F : /\ q.prev[c] = m.prev[c] /\ q.next[c] = m.next[c]
                           /\ q.length[c] = m.length[c]

\* The second merge of xfree(): b is the only free block that touches the next.
LEMMA CoalesceRight ==
    ASSUME NEW m \in Memory, NEW F \in SUBSET Addr, NEW b \in F, NEW L, NEW top, NEW X,
           Linked(m, m.FreeList, F), BackLinked(m, F), Tiles(m, F, L, top, X),
           \A f, g \in F : End(m, f) = g => f = b
    PROVE  LET next == m.next[b]
               q == IF Adjacent(m, b, next) THEN block_merge(m, b, next) ELSE m
           IN  \E G \in SUBSET Addr : CoalescedOK(q, m, G, F, L, top, X)
<1> DEFINE next == m.next[b]
<1>1. CASE Adjacent(m, b, next)
  <2> DEFINE q == block_merge(m, b, next)
             G == F \ {next}
  <2>1. next \in F /\ b < next
    BY <1>1 DEF Adjacent, Linked
  <2>2. m.next[b] = next /\ End(m, b) = next
    <3>1. m.length[b] \in Nat
      BY DEF Memory
    <3> QED  BY <3>1, <1>1, Constants, SMTT(30) DEF Adjacent, End
  <2> HIDE DEF next
  <2>3. /\ q \in Memory /\ End(q, b) = End(m, next)
        /\ \A c \in F \ {b, next} : End(q, c) = End(m, c)
        /\ \A c \in Addr \ F : /\ q.prev[c] = m.prev[c] /\ q.next[c] = m.next[c]
                               /\ q.length[c] = m.length[c]
        /\ Linked(q, q.FreeList, G) /\ BackLinked(q, G) /\ Tiles(q, G, L, top, X)
    <3>1. MergedOK(q, m, b, next, F, L, top, X)
      BY <2>1, <2>2, MergeOK
    <3> QED  BY <3>1 DEF MergedOK
  <2> HIDE DEF q
  <2>4. b # next /\ b \in G /\ G \in SUBSET Addr
    BY <2>1, Constants, SMTT(30)
  <2>5. Apart(q, G)
    BY <2>1, <2>3, <2>4 DEF Apart
  <2>6. CoalescedOK(q, m, G, F, L, top, X)
    BY <2>3, <2>4, <2>5 DEF CoalescedOK
  <2> QED  BY <1>1, <2>4, <2>6 DEF q, next
<1>2. CASE ~Adjacent(m, b, next)
  <2>1. Apart(m, F)
    BY <1>2, TouchIsNext, SMTT(30) DEF Apart
  <2>2. CoalescedOK(m, m, F, F, L, top, X)
    BY <2>1 DEF CoalescedOK
  <2> QED  BY <1>2, <2>2
<1> QED  BY <1>1, <1>2

\* The two merges of xfree(): when only b touches other free blocks, they leave
\* no two free blocks that touch.
LEMMA CoalesceOK ==
    ASSUME NEW m \in Memory, NEW F \in SUBSET Addr, NEW b \in F, NEW L, NEW top, NEW X,
           Linked(m, m.FreeList, F), BackLinked(m, F), Tiles(m, F, L, top, X),
           \A f, g \in F : End(m, f) = g => f = b \/ g = b
    PROVE  \E G \in SUBSET Addr : CoalescedOK(Coalesce(m, b), m, G, F, L, top, X)
<1> DEFINE prev == m.prev[b]
           next == m.next[b]
<1>0. BackAt(m, F, b)
  BY DEF BackLinked
<1>1. CASE Adjacent(m, prev, b)
  <2> DEFINE m1 == block_merge(m, prev, b)
             F1 == F \ {b}
  <2>1. prev \in F /\ m.next[prev] = b
    BY <1>0, <1>1 DEF BackAt, Adjacent
  <2>2. End(m, prev) = b
    <3>1. m.length[prev] \in Nat
      BY <2>1 DEF Memory
    <3> QED  BY <3>1, <2>1, <1>1, Constants, SMTT(30) DEF Adjacent, End
  <2> HIDE DEF prev
  <2>3. /\ m1 \in Memory /\ m1.next[prev] = next /\ End(m1, prev) = End(m, b)
        /\ \A c \in F \ {prev, b} : End(m1, c) = End(m, c)
        /\ \A c \in Addr \ F : /\ m1.prev[c] = m.prev[c] /\ m1.next[c] = m.next[c]
                               /\ m1.length[c] = m.length[c]
        /\ Linked(m1, m1.FreeList, F1) /\ BackLinked(m1, F1) /\ Tiles(m1, F1, L, top, X)
    <3>1. MergedOK(m1, m, prev, b, F, L, top, X)
      BY <2>1, <2>2, MergeOK
    <3> QED  BY <3>1 DEF MergedOK
  <2>4. Coalesce(m, b) = LET n1 == m1.next[prev]
                         IN  IF Adjacent(m1, prev, n1) THEN block_merge(m1, prev, n1) ELSE m1
    <3>1. Coalesce(m, b) = IF Adjacent(m1, prev, next) THEN block_merge(m1, prev, next) ELSE m1
      BY <1>1 DEF Coalesce, prev
    <3> HIDE DEF next, m1
    <3> QED  BY <3>1, <2>3
  <2>5. prev # b /\ prev \in F1 /\ F1 \in SUBSET Addr
    <3>1. prev < b
      BY <2>1, Constants, SMTT(30) DEF Linked, NULL
    <3> QED  BY <3>1, <2>1, Constants, SMTT(30)
  <2> HIDE DEF m1
  <2>6. \A f, g \in F1 : End(m1, f) = g => f = prev
    BY <2>3
  <2>7. PICK G \in SUBSET Addr : CoalescedOK(Coalesce(m, b), m1, G, F1, L, top, X)
    <3> HIDE DEF F1
    <3> QED  BY <2>3, <2>4, <2>5, <2>6, CoalesceRight, SMTT(30)
  <2>8. CoalescedOK(Coalesce(m, b), m, G, F, L, top, X)
    BY <2>3, <2>7 DEF CoalescedOK
  <2> QED  BY <2>8
<1>2. CASE ~Adjacent(m, prev, b)
  <2>1. \A f, g \in F : End(m, f) = g => f = b
    <3> SUFFICES ASSUME NEW f \in F, NEW g \in F, End(m, f) = g, f # b PROVE FALSE
      OBVIOUS
    <3>1. g = b
      OBVIOUS
    <3>2. m.next[f] = b /\ Adjacent(m, f, b)
      BY <3>1, TouchIsNext
    <3>3. prev = f
      BY <3>2, <1>0, PrevIs
    <3> QED  BY <3>2, <3>3, <1>2
  <2>2. Coalesce(m, b) = IF Adjacent(m, b, next) THEN block_merge(m, b, next) ELSE m
    BY <1>2 DEF Coalesce
  <2> QED  BY <2>1, <2>2, CoalesceRight, SMTT(30)
<1> QED  BY <1>1, <1>2

-----------------------------------------------------------------------------
(* The steps.                                                              *)

\* No size that the client asks for wraps around when the header is added.
NoWrap == \A size \in Sizes : size + HDR < WORD

\* What a call starts from.
LEMMA IntactHeap ==
    ASSUME IInv, Intact
    PROVE  /\ FreeSet(mem) \in SUBSET Addr
           /\ HeapOK(mem, FreeSet(mem), live, brk, foreign)
           /\ BackLinked(mem, FreeSet(mem))
<1>1. HeapOK(mem, FreeSet(mem), live, brk, foreign)
  BY DEF IInv
<1>2. FreeSet(mem) \in SUBSET Addr /\ Linked(mem, mem.FreeList, FreeSet(mem))
  BY <1>1 DEF HeapOK, Tiles
<1>3. is_freelist_sane(mem)
  BY DEF Intact
<1> QED  BY <1>1, <1>2, <1>3, SaneIsBackLinked

\* What a call has to end in.
LEMMA HeapAfter ==
    ASSUME NEW F \in SUBSET Addr, HeapOK(mem', F, live', brk', foreign')
    PROVE  IInv'
<1>1. FreeSet(mem') = F
  BY FreeSetIs DEF HeapOK
<1> QED  BY <1>1 DEF IInv

\* xmalloc() serves a block from the free list.
LEMMA ListStep ==
    ASSUME IInv, NoWrap, NEW size \in Sizes, XmallocFromList(size)
    PROVE  IInv'
<1> DEFINE F == FreeSet(mem)
           got == freelist_get_free_block(mem, mem.FreeList, size)
<1>1. Intact /\ size \in Nat /\ size + HDR < WORD
  BY Constants DEF XmallocFromList, NoWrap
<1>2. F \in SUBSET Addr /\ HeapOK(mem, F, live, brk, foreign) /\ BackLinked(mem, F)
  BY <1>1, IntactHeap
<1> HIDE DEF F
<1>3. /\ mem \in Memory /\ Linked(mem, mem.FreeList, F)
      /\ Tiles(mem, F, Starts(live), brk, foreign) /\ Quiet(mem, Starts(live))
      /\ Apart(mem, F) /\ Served(mem, live)
  BY <1>2 DEF HeapOK
<1>4. PICK b \in F : /\ Fits(mem, b, size) /\ got.b = b /\ got.m = Taken(mem, b, size)
  <2>1. got.b # NULL
    BY DEF XmallocFromList
  <2> QED  BY <2>1, <1>2, <1>3, FirstFit
<1>5. PICK G \in SUBSET Addr :
         TakenOK(Taken(mem, b, size), mem, b, size, G, Starts(live), brk, foreign)
  <2>1. BackAt(mem, F, b) /\ TouchesOnly(mem, F, b)
    BY <1>2, <1>3 DEF BackLinked, Apart, TouchesOnly
  <2> QED  BY <2>1, <1>1, <1>2, <1>3, <1>4, TakeOK
<1>6. b \in Addr /\ b \notin Starts(live)
  BY <1>2, <1>3 DEF Tiles
<1>7. HeapOK(Overwrite(Taken(mem, b, size), UserCells(b, size)), G,
             live \cup {[b |-> b, size |-> size]}, brk, foreign)
  BY <1>1, <1>3, <1>5, <1>6, HandOK
<1>8. /\ mem' = Overwrite(Taken(mem, b, size), UserCells(b, size))
      /\ live' = live \cup {[b |-> b, size |-> size]}
      /\ foreign' = foreign /\ brk' = brk
  BY <1>4 DEF XmallocFromList, Hand
<1> QED  BY <1>7, <1>8, HeapAfter

\* The heap with a new block at its end, before the client gets its part.
LEMMA GrowOK ==
    ASSUME NEW F \in SUBSET Addr, HeapOK(mem, F, live, brk, foreign), BackLinked(mem, F),
           NEW alloc \in Nat, HDR <= alloc, brk + alloc <= HeapLimit + 1
    PROVE  LET m1 == [block_init(mem, brk) EXCEPT !.length[brk] = alloc - HDR]
               m2 == freelist_insert(m1, brk)
               F2 == F \cup {brk}
           IN  /\ brk \in Addr /\ brk \notin Starts(live) /\ F2 \in SUBSET Addr
               /\ m2 \in Memory /\ m2.length[brk] = alloc - HDR
               /\ Linked(m2, m2.FreeList, F2) /\ Linked(m2, brk, {brk}) /\ BackLinked(m2, F2)
               /\ Tiles(m2, F2, Starts(live), brk + alloc, foreign)
               /\ Quiet(m2, Starts(live)) /\ Served(m2, live) /\ TouchesOnly(m2, F2, brk)
<1> DEFINE i == block_init(mem, brk)
           m1 == [i EXCEPT !.length[brk] = alloc - HDR]
           m2 == freelist_insert(m1, brk)
           F2 == F \cup {brk}
           L == Starts(live)
<1>1. /\ mem \in Memory /\ Linked(mem, mem.FreeList, F) /\ Tiles(mem, F, L, brk, foreign)
      /\ Quiet(mem, L) /\ Apart(mem, F) /\ Served(mem, live)
  BY DEF HeapOK
<1>2. /\ brk \in 1..HeapLimit + 1 /\ F \subseteq Addr /\ L \subseteq Addr /\ F \cap L = {}
      /\ \A b \in F \cup L : End(mem, b) <= brk
      /\ \A b, c \in F \cup L : b < c => End(mem, b) <= c
      /\ \A a \in foreign : a \in 1..brk - 1 /\ \A b \in F \cup L : a < b \/ End(mem, b) <= a
      /\ \A a \in 1..brk - 1 : a \in foreign \/ \E b \in F \cup L : b <= a /\ a < End(mem, b)
  BY <1>1 DEF Tiles
<1>3. brk \in Addr /\ brk \in Nat /\ alloc - HDR \in Nat
  BY <1>2, Constants, SMTT(30) DEF Addr
<1>4. \A c \in Addr : mem.length[c] \in Nat /\ c \in Nat /\ End(mem, c) \in Nat /\ c < End(mem, c)
  BY <1>1, Constants, SMTT(30) DEF Memory, End
<1>5. \A b \in F \cup L : b \in Addr /\ b < brk /\ b # brk
  BY <1>2, <1>3, <1>4, SMTT(30)
<1>6. /\ i \in Memory /\ i.FreeList = mem.FreeList
      /\ \A c \in Addr : /\ i.prev[c] = IF c = brk THEN NULL ELSE mem.prev[c]
                         /\ i.next[c] = IF c = brk THEN NULL ELSE mem.next[c]
                         /\ i.length[c] = IF c = brk THEN 0 ELSE mem.length[c]
  BY <1>1, <1>3, InitFields
<1> HIDE DEF i, L
<1>7. /\ m1 \in Memory /\ m1.FreeList = mem.FreeList /\ m1.prev = i.prev /\ m1.next = i.next
      /\ \A c \in Addr : m1.length[c] = IF c = brk THEN alloc - HDR ELSE mem.length[c]
  <2>1. i.length \in [Addr -> Nat]
    BY <1>6 DEF Memory
  <2>2. /\ m1 \in Memory /\ m1.FreeList = i.FreeList /\ m1.prev = i.prev /\ m1.next = i.next
        /\ m1.length = [i.length EXCEPT ![brk] = alloc - HDR]
    BY <1>3, <1>6 DEF Memory
  <2> HIDE DEF m1
  <2> QED  BY <2>1, <2>2, <1>3, <1>6
<1> HIDE DEF m1
<1>8. Linked(m1, m1.FreeList, F) /\ BackLinked(m1, F)
  <2>1. \A f \in F : m1.next[f] = mem.next[f] /\ m1.prev[f] = mem.prev[f]
    BY <1>5, <1>6, <1>7
  <2>2. Linked(m1, m1.FreeList, F)
    BY <2>1, <1>1, <1>7, LinkedSame
  <2>3. BackLinked(m1, F)
    BY <2>1, <1>7, SMTT(30) DEF BackLinked, BackAt
  <2> QED  BY <2>2, <2>3
<1>9. ListOf(m2, m1, F2) /\ BackLinked(m2, F2)
  <2>1. m1.prev[brk] = NULL /\ m1.next[brk] = NULL /\ brk \in Addr \ F
    BY <1>3, <1>5, <1>6, <1>7
  <2> QED  BY <2>1, <1>7, <1>8, InsertOK
<1> HIDE DEF m2
<1>10. /\ m2 \in Memory /\ m2.length = m1.length /\ Linked(m2, m2.FreeList, F2)
       /\ \A c \in Addr \ F2 : m2.prev[c] = m1.prev[c] /\ m2.next[c] = m1.next[c]
  BY <1>9 DEF ListOf
<1>11. Linked(m2, brk, {brk})
  <2>1. m2.next[brk] = NULL
    <3>1. m2.next[brk] = NULL \/ (m2.next[brk] \in F2 /\ brk < m2.next[brk])
      BY <1>10 DEF Linked
    <3>2. \A c \in F2 : c \in Nat /\ ~(brk < c)
      BY <1>3, <1>4, <1>5, SMTT(30)
    <3> QED  BY <3>1, <3>2
  <2> QED  BY <2>1, <1>3, SMTT(30) DEF Linked
<1>12. \A c \in F \cup L : m2.length[c] = mem.length[c] /\ End(m2, c) = End(mem, c)
  BY <1>5, <1>7, <1>10 DEF End
<1>13. End(m2, brk) = brk + alloc /\ m2.length[brk] = alloc - HDR
  BY <1>3, <1>7, <1>10, Constants, SMTT(30) DEF End
<1>14. Quiet(m2, L)
  <2>1. \A c \in L : c \in Addr \ F2 /\ c # brk
    BY <1>2, <1>5
  <2> QED  BY <2>1, <1>1, <1>6, <1>7, <1>10, SMTT(30) DEF Quiet
<1>15. Served(m2, live)
  <2>1. \A x \in live : x.b \in L
    BY DEF Starts, L
  <2> QED  BY <2>1, <1>1, <1>12 DEF Served
<1>16. TouchesOnly(m2, F2, brk)
  <2> SUFFICES ASSUME NEW f \in F2, NEW g \in F2, End(m2, f) = g, g # brk PROVE FALSE
    BY DEF TouchesOnly
  <2>1. CASE f = brk
    BY <2>1, <1>3, <1>4, <1>5, <1>13, SMTT(30)
  <2>2. CASE f # brk
    BY <2>2, <1>1, <1>12 DEF Apart
  <2> QED  BY <2>1, <2>2
<1>17. Tiles(m2, F2, L, brk + alloc, foreign)
  <2> DEFINE A == F \cup L
             B == F2 \cup L
             top == brk + alloc
  <2>1. \A c : c \in B <=> c \in A \/ c = brk
    OBVIOUS
  <2>2. F2 \subseteq Addr /\ F2 \cap L = {} /\ top \in 1..HeapLimit + 1 /\ top \in Nat
    BY <1>2, <1>3, <1>5, Constants, SMTT(30)
  <2>3. \A c \in A : c \in Nat /\ c < brk /\ End(m2, c) \in Nat /\ End(m2, c) <= brk
    BY <1>2, <1>4, <1>5, <1>12
  <2>4. /\ \A b, c \in A : b < c => End(m2, b) <= c
        /\ \A a \in foreign : a \in 1..brk - 1 /\ \A b \in A : a < b \/ End(m2, b) <= a
        /\ \A a \in 1..brk - 1 : a \in foreign \/ \E b \in A : b <= a /\ a < End(m2, b)
    BY <1>2, <1>12
  <2>5. brk <= top /\ End(m2, brk) = top
    BY <1>3, <1>13, Constants, SMTT(30)
  <2> HIDE DEF A, B, top
  <2>6. \A b \in B : End(m2, b) <= top
    BY <2>1, <2>2, <2>3, <2>5, <1>3, SMTT(30)
  <2>7. \A b, c \in B : b < c => End(m2, b) <= c
    BY <2>1, <2>3, <2>4, <1>3, SMTT(30)
  <2>8. \A a \in foreign : a \in 1..top - 1 /\ \A b \in B : a < b \/ End(m2, b) <= a
    BY <2>1, <2>2, <2>3, <2>4, <2>5, <1>3, SMTT(30)
  <2>9. ASSUME NEW a \in 1..top - 1, a \notin foreign
        PROVE  \E b \in B : b <= a /\ a < End(m2, b)
    <3>1. CASE a < brk
      BY <3>1, <2>1, <2>2, <2>4, <2>9, <1>3, SMTT(30)
    <3>2. CASE brk <= a
      BY <3>2, <2>1, <2>2, <2>5, <1>3, SMTT(30)
    <3> QED  BY <3>1, <3>2, <1>3, <2>2, SMTT(30)
  <2> QED  BY <2>2, <2>6, <2>7, <2>8, <2>9, <1>2 DEF Tiles, B, top
<1>18. F2 \in SUBSET Addr /\ brk \notin L
  BY <1>3, <1>5
<1> QED  BY <1>3, <1>9, <1>10, <1>11, <1>13, <1>14, <1>15, <1>16, <1>17, <1>18
            DEF L, m2, m1, i

\* What sbrk() is asked for has room for the header and the size.
LEMMA AllocRoom ==
    ASSUME NEW size \in Nat, size + HDR < WORD
    PROVE  AllocSize(size) \in Nat /\ AllocSize(size) >= size + HDR
<1> DEFINE S == {size + HDR, MIN_HEAP_ALLOC_SIZE}
<1>1. AllocSize(size) = Max(S)
  BY NoWrapPlus, Constants DEF AllocSize
<1>2. \E x \in S : \A y \in S : x >= y
  BY Constants, SMTT(30)
<1>3. Max(S) \in S /\ \A y \in S : Max(S) >= y
  <2> HIDE DEF S
  <2> QED  BY <1>2 DEF Max
<1> QED  BY <1>1, <1>3, Constants, SMTT(30)

\* xmalloc() grows the heap.
LEMMA HeapStep ==
    ASSUME IInv, NoWrap, NEW size \in Sizes, XmallocFromHeap(size)
    PROVE  IInv'
<1> DEFINE F == FreeSet(mem)
           alloc == AllocSize(size)
           m1 == [block_init(mem, brk) EXCEPT !.length[brk] = alloc - HDR]
           m2 == freelist_insert(m1, brk)
           F2 == F \cup {brk}
           got == freelist_get_free_block(m2, brk, size)
<1>1. Intact /\ size \in Nat /\ size + HDR < WORD
  BY Constants DEF XmallocFromHeap, NoWrap
<1>2. F \in SUBSET Addr /\ HeapOK(mem, F, live, brk, foreign) /\ BackLinked(mem, F)
  BY <1>1, IntactHeap
<1>3. alloc \in Nat /\ alloc >= size + HDR /\ HDR <= alloc
  BY <1>1, AllocRoom, Constants, SMTT(30)
<1>4. brk + alloc <= HeapLimit + 1 /\ brk' = brk + alloc
  BY DEF XmallocFromHeap
<1>5. brk' - brk - HDR = alloc - HDR
  BY <1>2, <1>3, <1>4, Constants, SMTT(30) DEF HeapOK, Tiles
<1>6. Hand(got.m, got.b, size)
  <2>1. LET n1 == [block_init(mem, brk) EXCEPT !.length[brk] = brk' - brk - HDR]
            g == freelist_get_free_block(freelist_insert(n1, brk), brk, size)
        IN  Hand(g.m, g.b, size)
    BY DEF XmallocFromHeap
  <2> QED  BY <2>1, <1>5
<1> HIDE DEF F, alloc
<1>7. /\ brk \in Addr /\ brk \notin Starts(live) /\ F2 \in SUBSET Addr
      /\ m2 \in Memory /\ m2.length[brk] = alloc - HDR
      /\ Linked(m2, m2.FreeList, F2) /\ Linked(m2, brk, {brk}) /\ BackLinked(m2, F2)
      /\ Tiles(m2, F2, Starts(live), brk + alloc, foreign)
      /\ Quiet(m2, Starts(live)) /\ Served(m2, live) /\ TouchesOnly(m2, F2, brk)
  BY <1>2, <1>3, <1>4, GrowOK
<1> HIDE DEF m2
<1>8. Fits(m2, brk, size)
  BY <1>1, <1>3, <1>7, Constants, SMTT(30) DEF Fits
<1>9. got.b = brk /\ got.m = Taken(m2, brk, size)
  <2>1. {brk} \in SUBSET Addr
    BY <1>7
  <2>2. \/ got.b = NULL /\ \A b \in {brk} : ~Fits(m2, b, size)
        \/ \E b \in {brk} : Fits(m2, b, size) /\ got.b = b /\ got.m = Taken(m2, b, size)
    BY <2>1, <1>7, FirstFit, SMTT(30)
  <2> QED  BY <2>2, <1>8
<1>10. PICK G \in SUBSET Addr :
          TakenOK(Taken(m2, brk, size), m2, brk, size, G, Starts(live), brk + alloc, foreign)
  <2>1. BackAt(m2, F2, brk) /\ brk \in F2
    BY <1>7 DEF BackLinked
  <2> HIDE DEF F2
  <2> QED  BY <2>1, <1>1, <1>7, <1>8, TakeOK
<1>11. HeapOK(Overwrite(Taken(m2, brk, size), UserCells(brk, size)), G,
              live \cup {[b |-> brk, size |-> size]}, brk + alloc, foreign)
  BY <1>1, <1>7, <1>10, HandOK
<1>12. /\ mem' = Overwrite(Taken(m2, brk, size), UserCells(brk, size))
       /\ live' = live \cup {[b |-> brk, size |-> size]}
       /\ foreign' = foreign
  BY <1>6, <1>9 DEF Hand
<1> QED  BY <1>4, <1>11, <1>12, HeapAfter

\* Another user of sbrk() takes the cells at the end of the heap.
LEMMA ForeignStep ==
    ASSUME IInv, NEW n \in ForeignSizes, ForeignSbrk(n)
    PROVE  IInv'
<1> DEFINE F == FreeSet(mem)
           L == Starts(live)
           B == F \cup L
<1>1. Intact /\ n \in Nat /\ n > 0
  BY SizesAssumption, SMTT(30) DEF ForeignSbrk
<1>2. F \in SUBSET Addr /\ HeapOK(mem, F, live, brk, foreign)
  BY <1>1, IntactHeap
<1>3. /\ brk + n <= HeapLimit + 1 /\ brk' = brk + n
      /\ foreign' = foreign \cup (brk .. brk + n - 1) /\ mem' = mem /\ live' = live
  BY DEF ForeignSbrk
<1> HIDE DEF F, L
<1>4. mem \in Memory /\ Tiles(mem, F, L, brk, foreign)
  BY <1>2 DEF HeapOK, L
<1>5. /\ brk \in 1..HeapLimit + 1 /\ F \subseteq Addr /\ L \subseteq Addr /\ F \cap L = {}
      /\ \A b \in B : End(mem, b) <= brk
      /\ \A b, c \in B : b < c => End(mem, b) <= c
      /\ \A a \in foreign : a \in 1..brk - 1 /\ \A b \in B : a < b \/ End(mem, b) <= a
      /\ \A a \in 1..brk - 1 : a \in foreign \/ \E b \in B : b <= a /\ a < End(mem, b)
  BY <1>4 DEF Tiles
<1>6. \A b \in B : b \in Nat /\ End(mem, b) \in Nat
  BY <1>4, <1>5, Constants, SMTT(30) DEF Memory, End
<1> HIDE DEF B
<1>7. brk \in Nat /\ brk + n \in 1..HeapLimit + 1
  BY <1>1, <1>3, <1>5, Constants, SMTT(30)
<1> DEFINE top == brk + n
           X == foreign \cup (brk .. brk + n - 1)
<1>8. /\ top \in 1..HeapLimit + 1 /\ top \in Nat /\ top = brk + n
      /\ \A a : a \in X <=> a \in foreign \/ (a \in Nat /\ brk <= a /\ a < top)
  BY <1>1, <1>7, SMTT(30)
<1> HIDE DEF top, X
<1>9. \A b \in B : End(mem, b) <= top
  BY <1>1, <1>5, <1>6, <1>7, <1>8, SMTT(30)
<1>10. \A a \in X : a \in 1..top - 1 /\ \A b \in B : a < b \/ End(mem, b) <= a
  <2> SUFFICES ASSUME NEW a \in X
               PROVE  a \in 1..top - 1 /\ \A b \in B : a < b \/ End(mem, b) <= a
    OBVIOUS
  <2>1. CASE a \in foreign
    BY <2>1, <1>1, <1>5, <1>7, <1>8, SMTT(30)
  <2>2. CASE a \in Nat /\ brk <= a /\ a < top
    <3>1. a \in 1..top - 1
      BY <2>2, <1>5, <1>7, <1>8, SMTT(30)
    <3>2. \A b \in B : End(mem, b) <= a
      BY <2>2, <1>5, <1>6, <1>7, SMTT(30)
    <3> QED  BY <3>1, <3>2
  <2> QED  BY <2>1, <2>2, <1>8
<1>11. \A a \in 1..top - 1 : a \in X \/ \E b \in B : b <= a /\ a < End(mem, b)
  <2> SUFFICES ASSUME NEW a \in 1..top - 1, a \notin X
               PROVE  \E b \in B : b <= a /\ a < End(mem, b)
    OBVIOUS
  <2>1. a \in 1..brk - 1 /\ a \notin foreign
    BY <1>1, <1>7, <1>8, SMTT(30)
  <2> QED  BY <2>1, <1>5
<1>12. Tiles(mem, F, L, top, X)
  BY <1>5, <1>8, <1>9, <1>10, <1>11 DEF Tiles, B
<1>13. HeapOK(mem, F, live, top, X)
  BY <1>2, <1>12 DEF HeapOK, L
<1>14. brk' = top /\ foreign' = X
  BY <1>3 DEF top, X
<1> QED  BY <1>2, <1>3, <1>13, <1>14, HeapAfter

\* The last free block is given back to the system.  When it was not at the top
\* of the heap, what lay above it is lost to its holder, which the client finds
\* out; otherwise the heap below it stays tiled.
LEMMA ShrinkOK ==
    ASSUME NEW m, NEW G \in SUBSET Addr, NEW last \in G, NEW lv, NEW top, NEW X,
           HeapOK(m, G, lv, top, X), BackLinked(m, G), \A g \in G : g <= last,
           NEW q, q = Overwrite(freelist_remove(m, last), last..HeapLimit),
           \A x \in lv : x.b + HDR + q.length[x.b] <= last,
           \A a \in X : a < last
    PROVE  HeapOK(q, G \ {last}, lv, last, X)
<1> DEFINE r == freelist_remove(m, last)
           cells == last..HeapLimit
           L == Starts(lv)
           H == G \ {last}
<1>1. /\ m \in Memory /\ Linked(m, m.FreeList, G) /\ Tiles(m, G, L, top, X)
      /\ Quiet(m, L) /\ Apart(m, G) /\ Served(m, lv)
  BY DEF HeapOK
<1>2. /\ top \in 1..HeapLimit + 1 /\ L \subseteq Addr /\ G \cap L = {}
      /\ \A b \in G \cup L : End(m, b) <= top
      /\ \A b, c \in G \cup L : b < c => End(m, b) <= c
      /\ \A a \in X : a \in 1..top - 1 /\ \A b \in G \cup L : a < b \/ End(m, b) <= a
      /\ \A a \in 1..top - 1 : a \in X \/ \E b \in G \cup L : b <= a /\ a < End(m, b)
  BY <1>1 DEF Tiles
<1>3. /\ last \in Addr /\ last \in Nat
      /\ \A c \in Addr : m.length[c] \in Nat /\ c \in Nat /\ End(m, c) \in Nat /\ c < End(m, c)
  BY <1>1, Constants, SMTT(30) DEF Memory, End
<1>4. ListOf(r, m, H)
  <2>1. BackAt(m, G, last)
    BY DEF BackLinked
  <2> QED  BY <2>1, <1>1, RemoveOK
<1> HIDE DEF r
<1>5. /\ r \in Memory /\ r.length = m.length /\ Linked(r, r.FreeList, H)
      /\ \A c \in Addr \ H : r.prev[c] = m.prev[c] /\ r.next[c] = m.next[c]
  BY <1>4 DEF ListOf
<1>6. /\ q \in Memory /\ q.FreeList = r.FreeList
      /\ \A c \in Addr : /\ q.prev[c] = IF c \in cells THEN 0 ELSE r.prev[c]
                         /\ q.next[c] = IF c \in cells THEN 0 ELSE r.next[c]
                         /\ q.length[c] = IF c \in cells THEN 0 ELSE r.length[c]
  <2>1. q = Overwrite(r, cells)
    BY DEF r
  <2> HIDE DEF cells
  <2>2. LET o == Overwrite(r, cells)
        IN  /\ o \in Memory /\ o.FreeList = r.FreeList
            /\ \A c \in Addr : /\ o.prev[c] = IF c \in cells THEN 0 ELSE r.prev[c]
                               /\ o.next[c] = IF c \in cells THEN 0 ELSE r.next[c]
                               /\ o.length[c] = IF c \in cells THEN 0 ELSE r.length[c]
    BY <1>5, OverwriteFields, SMTT(30)
  <2> QED  BY <2>1, <2>2
<1> HIDE DEF cells, L
<1>7. \A c \in H \cup L : c \in Addr /\ c \in G \cup L /\ c < last
  <2>1. \A c \in H : c \in Addr /\ c < last
    BY <1>3, Constants, SMTT(30)
  <2>2. ASSUME NEW c \in L PROVE c \in Addr /\ c < last
    <3>1. PICK x \in lv : x.b = c
      BY DEF L, Starts
    <3>2. c \in Addr /\ q.length[c] \in Nat
      BY <1>2, <1>6 DEF Memory
    <3>3. c + HDR + q.length[c] <= last
      BY <3>1
    <3> QED  BY <3>2, <3>3, <1>3, Constants, SMTT(30)
  <2> QED  BY <2>1, <2>2
<1>8. \A c \in H \cup L : /\ q.prev[c] = r.prev[c] /\ q.next[c] = r.next[c]
                          /\ q.length[c] = m.length[c] /\ End(q, c) = End(m, c)
  <2>1. \A c \in H \cup L : c \notin cells
    BY <1>3, <1>7, SMTT(30) DEF cells
  <2> QED  BY <2>1, <1>5, <1>6, <1>7 DEF End
<1>9. Linked(q, q.FreeList, H)
  BY <1>5, <1>6, <1>8, LinkedSame, SMTT(30)
<1>10. Quiet(q, L)
  <2>1. \A c \in L : c \in Addr \ H
    BY <1>2
  <2> QED  BY <2>1, <1>1, <1>5, <1>8 DEF Quiet
<1>11. Apart(q, H)
  BY <1>1, <1>8 DEF Apart
<1>12. Served(q, lv)
  <2>1. \A x \in lv : x.b \in L
    BY DEF L, Starts
  <2> QED  BY <2>1, <1>1, <1>8 DEF Served
<1>13. Tiles(q, H, L, last, X)
  <2> DEFINE B == H \cup L
  <2>1. \A c \in B : c \in G \cup L /\ c \in Addr /\ c \in Nat /\ c < last /\ End(q, c) = End(m, c)
    BY <1>3, <1>7, <1>8
  <2>2. last \in 1..HeapLimit + 1 /\ last <= top - 1 /\ H \subseteq Addr /\ H \cap L = {}
    BY <1>2, <1>3, Constants, SMTT(30)
  <2>3. \A c \in G \cup L : c \in B \/ c = last
    OBVIOUS
  <2> HIDE DEF B
  <2>4. \A b \in B : End(q, b) <= last
    BY <2>1, <1>2
  <2>5. \A b, c \in B : b < c => End(q, b) <= c
    BY <2>1, <1>2
  <2>6. \A a \in X : a \in 1..last - 1 /\ \A b \in B : a < b \/ End(q, b) <= a
    <3> SUFFICES ASSUME NEW a \in X
                 PROVE  a \in 1..last - 1 /\ \A b \in B : a < b \/ End(q, b) <= a
      OBVIOUS
    <3>1. a \in 1..top - 1 /\ a < last /\ \A b \in G \cup L : a < b \/ End(m, b) <= a
      BY <1>2
    <3>2. a \in 1..last - 1
      BY <3>1, <1>2, <1>3, SMTT(30)
    <3> QED  BY <3>1, <3>2, <2>1
  <2>7. ASSUME NEW a \in 1..last - 1, a \notin X PROVE \E b \in B : b <= a /\ a < End(q, b)
    <3>1. a \in 1..top - 1 /\ a < last
      BY <2>2, <1>2, <1>3, SMTT(30)
    <3>2. PICK b \in G \cup L : b <= a /\ a < End(m, b)
      BY <3>1, <2>7, <1>2
    <3>3. b # last
      BY <3>1, <3>2, <1>3, SMTT(30)
    <3> QED  BY <3>2, <3>3, <2>1, <2>3
  <2> QED  BY <2>2, <2>4, <2>5, <2>6, <2>7, <1>2 DEF Tiles, B
<1> QED  BY <1>6, <1>9, <1>10, <1>11, <1>12, <1>13 DEF HeapOK, L

\* xfree(): the block goes into the list, is merged with its neighbours, and the
\* heap shrinks when its last free block is long enough.
LEMMA FreeStep ==
    ASSUME IInv, NEW x \in live, xfree(x)
    PROVE  IInv'
<1> DEFINE F == FreeSet(mem)
           b == x.b
           L == Starts(live)
           F1 == F \cup {b}
           lw == live \ {x}
           L1 == Starts(lw)
           ins == freelist_insert(mem, b)
           m1 == Coalesce(ins, b)
<1>1. Intact /\ live' = lw /\ foreign' = foreign
  BY DEF xfree
<1>2. F \in SUBSET Addr /\ HeapOK(mem, F, live, brk, foreign) /\ BackLinked(mem, F)
  BY <1>1, IntactHeap
<1> HIDE DEF F
<1>3. /\ mem \in Memory /\ Linked(mem, mem.FreeList, F) /\ Tiles(mem, F, L, brk, foreign)
      /\ Quiet(mem, L) /\ Apart(mem, F) /\ Served(mem, live)
  BY <1>2 DEF HeapOK
<1>4. F \cap L = {} /\ L \subseteq Addr /\ b \in L
  BY <1>3 DEF Tiles, Starts
<1>5. L1 = L \ {b} /\ L1 \subseteq L /\ b \notin L1
  <2>1. \A y, z \in live : y.b = z.b => y = z
    BY <1>3 DEF Served
  <2> QED  BY <2>1 DEF Starts
<1> HIDE DEF b, L, L1
<1>6. ListOf(ins, mem, F1) /\ BackLinked(ins, F1)
  <2>1. b \in Addr \ F /\ mem.prev[b] = NULL /\ mem.next[b] = NULL
    BY <1>3, <1>4 DEF Quiet
  <2> QED  BY <2>1, <1>2, <1>3, InsertOK
<1> HIDE DEF ins
<1>7. /\ ins \in Memory /\ ins.length = mem.length /\ Linked(ins, ins.FreeList, F1)
      /\ \A c \in Addr \ F1 : ins.prev[c] = mem.prev[c] /\ ins.next[c] = mem.next[c]
  BY <1>6 DEF ListOf
<1>8. Tiles(ins, F1, L1, brk, foreign)
  <2>1. F1 \cup L1 = F \cup L /\ F1 \cap L1 = {}
    BY <1>4, <1>5
  <2> QED  BY <2>1, <1>3, <1>7, TilesSame
<1>9. \A f, g \in F1 : End(ins, f) = g => f = b \/ g = b
  BY <1>3, <1>7 DEF Apart, End
<1>10. F1 \in SUBSET Addr /\ b \in F1
  BY <1>2, <1>4
<1>11. PICK G \in SUBSET Addr : CoalescedOK(m1, ins, G, F1, L1, brk, foreign)
  <2> HIDE DEF F1
  <2> QED  BY <1>6, <1>7, <1>8, <1>9, <1>10, CoalesceOK
<1> HIDE DEF m1
<1>12. /\ m1 \in Memory /\ G # {} /\ Linked(m1, m1.FreeList, G) /\ BackLinked(m1, G)
       /\ Apart(m1, G) /\ Tiles(m1, G, L1, brk, foreign)
       /\ \A c \in Addr \ F1 : /\ m1.prev[c] = ins.prev[c] /\ m1.next[c] = ins.next[c]
                               /\ m1.length[c] = ins.length[c]
  BY <1>11 DEF CoalescedOK
<1>13. \A c \in L1 : c \in Addr \ F1 /\ c \in L
  BY <1>4, <1>5
<1>14. Quiet(m1, L1)
  BY <1>3, <1>7, <1>12, <1>13 DEF Quiet
<1>15. Served(m1, lw)
  <2>1. \A y \in lw : y.b \in L1 /\ y \in live
    BY DEF L1, Starts
  <2>2. \A y \in lw : m1.length[y.b] = mem.length[y.b]
    BY <2>1, <1>7, <1>12, <1>13, SMTT(30)
  <2> QED  BY <2>1, <2>2, <1>3 DEF Served
<1>16. HeapOK(m1, G, lw, brk, foreign)
  BY <1>12, <1>14, <1>15 DEF HeapOK, L1
<1> DEFINE list == FreeNodes(m1)
           last == list[Len(list)]
<1>17. last \in G /\ \A g \in G : g <= last
  <2>1. Lists(m1, m1.FreeList, G, list)
    BY <1>12, NodesList DEF FreeNodes
  <2> HIDE DEF list
  <2>2. /\ Len(list) \in Nat /\ Len(list) # 0
        /\ \A k \in 1..Len(list) : list[k] \in G /\ list[k] \in Addr
        /\ \A g \in G : \E k \in 1..Len(list) : list[k] = g
        /\ \A j, k \in 1..Len(list) : j < k => list[j] < list[k]
    BY <2>1, <1>12, SMTT(30) DEF Lists
  <2>3. Len(list) \in 1..Len(list)
    BY <2>2, SMTT(30)
  <2>4. ASSUME NEW g \in G PROVE g <= list[Len(list)]
    <3>1. PICK k \in 1..Len(list) : list[k] = g
      BY <2>2
    <3>2. k = Len(list) \/ k < Len(list)
      BY <2>2, SMTT(30)
    <3> QED  BY <3>1, <3>2, <2>2, <2>3, Constants, SMTT(30)
  <2> QED  BY <2>2, <2>3, <2>4
<1>18. IF m1.length[last] >= MIN_HEAP_FREE_SIZE
       THEN /\ brk' = last
            /\ mem' = Overwrite(freelist_remove(m1, last), last..HeapLimit)
       ELSE mem' = m1 /\ brk' = brk
  BY DEF xfree, m1, ins, b
<1> HIDE DEF last
<1>19. CASE m1.length[last] >= MIN_HEAP_FREE_SIZE
  <2>1. brk' = last /\ mem' = Overwrite(freelist_remove(m1, last), last..HeapLimit)
    BY <1>18, <1>19
  <2> SUFFICES ASSUME Intact' PROVE IInv'
    BY DEF IInv
  <2>2. /\ \A y \in lw : y.b + HDR + mem'.length[y.b] <= last
        /\ \A a \in foreign : a < last
    BY <2>1, <1>1 DEF Intact
  <2> HIDE DEF lw
  <2>3. HeapOK(mem', G \ {last}, lw, last, foreign)
    BY <2>1, <2>2, <1>12, <1>16, <1>17, ShrinkOK
  <2>4. G \ {last} \in SUBSET Addr
    OBVIOUS
  <2> QED  BY <2>1, <2>3, <2>4, <1>1, HeapAfter
<1>20. CASE ~(m1.length[last] >= MIN_HEAP_FREE_SIZE)
  <2>1. mem' = m1 /\ brk' = brk
    BY <1>18, <1>20
  <2> QED  BY <2>1, <1>1, <1>16, HeapAfter
<1> QED  BY <1>19, <1>20

-----------------------------------------------------------------------------
(* The theorems.                                                           *)

\* The empty heap satisfies the invariant.
LEMMA InitOK == Init => IInv
<1> SUFFICES ASSUME Init PROVE IInv
  OBVIOUS
<1>1. /\ mem.FreeList = NULL /\ mem \in Memory
      /\ brk = 1 /\ live = {} /\ foreign = {}
  BY Constants, SMTT(30) DEF Init, Memory, NULL
<1>2. Linked(mem, mem.FreeList, {})
  BY <1>1 DEF Linked
<1>3. FreeSet(mem) = {}
  BY <1>2, FreeSetIs
<1>4. Starts(live) = {}
  BY <1>1 DEF Starts
<1>5. Tiles(mem, {}, {}, brk, foreign)
  BY <1>1, Constants, SMTT(30) DEF Tiles
<1>6. Quiet(mem, {}) /\ Apart(mem, {}) /\ Served(mem, live)
  BY <1>1 DEF Quiet, Apart, Served
<1> QED  BY <1>1, <1>2, <1>3, <1>4, <1>5, <1>6 DEF IInv, HeapOK

\* Every step preserves the invariant.
LEMMA NextOK ==
    ASSUME NoWrap, IInv, [Next]_vars
    PROVE  IInv'
<1>1. CASE UNCHANGED vars
  BY <1>1 DEF vars, IInv, Intact
<1>2. ASSUME NEW size \in Sizes, XmallocFails(size) PROVE IInv'
  BY <1>1, <1>2 DEF XmallocFails
<1>3. CASE Next
  BY <1>2, <1>3, ListStep, HeapStep, FreeStep, ForeignStep DEF Next
<1> QED  BY <1>1, <1>3

\* The invariant implies that the heap is tiled.
LEMMA TiledOK == IInv => HeapTiled
<1> SUFFICES ASSUME IInv, Intact
             PROVE  /\ \A a \in 1..brk - 1 :
                          IF a \in foreign THEN \A b \in Blocks : a \notin Extent(b)
                          ELSE Cardinality({b \in Blocks : a \in Extent(b)}) = 1
                    /\ \A b \in Blocks : Extent(b) \subseteq 1..brk - 1
                    /\ Cardinality({x.b : x \in live}) = Cardinality(live)
                    /\ \A x \in live : /\ x.b \notin Range(FreeNodes(mem))
                                       /\ mem.length[x.b] >= x.size
                    /\ \A k \in 1..Len(FreeNodes(mem)) - 1 :
                          FreeNodes(mem)[k] < FreeNodes(mem)[k + 1]
  BY DEF HeapTiled
<1> DEFINE F == FreeSet(mem)
           L == Starts(live)
           B == L \cup F
<1>1. /\ F \in SUBSET Addr /\ mem \in Memory /\ Linked(mem, mem.FreeList, F)
      /\ Tiles(mem, F, L, brk, foreign) /\ Served(mem, live)
  BY IntactHeap DEF HeapOK
<1>2. Blocks = B
  BY DEF Blocks, Starts, FreeSet
<1>3. /\ brk \in 1..HeapLimit + 1 /\ L \subseteq Addr /\ F \cap L = {}
      /\ \A b \in B : b \in Addr /\ End(mem, b) <= brk
      /\ \A b, c \in B : b < c => End(mem, b) <= c
      /\ \A a \in foreign : \A b \in B : a < b \/ End(mem, b) <= a
      /\ \A a \in 1..brk - 1 : a \in foreign \/ \E b \in B : b <= a /\ a < End(mem, b)
  BY <1>1 DEF Tiles
<1>4. \A b \in Addr : b \in Nat /\ b > 0 /\ End(mem, b) \in Nat
  BY <1>1, Constants, SMTT(30) DEF Memory, End
<1>5. \A b \in B : \A a \in Nat : a \in Extent(b) <=> b <= a /\ a < End(mem, b)
  BY <1>3, <1>4, <1>1, Constants, SMTT(30) DEF Extent, End, Memory
<1> HIDE DEF B, F, L
<1>6. ASSUME NEW a \in 1..brk - 1
      PROVE  IF a \in foreign THEN \A b \in Blocks : a \notin Extent(b)
             ELSE Cardinality({b \in Blocks : a \in Extent(b)}) = 1
  <2>1. a \in Nat
    BY <1>3, SMTT(30)
  <2>2. CASE a \in foreign
    BY <2>1, <2>2, <1>2, <1>3, <1>4, <1>5, SMTT(30)
  <2>3. CASE a \notin foreign
    <3>1. PICK b \in B : b <= a /\ a < End(mem, b)
      BY <2>3, <1>3
    <3>2. ASSUME NEW c \in B, c <= a, a < End(mem, c) PROVE c = b
      <4>1. c \in Nat /\ b \in Nat /\ End(mem, c) \in Nat /\ End(mem, b) \in Nat
        BY <1>3, <1>4
      <4>2. (b < c => End(mem, b) <= c) /\ (c < b => End(mem, c) <= b)
        BY <1>3
      <4> QED  BY <4>1, <4>2, <3>1, <3>2, <2>1, SMTT(30)
    <3>3. {c \in Blocks : a \in Extent(c)} = {b}
      BY <3>1, <3>2, <2>1, <1>2, <1>5
    <3> QED  BY <3>3, <2>3, FS_Singleton
  <2> QED  BY <2>2, <2>3
<1>7. ASSUME NEW b \in Blocks PROVE Extent(b) \subseteq 1..brk - 1
  <2>1. b \in Nat /\ b > 0 /\ End(mem, b) \in Nat /\ End(mem, b) <= brk /\ brk \in Nat
    BY <1>2, <1>3, <1>4, SMTT(30)
  <2>2. \A a \in Extent(b) : a \in Nat /\ b <= a /\ a < End(mem, b)
    <3>1. mem.length[b] \in Nat
      BY <1>1, <1>2, <1>3, Constants DEF Memory
    <3> QED  BY <3>1, <2>1, Constants, SMTT(30) DEF Extent, End
  <2> QED  BY <2>1, <2>2, SMTT(30)
<1>8. Cardinality({x.b : x \in live}) = Cardinality(live)
  <2> DEFINE S == {x.b : x \in live}
             h == [s \in S |-> CHOOSE x \in live : x.b = s]
  <2>1. \A x, y \in live : x.b = y.b => x = y
    BY <1>1 DEF Served
  <2>2. \A s \in S : h[s] \in live /\ h[s].b = s
    OBVIOUS
  <2>3. \A x \in live : x.b \in S /\ h[x.b] = x
    BY <2>1, <2>2
  <2>4. h \in [S -> live]
    BY <2>2
  <2> HIDE DEF h, S
  <2>5. h \in Bijection(S, live)
    <3>1. IsInjective(h)
      BY <2>2, <2>4, SMTT(30) DEF IsInjective
    <3>2. \A x \in live : \E s \in S : h[s] = x
      BY <2>3
    <3> QED  BY <3>1, <3>2, <2>4 DEF Bijection, Injection, Surjection
  <2>6. ExistsBijection(S, live)
    BY <2>5 DEF ExistsBijection
  <2>7. IsFiniteSet(S)
    <3>1. IsFiniteSet(Addr)
      BY FS_Interval, Constants, SMTT(30) DEF Addr
    <3>2. S \subseteq Addr
      BY <1>3 DEF L, Starts, S
    <3> QED  BY <3>1, <3>2, FS_Subset
  <2> QED  BY <2>6, <2>7, FS_Bijection DEF S
<1>9. ASSUME NEW x \in live PROVE x.b \notin Range(FreeNodes(mem)) /\ mem.length[x.b] >= x.size
  <2>1. x.b \in L
    BY DEF L, Starts
  <2>2. Range(FreeNodes(mem)) = F
    BY DEF F, FreeSet
  <2> QED  BY <2>1, <2>2, <1>1, <1>3 DEF Served
<1>10. ASSUME NEW k \in 1..Len(FreeNodes(mem)) - 1
       PROVE  FreeNodes(mem)[k] < FreeNodes(mem)[k + 1]
  <2> DEFINE s == FreeNodes(mem)
  <2>1. Lists(mem, mem.FreeList, F, s)
    BY <1>1, NodesList DEF FreeNodes
  <2> HIDE DEF s
  <2>2. Len(s) \in Nat /\ \A i, j \in 1..Len(s) : i < j => s[i] < s[j]
    BY <2>1, SMTT(30) DEF Lists
  <2>3. k \in 1..Len(s) - 1
    BY DEF s
  <2>4. k \in 1..Len(s) /\ k + 1 \in 1..Len(s) /\ k < k + 1
    BY <2>2, <2>3, SMTT(30)
  <2>5. s[k] < s[k + 1]
    BY <2>2, <2>4
  <2> QED  BY <2>5 DEF s
<1> QED  BY <1>6, <1>7, <1>8, <1>9, <1>10

\* When no size wraps around, xmalloc() and xfree() keep the heap tiled by the
\* client's blocks, the free blocks and the foreign memory for as long as no
\* assertion of the client has failed: nothing overlaps, no cell is lost, and
\* every block is as long as the client asked for.
THEOREM HeapStaysTiled ==
    ASSUME NoWrap
    PROVE  Spec => []HeapTiled
<1>1. Init => IInv
  BY InitOK
<1>2. IInv /\ [Next]_vars => IInv'
  BY NextOK
<1>3. IInv => HeapTiled
  BY TiledOK
<1> QED  BY <1>1, <1>2, <1>3, PTL DEF Spec

\* When no size wraps around, what xfree() frees is not left next to another free
\* block, so that free memory does not stay in pieces.
THEOREM FreedIsCoalesced ==
    ASSUME NoWrap
    PROVE  Spec => FreeCoalesces
<1> DEFINE A == \A x \in live \ live' :
                   Intact' => \A b \in HolderAfter(x.b) :
                                 \A c \in Range(FreeNodes(mem')) :
                                     b + HDR + mem'.length[b] # c
                                     /\ c + HDR + mem'.length[c] # b
<1>1. Init => IInv
  BY InitOK
<1>2. IInv /\ [Next]_vars => IInv'
  BY NextOK
<1>3. IInv' => A
  <2> SUFFICES ASSUME IInv', Intact', NEW b \in Range(FreeNodes(mem')),
                      NEW c \in Range(FreeNodes(mem'))
               PROVE  b + HDR + mem'.length[b] # c /\ c + HDR + mem'.length[c] # b
    BY DEF HolderAfter
  <2>1. Apart(mem', FreeSet(mem'))
    BY DEF IInv, HeapOK
  <2> QED  BY <2>1 DEF Apart, FreeSet, End
<1>4. IInv /\ [Next]_vars => [A]_vars
  BY <1>2, <1>3
<1> QED  BY <1>1, <1>2, <1>4, PTL DEF Spec, FreeCoalesces
==============================================================================
