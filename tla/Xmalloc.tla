------------------------------- MODULE Xmalloc -------------------------------
(***************************************************************************)
(* tlpi-solutions/ex07-2/xmalloc.c: malloc() and free() over a doubly      *)
(* linked, address-ordered free list in the heap that sbrk() and brk()     *)
(* grow and shrink.                                                        *)
(*                                                                         *)
(* Memory is counted in cells.  A header (struct freelist_node) takes HDR  *)
(* cells and is addressed by its first one, as in the code; a pointer is a *)
(* cell number and NULL is 0.  size_t arithmetic is modulo WORD.           *)
(*                                                                         *)
(* The client is the one of the tests: it asserts is_freelist_sane() after *)
(* every call, and it uses all of every block it holds, so that it stops   *)
(* at a failed assertion or at a block that is no longer mapped.           *)
(***************************************************************************)
EXTENDS Naturals, Sequences, FiniteSets, FiniteSetsExt

CONSTANTS HDR,                  \* sizeof(freelist_node_t)
          MIN_HEAP_ALLOC_SIZE,
          MIN_HEAP_FREE_SIZE,
          WORD,                 \* SIZE_MAX + 1
          HeapLimit,            \* sbrk() fails beyond this address
          Sizes,                \* sizes the client asks for
          ForeignSizes          \* what other users of sbrk() ask for

ASSUME SizesAssumption ==
    /\ {HDR, MIN_HEAP_ALLOC_SIZE, MIN_HEAP_FREE_SIZE, WORD, HeapLimit}
          \subseteq Nat \ {0}
    /\ HDR < MIN_HEAP_ALLOC_SIZE /\ HeapLimit < WORD
    /\ Sizes \subseteq 0..WORD - 1
    \* alloc_size is positive as the intptr_t that sbrk() takes
    /\ \A s \in Sizes : (s + HDR) % WORD < WORD \div 2
    /\ ForeignSizes \subseteq Nat \ {0}

NULL == 0
Addr == 1..HeapLimit

VARIABLES mem,      \* the headers in memory and the variable FreeList
          brk,      \* the program break: the first address above the heap
          live,     \* the blocks the client holds, with the sizes it asked for
          foreign   \* the cells other users of sbrk() hold

vars == <<mem, brk, live, foreign>>

Plus(a, b)  == (a + b) % WORD
Minus(a, b) == (a + WORD - b) % WORD

-----------------------------------------------------------------------------
(* The helper functions, from a memory to a memory.                        *)

block_init(m, b) ==
    [m EXCEPT !.prev[b] = NULL, !.next[b] = NULL, !.length[b] = 0]

right_of(b, size) == Plus(Plus(b, HDR), size)

block_split(m, b, size) ==
    LET right == right_of(b, size)
        length == [m.length EXCEPT ![right] = Minus(Minus(m.length[b], size), HDR)]
    IN  [m EXCEPT !.length = [length EXCEPT ![b] = size],
                  !.prev[right] = b,
                  !.next = [@ EXCEPT ![right] = m.next[b], ![b] = right]]

block_merge(m, left, right) ==
    LET next == m.next[right]
        m1 == [m EXCEPT !.length[left] = @ + m.length[right] + HDR,
                        !.next[left] = next]
        m2 == IF next = NULL THEN m1 ELSE [m1 EXCEPT !.prev[next] = left]
    IN  block_init(m2, right)

freelist_remove(m, b) ==
    LET prev == m.prev[b]
        next == m.next[b]
    IN  CASE prev # NULL /\ next # NULL ->
                 [m EXCEPT !.next[prev] = next, !.prev[next] = prev]
          [] prev # NULL /\ next = NULL -> [m EXCEPT !.next[prev] = NULL]
          [] prev = NULL /\ next # NULL ->
                 [m EXCEPT !.FreeList = next, !.prev[next] = NULL]
          [] OTHER -> [m EXCEPT !.FreeList = NULL]

\* The nodes met by following next from start (start itself first).
Nodes(m, start) ==
    LET nth[k \in 0..HeapLimit] ==
            IF k = 0 THEN start
            ELSE IF nth[k - 1] = NULL THEN NULL ELSE m.next[nth[k - 1]]
        n == CHOOSE k \in 0..HeapLimit :
                 nth[k] = NULL /\ \A j \in 0..k - 1 : nth[j] # NULL
    IN  [k \in 1..n |-> nth[k - 1]]

FreeNodes(m) == Nodes(m, m.FreeList)

\* Free blocks are added in an increasing address order; a block that is in
\* the list already is left alone.  The first block of an empty list keeps the
\* links it has.
freelist_insert(m, b) ==
    LET list == FreeNodes(m)
        above == {k \in DOMAIN list : b <= list[k]}
        k == Min(above)
        last == list[Len(list)]
    IN  IF list = <<>> THEN [m EXCEPT !.FreeList = b]
        ELSE IF above = {}
        THEN [m EXCEPT !.next = [@ EXCEPT ![last] = b, ![b] = NULL],
                       !.prev[b] = last]
        ELSE IF list[k] = b THEN m
        ELSE LET m1 == [m EXCEPT !.next[b] = list[k],
                                 !.prev = [@ EXCEPT ![b] = m.prev[list[k]],
                                                    ![list[k]] = b]]
             IN  IF k > 1 THEN [m1 EXCEPT !.next[list[k - 1]] = b]
                 ELSE [m1 EXCEPT !.FreeList = b]

\* The test that a free block is split, and the test that it is used whole.
CanSplit(m, b, size) == m.length[b] >= Plus(size, HDR)
Fits(m, b, size) == CanSplit(m, b, size) \/ m.length[b] >= size

\* First fit from start: the memory after taking the block, and the block.
freelist_get_free_block_M(m, start, size) ==
    LET list == Nodes(m, start)
        b == list[Min({k \in DOMAIN list : Fits(m, list[k], size)})]
    IN  IF \A k \in DOMAIN list : ~Fits(m, list[k], size)
        THEN [m |-> m, b |-> NULL]
        ELSE [b |-> b,
              m |-> [block_init(freelist_remove(m, b), b)
                         EXCEPT !.length[b] = size]]

freelist_get_free_block(m, start, size) ==
    LET list == Nodes(m, start)
        b == list[Min({k \in DOMAIN list : Fits(m, list[k], size)})]
    IN  IF \A k \in DOMAIN list : ~Fits(m, list[k], size)
        THEN [m |-> m, b |-> NULL]
        ELSE LET split == CanSplit(m, b, size)
                 m1 == IF split THEN block_split(m, b, size) ELSE m
                 m2 == block_init(freelist_remove(m1, b), b)
             IN  [b |-> b,
                  m |-> [m2 EXCEPT !.length[b] =
                                       IF split THEN size ELSE m.length[b]]]

is_freelist_sane(m) ==
    LET list == FreeNodes(m)
    IN  \A k \in DOMAIN list :
            m.prev[list[k]] = IF k = 1 THEN NULL ELSE list[k - 1]

-----------------------------------------------------------------------------
(* The two entry points.                                                   *)

\* What the client writes: every cell it asked for, and memory that brk() gave
\* back is zero when it comes again.
Overwrite(m, cells) ==
    LET clear(f) == [a \in Addr |-> IF a \in cells THEN 0 ELSE f[a]]
    IN  [m EXCEPT !.prev = clear(@), !.next = clear(@), !.length = clear(@)]

UserCells(b, size) == (b + HDR .. b + HDR + size - 1) \cap Addr

Hand(m, b, size) ==
    /\ mem' = Overwrite(m, UserCells(b, size))
    /\ live' = live \cup {[b |-> b, size |-> size]}
    /\ UNCHANGED foreign

\* The client asserts is_freelist_sane() and uses its blocks.
Intact ==
    /\ is_freelist_sane(mem)
    /\ \A x \in live : x.b + HDR + mem.length[x.b] <= brk
    /\ \A a \in foreign : a < brk

AllocSize(size) == Max({Plus(size, HDR), MIN_HEAP_ALLOC_SIZE})

XmallocFromList(size) ==
    /\ Intact
    /\ LET got == freelist_get_free_block(mem, mem.FreeList, size)
       IN  got.b # NULL /\ Hand(got.m, got.b, size)
    /\ UNCHANGED brk

NoFit(size) == freelist_get_free_block(mem, mem.FreeList, size).b = NULL

XmallocFromHeap(size) ==
    /\ Intact
    /\ NoFit(size)
    /\ brk + AllocSize(size) <= HeapLimit + 1
    /\ brk' = brk + AllocSize(size)
    /\ LET m1 == [block_init(mem, brk) EXCEPT !.length[brk] = brk' - brk - HDR]
           got == freelist_get_free_block(freelist_insert(m1, brk), brk, size)
       IN  Hand(got.m, got.b, size)

\* sbrk() fails: xmalloc() returns NULL and nothing changes.
XmallocFails(size) ==
    /\ Intact
    /\ NoFit(size)
    /\ brk + AllocSize(size) > HeapLimit + 1
    /\ UNCHANGED vars

\* The two merges of xfree(), the first one with the predecessor.
Adjacent(m, l, r) == l # NULL /\ r # NULL /\ l + m.length[l] + HDR = r

Coalesce_M(m, b) ==
    IF Adjacent(m, m.prev[b], b) THEN block_merge(m, m.prev[b], b) ELSE m

Coalesce(m, b) ==
    LET prev == m.prev[b]
        next == m.next[b]
        merge == Adjacent(m, prev, b)
        m1 == IF merge THEN block_merge(m, prev, b) ELSE m
        b1 == IF merge THEN prev ELSE b
    IN  IF Adjacent(m1, b1, next) THEN block_merge(m1, b1, next) ELSE m1

xfree(x) ==
    /\ Intact
    /\ LET m1 == Coalesce(freelist_insert(mem, x.b), x.b)
           list == FreeNodes(m1)
           last == list[Len(list)]
       IN  IF m1.length[last] >= MIN_HEAP_FREE_SIZE
           THEN /\ brk' = last
                /\ mem' = Overwrite(freelist_remove(m1, last), last..HeapLimit)
           ELSE mem' = m1 /\ UNCHANGED brk
    /\ live' = live \ {x}
    /\ UNCHANGED foreign

\* Another user of the heap (the C library's malloc(), for one) calls sbrk().
ForeignSbrk(n) ==
    /\ Intact
    /\ brk + n <= HeapLimit + 1
    /\ brk' = brk + n
    /\ foreign' = foreign \cup (brk .. brk + n - 1)
    /\ UNCHANGED <<mem, live>>

Init ==
    /\ mem = [FreeList |-> NULL, prev |-> [a \in Addr |-> NULL],
              next |-> [a \in Addr |-> NULL], length |-> [a \in Addr |-> 0]]
    /\ brk = 1
    /\ live = {}
    /\ foreign = {}

Next ==
    \/ \E size \in Sizes : \/ XmallocFromList(size)
                           \/ XmallocFromHeap(size)
                           \/ XmallocFails(size)
    \/ \E x \in live : xfree(x)
    \/ \E n \in ForeignSizes : ForeignSbrk(n)

Spec == Init /\ [][Next]_vars

-----------------------------------------------------------------------------
(* Properties.                                                             *)

\* The tests' is_freelist_sane(): every prev link is the inverse of next.
FreelistSane == is_freelist_sane(mem)

Extent(b) == b .. b + HDR + mem.length[b] - 1
Blocks == {x.b : x \in live} \cup Range(FreeNodes(mem))

\* While no assertion has failed, the client's blocks, the free blocks and the
\* foreign memory tile the heap: nothing overlaps and no cell is lost by
\* splitting, merging, first fit or shrinking.  A block is as long as the client
\* asked for, and "free blocks are added in an increasing address order".
HeapTiled ==
    Intact =>
      /\ \A a \in 1..brk - 1 :
            IF a \in foreign THEN \A b \in Blocks : a \notin Extent(b)
            ELSE Cardinality({b \in Blocks : a \in Extent(b)}) = 1
      /\ \A b \in Blocks : Extent(b) \subseteq 1..brk - 1
      /\ Cardinality({x.b : x \in live}) = Cardinality(live)
      /\ \A x \in live : x.b \notin Range(FreeNodes(mem)) /\ mem.length[x.b] >= x.size
      /\ \A k \in 1..Len(FreeNodes(mem)) - 1 : FreeNodes(mem)[k] < FreeNodes(mem)[k + 1]

\* The free block, if any, that holds address a after the step.
HolderAfter(a) ==
    {b \in Range(FreeNodes(mem')) : a \in b .. b + HDR + mem'.length[b] - 1}

\* xfree() coalesces: what it freed is not next to another free block, unless
\* it was given back to the system.
FreeCoalesces ==
    [][\A x \in live \ live' :
          Intact' => \A b \in HolderAfter(x.b) :
                        \A c \in Range(FreeNodes(mem')) :
                            b + HDR + mem'.length[b] # c
                            /\ c + HDR + mem'.length[c] # b]_vars
==============================================================================
