---------------------------- MODULE InotifyProofs ----------------------------
(***************************************************************************)
(* inotify_dtree.c never keeps a cache entry for a removed directory       *)
(* unnoticed, and never two for one watch: whatever the tree, the names,   *)
(* the order of the other processes' operations, the length of the event   *)
(* queue and of the read buffer.                                           *)
(*                                                                         *)
(* The entry of a removed directory goes with the IN_DELETE_SELF event of  *)
(* its watch, or with the overflow event that stands for it.  So the proof *)
(* follows that event: through the queue, where it may be merged or        *)
(* replaced, and through the buffer, which is empty when read() fills it.  *)
(***************************************************************************)
EXTENDS InotifyDtree, FiniteSetTheorems, SequenceTheorems, TLAPS

\* How long the provers may take for one step.
USE SMTT(30), ZenonT(30)

AnyName == {None} \cup UNION {w.names : w \in Worlds}
Masks == {"IN_CREATE", "IN_DELETE_SELF", "IN_IGNORED", "IN_MOVED_FROM", "IN_MOVED_TO",
          "IN_MOVE_SELF", "IN_Q_OVERFLOW"}
Events == [wd : Nat, mask : Masks, name : AnyName, cookie : Nat]
Moves == Nat \X Nat \X AnyName \X Nat

FsTypes ==
    /\ world \in Worlds
    /\ loc \in [Inodes -> [dir : Nat, name : AnyName]]
    /\ used \in Nat /\ ops \in Nat
    /\ moving \in [Movers -> {<<>>} \cup Moves]

MonTypes ==
    /\ nextWd \in Nat \ {0}
    /\ DOMAIN watch \subseteq 1..nextWd - 1
    /\ queue \in Seq(Events) /\ buf \in Seq(Events)
    /\ \A e \in cache : e = [wd |-> e.wd, path |-> e.path] /\ e.wd \in 1..nextWd - 1

\* read() never overwrites events that are still to be processed.
BufferInv ==
    /\ mpc \in {"select", "read", "walkRead"} => buf = <<>>
    /\ mpc \in {"process", "more"} => buf # <<>>

\* A directory has one watch.
WatchInv == \A v, w \in DOMAIN watch : watch[v] = watch[w] => v = w

UniqueWds == \A e, f \in cache : e.wd = f.wd => e = f

\* The removal of the directory that wd watched is among the events s.
Due(s, wd) ==
    \E k \in 1..Len(s) : \/ s[k].mask = "IN_Q_OVERFLOW"
                         \/ s[k].wd = wd /\ s[k].mask = "IN_DELETE_SELF"

RemovalInv ==
    mpc # "exit" =>
        \A e \in cache : e.wd \notin DOMAIN watch => Due(buf, e.wd) \/ Due(queue, e.wd)

IInv == FsTypes /\ MonTypes /\ BufferInv /\ WatchInv /\ UniqueWds /\ RemovalInv

-----------------------------------------------------------------------------
(* Events.                                                                 *)

\* The kernel's events are events: what inotify_add_watch() masks can bring.
LEMMA EventType ==
    ASSUME NEW wd \in Nat, NEW mask \in Masks, NEW name \in AnyName, NEW cookie \in Nat
    PROVE  /\ Event(wd, mask, name, cookie) \in Events
           /\ Event(wd, mask, name, cookie).wd = wd
           /\ Event(wd, mask, name, cookie).mask = mask
BY DEF Event, Events

\* The overflow event is one of them.
LEMMA OverflowType == Overflow \in Events /\ Overflow.mask = "IN_Q_OVERFLOW"
<1>1. None \in Nat /\ None \in AnyName /\ 0 \in Nat
  BY DEF None, AnyName
<1>2. "IN_Q_OVERFLOW" \in Masks
  BY DEF Masks
<1> QED BY <1>1, <1>2 DEF Overflow, Event, Events

\* A queue that holds the overflow event makes every removal due: the program
\* rebuilds its cache on it.
LEMMA DueOverflow ==
    ASSUME NEW wd
    PROVE  <<Overflow>> \in Seq(Events) /\ Due(<<Overflow>>, wd)
BY OverflowType DEF Due

\* A removal is due in two queues joined if it is in one of them.
LEMMA DueConcat ==
    ASSUME NEW s \in Seq(Events), NEW t \in Seq(Events), NEW wd
    PROVE  Due(s \o t, wd) <=> Due(s, wd) \/ Due(t, wd)
<1>1. ASSUME Due(s, wd) PROVE Due(s \o t, wd)
  BY <1>1 DEF Due
<1>2. ASSUME Due(t, wd) PROVE Due(s \o t, wd)
  <2>1. PICK k \in 1..Len(t) : \/ t[k].mask = "IN_Q_OVERFLOW"
                               \/ t[k].wd = wd /\ t[k].mask = "IN_DELETE_SELF"
    BY <1>2 DEF Due
  <2>2. Len(s) + k \in 1..Len(s \o t) /\ (s \o t)[Len(s) + k] = t[k]
    OBVIOUS
  <2> QED BY <2>1, <2>2 DEF Due
<1>3. ASSUME Due(s \o t, wd) PROVE Due(s, wd) \/ Due(t, wd)
  <2>1. PICK k \in 1..Len(s \o t) :
            \/ (s \o t)[k].mask = "IN_Q_OVERFLOW"
            \/ (s \o t)[k].wd = wd /\ (s \o t)[k].mask = "IN_DELETE_SELF"
    BY <1>3 DEF Due
  <2>2. CASE k <= Len(s)
    BY <2>1, <2>2 DEF Due
  <2>3. CASE k > Len(s)
    <3>1. k - Len(s) \in 1..Len(t) /\ (s \o t)[k] = t[k - Len(s)]
      BY <2>3
    <3> QED BY <2>1, <3>1 DEF Due
  <2> QED BY <2>2, <2>3
<1> QED BY <1>1, <1>2, <1>3

\* read() splits a queue.
LEMMA Split ==
    ASSUME NEW s \in Seq(Events), NEW n \in 0..Len(s)
    PROVE  /\ SubSeq(s, 1, n) \in Seq(Events) /\ Len(SubSeq(s, 1, n)) = n
           /\ SubSeq(s, n + 1, Len(s)) \in Seq(Events)
           /\ Len(SubSeq(s, n + 1, Len(s))) = Len(s) - n
           /\ s = SubSeq(s, 1, n) \o SubSeq(s, n + 1, Len(s))
<1>1. Len(s) \in Nat /\ n \in Nat /\ n <= Len(s) /\ 1 \in 1..Len(s) + 1 /\ n \in 1 - 1 .. Len(s)
      /\ Len(s) \in n..Len(s)
  OBVIOUS
<1>2. SubSeq(s, 1, n) \o SubSeq(s, n + 1, Len(s)) = SubSeq(s, 1, Len(s))
  BY <1>1, ConcatAdjacentSubSeq, ZenonT(30)
<1>3. SubSeq(s, 1, Len(s)) = s
  BY SubSeqFull
<1>4. SubSeq(s, 1, n) \in Seq(Events) /\ Len(SubSeq(s, 1, n)) = n
  BY <1>1
<1>5. /\ SubSeq(s, n + 1, Len(s)) \in Seq(Events)
      /\ Len(SubSeq(s, n + 1, Len(s))) = Len(s) - n
  BY <1>1
<1> QED BY <1>2, <1>3, <1>4, <1>5, ZenonT(30)

\* An event that is merged or lost is still due: it is in the queue already, or an
\* overflow stands for it.
LEMMA Enqueued ==
    ASSUME NEW q \in Seq(Events), NEW es \in Seq(Events), MaxQueue \in Nat \ {0}
    PROVE  /\ EnqueueAll(q, es) \in Seq(Events)
           /\ \A wd : Due(q, wd) \/ Due(es, wd) => Due(EnqueueAll(q, es), wd)
<1> DEFINE merged == q # <<>> /\ es # <<>> /\ Last(q) = es[1]
<1> DEFINE new == IF merged THEN Tail(es) ELSE es
<1> DEFINE r == EnqueueAll(q, es)
<1>1. new \in Seq(Events) /\ \A wd : Due(es, wd) => Due(q, wd) \/ Due(new, wd)
  <2>1. CASE merged
    <3>1. es[1] \in Events /\ Tail(es) \in Seq(Events) /\ es = <<es[1]>> \o Tail(es)
      <4>1. es[1] \in Events /\ Tail(es) \in Seq(Events) /\ 1 \in 1..Len(es)
            /\ Len(es) \in 1..Len(es)
        BY <2>1
      <4>2. es = SubSeq(es, 1, Len(es)) /\ Tail(es) = SubSeq(es, 2, Len(es))
        BY <2>1, SubSeqFull, TailIsSubSeq
      <4>3. SubSeq(es, 1, Len(es)) = <<es[1]>> \o SubSeq(es, 1 + 1, Len(es))
        BY <4>1, SubSeqRecursiveFirst
      <4> QED BY <4>1, <4>2, <4>3
    <3>2. ASSUME NEW wd, Due(<<es[1]>>, wd) PROVE Due(q, wd)
      <4>1. q[Len(q)] = es[1] /\ Len(q) \in 1..Len(q)
        BY <2>1 DEF Last
      <4>2. \/ es[1].mask = "IN_Q_OVERFLOW"
            \/ es[1].wd = wd /\ es[1].mask = "IN_DELETE_SELF"
        BY <3>2 DEF Due
      <4> QED BY <4>1, <4>2 DEF Due
    <3>3. new = Tail(es)
      BY <2>1
    <3>4. <<es[1]>> \in Seq(Events)
      BY <3>1
    <3>5. ASSUME NEW wd, Due(es, wd) PROVE Due(<<es[1]>>, wd) \/ Due(Tail(es), wd)
      <4>1. Due(<<es[1]>> \o Tail(es), wd)
        BY <3>1, <3>5, ZenonT(30)
      <4> QED BY <3>1, <3>4, <4>1, DueConcat, ZenonT(30)
    <3> QED BY <3>1, <3>2, <3>3, <3>5, ZenonT(30)
  <2>2. CASE ~merged
    BY <2>2
  <2> QED BY <2>1, <2>2
<1>2. r = IF new = <<>> \/ Len(q) + Len(new) <= MaxQueue THEN q \o new
          ELSE IF Len(q) >= MaxQueue /\ Last(q) = Overflow THEN q
          ELSE q \o SubSeq(new, 1, MaxQueue - Len(q)) \o <<Overflow>>
  BY DEF EnqueueAll
<1> HIDE DEF new, r
<1>3. CASE r = q \o new
  BY <1>1, <1>3, DueConcat DEF r
<1>4. CASE r = q /\ Len(q) >= MaxQueue /\ Last(q) = Overflow
  <2>1. Len(q) \in 1..Len(q) /\ q[Len(q)] = Overflow
    BY <1>4 DEF Last
  <2>2. \A wd : Due(q, wd)
    BY <2>1, OverflowType DEF Due
  <2> QED BY <1>4, <2>2 DEF r
<1>5. CASE r = q \o SubSeq(new, 1, MaxQueue - Len(q)) \o <<Overflow>>
  <2>1. SubSeq(new, 1, MaxQueue - Len(q)) \in Seq(Events)
    <3>1. CASE MaxQueue - Len(q) <= Len(new)
      BY <1>1, <3>1
    <3>2. CASE MaxQueue - Len(q) > Len(new)
      BY <1>1, <1>2, <1>5, <3>2
    <3> QED BY <1>1, <3>1, <3>2
  <2> DEFINE t == SubSeq(new, 1, MaxQueue - Len(q))
  <2>2. q \o t \in Seq(Events)
    BY <2>1
  <2>3. (q \o t) \o <<Overflow>> \in Seq(Events)
    BY <2>2, OverflowType
  <2>4. \A wd : Due((q \o t) \o <<Overflow>>, wd)
    BY <2>2, DueConcat, DueOverflow, ZenonT(30)
  <2> QED BY <1>5, <2>3, <2>4 DEF r
<1> QED BY <1>2, <1>3, <1>4, <1>5, ZenonT(30)

-----------------------------------------------------------------------------
(* Watches.                                                                *)

\* The limits and names of the chosen world, from the assumption on Worlds.
LEMMA WorldTypes ==
    ASSUME world \in Worlds
    PROVE  /\ MaxQueue \in Nat \ {0} /\ BufLen \in Nat \ {0} /\ MaxInode \in Nat
           /\ IsFiniteSet(RootNames) /\ RootNames \subseteq Names
           /\ Names \subseteq AnyName /\ Cardinality(RootNames) <= MaxInode
BY WorldsAssumption DEF MaxQueue, BufLen, MaxInode, RootNames, Names, AnyName

\* Watch descriptors are small numbers, so a set of them is finite.
LEMMA WdsFinite ==
    ASSUME nextWd \in Nat, NEW W, W \subseteq 1..nextWd - 1
    PROVE  IsFiniteSet(W) /\ Cardinality(W) \in Nat
<1>1. IsFiniteSet(1..nextWd - 1)
  BY FS_Interval
<1> QED BY <1>1, FS_Subset, FS_CardinalityType, ZenonT(30)

\* The order in which the kernel notifies the watches of a directory lists
\* each of them.
LEMMA SetToSeqType ==
    ASSUME NEW S, IsFiniteSet(S)
    PROVE  SetToSeq(S) \in [1..Cardinality(S) -> S]
<1>2. ExistsBijection(1..Cardinality(S), S)
  BY FS_CardinalityType
<1>3. \E f \in [1..Cardinality(S) -> S] : IsInjective(f)
  BY <1>2 DEF ExistsBijection, Bijection, Injection, IsInjective
<1> QED BY <1>3 DEF SetToSeq

\* What happens to a directory causes one event for its watch, if it has one.
LEMMA OnType ==
    ASSUME MonTypes, WatchInv, NEW i,
           NEW mask \in Masks, NEW name \in AnyName, NEW cookie \in Nat
    PROVE  /\ On(i, mask, name, cookie) \in Seq(Events)
           /\ \A w \in WdsOf(i) :
                  Len(On(i, mask, name, cookie)) = 1 /\
                  On(i, mask, name, cookie)[1] = Event(w, mask, name, cookie)
<1>1. CASE WdsOf(i) = {}
  <2>1. Cardinality(WdsOf(i)) = 0
    BY <1>1, FS_EmptySet
  <2>2. On(i, mask, name, cookie) = <<>>
    BY <2>1 DEF On
  <2> QED BY <1>1, <2>2
<1>2. CASE WdsOf(i) # {}
  <2>1. PICK w : w \in WdsOf(i)
    BY <1>2
  <2>2. WdsOf(i) = {w} /\ w \in Nat
    BY <2>1 DEF WdsOf, WatchInv, MonTypes
  <2>3. Cardinality(WdsOf(i)) = 1 /\ (CHOOSE v \in WdsOf(i) : TRUE) = w
    BY <2>2, FS_Singleton
  <2>4. On(i, mask, name, cookie) = [k \in 1..1 |-> Event(w, mask, name, cookie)]
    <3>1. On(i, mask, name, cookie) =
             [k \in 1..Cardinality(WdsOf(i)) |->
                 Event(CHOOSE v \in WdsOf(i) : TRUE, mask, name, cookie)]
      BY DEF On
    <3> QED BY <2>3, <3>1, ZenonT(30)
  <2>5. Event(w, mask, name, cookie) \in Events
    BY <2>2, EventType
  <2> QED BY <2>2, <2>4, <2>5
<1> QED BY <1>1, <1>2

\* The program starts with an empty cache.
LEMMA InotifyInit == Init => IInv
<1> SUFFICES ASSUME Init
             PROVE  IInv
  OBVIOUS
<1>1. world \in Worlds
  BY DEF Init
<1>2. used \in Nat /\ used <= MaxInode /\ SetToSeq(RootNames) \in [1..used -> AnyName]
  <2>1. SetToSeq(RootNames) \in [1..Cardinality(RootNames) -> RootNames]
    BY <1>1, WorldTypes, SetToSeqType
  <2>2. Cardinality(RootNames) \in Nat
    BY <1>1, WorldTypes, FS_CardinalityType
  <2>3. RootNames \subseteq AnyName
    BY <1>1, WorldTypes
  <2> QED BY <1>1, <2>1, <2>2, <2>3, WorldTypes DEF Init
<1>3. loc \in [Inodes -> [dir : Nat, name : AnyName]]
  <2>1. ASSUME NEW i \in Inodes
        PROVE  (IF i <= used THEN [dir |-> Top, name |-> SetToSeq(RootNames)[i]]
                ELSE Unlinked) \in [dir : Nat, name : AnyName]
    <3>1. CASE i <= used
      <4>1. i \in 1..used
        BY <1>1, <1>2, <3>1, WorldTypes DEF Inodes
      <4> QED BY <1>2, <3>1, <4>1 DEF Top
    <3>2. CASE ~(i <= used)
      BY <3>2 DEF Unlinked, None, AnyName
    <3> QED BY <3>1, <3>2
  <2> QED BY <2>1 DEF Init
<1>4. FsTypes
  BY <1>1, <1>2, <1>3 DEF FsTypes, Init
<1>5. MonTypes /\ BufferInv /\ WatchInv /\ UniqueWds /\ RemovalInv
  BY DEF MonTypes, BufferInv, WatchInv, UniqueWds, RemovalInv, Init
<1> QED BY <1>4, <1>5 DEF IInv

-----------------------------------------------------------------------------
(* The other processes.                                                    *)

\* Events are queued; nothing else that the invariant is about changes.
LEMMA QueuedKeeps ==
    ASSUME IInv, FsTypes', NEW es \in Seq(Events), queue' = EnqueueAll(queue, es),
           UNCHANGED <<watch, nextWd, buf, cache, mpc>>
    PROVE  IInv'
<1>1. MaxQueue \in Nat \ {0}
  BY WorldTypes DEF IInv, FsTypes
<1>2. queue' \in Seq(Events) /\ \A wd : Due(queue, wd) => Due(queue', wd)
  BY <1>1, Enqueued DEF IInv, MonTypes
<1>3. MonTypes' /\ BufferInv' /\ WatchInv' /\ UniqueWds'
  BY <1>2 DEF IInv, MonTypes, BufferInv, WatchInv, UniqueWds
<1>4. RemovalInv'
  BY <1>2 DEF IInv, RemovalInv
<1> QED BY <1>3, <1>4 DEF IInv

\* mkdir() queues an event on the parent and puts a new inode in place.
LEMMA MkdirKeeps ==
    ASSUME IInv, NEW d \in {Top} \cup Linked, NEW n \in Names, Mkdir(d, n)
    PROVE  IInv'
<1>1. n \in AnyName /\ d \in Nat /\ MaxInode \in Nat
  BY WorldTypes DEF IInv, FsTypes, Top, Linked, Inodes
<1>2. FsTypes'
  <2>1. used + 1 \in Inodes /\ [dir |-> d, name |-> n] \in [dir : Nat, name : AnyName]
    BY <1>1 DEF IInv, FsTypes, Mkdir, Inodes
  <2>2. loc' \in [Inodes -> [dir : Nat, name : AnyName]]
    BY <2>1 DEF IInv, FsTypes, Mkdir
  <2> QED BY <2>2 DEF IInv, FsTypes, Mkdir, Inodes, MaxInode, Movers
<1>3. On(d, "IN_CREATE", n, 0) \in Seq(Events)
  BY <1>1, OnType, ZenonT(30) DEF IInv, Masks
<1> QED
  BY <1>2, <1>3, QueuedKeeps DEF Mkdir, monVars

\* rmdir() takes the watch of the directory away and queues IN_DELETE_SELF for it.
LEMMA RmdirKeeps ==
    ASSUME IInv, NEW i \in Linked, Rmdir(i)
    PROVE  IInv'
<1> DEFINE del == On(i, "IN_DELETE_SELF", None, 0)
<1> DEFINE ign == On(i, "IN_IGNORED", None, 0)
<1>1. None \in AnyName /\ 0 \in Nat /\ MaxQueue \in Nat \ {0}
  BY WorldTypes DEF IInv, FsTypes, AnyName
<1>2. /\ del \in Seq(Events) /\ ign \in Seq(Events)
      /\ \A w \in WdsOf(i) : Len(del) = 1 /\ del[1] = Event(w, "IN_DELETE_SELF", None, 0)
  <2>1. "IN_DELETE_SELF" \in Masks /\ "IN_IGNORED" \in Masks /\ MonTypes /\ WatchInv
    BY DEF IInv, Masks
  <2> QED BY <1>1, <2>1, OnType, ZenonT(30)
<1> HIDE DEF del, ign
<1>3. ASSUME NEW w \in WdsOf(i) PROVE Due(del, w)
  <2>1. del[1] = Event(w, "IN_DELETE_SELF", None, 0) /\ 1 \in 1..Len(del)
    BY <1>2
  <2>2. del[1].wd = w /\ del[1].mask = "IN_DELETE_SELF"
    BY <2>1 DEF Event
  <2> QED BY <2>1, <2>2 DEF Due
<1>4. del \o ign \in Seq(Events) /\ \A w \in WdsOf(i) : Due(del \o ign, w)
  BY <1>2, <1>3, DueConcat
<1>5. queue' = EnqueueAll(queue, del \o ign)
  BY DEF Rmdir, del, ign
<1>6. /\ queue' \in Seq(Events)
      /\ \A wd : Due(queue, wd) \/ Due(del \o ign, wd) => Due(queue', wd)
  BY <1>1, <1>4, <1>5, Enqueued, ZenonT(30) DEF IInv, MonTypes
<1>7. FsTypes'
  <2>1. Unlinked \in [dir : Nat, name : AnyName]
    BY <1>1 DEF Unlinked, None
  <2>2. loc' \in [Inodes -> [dir : Nat, name : AnyName]]
    BY <2>1, ZenonT(30) DEF IInv, FsTypes, Rmdir
  <2> QED BY <2>2 DEF IInv, FsTypes, Rmdir, Inodes, MaxInode, Movers
<1>8. /\ DOMAIN watch' = DOMAIN watch \ WdsOf(i)
      /\ \A w \in DOMAIN watch' : watch'[w] = watch[w]
      /\ UNCHANGED <<nextWd, buf, cache, mpc>>
  BY DEF Rmdir, Unwatch, monVars
<1>9. MonTypes' /\ BufferInv' /\ WatchInv' /\ UniqueWds'
  BY <1>6, <1>8 DEF IInv, MonTypes, BufferInv, WatchInv, UniqueWds
<1>10. RemovalInv'
  BY <1>4, <1>6, <1>8 DEF IInv, RemovalInv
<1> QED BY <1>7, <1>9, <1>10 DEF IInv

\* rename() leaves the old place and queues IN_MOVED_FROM.
LEMMA RenameFromKeeps ==
    ASSUME IInv, NEW p \in Movers, NEW i \in Linked, NEW d \in {Top} \cup Linked,
           NEW n \in Names, RenameFrom(p, i, d, n)
    PROVE  IInv'
<1>1. /\ n \in AnyName /\ d \in Nat /\ i \in Nat /\ ops + 1 \in Nat
      /\ i \in Inodes /\ loc[i].name \in AnyName
  BY WorldTypes DEF IInv, FsTypes, Top, Linked, Inodes
<1>2. FsTypes'
  <2>1. loc' \in [Inodes -> [dir : Nat, name : AnyName]]
    BY <1>1 DEF IInv, FsTypes, RenameFrom
  <2>2. <<i, d, n, ops + 1>> \in Moves
    BY <1>1 DEF Moves
  <2>3. moving' \in [Movers -> {<<>>} \cup Moves]
    BY <2>2 DEF IInv, FsTypes, RenameFrom
  <2> QED BY <1>1, <2>1, <2>3, ZenonT(30) DEF IInv, FsTypes, RenameFrom, Inodes, MaxInode, Movers
<1>3. On(loc[i].dir, "IN_MOVED_FROM", loc[i].name, ops + 1) \in Seq(Events)
  BY <1>1, OnType, ZenonT(30) DEF IInv, Masks
<1> QED
  BY <1>2, <1>3, QueuedKeeps DEF RenameFrom, monVars

\* rename() arrives: IN_MOVED_TO on the new parent, IN_MOVE_SELF on the directory.
LEMMA RenameToKeeps ==
    ASSUME IInv, NEW p \in Movers, RenameTo(p)
    PROVE  IInv'
<1> DEFINE i == moving[p][1]
<1> DEFINE S == WdsOf(i) \cap selfMask
<1> DEFINE to == On(moving[p][2], "IN_MOVED_TO", moving[p][3], moving[p][4])
<1> DEFINE on == On(i, "IN_MOVE_SELF", None, 0)
<1> DEFINE self == [k \in 1..Cardinality(S) |-> on[1]]
<1>1. moving[p] \in Moves
  BY DEF IInv, FsTypes, RenameTo
<1>2. moving[p][3] \in AnyName /\ moving[p][4] \in Nat /\ None \in AnyName /\ 0 \in Nat
  BY <1>1 DEF Moves, AnyName
<1>3. to \in Seq(Events) /\ on \in Seq(Events) /\ \A w \in WdsOf(i) : Len(on) = 1
  BY <1>2, OnType, ZenonT(30) DEF IInv, Masks
<1>4. self \in Seq(Events)
  <2>1. CASE S = {}
    <3>1. Cardinality(S) = 0
      BY <2>1, FS_EmptySet
    <3> HIDE DEF S, on
    <3>2. self = <<>>
      BY <3>1
    <3>3. <<>> \in Seq(Events)
      OBVIOUS
    <3> QED BY <3>2, <3>3, ZenonT(30)
  <2>2. CASE S # {}
    <3>1. on[1] \in Events
      BY <1>3, <2>2
    <3>4. \A c \in Nat, x \in Events : [k \in 1..c |-> x] \in Seq(Events)
      OBVIOUS
    <3>2. S \subseteq 1..nextWd - 1 /\ nextWd \in Nat
      BY DEF WdsOf, IInv, MonTypes
    <3>3. Cardinality(S) \in Nat
      BY <3>2, WdsFinite
    <3> HIDE DEF S, on
    <3> QED BY <3>1, <3>3, <3>4
  <2> QED BY <2>1, <2>2
<1>5. queue' = EnqueueAll(queue, to \o self)
  BY DEF RenameTo
<1> HIDE DEF to, self
<1>6. to \o self \in Seq(Events)
  BY <1>3, <1>4
<1>7. FsTypes'
  BY DEF IInv, FsTypes, RenameTo, Inodes, MaxInode, Movers
<1> QED
  BY <1>5, <1>6, <1>7, QueuedKeeps, ZenonT(30) DEF RenameTo, monVars

\* What other processes do to the tree keeps the invariant.
LEMMA FilesystemKeeps ==
    ASSUME IInv, Filesystem
    PROVE  IInv'
BY MkdirKeeps, RmdirKeeps, RenameFromKeeps, RenameToKeeps DEF Filesystem

-----------------------------------------------------------------------------
(* The monitor.                                                            *)

\* A step that leaves filesystem, watches, events and cache alone.
LEMMA WalkKeeps ==
    ASSUME IInv, UNCHANGED <<fsVars, watch, nextWd, queue, buf, cache>>,
           mpc # "exit", BufferInv'
    PROVE  IInv'
<1>1. FsTypes' /\ MonTypes' /\ WatchInv' /\ UniqueWds'
  BY DEF IInv, FsTypes, MonTypes, WatchInv, UniqueWds, fsVars, Inodes, MaxInode, Movers
<1>2. RemovalInv'
  BY DEF IInv, RemovalInv
<1> QED BY <1>1, <1>2 DEF IInv

\* Everything starts again.
LEMMA ReinitializeKeeps ==
    ASSUME IInv, NEW rs, NEW pc \in {"walk", "walkRead"}, Reinitialize(rs, pc)
    PROVE  IInv'
<1>1. FsTypes'
  BY DEF IInv, FsTypes, Reinitialize, fsVars, Inodes, MaxInode, Movers
<1>2. MonTypes' /\ BufferInv' /\ WatchInv' /\ UniqueWds' /\ RemovalInv'
  BY DEF Reinitialize, MonTypes, BufferInv, WatchInv, UniqueWds, RemovalInv
<1> QED BY <1>1, <1>2 DEF IInv

\* A new watch has a new descriptor, and so does its cache entry.
LEMMA AddWatchKeeps ==
    ASSUME IInv, NEW i, NEW path, AddWatch(i, path),
           UNCHANGED <<fsVars, queue, buf, mpc>>
    PROVE  IInv'
<1> DEFINE w == IF WdsOf(i) = {} THEN nextWd ELSE CHOOSE x \in WdsOf(i) : TRUE
<1>1. FsTypes'
  BY DEF IInv, FsTypes, fsVars, Inodes, MaxInode, Movers
<1>2. /\ nextWd' \in Nat \ {0} /\ w \in 1..nextWd' - 1 /\ nextWd <= nextWd'
      /\ WdsOf(i) # {} => w \in DOMAIN watch /\ watch[w] = i
      /\ WdsOf(i) = {} => w \notin DOMAIN watch
  <2>1. CASE WdsOf(i) = {}
    BY <2>1 DEF IInv, MonTypes, AddWatch
  <2>2. CASE WdsOf(i) # {}
    <3>1. w \in WdsOf(i) /\ nextWd' = nextWd
      BY <2>2 DEF AddWatch
    <3> QED BY <2>2, <3>1 DEF IInv, MonTypes, WdsOf
  <2> QED BY <2>1, <2>2
<1>3. /\ watch' = [x \in DOMAIN watch \cup {w} |-> IF x = w THEN i ELSE watch[x]]
      /\ cache' = IF findWatch(w) # {} THEN cache ELSE cache \cup {[wd |-> w, path |-> path]}
  BY DEF AddWatch
<1> HIDE DEF w
<1>4. DOMAIN watch' = DOMAIN watch \cup {w}
  BY <1>3
<1>5. /\ UniqueWds'
      /\ \A e \in cache' : e = [wd |-> e.wd, path |-> e.path] /\ e.wd \in 1..nextWd' - 1
      /\ \A e \in cache' : e \in cache \/ e.wd = w
  <2>0. \A e \in cache : e = [wd |-> e.wd, path |-> e.path] /\ e.wd \in 1..nextWd' - 1
    BY <1>2 DEF IInv, MonTypes
  <2>1. CASE findWatch(w) # {}
    BY <1>3, <2>0, <2>1 DEF IInv, UniqueWds
  <2>2. CASE findWatch(w) = {}
    <3>1. \A e \in cache : e.wd # w
      BY <2>2 DEF findWatch
    <3>2. cache' = cache \cup {[wd |-> w, path |-> path]}
      BY <1>3, <2>2
    <3> QED BY <1>2, <2>0, <3>1, <3>2 DEF IInv, UniqueWds
  <2> QED BY <2>1, <2>2
<1>6. MonTypes' /\ BufferInv'
  BY <1>2, <1>4, <1>5 DEF IInv, MonTypes, BufferInv
<1>7. WatchInv'
  <2>1. \A v \in DOMAIN watch : v # w => watch[v] # i
    BY <1>2 DEF IInv, WatchInv, WdsOf
  <2>2. \A v \in DOMAIN watch' : watch'[v] = IF v = w THEN i ELSE watch[v]
    BY <1>3
  <2> QED BY <1>4, <2>1, <2>2 DEF IInv, WatchInv
<1>8. RemovalInv'
  BY <1>4, <1>5 DEF IInv, RemovalInv
<1> QED BY <1>1, <1>5, <1>6, <1>7, <1>8 DEF IInv

\* zapSubtree() forgets entries together with their watches.
LEMMA ZapKeeps ==
    ASSUME IInv, NEW z, z.zapped \subseteq cache, Zap(z)
    PROVE  /\ nextWd' = nextWd /\ cache' \subseteq cache
           /\ DOMAIN watch' \subseteq DOMAIN watch /\ queue' \in Seq(Events)
           /\ WatchInv' /\ UniqueWds'
           /\ \A e \in cache' : e.wd \notin DOMAIN watch' => e.wd \notin DOMAIN watch
           /\ \A wd : Due(queue, wd) => Due(queue', wd)
<1> DEFINE wds == {e.wd : e \in z.zapped}
<1> DEFINE es == [k \in 1..Cardinality(wds) |-> Event(SetToSeq(wds)[k], "IN_IGNORED", None, 0)]
<1>1. /\ cache' = cache \ z.zapped /\ watch' = Unwatch(wds) /\ nextWd' = nextWd
      /\ queue' = EnqueueAll(queue, es)
  BY DEF Zap
<1>2. wds \subseteq 1..nextWd - 1
  BY DEF IInv, MonTypes
<1>3. es \in Seq(Events)
  <2>1. IsFiniteSet(wds) /\ Cardinality(wds) \in Nat
    BY <1>2, WdsFinite DEF IInv, MonTypes
  <2>2. SetToSeq(wds) \in [1..Cardinality(wds) -> wds]
    BY <2>1, SetToSeqType, ZenonT(30)
  <2>3. None \in AnyName /\ 0 \in Nat /\ "IN_IGNORED" \in Masks
    BY DEF AnyName, Masks
  <2> HIDE DEF wds
  <2>4. ASSUME NEW k \in 1..Cardinality(wds)
        PROVE  Event(SetToSeq(wds)[k], "IN_IGNORED", None, 0) \in Events
    <3>1. SetToSeq(wds)[k] \in Nat
      BY <1>2, <2>2 DEF IInv, MonTypes
    <3> QED BY <2>3, <3>1, EventType
  <2> QED BY <2>1, <2>4
<1> HIDE DEF es
<1>4. MaxQueue \in Nat \ {0} /\ queue \in Seq(Events)
  BY WorldTypes DEF IInv, FsTypes, MonTypes
<1>5. queue' \in Seq(Events) /\ \A wd : Due(queue, wd) => Due(queue', wd)
  BY <1>1, <1>3, <1>4, Enqueued
<1>6. DOMAIN watch' = DOMAIN watch \ wds /\ \A w \in DOMAIN watch' : watch'[w] = watch[w]
  BY <1>1 DEF Unwatch
<1>7. \A e \in cache' : e.wd \notin wds
  BY <1>1 DEF IInv, UniqueWds
<1>8. WatchInv' /\ UniqueWds'
  BY <1>1, <1>6, ZenonT(30) DEF IInv, WatchInv, UniqueWds
<1> QED BY <1>1, <1>5, <1>6, <1>7, <1>8, ZenonT(30)

\* zapSubtree() removes entries of the cache only.
LEMMA ZapOutcomesType ==
    ASSUME NEW path, NEW z \in ZapOutcomes(path)
    PROVE  z.zapped \subseteq cache
<1>1. Subtree(path) \subseteq cache
  BY DEF Subtree
<1> QED BY <1>1 DEF ZapOutcomes

\* Processed events leave the buffer.
LEMMA Consumed ==
    ASSUME IInv, NEW n \in 1..Len(buf), Consume(n)
    PROVE  /\ buf' \in Seq(Events) /\ BufferInv' /\ mpc' # "exit"
           /\ \A wd : Due(buf, wd) =>
                  \/ Due(buf', wd)
                  \/ \E k \in 1..n : \/ buf[k].mask = "IN_Q_OVERFLOW"
                                     \/ buf[k].wd = wd /\ buf[k].mask = "IN_DELETE_SELF"
<1>1. buf \in Seq(Events) /\ n \in 0..Len(buf) /\ Len(buf) \in Nat
  BY DEF IInv, MonTypes
<1> DEFINE a == SubSeq(buf, 1, n)
<1>2. /\ buf' \in Seq(Events) /\ a \in Seq(Events) /\ Len(a) = n
      /\ Len(buf') = Len(buf) - n /\ buf = a \o buf'
  BY <1>1, Split DEF Consume
<1>3. BufferInv' /\ mpc' # "exit"
  <2>1. CASE n = Len(buf)
    <3>1. buf' = <<>> /\ mpc' = "select"
      BY <1>2, <2>1 DEF Consume
    <3> QED BY <3>1 DEF BufferInv
  <2>2. CASE n # Len(buf)
    <3>1. mpc' = "process"
      BY <2>2 DEF Consume
    <3>2. PICK l, m \in Nat : l = Len(buf) /\ m = Len(buf') /\ m = l - n
      BY <1>1, <1>2
    <3>3. Len(buf') # 0
      BY <2>2, <3>2
    <3> QED BY <1>2, <3>1, <3>3 DEF BufferInv
  <2> QED BY <2>1, <2>2
<1>4. \A k \in 1..n : a[k] = buf[k]
  BY <1>1
<1> HIDE DEF a
<1>5. \A wd : Due(buf, wd) => Due(a, wd) \/ Due(buf', wd)
  <2>1. \A wd : Due(a \o buf', wd) => Due(a, wd) \/ Due(buf', wd)
    BY <1>2, DueConcat
  <2> QED BY <1>2, <2>1, ZenonT(30)
<1> QED BY <1>2, <1>3, <1>4, <1>5 DEF Due

\* An event that reports no removal is processed, and the cache loses entries at most.
LEMMA ConsumedKeeps ==
    ASSUME IInv, mpc = "process", NEW n \in 1..Len(buf), Consume(n),
           \A k \in 1..n : buf[k].mask \notin {"IN_Q_OVERFLOW", "IN_DELETE_SELF"},
           UNCHANGED <<fsVars, nextWd>>, queue' \in Seq(Events),
           DOMAIN watch' \subseteq DOMAIN watch, WatchInv', UniqueWds',
           \A e \in cache' : e = [wd |-> e.wd, path |-> e.path] /\ e.wd \in 1..nextWd - 1,
           \A wd : Due(queue, wd) => Due(queue', wd),
           \A e \in cache' : e.wd \notin DOMAIN watch' =>
               e.wd \notin DOMAIN watch /\ \E f \in cache : f.wd = e.wd
    PROVE  IInv'
<1>1. buf' \in Seq(Events) /\ BufferInv' /\ \A wd : Due(buf, wd) => Due(buf', wd)
  BY Consumed
<1>2. FsTypes'
  BY DEF IInv, FsTypes, fsVars, Inodes, MaxInode, Movers
<1>3. MonTypes'
  BY <1>1 DEF IInv, MonTypes
<1>4. RemovalInv'
  BY <1>1 DEF IInv, RemovalInv
<1> QED BY <1>1, <1>2, <1>3, <1>4 DEF IInv

\* nftw() with traverseTree(): each visited directory is watched and cached.
LEMMA VisitKeeps ==
    ASSUME IInv, Visit \/ VisitGone \/ List \/ WalkDone
    PROVE  IInv'
<1>1. CASE Visit
  <2>1. PICK i \in Visited(Head(walk)) :
           IF Resolve(Head(walk).path) = {} THEN UNCHANGED <<watch, nextWd, selfMask, cache>>
           ELSE \E j \in Resolve(Head(walk).path) : AddWatch(j, Head(walk).path)
    BY <1>1, ZenonT(30) DEF Visit
  <2>2. UNCHANGED <<fsVars, queue, buf, mpc>> /\ mpc \in {"walk", "walkRead"}
    BY <1>1, ZenonT(30) DEF Visit, Walking
  <2>3. CASE UNCHANGED <<watch, nextWd, selfMask, cache>>
    <3>1. BufferInv'
      BY <2>2 DEF IInv, BufferInv
    <3> QED BY <2>2, <2>3, <3>1, WalkKeeps
  <2> QED BY <2>1, <2>2, <2>3, AddWatchKeeps
<1>2. CASE VisitGone \/ List
  <2>1. UNCHANGED <<fsVars, kernVars, buf, cache, mpc>> /\ mpc # "exit"
    BY <1>2, ZenonT(30) DEF VisitGone, List, Walking
  <2>2. BufferInv'
    BY <2>1 DEF IInv, BufferInv
  <2> QED BY <2>1, <2>2, WalkKeeps DEF kernVars
<1>3. CASE WalkDone
  <2>1. UNCHANGED <<fsVars, kernVars, buf, cache>> /\ mpc # "exit"
    BY <1>3 DEF WalkDone, Walking
  <2>2. BufferInv'
    BY <1>3 DEF IInv, BufferInv, WalkDone, Walking
  <2> QED BY <2>1, <2>2, WalkKeeps DEF kernVars
<1> QED BY <1>1, <1>2, <1>3

\* read() takes events from the queue, when the buffer is empty or is the event that waits
\* for the second half of a rename().
LEMMA ReadKeeps ==
    ASSUME IInv, ReadEvents \/ SecondaryRead
    PROVE  IInv'
<1>0. queue \in Seq(Events) /\ buf \in Seq(Events) /\ BufLen \in Nat \ {0}
  BY WorldTypes DEF IInv, FsTypes, MonTypes
<1>1. /\ buf' \in Seq(Events) /\ queue' \in Seq(Events) /\ buf' # <<>>
      /\ \A wd : Due(buf, wd) \/ Due(queue, wd) => Due(buf', wd) \/ Due(queue', wd)
  <2>1. CASE ReadEvents
    <3> DEFINE n == IF Len(queue) < BufLen THEN Len(queue) ELSE BufLen
    <3>1. n \in 0..Len(queue) /\ n > 0 /\ buf = <<>>
      BY <1>0, <2>1 DEF ReadEvents, IInv, BufferInv
    <3>2. buf' = SubSeq(queue, 1, n) /\ queue' = SubSeq(queue, n + 1, Len(queue))
      BY <2>1 DEF ReadEvents
    <3> HIDE DEF n
    <3>3. /\ buf' \in Seq(Events) /\ queue' \in Seq(Events) /\ Len(buf') = n
          /\ queue = buf' \o queue'
      BY <1>0, <3>1, <3>2, Split, ZenonT(30)
    <3>4. \A wd : Due(buf' \o queue', wd) => Due(buf', wd) \/ Due(queue', wd)
      BY <3>3, DueConcat
    <3>5. \A wd : ~Due(buf, wd)
      BY <3>1 DEF Due
    <3>6. buf' # <<>>
      BY <3>1, <3>3
    <3>7. \A wd : Due(queue, wd) => Due(buf', wd) \/ Due(queue', wd)
      BY <3>3, <3>4, ZenonT(30)
    <3> QED BY <3>3, <3>5, <3>6, <3>7
  <2>2. CASE SecondaryRead
    <3>1. buf' = buf \o queue /\ queue' = <<>> /\ buf # <<>>
      BY <2>2 DEF SecondaryRead, IInv, BufferInv
    <3>2. \A wd : Due(buf, wd) \/ Due(queue, wd) => Due(buf \o queue, wd)
      BY <1>0, DueConcat
    <3>3. buf \o queue \in Seq(Events) /\ buf \o queue # <<>>
      BY <1>0, <3>1
    <3>4. <<>> \in Seq(Events)
      OBVIOUS
    <3> QED BY <3>1, <3>2, <3>3, <3>4, ZenonT(30)
  <2> QED BY <2>1, <2>2
<1>2. UNCHANGED <<fsVars, watch, nextWd, cache>> /\ mpc' = "process" /\ mpc # "exit"
  BY DEF ReadEvents, SecondaryRead
<1>3. FsTypes' /\ MonTypes' /\ WatchInv' /\ UniqueWds'
  BY <1>1, <1>2 DEF IInv, FsTypes, MonTypes, WatchInv, UniqueWds, fsVars, Inodes, MaxInode,
     Movers
<1>4. BufferInv' /\ RemovalInv'
  BY <1>1, <1>2 DEF IInv, RemovalInv, BufferInv
<1> QED BY <1>3, <1>4 DEF IInv

\* The first event of the buffer.
LEMMA AtEvent ==
    ASSUME IInv, mpc = "process"
    PROVE  Len(buf) \in Nat \ {0} /\ 1 \in 1..Len(buf) /\ ev = buf[1]
<1>1. buf # <<>> /\ buf \in Seq(Events)
  BY DEF IInv, BufferInv, MonTypes
<1>2. Len(buf) \in Nat \ {0}
  BY <1>1
<1> QED BY <1>1, <1>2 DEF ev

\* An event is processed that changes neither watches nor cache.
LEMMA SkipKeeps ==
    ASSUME IInv, mpc = "process", NEW n \in 1..Len(buf), Consume(n),
           \A k \in 1..n : buf[k].mask \notin {"IN_Q_OVERFLOW", "IN_DELETE_SELF"},
           UNCHANGED <<fsVars, kernVars, cache>>
    PROVE  IInv'
<1>1. UNCHANGED <<watch, nextWd, queue>>
  BY DEF kernVars
<1>2. queue' \in Seq(Events) /\ WatchInv' /\ UniqueWds'
  BY <1>1 DEF IInv, MonTypes, WatchInv, UniqueWds
<1>3. \A e \in cache' : e = [wd |-> e.wd, path |-> e.path] /\ e.wd \in 1..nextWd - 1
  BY DEF IInv, MonTypes
<1> QED BY <1>1, <1>2, <1>3, ConsumedKeeps

\* IN_CREATE and IN_MOVED_TO start watchSubtree() and leave cache and watches
\* to the walk.
LEMMA OnCreateKeeps ==
    ASSUME IInv, OnCreate
    PROVE  IInv'
<1>1. mpc = "process" /\ ev.mask \in {"IN_CREATE", "IN_MOVED_TO"}
  BY DEF OnCreate, Known
<1>2. 1 \in 1..Len(buf) /\ \A k \in 1..1 : buf[k].mask \notin {"IN_Q_OVERFLOW", "IN_DELETE_SELF"}
  BY <1>1, AtEvent
<1>3. UNCHANGED <<fsVars, kernVars, cache>>
  BY DEF OnCreate
<1>4. CASE Consume(1)
  BY <1>1, <1>2, <1>3, <1>4, SkipKeeps
<1>5. CASE buf' = Tail(buf) /\ firstTry' = TRUE /\ mpc' = "walk"
  <2>1. buf' \in Seq(Events) /\ buf = <<buf[1]>> \o buf'
    <3>1. buf \in Seq(Events) /\ buf # <<>>
      BY <1>1, AtEvent DEF IInv, MonTypes
    <3>2. buf = SubSeq(buf, 1, Len(buf)) /\ Tail(buf) = SubSeq(buf, 2, Len(buf))
      BY <3>1, SubSeqFull, TailIsSubSeq
    <3>3. 1 \in 1..Len(buf) /\ Len(buf) \in 1..Len(buf) /\ Tail(buf) \in Seq(Events)
      BY <3>1
    <3>4. SubSeq(buf, 1, Len(buf)) = <<buf[1]>> \o SubSeq(buf, 1 + 1, Len(buf))
      BY <3>1, <3>3, SubSeqRecursiveFirst
    <3> QED BY <1>5, <3>2, <3>3, <3>4
  <2>2. <<buf[1]>> \in Seq(Events) /\ \A wd : ~Due(<<buf[1]>>, wd)
    BY <1>2 DEF IInv, MonTypes, Due
  <2>3. \A wd : Due(<<buf[1]>> \o buf', wd) => Due(buf', wd)
    BY <2>1, <2>2, DueConcat, ZenonT(30)
  <2>4. \A wd : Due(buf, wd) => Due(buf', wd)
    BY <2>1, <2>3, ZenonT(30)
  <2>5. UNCHANGED <<watch, nextWd, queue, cache>>
    BY <1>3 DEF kernVars
  <2>6. FsTypes' /\ MonTypes' /\ WatchInv' /\ UniqueWds'
    BY <1>3, <2>1, <2>5 DEF IInv, FsTypes, MonTypes, WatchInv, UniqueWds, fsVars, Inodes,
       MaxInode, Movers
  <2>7. BufferInv' /\ RemovalInv'
    BY <1>1, <1>5, <2>4, <2>5 DEF IInv, BufferInv, RemovalInv
  <2> QED BY <2>6, <2>7 DEF IInv
<1> QED BY <1>4, <1>5, ZenonT(30) DEF OnCreate

\* The entry goes when its IN_DELETE_SELF is processed.
LEMMA OnDeleteSelfKeeps ==
    ASSUME IInv, OnDeleteSelf
    PROVE  IInv'
<1>1. mpc = "process" /\ ev.mask = "IN_DELETE_SELF" /\ UNCHANGED <<fsVars, kernVars>>
  BY DEF OnDeleteSelf, Known
<1>2. 1 \in 1..Len(buf) /\ ev = buf[1]
  BY <1>1, AtEvent
<1>3. FsTypes' /\ WatchInv' /\ UNCHANGED <<watch, nextWd, queue>>
  BY <1>1, ZenonT(30) DEF IInv, FsTypes, WatchInv, fsVars, kernVars, Inodes, MaxInode, Movers
<1>4. CASE mpc' = "exit" /\ UNCHANGED <<buf, firstTry, cache>>
  BY <1>3, <1>4, ZenonT(30) DEF IInv, MonTypes, BufferInv, UniqueWds, RemovalInv
<1>5. CASE Consume(1) /\ cache' = cache \ findWatch(ev.wd)
  <2>1. /\ buf' \in Seq(Events) /\ BufferInv'
        /\ \A wd : Due(buf, wd) => Due(buf', wd)
                      \/ (\E k \in 1..1 : \/ buf[k].mask = "IN_Q_OVERFLOW"
                                          \/ buf[k].wd = wd /\ buf[k].mask = "IN_DELETE_SELF")
    BY <1>2, <1>5, Consumed, ZenonT(30)
  <2>2. \A wd : Due(buf, wd) => Due(buf', wd) \/ wd = ev.wd
    BY <1>1, <1>2, <2>1
  <2>3. \A e \in cache' : e \in cache /\ e.wd # ev.wd
    BY <1>5 DEF findWatch
  <2>4. MonTypes' /\ UniqueWds'
    BY <1>3, <2>1, <2>3 DEF IInv, MonTypes, UniqueWds
  <2>5. RemovalInv'
    BY <1>1, <1>3, <2>2, <2>3 DEF IInv, RemovalInv
  <2> QED BY <1>3, <2>1, <2>4, <2>5 DEF IInv
<1> QED BY <1>4, <1>5 DEF OnDeleteSelf

\* A rename inside the tree: the entries keep their watches.
LEMMA OnRenameKeeps ==
    ASSUME IInv, OnRename
    PROVE  IInv'
<1> DEFINE old == FullPath(ev)
<1> DEFINE new == FullPath(buf[2])
<1> DEFINE r(e) == IF IsPrefix(old, e.path)
                   THEN [e EXCEPT !.path = new \o SubSeq(@, Len(old) + 1, Len(@))] ELSE e
<1>1. /\ mpc = "process" /\ Len(buf) > 1 /\ ev.mask = "IN_MOVED_FROM"
      /\ buf[2].mask = "IN_MOVED_TO"
      /\ Consume(2) /\ UNCHANGED <<fsVars, kernVars>>
  BY DEF OnRename, Known, PairedMove
<1>2. 2 \in 1..Len(buf) /\ \A k \in 1..2 : buf[k].mask \notin {"IN_Q_OVERFLOW", "IN_DELETE_SELF"}
  BY <1>1, AtEvent
<1>3. cache' = {r(e) : e \in cache}
  BY DEF OnRename, rewriteCachedPaths
<1> HIDE DEF old, new
<1>4. ASSUME NEW e \in cache
      PROVE  r(e) = [wd |-> e.wd, path |-> r(e).path] /\ r(e).wd = e.wd
  <2>1. e = [wd |-> e.wd, path |-> e.path]
    BY DEF IInv, MonTypes
  <2>2. PICK w, p : e = [wd |-> w, path |-> p]
    BY <2>1
  <2>3. CASE IsPrefix(old, e.path)
    <3>1. PICK q : r(e) = [e EXCEPT !.path = q]
      BY <2>3, ZenonT(30)
    <3> HIDE DEF r
    <3> QED BY <2>2, <3>1
  <2>4. CASE ~IsPrefix(old, e.path)
    BY <2>1, <2>4
  <2> QED BY <2>3, <2>4
<1> HIDE DEF r
<1>5. \A e \in cache' : e = [wd |-> e.wd, path |-> e.path] /\ e.wd \in 1..nextWd - 1
  BY <1>3, <1>4 DEF IInv, MonTypes
<1>6. UniqueWds'
  BY <1>3, <1>4 DEF IInv, UniqueWds
<1>7. \A e \in cache' : \E f \in cache : f.wd = e.wd
  BY <1>3, <1>4
<1>8. UNCHANGED <<watch, nextWd, queue>> /\ WatchInv' /\ queue' \in Seq(Events)
  BY <1>1 DEF kernVars, IInv, WatchInv, MonTypes
<1> QED BY <1>1, <1>2, <1>5, <1>6, <1>7, <1>8, ConsumedKeeps

\* Part of the cache is zapped when an event is processed.
LEMMA ZapEventKeeps ==
    ASSUME IInv, mpc = "process", ev.mask \in {"IN_MOVED_FROM", "IN_MOVE_SELF"},
           NEW path, NEW z \in ZapOutcomes(path), Zap(z), Consume(1), UNCHANGED fsVars
    PROVE  IInv'
<1>1. 1 \in 1..Len(buf) /\ \A k \in 1..1 : buf[k].mask \notin {"IN_Q_OVERFLOW", "IN_DELETE_SELF"}
  BY AtEvent
<1>2. /\ nextWd' = nextWd /\ cache' \subseteq cache
      /\ DOMAIN watch' \subseteq DOMAIN watch /\ queue' \in Seq(Events)
      /\ WatchInv' /\ UniqueWds'
      /\ \A e \in cache' : e.wd \notin DOMAIN watch' => e.wd \notin DOMAIN watch
      /\ \A wd : Due(queue, wd) => Due(queue', wd)
  BY ZapOutcomesType, ZapKeeps
<1>3. \A e \in cache' : e = [wd |-> e.wd, path |-> e.path] /\ e.wd \in 1..nextWd - 1
  BY <1>2 DEF IInv, MonTypes
<1> QED BY <1>1, <1>2, <1>3, ConsumedKeeps

\* IN_MOVED_FROM without its pair: the subtree is zapped, or everything rebuilt.
LEMMA OnMovedOutKeeps ==
    ASSUME IInv, OnMovedOut
    PROVE  IInv'
<1>1. mpc = "process" /\ ev.mask = "IN_MOVED_FROM"
  BY DEF OnMovedOut, Known
<1>2. PICK z \in ZapOutcomes(FullPath(ev)) :
          IF z.failed THEN Reinitialize(roots, "walk")
          ELSE Zap(z) /\ Consume(1) /\ UNCHANGED <<fsVars, walk, quiet>>
  BY DEF OnMovedOut
<1>3. CASE Reinitialize(roots, "walk")
  BY <1>3, ReinitializeKeeps
<1>4. CASE Zap(z) /\ Consume(1) /\ UNCHANGED fsVars
  BY <1>1, <1>2, <1>4, ZapEventKeeps
<1> QED BY <1>2, <1>3, <1>4

\* IN_MOVE_SELF of a root: its subtree is zapped, or everything rebuilt.
LEMMA OnMoveSelfKeeps ==
    ASSUME IInv, OnMoveSelf
    PROVE  IInv'
<1> DEFINE path == CachedPath(ev.wd)
<1>1. mpc = "process" /\ ev.mask = "IN_MOVE_SELF"
  BY DEF OnMoveSelf, Known
<1>2. 1 \in 1..Len(buf) /\ \A k \in 1..1 : buf[k].mask \notin {"IN_Q_OVERFLOW", "IN_DELETE_SELF"}
  BY <1>1, AtEvent
<1>3. CASE Consume(1) /\ UNCHANGED <<fsVars, kernVars, cache, roots, walk, quiet>>
  BY <1>1, <1>2, <1>3, SkipKeeps
<1>4. CASE mpc' = "exit" /\ UNCHANGED <<fsVars, kernVars, buf, firstTry, cache, walk, quiet>>
  <2>1. FsTypes' /\ MonTypes' /\ WatchInv' /\ UniqueWds'
    BY <1>4 DEF IInv, FsTypes, MonTypes, WatchInv, UniqueWds, fsVars, kernVars, Inodes,
       MaxInode, Movers
  <2>2. BufferInv' /\ RemovalInv'
    BY <1>4 DEF BufferInv, RemovalInv
  <2> QED BY <2>1, <2>2 DEF IInv
<1>5. CASE \E z \in ZapOutcomes(path) :
               IF z.failed THEN Reinitialize(roots', "walk")
               ELSE Zap(z) /\ Consume(1) /\ UNCHANGED <<fsVars, walk, quiet>>
  <2>1. PICK z \in ZapOutcomes(path) :
            IF z.failed THEN Reinitialize(roots', "walk")
            ELSE Zap(z) /\ Consume(1) /\ UNCHANGED <<fsVars, walk, quiet>>
    BY <1>5
  <2>2. CASE Reinitialize(roots', "walk")
    BY <2>2, ReinitializeKeeps
  <2>3. CASE Zap(z) /\ Consume(1) /\ UNCHANGED fsVars
    BY <1>1, <2>1, <2>3, ZapEventKeeps
  <2> QED BY <2>1, <2>2, <2>3
<1> QED BY <1>3, <1>4, <1>5 DEF OnMoveSelf

\* Every step of the monitor keeps the invariant.
LEMMA MonitorKeeps ==
    ASSUME IInv, Monitor
    PROVE  IInv'
<1>1. CASE UnknownWatch \/ OnRenameUnknownTarget \/ OnOverflow
  BY <1>1, ReinitializeKeeps DEF UnknownWatch, OnRenameUnknownTarget, OnOverflow
<1>2. CASE OnHangingMovedFrom
  <2>1. mpc = "process" /\ mpc' = "more" /\ UNCHANGED <<fsVars, kernVars, buf, cache>>
    BY <1>2 DEF OnHangingMovedFrom, Known
  <2>2. BufferInv'
    BY <2>1 DEF IInv, BufferInv
  <2> QED BY <2>1, <2>2, WalkKeeps DEF kernVars
<1>3. CASE OnIgnored
  <2>1. mpc = "process" /\ ev.mask = "IN_IGNORED" /\ Consume(1) /\ UNCHANGED <<fsVars, kernVars, cache>>
    BY <1>3 DEF OnIgnored
  <2>2. 1 \in 1..Len(buf) /\ \A k \in 1..1 : buf[k].mask \notin {"IN_Q_OVERFLOW", "IN_DELETE_SELF"}
    BY <2>1, AtEvent
  <2> QED BY <2>1, <2>2, SkipKeeps
<1> QED
  BY <1>1, <1>2, <1>3, VisitKeeps, ReadKeeps, OnCreateKeeps, OnDeleteSelfKeeps, OnRenameKeeps,
     OnMovedOutKeeps, OnMoveSelfKeeps DEF Monitor

\* The commands.
LEMMA UserKeeps ==
    ASSUME IInv, User
    PROVE  IInv'
<1>0. mpc = "select" /\ buf = <<>>
  BY DEF User, CmdRebuild, CmdZap, CmdAdd, CmdQuit, Command, IInv, BufferInv
<1>1. CASE CmdRebuild
  BY <1>1, ReinitializeKeeps DEF CmdRebuild
<1>2. ASSUME NEW path, CmdZap(path) \/ CmdAdd(path)
      PROVE  IInv'
  <2>1. PICK z \in ZapOutcomes(path) : Zap(z)
    BY <1>2 DEF CmdZap, CmdAdd
  <2>2. /\ nextWd' = nextWd /\ cache' \subseteq cache
        /\ DOMAIN watch' \subseteq DOMAIN watch /\ queue' \in Seq(Events)
        /\ WatchInv' /\ UniqueWds'
        /\ \A e \in cache' : e.wd \notin DOMAIN watch' => e.wd \notin DOMAIN watch
        /\ \A wd : Due(queue, wd) => Due(queue', wd)
    BY <2>1, ZapOutcomesType, ZapKeeps, ZenonT(30)
  <2>3. UNCHANGED <<fsVars, buf>> /\ mpc' \in {"select", "walk"}
    BY <1>0, <1>2 DEF CmdZap, CmdAdd
  <2>4. FsTypes'
    BY <2>3 DEF IInv, FsTypes, fsVars, Inodes, MaxInode, Movers
  <2>5. MonTypes' /\ BufferInv'
    BY <1>0, <2>2, <2>3 DEF IInv, MonTypes, BufferInv
  <2>6. RemovalInv'
    BY <1>0, <2>2, <2>3 DEF IInv, RemovalInv
  <2> QED BY <2>2, <2>4, <2>5, <2>6 DEF IInv
<1>3. CASE CmdQuit
  <2>1. mpc' = "exit" /\ UNCHANGED <<fsVars, kernVars, buf, cache>>
    BY <1>3 DEF CmdQuit
  <2>2. FsTypes' /\ MonTypes' /\ WatchInv' /\ UniqueWds'
    BY <2>1 DEF IInv, FsTypes, MonTypes, WatchInv, UniqueWds, fsVars, kernVars, Inodes,
       MaxInode, Movers
  <2>3. BufferInv' /\ RemovalInv'
    BY <2>1 DEF BufferInv, RemovalInv
  <2> QED BY <2>2, <2>3 DEF IInv
<1> QED BY <1>1, <1>2, <1>3 DEF User

\* The event that removes an entry is never lost on its way.
THEOREM InotifySafe == Spec => []IInv
<1>1. ASSUME IInv, UNCHANGED vars PROVE IInv'
  <2>1. FsTypes' /\ MonTypes' /\ BufferInv'
    BY <1>1 DEF IInv, FsTypes, MonTypes, BufferInv, vars, fsVars, kernVars, monVars, Inodes,
       MaxInode, Movers
  <2>2. WatchInv' /\ UniqueWds' /\ RemovalInv'
    BY <1>1, ZenonT(30) DEF IInv, WatchInv, UniqueWds, RemovalInv, vars, kernVars, monVars
  <2> QED BY <2>1, <2>2 DEF IInv
<1>2. IInv /\ [Next]_vars => IInv'
  BY <1>1, FilesystemKeeps, MonitorKeeps, UserKeeps DEF Next
<1> QED BY InotifyInit, <1>2, PTL DEF Spec

\* inotify_dtree.c has one cache entry for a watch, and an entry whose directory is gone
\* has its removal still to come: for any tree, any number of processes that change it
\* while the monitor runs, and any length of the event queue and of the read buffer.
THEOREM CacheKept == Spec => []CacheSound
<1>1. ASSUME IInv PROVE CacheSound
  <2>1. buf \in Seq(Events) /\ queue \in Seq(Events)
    BY <1>1 DEF IInv, MonTypes
  <2>2. buf \o queue \in Seq(Events) /\ DOMAIN (buf \o queue) = 1..Len(buf \o queue)
    BY <2>1
  <2>3. ASSUME NEW wd, Due(buf, wd) \/ Due(queue, wd)
        PROVE  Pending(wd, "IN_DELETE_SELF")
    <3>1. Due(buf \o queue, wd)
      BY <2>1, <2>3, DueConcat
    <3> QED BY <2>2, <3>1 DEF Due, Pending
  <2> QED BY <1>1, <2>3 DEF IInv, UniqueWds, RemovalInv, CacheSound
<1> QED BY <1>1, InotifySafe, PTL
=============================================================================
