---------------------------- MODULE CountProofs -----------------------------
(***************************************************************************)
(* What the programs of CountPrograms keep, for any number of producers,   *)
(* units, threads, loops and barriers, and the lemmas about sums over      *)
(* threads.                                                                *)
(***************************************************************************)
EXTENDS CountPrograms, FiniteSetTheorems, TLAPS

\* How long the provers may take for one step.
USE ZenonT(30)

-----------------------------------------------------------------------------
(* Sums over threads.                                                      *)

\* The pairs that Sum() counts.
LEMMA PairsMembers ==
    ASSUME NEW S, NEW f \in [S -> Nat]
    PROVE  \A x : x \in Pairs(f) <=> \E t \in S : \E i \in 1..f[t] : x = <<t, i>>
<1>1. DOMAIN f = S
  OBVIOUS
<1>2. ASSUME NEW x, x \in Pairs(f)
      PROVE  \E t \in S : \E i \in 1..f[t] : x = <<t, i>>
  BY <1>1, <1>2, SMTT(30) DEF Pairs
<1>3. ASSUME NEW t \in S, NEW i \in 1..f[t]
      PROVE  <<t, i>> \in Pairs(f)
  <2>1. <<t, i>> \in {t} \X (1..f[t])
    OBVIOUS
  <2> QED
    BY <1>1, <2>1 DEF Pairs
<1> QED
  BY <1>2, <1>3

\* The sum of finitely many numbers is a number.
LEMMA SumType ==
    ASSUME NEW S, IsFiniteSet(S), NEW f \in [S -> Nat]
    PROVE  IsFiniteSet(Pairs(f)) /\ Sum(f) \in Nat
<1>1. \A t \in S : IsFiniteSet({t} \X (1..f[t]))
  <2> TAKE t \in S
  <2>1. IsFiniteSet({t})
    BY FS_Singleton
  <2>2. IsFiniteSet(1..f[t])
    BY FS_Interval, SMTT(30)
  <2> QED
    BY <2>1, <2>2, FS_Product
<1>2. IsFiniteSet({{t} \X (1..f[t]) : t \in S})
  <2> DEFINE h == [t \in S |-> {t} \X (1..f[t])]
             T == {{t} \X (1..f[t]) : t \in S}
  <2>1. h \in [S -> T] /\ \A y \in T : \E t \in S : h[t] = y
    OBVIOUS
  <2> HIDE DEF h, T
  <2>2. h \in Surjection(S, T)
    BY <2>1 DEF Surjection
  <2>3. IsFiniteSet(T)
    BY <2>2, FS_Surjection
  <2> QED
    BY <2>3 DEF T
<1>3. IsFiniteSet(Pairs(f))
  <2>1. \A T \in {{t} \X (1..f[t]) : t \in S} : IsFiniteSet(T)
    BY <1>1
  <2>2. IsFiniteSet(UNION {{t} \X (1..f[t]) : t \in S})
    BY <1>2, <2>1, FS_UNION
  <2> QED
    BY <2>2 DEF Pairs
<1> QED
  BY <1>3, FS_CardinalityType DEF Sum

\* Nothing counted yet.
LEMMA SumZero ==
    ASSUME NEW S, NEW f \in [S -> Nat], \A t \in S : f[t] = 0
    PROVE  Sum(f) = 0
<1>1. Pairs(f) = {}
  BY PairsMembers, SMTT(30)
<1> QED
  BY <1>1, FS_EmptySet DEF Sum

\* One thread counts one more.
LEMMA SumIncrement ==
    ASSUME NEW S, IsFiniteSet(S), NEW f \in [S -> Nat], NEW t \in S
    PROVE  Sum([f EXCEPT ![t] = @ + 1]) = Sum(f) + 1
<1> DEFINE x == <<t, f[t] + 1>>
           h == [f EXCEPT ![t] = @ + 1]
<1>0. h \in [S -> Nat] /\ \A u \in S : h[u] = IF u = t THEN f[t] + 1 ELSE f[u]
  BY SMTT(30)
<1> HIDE DEF h
<1>1. x \notin Pairs(f)
  BY PairsMembers, SMTT(30)
<1>2. Pairs(h) = Pairs(f) \cup {x}
  <2>1. ASSUME NEW y \in Pairs(h)
        PROVE  y \in Pairs(f) \cup {x}
    <3>1. PICK u \in S : \E i \in 1..h[u] : y = <<u, i>>
      BY <1>0, PairsMembers, SMTT(30)
    <3>2. PICK i \in 1..h[u] : y = <<u, i>>
      BY <3>1
    <3>3. CASE u = t /\ i = f[t] + 1
      BY <3>2, <3>3
    <3>4. CASE ~(u = t /\ i = f[t] + 1)
      <4>1. i \in 1..f[u]
        BY <1>0, <3>4, SMTT(30)
      <4> QED
        BY <3>2, <4>1, PairsMembers
    <3> QED
      BY <3>3, <3>4
  <2>2. ASSUME NEW y \in Pairs(f)
        PROVE  y \in Pairs(h)
    <3>1. PICK u \in S : \E i \in 1..f[u] : y = <<u, i>>
      BY PairsMembers, SMTT(30)
    <3>2. PICK i \in 1..f[u] : y = <<u, i>>
      BY <3>1
    <3>3. i \in 1..h[u]
      BY <1>0, SMTT(30)
    <3> QED
      BY <1>0, <3>2, <3>3, PairsMembers
  <2>3. x \in Pairs(h)
    <3>1. f[t] + 1 \in 1..h[t]
      BY <1>0, SMTT(30)
    <3> QED
      BY <1>0, <3>1, PairsMembers, SMTT(30)
  <2> QED
    BY <2>1, <2>2, <2>3
<1> HIDE DEF x
<1>3. Cardinality(Pairs(h)) = Cardinality(Pairs(f)) + 1
  BY <1>1, <1>2, SumType, FS_AddElement
<1> QED
  BY <1>3 DEF h, Sum

\* A sum grows with its terms, and is equal only if they are.
LEMMA SumMonotone ==
    ASSUME NEW S, IsFiniteSet(S), NEW f \in [S -> Nat], NEW h \in [S -> Nat],
           \A t \in S : f[t] <= h[t]
    PROVE  Sum(f) <= Sum(h)
<1>1. Pairs(f) \subseteq Pairs(h)
  <2> SUFFICES ASSUME NEW y \in Pairs(f)
               PROVE  y \in Pairs(h)
    OBVIOUS
  <2>1. PICK u \in S : \E i \in 1..f[u] : y = <<u, i>>
    BY PairsMembers, SMTT(30)
  <2>2. PICK i \in 1..f[u] : y = <<u, i>>
    BY <2>1
  <2>3. i \in 1..h[u]
    BY SMTT(30)
  <2> QED
    BY <2>2, <2>3, PairsMembers
<1> QED
  BY <1>1, SumType, FS_Subset DEF Sum

\* The same number from every thread.
LEMMA SumConstant ==
    ASSUME NEW n \in Nat, NEW c \in Nat, NEW f \in [1..n -> Nat], \A t \in 1..n : f[t] = c
    PROVE  Sum(f) = n * c
<1>1. Pairs(f) = (1..n) \X (1..c)
  <2>1. ASSUME NEW y \in Pairs(f)
        PROVE  y \in (1..n) \X (1..c)
    BY PairsMembers, SMTT(30)
  <2>2. ASSUME NEW u \in 1..n, NEW i \in 1..c
        PROVE  <<u, i>> \in Pairs(f)
    BY PairsMembers
  <2> QED
    BY <2>1, <2>2, SMTT(30)
<1>2. IsFiniteSet(1..n) /\ Cardinality(1..n) = n
  BY FS_Interval, SMTT(30)
<1>3. IsFiniteSet(1..c) /\ Cardinality(1..c) = c
  BY FS_Interval, SMTT(30)
<1>4. Cardinality((1..n) \X (1..c)) = Cardinality(1..n) * Cardinality(1..c)
  BY <1>2, <1>3, FS_Product
<1> QED
  BY <1>1, <1>2, <1>3, <1>4 DEF Sum

\* One more thread joins the first n ones.
LEMMA SumExtend ==
    ASSUME NEW n \in Nat, NEW f \in [1..n -> Nat], NEW h \in [1..(n + 1) -> Nat],
           \A t \in 1..n : h[t] = f[t]
    PROVE  Sum(h) = Sum(f) + h[n + 1]
<1> DEFINE new == {n + 1} \X (1..h[n + 1])
<1>1. IsFiniteSet(1..n)
  BY FS_Interval, SMTT(30)
<1>2. IsFiniteSet(new) /\ Cardinality(new) = h[n + 1]
  <2>1. IsFiniteSet({n + 1}) /\ Cardinality({n + 1}) = 1
    BY FS_Singleton
  <2>2. IsFiniteSet(1..h[n + 1]) /\ Cardinality(1..h[n + 1]) = h[n + 1]
    BY FS_Interval, SMTT(30)
  <2>3. IsFiniteSet(new) /\ Cardinality(new) = Cardinality({n + 1}) * Cardinality(1..h[n + 1])
    BY <2>1, <2>2, FS_Product
  <2>4. Cardinality(new) = 1 * h[n + 1]
    BY <2>1, <2>2, <2>3
  <2> QED
    BY <2>3, <2>4, SMTT(30)
<1>3. new \cap Pairs(f) = {}
  BY PairsMembers, SMTT(30)
<1>4. Pairs(h) = Pairs(f) \cup new
  <2>1. ASSUME NEW y \in Pairs(h)
        PROVE  y \in Pairs(f) \cup new
    <3>1. PICK u \in 1..(n + 1) : \E i \in 1..h[u] : y = <<u, i>>
      BY PairsMembers, SMTT(30)
    <3>2. PICK i \in 1..h[u] : y = <<u, i>>
      BY <3>1
    <3>3. CASE u = n + 1
      BY <3>2, <3>3
    <3>4. CASE u # n + 1
      <4>1. u \in 1..n /\ i \in 1..f[u]
        BY <3>4, SMTT(30)
      <4> QED
        BY <3>2, <4>1, PairsMembers
    <3> QED
      BY <3>3, <3>4
  <2>2. ASSUME NEW y \in Pairs(f)
        PROVE  y \in Pairs(h)
    <3>1. PICK u \in 1..n : \E i \in 1..f[u] : y = <<u, i>>
      BY PairsMembers, SMTT(30)
    <3>2. PICK i \in 1..f[u] : y = <<u, i>>
      BY <3>1
    <3>3. u \in 1..(n + 1) /\ i \in 1..h[u]
      BY SMTT(30)
    <3> QED
      BY <3>2, <3>3, PairsMembers
  <2>3. ASSUME NEW i \in 1..h[n + 1]
        PROVE  <<n + 1, i>> \in Pairs(h)
    <3>1. n + 1 \in 1..(n + 1)
      BY SMTT(30)
    <3> QED
      BY <3>1, PairsMembers, SMTT(30)
  <2> QED
    BY <2>1, <2>2, <2>3, SMTT(30)
<1> HIDE DEF new
<1>5. IsFiniteSet(Pairs(f)) /\ Sum(f) \in Nat
  BY <1>1, SumType
<1>6. Cardinality(Pairs(h)) = Cardinality(Pairs(f)) + Cardinality(new) - Cardinality(new \cap Pairs(f))
  <2>1. Cardinality(Pairs(f) \cup new) =
            Cardinality(Pairs(f)) + Cardinality(new) - Cardinality(Pairs(f) \cap new)
    BY <1>2, <1>5, FS_Union
  <2>2. Pairs(f) \cap new = new \cap Pairs(f)
    OBVIOUS
  <2> QED
    BY <1>4, <2>1, <2>2
<1>7. Cardinality(new \cap Pairs(f)) = 0
  BY <1>3, FS_EmptySet
<1> QED
  BY <1>2, <1>5, <1>6, <1>7, SMTT(30) DEF Sum

-----------------------------------------------------------------------------
(* prod_condvar.c and prod_no_condvar.c.                                   *)

\* The sums of the producers are those of Pthreads.
LEMMA UnitsSummed == \A f : PC!Sum(f) = Sum(f)
  BY DEF PC!Sum, PC!Pairs, PC!Cardinality, Sum, Pairs, Cardinality

\* Before any producer is created there is nothing to consume.
LEMMA ProducersInit ==
    ASSUME PC!Init
    PROVE  PC!IInv
<1> USE ProducersAssumption DEF PC!Producers, PC!Tids, PC!Main, PC!Free
<1>1. PC!TypeOK
  BY SMTT(30) DEF PC!Init, PC!TypeOK, PC!PPoints, PC!MPoints
<1>2. PC!MutexProtects /\ PC!NoLostWakeup
  BY DEF PC!Init, PC!MutexProtects, PC!Locked, PC!NoLostWakeup
<1>3. PC!UnitsCounted
  <2>1. Sum(g.made) = 0
    BY SumZero DEF PC!Init
  <2>2. Sum([p \in 1..g.created |-> Cnt[p]]) = 0
    <3> DEFINE f == [p \in 1..g.created |-> Cnt[p]]
    <3>1. f \in [{} -> Nat]
      BY SMTT(30) DEF PC!Init
    <3> HIDE DEF f
    <3>2. Sum(f) = 0
      BY <3>1, SumZero
    <3> QED
      BY <3>2 DEF f
  <2> QED
    BY <2>1, <2>2, UnitsSummed, SMTT(30) DEF PC!Init, PC!UnitsCounted
<1> QED
  BY <1>1, <1>2, <1>3 DEF PC!IInv

\* A step that leaves the program's data alone.
LEMMA ProducersControl ==
    ASSUME PC!IInv, NEW t \in PC!Tids,
           \/ t # Main /\ (PC!PLock(t) \/ PC!PUnlock(t) \/ PC!PSignal(t) \/ PC!PReturn(t))
           \/ PC!PollUnlock(t) /\ t # Main /\ pc[Main] # "wait"
           \/ PC!MCreated \/ PC!MLock \/ PC!MWait \/ PC!MTestOk \/ PC!MUnlock \/ PC!PollLock
           \/ SpuriousWakeup(Main)
    PROVE  PC!IInv'
<1> USE ProducersAssumption
    DEF PC!IInv, PC!TypeOK, PC!UnitsCounted, PC!MutexProtects, PC!NoLostWakeup, PC!Locked,
        PC!Producers, PC!Tids, PC!Main, PC!Free, PC!PPoints, PC!MPoints, Main
<1>1. CASE PC!PLock(t) /\ t # Main
  <2> USE <1>1 DEF PC!PLock, PC!Lock, PC!Go
  <2>1. PC!TypeOK'
    OBVIOUS
  <2>2. PC!MutexProtects'
    BY SMTT(30)
  <2>3. PC!NoLostWakeup'
    OBVIOUS
  <2>4. PC!UnitsCounted'
    OBVIOUS
  <2> QED
    BY <2>1, <2>2, <2>3, <2>4
<1>2. CASE PC!PUnlock(t) /\ t # Main
  BY <1>2 DEF PC!PUnlock, PC!Unlock, PC!Go
<1>3. CASE PC!PSignal(t) /\ t # Main
  BY <1>3 DEF PC!PSignal, PC!CondSignal
<1>4. CASE PC!PReturn(t) /\ t # Main
  BY <1>4 DEF PC!PReturn, PC!Go
<1>5. CASE PC!PollUnlock(t) /\ t # Main /\ pc[Main] # "wait"
  BY <1>5 DEF PC!PollUnlock, PC!Unlock, PC!Go
<1>6. CASE PC!MCreated
  BY <1>6 DEF PC!MCreated, PC!Go
<1>7. CASE PC!MLock
  <2> USE <1>7 DEF PC!MLock, PC!Lock, PC!Go
  <2>1. PC!TypeOK'
    OBVIOUS
  <2>2. PC!MutexProtects'
    <3>1. \A u \in PC!Producers : ~PC!Locked(u)
      BY SMTT(30)
    <3> QED
      BY <3>1
  <2>3. PC!NoLostWakeup'
    OBVIOUS
  <2>4. PC!UnitsCounted'
    OBVIOUS
  <2> QED
    BY <2>1, <2>2, <2>3, <2>4
<1>8. CASE PC!MWait
  <2> USE <1>8 DEF PC!MWait, PC!CondWait, PC!Unlock, PC!Go
  <2>1. PC!TypeOK'
    OBVIOUS
  <2>2. PC!MutexProtects'
    BY SMTT(30)
  <2>3. PC!NoLostWakeup'
    BY SMTT(30)
  <2>4. PC!UnitsCounted'
    OBVIOUS
  <2> QED
    BY <2>1, <2>2, <2>3, <2>4
<1>9. CASE PC!MTestOk
  BY <1>9 DEF PC!MTestOk, PC!Go
<1>10. CASE PC!MUnlock
  BY <1>10, SMTT(30) DEF PC!MUnlock, PC!Unlock, PC!Go
<1>11. CASE PC!PollLock
  <2> USE <1>11 DEF PC!PollLock, PC!Lock, PC!Go
  <2>1. PC!TypeOK'
    OBVIOUS
  <2>2. PC!MutexProtects'
    BY SMTT(30)
  <2>3. PC!NoLostWakeup'
    OBVIOUS
  <2>4. PC!UnitsCounted'
    OBVIOUS
  <2> QED
    BY <2>1, <2>2, <2>3, <2>4
<1>12. CASE SpuriousWakeup(Main)
  BY <1>12 DEF SpuriousWakeup, Go
<1> QED
  BY <1>1, <1>2, <1>3, <1>4, <1>5, <1>6, <1>7, <1>8, <1>9, <1>10, <1>11, <1>12

\* A producer makes a unit.
LEMMA ProducersInc ==
    ASSUME PC!IInv, NEW p \in PC!Producers, PC!PInc(p)
    PROVE  /\ PC!IInv'
           /\ Sum(g'.made) = Sum(g.made) + 1 /\ Sum(g'.made) <= Sum(Cnt)
<1> USE ProducersAssumption DEF PC!IInv, PC!TypeOK, PC!Producers, PC!Tids, PC!Main, PC!Free
<1> DEFINE made == [g.made EXCEPT ![p] = @ + 1]
<1>1. made \in [PC!Producers -> Nat]
  BY SMTT(30)
<1>2. g' = [avail |-> g.avail + 1, made |-> made, created |-> g.created,
            totRequired |-> g.totRequired, numConsumed |-> g.numConsumed, done |-> g.done]
  BY DEF PC!PInc
<1>3. \A q \in PC!Producers : made[q] = IF q = p THEN g.made[p] + 1 ELSE g.made[q]
  OBVIOUS
<1> HIDE DEF made
<1>4. g'.made = made /\ g'.avail = g.avail + 1 /\ g'.created = g.created
        /\ g'.totRequired = g.totRequired /\ g'.numConsumed = g.numConsumed
        /\ g'.done = g.done
  BY <1>2
<1>5. IsFiniteSet(PC!Producers)
  BY FS_Interval, SMTT(30)
<1>6. Sum(made) = Sum(g.made) + 1 /\ Sum(g.made) \in Nat
  <2>1. g.made \in [PC!Producers -> Nat]
    OBVIOUS
  <2> HIDE ProducersAssumption DEF PC!IInv, PC!Producers
  <2>2. Sum(g.made) \in Nat
    BY <1>5, <2>1, SumType
  <2>3. Sum(made) = Sum(g.made) + 1
    BY <1>5, <2>1, SumIncrement DEF made
  <2> QED
    BY <2>2, <2>3
<1>7. \A q \in PC!Producers : made[q] <= Cnt[q]
  <2>1. g.made[p] < Cnt[p] /\ \A q \in PC!Producers : g.made[q] <= Cnt[q]
    BY DEF PC!UnitsCounted, PC!PInc, PC!Go
  <2>2. g.made \in [PC!Producers -> Nat] /\ Cnt \in [PC!Producers -> Nat]
    OBVIOUS
  <2> HIDE DEF PC!IInv, PC!Producers
  <2> QED
    BY <1>3, <2>1, <2>2, SMTT(30)
<1>8. Sum(made) <= Sum(Cnt)
  BY <1>1, <1>5, <1>7, SumMonotone
<1>9. PC!TypeOK'
  <2>1. g' \in [avail : Nat, made : [PC!Producers -> Nat], created : 0..NumProducers,
                totRequired : Nat, numConsumed : Nat, done : BOOLEAN]
    BY <1>1, <1>2, SMTT(30)
  <2> QED
    BY <2>1 DEF PC!PInc, PC!Go, PC!PPoints, PC!MPoints
<1>10. PC!MutexProtects' /\ PC!NoLostWakeup'
  BY DEF PC!PInc, PC!Go, PC!MutexProtects, PC!NoLostWakeup, PC!Locked, PC!PPoints, PC!MPoints
<1>11. PC!UnitsCounted'
  <2>1. g'.avail + g'.numConsumed = PC!Sum(g'.made)
    BY <1>4, <1>6, UnitsSummed, SMTT(30) DEF PC!UnitsCounted
  <2>2. \A q \in PC!Producers : pc'[q] # "inc" \/ (q # p /\ pc[q] = "inc")
    BY DEF PC!PInc, PC!Go
  <2>3. pc'[PC!Main] = pc[PC!Main]
    BY SMTT(30) DEF PC!PInc, PC!Go
  <2> QED
    BY <1>3, <1>4, <1>7, <2>1, <2>2, <2>3 DEF PC!UnitsCounted
<1> QED
  BY <1>4, <1>6, <1>8, <1>9, <1>10, <1>11

\* main() creates a producer and adds what it will make to what is required.
LEMMA ProducersCreate ==
    ASSUME PC!IInv, PC!MCreate
    PROVE  PC!IInv'
<1> USE ProducersAssumption DEF PC!IInv, PC!TypeOK, PC!Producers, PC!Tids, PC!Main, PC!Free
<1> DEFINE f == [p \in 1..g.created |-> Cnt[p]]
           h == [p \in 1..(g.created + 1) |-> Cnt[p]]
<1>1. g.created \in Nat /\ g.created + 1 \in PC!Producers /\ Cnt[g.created + 1] \in Nat
  BY SMTT(30) DEF PC!MCreate
<1>2. f \in [1..g.created -> Nat] /\ h \in [1..(g.created + 1) -> Nat]
      /\ (\A p \in 1..g.created : h[p] = f[p]) /\ h[g.created + 1] = Cnt[g.created + 1]
  <2>1. \A p \in 1..(g.created + 1) : Cnt[p] \in Nat
    BY <1>1, SMTT(30)
  <2>2. f \in [1..g.created -> Nat] /\ h \in [1..(g.created + 1) -> Nat]
    <3> HIDE ProducersAssumption DEF PC!IInv
    <3> QED
      BY <1>1, <2>1, SMTT(30)
  <2> QED
    BY <1>1, <2>2, SMTT(30)
<1> HIDE DEF f, h
<1>3. Sum(h) = Sum(f) + Cnt[g.created + 1]
  BY <1>1, <1>2, SumExtend
<1>4. g' = [avail |-> g.avail, made |-> g.made, created |-> g.created + 1,
            totRequired |-> g.totRequired + Cnt[g.created + 1],
            numConsumed |-> g.numConsumed, done |-> g.done]
  BY DEF PC!MCreate
<1>5. PC!TypeOK'
  BY <1>1, <1>4, SMTT(30) DEF PC!MCreate, PC!Start, PC!PPoints, PC!MPoints
<1>6. PC!MutexProtects' /\ PC!NoLostWakeup'
  BY <1>1, <1>4 DEF PC!MCreate, PC!Start, PC!MutexProtects, PC!NoLostWakeup, PC!Locked
<1>7. PC!UnitsCounted'
  <2>1. g'.totRequired = PC!Sum([p \in 1..g'.created |-> Cnt[p]])
    BY <1>1, <1>3, <1>4, UnitsSummed DEF f, h, PC!UnitsCounted
  <2>2. pc'[PC!Main] = "create" /\ \A p \in PC!Producers : pc'[p] = "inc" => pc[p] = "inc"
    BY <1>1 DEF PC!MCreate, PC!Start
  <2> QED
    BY <1>4, <2>1, <2>2 DEF PC!UnitsCounted, PC!MCreate
<1> QED
  BY <1>5, <1>6, <1>7

\* main() consumes a unit.
LEMMA ProducersConsume ==
    ASSUME PC!IInv, PC!MConsume
    PROVE  PC!IInv'
<1> USE ProducersAssumption DEF PC!IInv, PC!TypeOK, PC!Producers, PC!Tids, PC!Main, PC!Free
<1> DEFINE done == g.numConsumed + 1 >= g.totRequired
<1>1. g' = [avail |-> g.avail - 1, made |-> g.made, created |-> g.created,
            totRequired |-> g.totRequired, numConsumed |-> g.numConsumed + 1,
            done |-> done]
  BY DEF PC!MConsume
<1>2. pc' = pc /\ pc[PC!Main] = "consume" /\ mtx' = mtx /\ g.avail - 1 \in Nat
  BY SMTT(30) DEF PC!MConsume, PC!Go
<1>3. PC!TypeOK'
  <2>1. done \in BOOLEAN
    BY SMTT(30)
  <2> HIDE DEF done
  <2> QED
    BY <1>1, <1>2, <2>1, SMTT(30)
<1>4. PC!MutexProtects' /\ PC!NoLostWakeup'
  BY <1>1, <1>2 DEF PC!MutexProtects, PC!NoLostWakeup, PC!Locked
<1>5. PC!UnitsCounted'
  <2>1. done => g.numConsumed + 1 >= g.totRequired
    OBVIOUS
  <2> HIDE DEF done
  <2>2. g'.done = done /\ g'.numConsumed = g.numConsumed + 1 /\ g'.avail = g.avail - 1
        /\ g'.made = g.made /\ g'.created = g.created /\ g'.totRequired = g.totRequired
    BY <1>1
  <2>3. g.avail + g.numConsumed = g'.avail + g'.numConsumed
    BY <1>2, <2>2, SMTT(30)
  <2> QED
    BY <1>2, <2>1, <2>2, <2>3 DEF PC!UnitsCounted
<1> QED
  BY <1>3, <1>4, <1>5

\* Every step of prod_condvar.c keeps the invariant.
LEMMA ProducersStep ==
    ASSUME PC!IInv, NEW t \in PC!Tids, PC!Thread(t) \/ SpuriousWakeup(Main)
    PROVE  PC!IInv'
<1> USE DEF PC!Tids, PC!Main, Main
<1>1. t = Main \/ (t \in PC!Producers /\ t # Main)
  BY ProducersAssumption DEF PC!Producers
<1> QED
  BY <1>1, ProducersControl, ProducersInc, ProducersCreate, ProducersConsume DEF PC!Thread

\* Every step of prod_no_condvar.c, whose consumer never waits, keeps it.
LEMMA PollersStep ==
    ASSUME PC!IInv, pc[Main] \notin {"wait", "relock"}, NEW t \in PC!Tids, PC!PollThread(t)
    PROVE  PC!IInv' /\ pc'[Main] \notin {"wait", "relock"}
<1> USE DEF PC!Tids, PC!Main, Main
<1>1. t = Main \/ (t \in PC!Producers /\ t # Main)
  BY ProducersAssumption DEF PC!Producers
<1>2. PC!IInv'
  BY <1>1, ProducersControl, ProducersInc, ProducersCreate, ProducersConsume
     DEF PC!PollThread
<1>3. pc'[Main] \notin {"wait", "relock"}
  BY <1>1, ProducersAssumption
     DEF PC!PollThread, PC!MCreate, PC!MCreated, PC!PollLock, PC!MConsume, PC!MUnlock, PC!PLock,
         PC!PInc, PC!PollUnlock, PC!PReturn, PC!Start, PC!Lock, PC!Unlock, PC!Go, PC!IInv,
         PC!TypeOK, PC!Producers
<1> QED
  BY <1>2, <1>3

\* The consumer of prod_condvar.c or prod_no_condvar.c ends when all units that all
\* producers make have been consumed.
LEMMA ConsumerEnds ==
    ASSUME PC!IInv, PC!MUnlock, g.done
    PROVE  g.numConsumed = Sum(Cnt)
<1>1. IsFiniteSet(PC!Producers)
  BY ProducersAssumption, FS_Interval, SMTT(30) DEF PC!Producers
<1>2. g.made \in [PC!Producers -> Nat] /\ Cnt \in [PC!Producers -> Nat]
      /\ \A p \in PC!Producers : g.made[p] <= Cnt[p]
  BY ProducersAssumption DEF PC!IInv, PC!TypeOK, PC!UnitsCounted, PC!Producers
<1>3. Sum(g.made) <= Sum(Cnt) /\ Sum(g.made) \in Nat /\ Sum(Cnt) \in Nat
  BY <1>1, <1>2, SumMonotone, SumType
<1>4. g.totRequired = Sum(Cnt)
  <2>1. g.created = NumProducers
    BY DEF PC!IInv, PC!UnitsCounted, PC!MUnlock, PC!Unlock, PC!Go
  <2>2. [p \in 1..NumProducers |-> Cnt[p]] = Cnt
    BY ProducersAssumption
  <2> QED
    BY <2>1, <2>2, UnitsSummed DEF PC!IInv, PC!UnitsCounted
<1> QED
  BY <1>3, <1>4, UnitsSummed, SMTT(30) DEF PC!IInv, PC!TypeOK, PC!UnitsCounted

\* No unit is made or consumed yet.
LEMMA UnitsInit ==
    ASSUME PC!Init
    PROVE  PC!Abstract!Init
<1>1. PC!IInv
  BY ProducersInit
<1>2. g.avail = 0 /\ g.numConsumed = 0 /\ pc[PC!Main] # "exit"
  BY DEF PC!Init, PC!Tids, PC!Main
<1> QED
  BY <1>1, <1>2, SMTT(30) DEF PC!IInv, PC!UnitsCounted, PC!Abstract!Init

\* Making a unit is Units!Produce, consuming one is Units!Consume, the end of main() is
\* Units!End, and all other steps of both programs change nothing of Units.
LEMMA UnitsStep ==
    ASSUME PC!IInv, NEW t \in PC!Tids,
           PC!Thread(t) \/ PC!PollThread(t) \/ SpuriousWakeup(Main)
    PROVE  PC!Abstract!Next \/ UNCHANGED PC!Abstract!uvars
<1> USE DEF PC!Main, Main
<1>1. t = Main \/ (t \in PC!Producers /\ t # Main)
  BY ProducersAssumption DEF PC!Tids, PC!Producers
<1>2. CASE t \in PC!Producers /\ t # Main /\ PC!PInc(t)
  <2>1. Sum(g'.made) = Sum(g.made) + 1 /\ Sum(g'.made) <= Sum(Cnt)
    BY <1>2, ProducersInc
  <2>2. Sum(g.made) \in Nat /\ Sum(Cnt) \in Nat
    <3>1. g.made \in [1..NumProducers -> Nat] /\ IsFiniteSet(1..NumProducers)
      <4>1. IsFiniteSet(1..NumProducers)
        BY ProducersAssumption, FS_Interval, SMTT(30)
      <4> QED
        BY <4>1 DEF PC!IInv, PC!TypeOK, PC!Producers
    <3> QED
      BY <3>1, ProducersAssumption, SumType
  <2>3. g'.numConsumed = g.numConsumed /\ pc[Main] # "exit" /\ pc'[Main] # "exit"
    BY <1>2, SMTT(30) DEF PC!PInc, PC!Go, PC!IInv, PC!TypeOK
  <2>4. PC!Abstract!Produce
    BY <2>1, <2>2, <2>3, UnitsSummed, SMTT(30) DEF PC!Abstract!Produce
  <2> QED
    BY <2>4 DEF PC!Abstract!Next
<1>3. CASE PC!MConsume
  <2>1. g.avail > 0 /\ g'.numConsumed = g.numConsumed + 1 /\ g'.made = g.made
        /\ pc[Main] # "exit" /\ pc' = pc
    BY <1>3 DEF PC!MConsume, PC!Go, PC!IInv, PC!TypeOK
  <2>2. g.numConsumed < PC!Sum(g.made)
    BY <2>1, SMTT(30) DEF PC!IInv, PC!TypeOK, PC!UnitsCounted
  <2> QED
    BY <2>1, <2>2 DEF PC!Abstract!Next, PC!Abstract!Consume
<1>4. CASE PC!MUnlock /\ g.done
  <2>1. g.numConsumed = PC!Sum(Cnt)
    BY <1>4, ConsumerEnds, UnitsSummed
  <2>2. g' = g /\ pc[Main] # "exit" /\ pc'[Main] = "exit"
    BY <1>4 DEF PC!MUnlock, PC!Unlock, PC!Go, PC!IInv, PC!TypeOK, PC!Tids
  <2> QED
    BY <2>1, <2>2 DEF PC!Abstract!Next, PC!Abstract!End
<1>5. CASE PC!MCreate
  <2>1. g'.made = g.made /\ g'.numConsumed = g.numConsumed
        /\ pc[Main] # "exit" /\ pc'[Main] # "exit"
    BY <1>5, ProducersAssumption DEF PC!MCreate, PC!Start, PC!IInv, PC!TypeOK, PC!Tids, PC!Producers
  <2> QED
    BY <2>1 DEF PC!Abstract!uvars
<1>6. CASE \/ PC!MCreated \/ PC!MLock \/ PC!MWait \/ PC!MTestOk
           \/ PC!MUnlock /\ ~g.done
           \/ PC!PollLock \/ SpuriousWakeup(Main)
           \/ t # Main /\ (PC!PLock(t) \/ PC!PUnlock(t) \/ PC!PollUnlock(t) \/ PC!PReturn(t))
  <2>1. g' = g /\ pc[Main] # "exit" /\ pc'[Main] # "exit"
    BY <1>6 DEF PC!MCreated, PC!MLock, PC!MWait, PC!MTestOk, PC!MUnlock, PC!PollLock,
        SpuriousWakeup, PC!PLock, PC!PUnlock, PC!PollUnlock, PC!PReturn,
        PC!Lock, PC!CondWait, PC!Unlock, PC!Go, Go, PC!IInv, PC!TypeOK, PC!Tids
  <2> QED
    BY <2>1 DEF PC!Abstract!uvars
<1>7. CASE t # Main /\ PC!PSignal(t)
  <2>1. g' = g /\ pc[Main] # "exit" /\ pc'[Main] # "exit"
    BY <1>7 DEF PC!PSignal, PC!CondSignal, PC!IInv, PC!TypeOK, PC!Tids
  <2> QED
    BY <2>1 DEF PC!Abstract!uvars
<1>8. CASE t = Main /\ (PC!Thread(t) \/ PC!PollThread(t))
  <2>1. \/ PC!MCreate \/ PC!MCreated \/ PC!MLock \/ PC!MWait \/ PC!MTestOk \/ PC!MConsume
        \/ PC!MUnlock \/ PC!PollLock
    BY <1>8 DEF PC!Thread, PC!PollThread
  <2> QED
    BY <1>3, <1>4, <1>5, <1>6, <2>1
<1>9. CASE t # Main /\ (PC!Thread(t) \/ PC!PollThread(t))
  BY <1>1, <1>2, <1>6, <1>7, <1>9 DEF PC!Thread, PC!PollThread
<1> QED
  BY <1>6, <1>8, <1>9

-----------------------------------------------------------------------------
(* thread_multijoin.c                                                      *)

\* The module counts threads as Pthreads does.
LEMMA JoinsCounted == \A S : MJ!Cardinality(S) = Cardinality(S)
  BY DEF MJ!Cardinality, Cardinality

\* The sets of threads that are counted are finite.
LEMMA JoinsFinite ==
    /\ \A S \in SUBSET MJ!Threads : IsFiniteSet(S) /\ MJ!Cardinality(S) \in Nat
    /\ MJ!Cardinality(MJ!Threads) = MultijoinThreads
<1>1. IsFiniteSet(MJ!Threads) /\ Cardinality(MJ!Threads) = MultijoinThreads
  BY MultijoinAssumption, FS_Interval, SMTT(30) DEF MJ!Threads
<1>2. ASSUME NEW S \in SUBSET MJ!Threads
      PROVE  IsFiniteSet(S) /\ Cardinality(S) \in Nat
  BY <1>1, FS_Subset, FS_CardinalityType
<1> QED
  BY <1>1, <1>2, JoinsCounted

\* No thread is created yet.
LEMMA JoinsInit ==
    ASSUME MJ!Init
    PROVE  MJ!IInv
<1> USE MultijoinAssumption DEF MJ!Threads, MJ!Tids, MJ!Main, MJ!Free
<1>1. MJ!TypeOK
  BY SMTT(30) DEF MJ!Init, MJ!TypeOK, MJ!TPoints, MJ!MPoints
<1>2. MJ!MutexProtects /\ MJ!StatesRight /\ MJ!NoLostWakeup
  BY SMTT(30) DEF MJ!Init, MJ!MutexProtects, MJ!StatesRight, MJ!NoLostWakeup
<1>3. MJ!CountersRight
  <2>1. MJ!InState("TS_TERMINATED") = {}
    BY DEF MJ!Init, MJ!InState
  <2> QED
    BY <2>1, FS_EmptySet, JoinsCounted DEF MJ!Init, MJ!CountersRight
<1> QED
  BY <1>1, <1>2, <1>3 DEF MJ!IInv

\* A step that leaves the array and the counters alone.
LEMMA JoinsControl ==
    ASSUME MJ!IInv, NEW t \in MJ!Tids,
           \/ t # Main /\ (MJ!TLock(t) \/ MJ!TUnlock(t) \/ MJ!TSignal(t))
           \/ MJ!MLock \/ MJ!MWait \/ SpuriousWakeup(Main)
    PROVE  MJ!IInv'
<1> USE MultijoinAssumption
    DEF MJ!IInv, MJ!TypeOK, MJ!MutexProtects, MJ!StatesRight, MJ!NoLostWakeup,
        MJ!Threads, MJ!Tids, MJ!Main, MJ!Free, MJ!TPoints, MJ!MPoints, Main
<1>1. /\ g' = g
      /\ \/ pc[Main] # "create" /\ pc'[Main] \notin {"create", "exit"}
         \/ pc[Main] = pc'[Main] /\ pc[Main] # "exit"
  BY SMTT(30) DEF MJ!TLock, MJ!TUnlock, MJ!TSignal, MJ!MLock, MJ!MWait, SpuriousWakeup,
         MJ!Lock, MJ!CondWait, MJ!Unlock, MJ!CondSignal, MJ!Go, Go
<1>2. MJ!CountersRight'
  BY <1>1, SMTT(30) DEF MJ!CountersRight, MJ!InState
<1>3. CASE t # Main /\ MJ!TLock(t)
  BY <1>2, <1>3, SMTT(30) DEF MJ!TLock, MJ!Lock, MJ!Go
<1>4. CASE t # Main /\ MJ!TUnlock(t)
  BY <1>2, <1>4 DEF MJ!TUnlock, MJ!Unlock, MJ!Go
<1>5. CASE t # Main /\ MJ!TSignal(t)
  BY <1>2, <1>5 DEF MJ!TSignal, MJ!CondSignal
<1>6. CASE MJ!MLock
  <2>1. /\ pc[Main] \in {"lock", "relock"} /\ pc' = [pc EXCEPT ![Main] = "test"]
        /\ mtx = MJ!Free /\ mtx' = Main
    BY <1>6 DEF MJ!MLock, MJ!Lock, MJ!Go
  <2>2. MJ!MutexProtects'
    BY <2>1, SMTT(30)
  <2> QED
    BY <1>1, <1>2, <2>1, <2>2
<1>7. CASE MJ!MWait
  BY <1>2, <1>7, SMTT(30) DEF MJ!MWait, MJ!CondWait, MJ!Unlock, MJ!Go
<1>8. CASE SpuriousWakeup(Main)
  BY <1>2, <1>8 DEF SpuriousWakeup, Go
<1> QED
  BY <1>3, <1>4, <1>5, <1>6, <1>7, <1>8

\* A thread marks itself as terminated.
LEMMA JoinsMark ==
    ASSUME MJ!IInv, NEW t \in MJ!Threads, MJ!TMark(t)
    PROVE  MJ!IInv'
<1> USE MultijoinAssumption DEF MJ!IInv, MJ!TypeOK, MJ!Threads, MJ!Tids, MJ!Main, MJ!Free
<1> DEFINE state == [g.state EXCEPT ![t] = "TS_TERMINATED"]
<1>1. g.state[t] = "TS_ALIVE" /\ pc[t] = "mark" /\ pc[MJ!Main] # "exit"
      /\ pc' = [pc EXCEPT ![t] = "unlock"] /\ mtx' = mtx
  BY DEF MJ!StatesRight, MJ!TMark, MJ!Go
<1>2. state \in [MJ!Threads -> {"none", "TS_ALIVE", "TS_TERMINATED", "TS_JOINED"}]
      /\ \A u \in MJ!Threads : state[u] = IF u = t THEN "TS_TERMINATED" ELSE g.state[u]
  OBVIOUS
<1>3. g' = [state |-> state, idx |-> g.idx, numLive |-> g.numLive,
            numUnjoined |-> g.numUnjoined + 1]
  BY DEF MJ!TMark
<1> HIDE DEF state
<1>4. g'.state = state /\ g'.idx = g.idx /\ g'.numLive = g.numLive
      /\ g'.numUnjoined = g.numUnjoined + 1
  BY <1>3
<1>5. MJ!TypeOK'
  BY <1>1, <1>2, <1>3, SMTT(30) DEF MJ!TPoints, MJ!MPoints
<1>6. MJ!MutexProtects' /\ MJ!StatesRight' /\ MJ!NoLostWakeup'
  <2>1. MJ!MutexProtects'
    BY <1>1, <1>2, <1>4, SMTT(30) DEF MJ!MutexProtects, MJ!TPoints
  <2>2. MJ!StatesRight'
    <3>1. \A u \in MJ!Threads : /\ pc'[u] = IF u = t THEN "unlock" ELSE pc[u]
                              /\ g'.state[u] = IF u = t THEN "TS_TERMINATED" ELSE g.state[u]
      BY <1>1, <1>2, <1>4
    <3>2. pc'[MJ!Main] = pc[MJ!Main] /\ pc[t] # "none"
      BY <1>1, SMTT(30)
    <3> QED
      BY <1>1, <1>4, <3>1, <3>2 DEF MJ!StatesRight
  <2>3. MJ!NoLostWakeup'
    BY <1>1, <1>2, <1>4, SMTT(30) DEF MJ!NoLostWakeup, MJ!StatesRight, MJ!TPoints
  <2> QED
    BY <2>1, <2>2, <2>3
<1>7. MJ!CountersRight'
  <2>1. MJ!InState("TS_TERMINATED")' = MJ!InState("TS_TERMINATED") \cup {t}
        /\ t \notin MJ!InState("TS_TERMINATED")
    BY <1>1, <1>2, <1>4 DEF MJ!InState
  <2>2. (MJ!InState("TS_ALIVE") \cup MJ!InState("TS_TERMINATED"))' =
            MJ!InState("TS_ALIVE") \cup MJ!InState("TS_TERMINATED")
    BY <1>1, <1>2, <1>4 DEF MJ!InState
  <2>3. MJ!Cardinality(MJ!InState("TS_TERMINATED") \cup {t}) =
            MJ!Cardinality(MJ!InState("TS_TERMINATED")) + 1
    <3>1. MJ!InState("TS_TERMINATED") \in SUBSET MJ!Threads
      BY DEF MJ!InState
    <3> HIDE DEF MJ!IInv, MJ!Threads
    <3> QED
      BY <2>1, <3>1, JoinsFinite, JoinsCounted, FS_AddElement
  <2>4. pc'[MJ!Main] = pc[MJ!Main]
    BY <1>1, SMTT(30)
  <2> QED
    BY <1>1, <1>4, <2>1, <2>2, <2>3, <2>4 DEF MJ!CountersRight
<1> QED
  BY <1>5, <1>6, <1>7

\* main() creates a thread.
LEMMA JoinsCreate ==
    ASSUME MJ!IInv, MJ!MCreate
    PROVE  MJ!IInv'
<1> USE MultijoinAssumption DEF MJ!IInv, MJ!TypeOK, MJ!Threads, MJ!Tids, MJ!Main, MJ!Free
<1> DEFINE state == [g.state EXCEPT ![g.idx] = "TS_ALIVE"]
<1>1. g.idx \in MJ!Threads /\ g.state[g.idx] = "none" /\ pc[MJ!Main] = "create"
      /\ pc[g.idx] = "none" /\ pc' = [pc EXCEPT ![g.idx] = "work"] /\ mtx' = mtx
  BY SMTT(30) DEF MJ!StatesRight, MJ!MCreate, MJ!Start
<1>2. state \in [MJ!Threads -> {"none", "TS_ALIVE", "TS_TERMINATED", "TS_JOINED"}]
      /\ \A u \in MJ!Threads : state[u] = IF u = g.idx THEN "TS_ALIVE" ELSE g.state[u]
  BY <1>1
<1>3. g' = [state |-> state, idx |-> g.idx + 1, numLive |-> g.numLive,
            numUnjoined |-> g.numUnjoined]
  BY DEF MJ!MCreate
<1> HIDE DEF state
<1>4. g'.state = state /\ g'.idx = g.idx + 1 /\ g'.numUnjoined = g.numUnjoined
  BY <1>3
<1>5. MJ!TypeOK'
  BY <1>1, <1>2, <1>3, SMTT(30) DEF MJ!TPoints, MJ!MPoints
<1>6. MJ!MutexProtects' /\ MJ!NoLostWakeup'
  BY <1>1, <1>2, <1>4 DEF MJ!MutexProtects, MJ!NoLostWakeup
<1>7. MJ!StatesRight'
  <2>1. pc'[MJ!Main] = "create" /\ pc'[g.idx] = "work"
        /\ \A u \in MJ!Threads : u # g.idx => pc'[u] = pc[u]
    BY <1>1
  <2>2. \A u \in MJ!Threads : u >= g.idx + 1 <=> u >= g.idx /\ u # g.idx
    BY <1>1, SMTT(30)
  <2>3. \A u \in MJ!Threads : g.state[u] # "TS_JOINED" /\ (u >= g.idx <=> pc[u] = "none")
    BY <1>1 DEF MJ!StatesRight
  <2>4. \A u \in MJ!Threads : g'.state[u] # "TS_JOINED"
    BY <1>2, <1>4, <2>3
  <2>5. \A u \in MJ!Threads : u >= g'.idx <=> pc'[u] = "none"
    BY <1>4, <2>1, <2>2, <2>3, SMTT(30)
  <2>6. \A u \in MJ!Threads :
            /\ pc'[u] = "none" => g'.state[u] = "none"
            /\ pc'[u] \in {"work", "mark"} => g'.state[u] = "TS_ALIVE"
            /\ pc'[u] \in {"unlock", "signal", "end"} => g'.state[u] \in {"TS_TERMINATED", "TS_JOINED"}
    <3>1. \A u \in MJ!Threads : /\ u # g.idx => pc'[u] = pc[u] /\ g'.state[u] = g.state[u]
                                /\ u = g.idx => pc'[u] = "work" /\ g'.state[u] = "TS_ALIVE"
      BY <1>2, <1>4, <2>1
    <3>2. MJ!StatesRight
      OBVIOUS
    <3> HIDE DEF MJ!IInv
    <3> QED
      BY <3>1, <3>2 DEF MJ!StatesRight
  <2> QED
    BY <2>1, <2>4, <2>5, <2>6 DEF MJ!StatesRight
<1>8. MJ!CountersRight'
  <2>1. MJ!InState("TS_TERMINATED")' = MJ!InState("TS_TERMINATED")
    BY <1>1, <1>2, <1>4 DEF MJ!InState
  <2>2. pc'[MJ!Main] = "create"
    BY <1>1
  <2> QED
    BY <1>1, <1>4, <2>1, <2>2 DEF MJ!CountersRight
<1> QED
  BY <1>5, <1>6, <1>7, <1>8

\* All threads are created: numLive is their number.
LEMMA JoinsCreated ==
    ASSUME MJ!IInv, MJ!MCreated
    PROVE  MJ!IInv'
<1> USE MultijoinAssumption DEF MJ!IInv, MJ!TypeOK, MJ!Threads, MJ!Tids, MJ!Main, MJ!Free
<1>1. pc[MJ!Main] = "create" /\ pc' = [pc EXCEPT ![MJ!Main] = "lock"] /\ mtx' = mtx
      /\ g.idx > MultijoinThreads
  BY DEF MJ!MCreated, MJ!Go
<1>2. g' = [state |-> g.state, idx |-> g.idx, numLive |-> MultijoinThreads,
            numUnjoined |-> g.numUnjoined]
  BY DEF MJ!MCreated
<1>3. \A t \in MJ!Threads : pc[t] # "none" /\ g.state[t] \in {"TS_ALIVE", "TS_TERMINATED"}
  BY <1>1, SMTT(30) DEF MJ!StatesRight, MJ!TPoints
<1>4. MJ!TypeOK'
  BY <1>1, <1>2, SMTT(30) DEF MJ!TPoints, MJ!MPoints
<1>5. MJ!MutexProtects' /\ MJ!StatesRight' /\ MJ!NoLostWakeup'
  BY <1>1, <1>2, <1>3 DEF MJ!MutexProtects, MJ!StatesRight, MJ!NoLostWakeup
<1>6. MJ!CountersRight'
  <2>1. (MJ!InState("TS_ALIVE") \cup MJ!InState("TS_TERMINATED"))' = MJ!Threads
    BY <1>2, <1>3 DEF MJ!InState
  <2>2. MJ!InState("TS_TERMINATED")' = MJ!InState("TS_TERMINATED")
    BY <1>2 DEF MJ!InState
  <2>3. MJ!Cardinality((MJ!InState("TS_ALIVE") \cup MJ!InState("TS_TERMINATED"))') =
            MultijoinThreads
    BY <2>1, JoinsFinite
  <2>4. g'.numLive = MultijoinThreads /\ g'.numUnjoined = g.numUnjoined /\ pc'[MJ!Main] = "lock"
    BY <1>1, <1>2
  <2> QED
    BY <2>2, <2>3, <2>4 DEF MJ!CountersRight
<1> QED
  BY <1>4, <1>5, <1>6

\* main() goes on to the next thread, or starts a new scan.
LEMMA JoinsScan ==
    ASSUME MJ!IInv, MJ!MScan \/ MJ!MSkip
    PROVE  MJ!IInv'
<1> USE MultijoinAssumption DEF MJ!IInv, MJ!TypeOK, MJ!Threads, MJ!Tids, MJ!Main, MJ!Free
<1>1. PICK i \in Nat \ {0} : g' = [state |-> g.state, idx |-> i, numLive |-> g.numLive,
                                   numUnjoined |-> g.numUnjoined]
  <2>1. CASE MJ!MScan
    <3>1. g' = [state |-> g.state, idx |-> 1, numLive |-> g.numLive,
                numUnjoined |-> g.numUnjoined]
      BY <2>1 DEF MJ!MScan
    <3> QED
      BY <3>1, SMTT(30)
  <2>2. CASE MJ!MSkip
    <3>1. g' = [state |-> g.state, idx |-> g.idx + 1, numLive |-> g.numLive,
                numUnjoined |-> g.numUnjoined]
      BY <2>2 DEF MJ!MSkip
    <3>2. g.idx + 1 \in Nat \ {0}
      BY SMTT(30)
    <3> QED
      BY <3>1, <3>2
  <2> QED
    BY <2>1, <2>2
<1>2. pc[MJ!Main] \in {"test", "scan"} /\ pc' = [pc EXCEPT ![MJ!Main] = "scan"] /\ mtx' = mtx
  BY DEF MJ!MScan, MJ!MSkip, MJ!Go
<1>3. MJ!TypeOK'
  BY <1>1, <1>2 DEF MJ!TPoints, MJ!MPoints
<1>4. MJ!MutexProtects' /\ MJ!StatesRight' /\ MJ!NoLostWakeup'
  BY <1>1, <1>2 DEF MJ!MutexProtects, MJ!StatesRight, MJ!NoLostWakeup
<1>5. MJ!CountersRight'
  BY <1>1, <1>2 DEF MJ!CountersRight, MJ!InState
<1> QED
  BY <1>3, <1>4, <1>5

\* main() joins a terminated thread.
LEMMA JoinsJoin ==
    ASSUME MJ!IInv, MJ!MJoin
    PROVE  MJ!IInv'
<1> USE MultijoinAssumption DEF MJ!IInv, MJ!TypeOK, MJ!Threads, MJ!Tids, MJ!Main, MJ!Free
<1> DEFINE t == g.idx
           state == [g.state EXCEPT ![g.idx] = "TS_JOINED"]
           T == MJ!InState("TS_TERMINATED")
           L == MJ!InState("TS_ALIVE") \cup MJ!InState("TS_TERMINATED")
<1>1. t \in MJ!Threads /\ g.state[t] = "TS_TERMINATED" /\ pc[t] = "end" /\ pc[MJ!Main] = "scan"
      /\ pc' = pc /\ mtx' = mtx
  BY SMTT(30) DEF MJ!MJoin, MJ!Joined, MJ!Go
<1>2. state \in [MJ!Threads -> {"none", "TS_ALIVE", "TS_TERMINATED", "TS_JOINED"}]
      /\ \A u \in MJ!Threads : state[u] = IF u = t THEN "TS_JOINED" ELSE g.state[u]
  BY <1>1
<1>3. g' = [state |-> state, idx |-> t + 1, numLive |-> g.numLive - 1,
            numUnjoined |-> g.numUnjoined - 1]
  BY DEF MJ!MJoin
<1> HIDE DEF state
<1>4. g'.state = state /\ g'.numLive = g.numLive - 1 /\ g'.numUnjoined = g.numUnjoined - 1
  BY <1>3
<1>5. MJ!TypeOK'
  BY <1>1, <1>2, <1>3, SMTT(30) DEF MJ!TPoints, MJ!MPoints
<1>6. MJ!MutexProtects' /\ MJ!StatesRight' /\ MJ!NoLostWakeup'
  BY <1>1, <1>2, <1>4 DEF MJ!MutexProtects, MJ!StatesRight, MJ!NoLostWakeup
<1>7. MJ!CountersRight'
  <2>1. T' = T \ {t} /\ L' = L \ {t} /\ t \in T /\ t \in L
    BY <1>1, <1>2, <1>4, SMTT(30) DEF MJ!InState
  <2>2. T \in SUBSET MJ!Threads /\ L \in SUBSET MJ!Threads
    BY DEF MJ!InState
  <2>3. g.numUnjoined = MJ!Cardinality(T) /\ g.numLive = MJ!Cardinality(L)
    BY <1>1 DEF MJ!CountersRight
  <2>4. pc'[MJ!Main] = "scan"
    BY <1>1
  <2> HIDE DEF MJ!IInv, MJ!Threads, T, L
  <2>5. MJ!Cardinality(T \ {t}) = MJ!Cardinality(T) - 1 /\ MJ!Cardinality(L \ {t}) = MJ!Cardinality(L) - 1
    BY <2>1, <2>2, JoinsFinite, JoinsCounted, FS_RemoveElement
  <2>6. g'.numUnjoined = MJ!Cardinality(T') /\ g'.numLive = MJ!Cardinality(L')
    BY <1>4, <2>1, <2>3, <2>5
  <2> QED
    BY <2>4, <2>6 DEF MJ!CountersRight, T, L
<1> QED
  BY <1>5, <1>6, <1>7

\* main() gives up the mutex after a scan; it ends when no thread is left.
LEMMA JoinsUnlock ==
    ASSUME MJ!IInv, MJ!MUnlock
    PROVE  MJ!IInv'
<1> USE MultijoinAssumption DEF MJ!IInv, MJ!TypeOK, MJ!Threads, MJ!Tids, MJ!Main, MJ!Free
<1> DEFINE L == MJ!InState("TS_ALIVE") \cup MJ!InState("TS_TERMINATED")
<1>1. pc[MJ!Main] = "scan" /\ mtx' = MJ!Free /\ g' = g
      /\ pc' = [pc EXCEPT ![MJ!Main] = IF g.numLive > 0 THEN "lock" ELSE "exit"]
  BY DEF MJ!MUnlock, MJ!Unlock, MJ!Go
<1>2. MJ!TypeOK'
  BY <1>1 DEF MJ!TPoints, MJ!MPoints
<1>3. MJ!MutexProtects' /\ MJ!StatesRight' /\ MJ!NoLostWakeup'
  BY <1>1 DEF MJ!MutexProtects, MJ!StatesRight, MJ!NoLostWakeup, MJ!TPoints
<1>4. pc'[MJ!Main] = "exit" => MJ!InState("TS_JOINED") = MJ!Threads
  <2> SUFFICES ASSUME g.numLive <= 0
               PROVE  MJ!InState("TS_JOINED") = MJ!Threads
    BY <1>1, SMTT(30)
  <2>1. g.numLive = MJ!Cardinality(L) /\ L \in SUBSET MJ!Threads
    BY <1>1 DEF MJ!CountersRight, MJ!InState
  <2>2. L = {}
    <3> HIDE DEF L, MJ!Threads
    <3> QED
      BY <2>1, JoinsFinite, JoinsCounted, FS_EmptySet, SMTT(30)
  <2>3. \A t \in MJ!Threads : g.state[t] = "TS_JOINED"
    BY <1>1, <2>2 DEF MJ!StatesRight, MJ!InState, MJ!TPoints
  <2> QED
    BY <2>3 DEF MJ!InState
<1>5. MJ!CountersRight'
  BY <1>1, <1>4 DEF MJ!CountersRight, MJ!InState
<1> QED
  BY <1>2, <1>3, <1>5

\* Every step of thread_multijoin.c keeps the invariant.
LEMMA JoinsStep ==
    ASSUME MJ!IInv, NEW t \in MJ!Tids, MJ!Thread(t) \/ SpuriousWakeup(Main)
    PROVE  MJ!IInv'
<1> USE DEF MJ!Tids, MJ!Main, Main
<1>1. t = Main \/ (t \in MJ!Threads /\ t # Main)
  BY MultijoinAssumption DEF MJ!Threads
<1> QED
  BY <1>1, JoinsControl, JoinsMark, JoinsCreate, JoinsCreated, JoinsScan, JoinsJoin, JoinsUnlock
     DEF MJ!Thread

\* What the run checks of thread_multijoin.c follows.
LEMMA JoinsRight ==
    ASSUME MJ!IInv
    PROVE  MJ!NoLostWakeup /\ MJ!JoinIsSafe /\ MJ!CountersRight
<1>1. MJ!JoinIsSafe
  BY MultijoinAssumption DEF MJ!IInv, MJ!TypeOK, MJ!MutexProtects, MJ!StatesRight, MJ!JoinIsSafe,
      MJ!TPoints, MJ!Threads, MJ!Tids, MJ!Main
<1> QED
  BY <1>1 DEF MJ!IInv

-----------------------------------------------------------------------------
(* thread_incr*.c, psem/thread_incr_psem.c and thread_lock_speed.c         *)

IncrPoints == {"loop", "read", "write", "unlock", "end"}
IncrData == [kind : TI!Kinds, glob : Nat, sem : {0, 1}, joined : 0..IncrThreads,
             loc : [TI!Threads -> Nat], j : [TI!Threads -> 0..IncrLoops],
             k : [TI!Threads -> Nat]]

\* The sums of the loops are those of Pthreads.
LEMMA IncrSummed == \A f : TI!Sum(f) = Sum(f)
  BY DEF TI!Sum, TI!Pairs, TI!Cardinality, Sum, Pairs, Cardinality

\* There are finitely many threads; main() is none of them.
LEMMA IncrThreadsFinite ==
    /\ IsFiniteSet(TI!Threads) /\ TI!Threads = 1..IncrThreads
    /\ TI!Main \notin TI!Threads /\ TI!Threads \subseteq TI!Tids /\ TI!Main \in TI!Tids
    /\ TI!Free \notin TI!Tids
    /\ IncrThreads \in Nat \ {0} /\ IncrLoops \in Nat \ {0} /\ IncrInnerLoops \in Nat \ {0}
<1>1. IncrThreads \in Nat \ {0} /\ IncrLoops \in Nat \ {0} /\ IncrInnerLoops \in Nat \ {0}
  BY IncrAssumption
<1>2. IsFiniteSet(1..IncrThreads)
  <2>1. IncrThreads \in Int /\ 1 \in Int
    BY <1>1, SMTT(30)
  <2> QED
    BY <2>1, FS_Interval
<1>3. /\ TI!Main \notin TI!Threads /\ TI!Threads \subseteq TI!Tids /\ TI!Main \in TI!Tids
      /\ TI!Free \notin TI!Tids
  BY <1>1, SMTT(30) DEF TI!Threads, TI!Tids, TI!Main, TI!Free
<1> QED
  BY <1>1, <1>2, <1>3 DEF TI!Threads

\* The types of the program's data.
LEMMA IncrTypes ==
    ASSUME TI!IInv
    PROVE  /\ pc \in [TI!Tids -> IncrPoints \cup {"join", "exit"}]
           /\ \A t \in TI!Threads : pc[t] \in IncrPoints
           /\ pc[TI!Main] \in {"join", "exit"} /\ mtx \in TI!Tids \cup {TI!Free}
           /\ g \in IncrData
           /\ g.kind \in TI!Kinds /\ g.glob \in Nat /\ g.sem \in {0, 1} /\ g.joined \in Nat
           /\ g.loc \in [TI!Threads -> Nat] /\ g.j \in [TI!Threads -> Nat]
           /\ \A t \in TI!Threads : g.j[t] <= IncrLoops
           /\ g.k \in [TI!Threads -> Nat]
           /\ TI!Inner \in Nat \ {0} /\ (g.kind # "speed" => TI!Inner = 1)
           /\ 1..g.joined \subseteq TI!Threads
           /\ TI!LoopsRight /\ TI!NoneLost /\ TI!SomeLost
<1>1. g \in IncrData /\ TI!LoopsRight /\ TI!NoneLost /\ TI!SomeLost
  BY DEF TI!IInv, TI!TypeOK, IncrData
<1>2. /\ pc \in [TI!Tids -> IncrPoints \cup {"join", "exit"}]
      /\ \A t \in TI!Threads : pc[t] \in IncrPoints
      /\ pc[TI!Main] \in {"join", "exit"} /\ mtx \in TI!Tids \cup {TI!Free}
  BY DEF TI!IInv, TI!TypeOK, IncrPoints
<1>3. g.j \in [TI!Threads -> Nat] /\ \A t \in TI!Threads : g.j[t] <= IncrLoops
  BY <1>1, IncrThreadsFinite, SMTT(30) DEF IncrData
<1>4. 1..g.joined \subseteq TI!Threads /\ g.joined \in Nat
  BY <1>1, IncrThreadsFinite, SMTT(30) DEF IncrData
<1>5. TI!Inner \in Nat \ {0} /\ (g.kind # "speed" => TI!Inner = 1)
  BY IncrThreadsFinite, SMTT(30) DEF TI!Inner
<1> QED
  BY <1>1, <1>2, <1>3, <1>4, <1>5 DEF IncrData

\* A thread that has not ended has a loop to go.
LEMMA IncrTurn ==
    ASSUME TI!IInv, NEW t \in TI!Threads, pc[t] # "end"
    PROVE  g.j[t] \in Nat /\ g.j[t] < IncrLoops
<1>1. g.j[t] # IncrLoops
  BY IncrTypes DEF TI!LoopsRight
<1>2. g.j[t] \in Nat /\ g.j[t] <= IncrLoops /\ IncrLoops \in Nat
  BY IncrTypes, IncrThreadsFinite
<1> QED
  BY <1>1, <1>2, SMTT(30)

\* What is summed is a number for each thread, so the sums are numbers.
LEMMA IncrSums ==
    ASSUME TI!IInv
    PROVE  /\ TI!Sum(g.j) \in Nat /\ TI!AllWritten \in Nat
           /\ \A t \in TI!Threads : TI!Written(t) \in Nat
           /\ [t \in TI!Threads |-> TI!Written(t)] \in [TI!Threads -> Nat]
<1> DEFINE W == [t \in TI!Threads |-> TI!Written(t)]
<1>1. \A t \in TI!Threads : TI!Written(t) \in Nat
  BY IncrTypes, SMTT(30) DEF TI!Written
<1>2. W \in [TI!Threads -> Nat]
  BY <1>1
<1>3. Sum(g.j) \in Nat
  BY IncrTypes, IncrThreadsFinite, SumType
<1>4. Sum(W) \in Nat
  <2> HIDE DEF W
  <2> QED
    BY <1>2, IncrThreadsFinite, SumType
<1> QED
  BY <1>1, <1>2, <1>3, <1>4, IncrSummed DEF TI!AllWritten

\* The threads are at the start of their first loop.
LEMMA IncrInit ==
    ASSUME TI!Init
    PROVE  TI!IInv
<1> DEFINE Z == [t \in TI!Threads |-> 0]
<1>1. PICK kind \in TI!Kinds :
        g = [kind |-> kind, glob |-> 0, sem |-> 1, joined |-> 0, loc |-> Z, j |-> Z, k |-> Z]
  BY DEF TI!Init
<1>2. \A t \in TI!Tids : pc[t] = IF t = TI!Main THEN "join" ELSE "loop"
  BY DEF TI!Init
<1>3. TI!TypeOK
  BY <1>1, IncrThreadsFinite, SMTT(30) DEF TI!Init, TI!TypeOK
<1>4. TI!LoopsRight
  BY <1>1, <1>2, IncrThreadsFinite, SMTT(30) DEF TI!LoopsRight
<1>5. Z \in [TI!Threads -> Nat] /\ \A t \in TI!Threads : Z[t] = 0
  OBVIOUS
<1>6. Sum(Z) = 0
  <2> HIDE DEF Z
  <2> QED
    BY <1>5, SumZero
<1>7. [t \in TI!Threads |-> TI!Written(t)] = Z
  BY <1>1, <1>2, IncrThreadsFinite, SMTT(30) DEF TI!Written
<1>8. TI!AllWritten = 0 /\ TI!Sum(g.j) = 0
  BY <1>1, <1>6, <1>7, IncrSummed DEF TI!AllWritten
<1>9. \A t \in TI!Threads : TI!Written(t) = 0 /\ pc[t] = "loop"
  BY <1>1, <1>2, IncrThreadsFinite, SMTT(30) DEF TI!Written
<1>10. g.glob = 0 /\ \A t \in TI!Threads : g.loc[t] = 0
  BY <1>1
<1>11. 1 \in TI!Threads /\ IncrLoops # 0 /\ 0 * TI!Inner = 0
  BY IncrThreadsFinite, SMTT(30) DEF TI!Inner
<1> HIDE DEF Z
<1>12. TI!NoneLost
  BY <1>8, <1>9, <1>10, <1>11 DEF TI!NoneLost, TI!InCS
<1>13. TI!SomeLost
  BY <1>8, <1>9, <1>10, <1>11, SMTT(30) DEF TI!SomeLost
<1> QED
  BY <1>3, <1>4, <1>12, <1>13 DEF TI!IInv

\* A step of thread t that is typed.
LEMMA IncrTyped ==
    ASSUME TI!IInv, NEW t \in TI!Threads, NEW to \in IncrPoints,
           pc' = [pc EXCEPT ![t] = to], g' \in IncrData, mtx' \in TI!Tids \cup {TI!Free}
    PROVE  /\ TI!TypeOK' /\ pc'[TI!Main] = pc[TI!Main]
           /\ \A u \in TI!Threads : pc'[u] = IF u = t THEN to ELSE pc[u]
<1>1. /\ pc' \in [TI!Tids -> IncrPoints \cup {"join", "exit"}] /\ pc'[TI!Main] = pc[TI!Main]
      /\ \A u \in TI!Threads : pc'[u] = IF u = t THEN to ELSE pc[u]
  BY IncrTypes, IncrThreadsFinite
<1>2. \A u \in TI!Threads : pc'[u] \in IncrPoints
  BY <1>1, IncrTypes
<1> QED
  BY <1>1, <1>2, IncrTypes DEF TI!TypeOK, IncrData, IncrPoints

\* A step in which no thread writes.
LEMMA IncrWrittenKept ==
    ASSUME \A u \in TI!Threads : TI!Written(u)' = TI!Written(u)
    PROVE  TI!AllWritten' = TI!AllWritten
<1>1. [u \in TI!Threads |-> TI!Written(u)]' = [u \in TI!Threads |-> TI!Written(u)]
  OBVIOUS
<1> QED
  BY <1>1 DEF TI!AllWritten

\* A thread starts a loop, with the lock if there is one.
LEMMA IncrLock ==
    ASSUME TI!IInv, NEW t \in TI!Threads,
           \/ TI!NoLock(t) \/ TI!MutexLock(t) \/ TI!SpinLock(t)
           \/ TI!WrLock(t) \/ TI!SpeedLock(t) \/ TI!SemWait(t)
    PROVE  TI!IInv'
<1> DEFINE k == [g.k EXCEPT ![t] = 0]
           s == IF g.kind = "sem" THEN g.sem - 1 ELSE g.sem
<1>1. pc[t] = "loop" /\ pc' = [pc EXCEPT ![t] = "read"] /\ g.j[t] < IncrLoops
  BY DEF TI!NoLock, TI!MutexLock, TI!SpinLock, TI!WrLock, TI!SpeedLock, TI!SemWait,
         TI!Lock, TI!Go, TI!More
<1>2. /\ g.kind = "none" => mtx' = mtx
      /\ g.kind = "sem" => mtx' = mtx /\ g.sem > 0
      /\ g.kind \notin {"none", "sem"} => mtx = TI!Free /\ mtx' = t
  BY DEF TI!NoLock, TI!MutexLock, TI!SpinLock, TI!WrLock, TI!SpeedLock, TI!SemWait, TI!Lock
<1>3. g' = [kind |-> g.kind, glob |-> g.glob, sem |-> s, joined |-> g.joined,
            loc |-> g.loc, j |-> g.j, k |-> k]
  <2>1. CASE TI!SemWait(t)
    <3>1. g' = [g EXCEPT !.k[t] = 0, !.sem = g.sem - 1] /\ g.kind = "sem"
      BY <2>1 DEF TI!SemWait
    <3> QED
      BY <3>1, IncrTypes DEF IncrData
  <2>2. CASE ~TI!SemWait(t)
    <3>1. TI!Enter(t) /\ g.kind # "sem"
      BY <2>2 DEF TI!NoLock, TI!MutexLock, TI!SpinLock, TI!WrLock, TI!SpeedLock
    <3> QED
      BY <3>1, IncrTypes DEF IncrData, TI!Enter
  <2> QED
    BY <2>1, <2>2
<1>4. /\ k \in [TI!Threads -> Nat] /\ k[t] = 0
      /\ \A u \in TI!Threads : u # t => k[u] = g.k[u]
  BY IncrTypes
<1>5. s \in {0, 1} /\ (g.kind = "sem" => g.sem = 1 /\ s = 0)
  BY <1>2, IncrTypes, SMTT(30)
<1> HIDE DEF k, s
<1>6. /\ g'.kind = g.kind /\ g'.glob = g.glob /\ g'.sem = s /\ g'.joined = g.joined
      /\ g'.loc = g.loc /\ g'.j = g.j /\ g'.k = k /\ TI!Inner' = TI!Inner
  BY <1>3 DEF TI!Inner
<1>7. g' \in IncrData /\ mtx' \in TI!Tids \cup {TI!Free}
  <2>1. g' \in IncrData
    BY <1>3, <1>4, <1>5, IncrTypes DEF IncrData
  <2>2. mtx' \in TI!Tids \cup {TI!Free}
    BY <1>2, IncrTypes, IncrThreadsFinite
  <2> QED
    BY <2>1, <2>2
<1>8. /\ TI!TypeOK' /\ pc'[TI!Main] = pc[TI!Main]
      /\ \A u \in TI!Threads : pc'[u] = IF u = t THEN "read" ELSE pc[u]
  BY <1>1, <1>7, IncrTyped DEF IncrPoints
<1>9. TI!LoopsRight'
  <2>1. TI!LoopsRight /\ 1..g.joined \subseteq TI!Threads /\ 0 < TI!Inner
    BY IncrTypes, SMTT(30)
  <2>2. g'.k[t] = 0 /\ g'.j = g.j /\ g'.joined = g.joined /\ TI!Inner' = TI!Inner
    BY <1>4, <1>6
  <2>3. \A u \in TI!Threads : u # t => g'.k[u] = g.k[u]
    BY <1>4, <1>6
  <2>4. pc[t] = "loop"
    BY <1>1
  <2> QED
    BY <1>8, <2>1, <2>2, <2>3, <2>4, SMTT(30) DEF TI!LoopsRight
<1>10. TI!NoneLost'
  <2>1. CASE g.kind # "none"
    <3>1. \A u \in TI!Threads : ~TI!InCS(u)
      BY <1>2, <1>5, <2>1, IncrTypes DEF TI!NoneLost
    <3>2. \A u \in TI!Threads : TI!InCS(u)' <=> u = t
      BY <1>8, <3>1 DEF TI!InCS
    <3>3. g.glob = TI!Sum(g.j) * TI!Inner
      BY <2>1, <3>1, IncrTypes DEF TI!NoneLost
    <3>4. g'.glob = TI!Sum(g.j) * TI!Inner + g'.k[t]
      BY <1>4, <1>6, <3>3, IncrTypes, IncrSums, SMTT(30)
    <3>5. ~(IF g.kind = "sem" THEN g'.sem = 1 ELSE mtx' = TI!Free)
      BY <1>2, <1>5, <1>6, <2>1, IncrThreadsFinite, SMTT(30)
    <3>6. \A u \in TI!Threads : pc'[u] # "write"
      BY <1>8, <3>1 DEF TI!InCS
    <3> QED
      BY <1>6, <3>2, <3>4, <3>5, <3>6 DEF TI!NoneLost
  <2> QED
    BY <1>6, <2>1 DEF TI!NoneLost
<1>11. TI!SomeLost'
  <2>1. \A u \in TI!Threads : TI!Written(u)' = TI!Written(u)
    BY <1>1, <1>6, <1>8, SMTT(30) DEF TI!Written
  <2>2. TI!AllWritten' = TI!AllWritten
    BY <2>1, IncrWrittenKept
  <2> QED
    BY <1>6, <1>8, <2>1, <2>2, IncrTypes DEF TI!SomeLost
<1> QED
  BY <1>8, <1>9, <1>10, <1>11 DEF TI!IInv

\* A thread reads 'glob'.
LEMMA IncrRead ==
    ASSUME TI!IInv, NEW t \in TI!Threads, TI!Read(t)
    PROVE  TI!IInv'
<1> DEFINE loc == [g.loc EXCEPT ![t] = g.glob]
<1>1. pc[t] = "read" /\ pc' = [pc EXCEPT ![t] = "write"] /\ mtx' = mtx
  BY DEF TI!Read, TI!Go
<1>2. g' = [kind |-> g.kind, glob |-> g.glob, sem |-> g.sem, joined |-> g.joined,
            loc |-> loc, j |-> g.j, k |-> g.k]
  BY IncrTypes DEF TI!Read, IncrData
<1>3. loc \in [TI!Threads -> Nat] /\ \A u \in TI!Threads : loc[u] = IF u = t THEN g.glob ELSE g.loc[u]
  BY IncrTypes
<1> HIDE DEF loc
<1>4. /\ g'.kind = g.kind /\ g'.glob = g.glob /\ g'.sem = g.sem /\ g'.joined = g.joined
      /\ g'.loc = loc /\ g'.j = g.j /\ g'.k = g.k /\ TI!Inner' = TI!Inner
  BY <1>2 DEF TI!Inner
<1>5. g' \in IncrData
  BY <1>2, <1>3, IncrTypes DEF IncrData
<1>6. /\ TI!TypeOK' /\ pc'[TI!Main] = pc[TI!Main]
      /\ \A u \in TI!Threads : pc'[u] = IF u = t THEN "write" ELSE pc[u]
  BY <1>1, <1>5, IncrTyped, IncrTypes DEF IncrPoints
<1>7. TI!LoopsRight'
  BY <1>1, <1>4, <1>6, IncrTypes, SMTT(30) DEF TI!LoopsRight
<1>8. \A u \in TI!Threads : TI!InCS(u)' <=> TI!InCS(u)
  BY <1>1, <1>6 DEF TI!InCS
<1>9. TI!NoneLost'
  <2>1. \A u \in TI!Threads : pc'[u] = "write" /\ g.kind # "none" => g'.loc[u] = g'.glob
    BY <1>3, <1>4, <1>6, IncrTypes DEF TI!NoneLost
  <2> QED
    BY <1>1, <1>4, <1>8, <2>1, IncrTypes DEF TI!NoneLost
<1>10. TI!SomeLost'
  <2>1. \A u \in TI!Threads : TI!Written(u)' = TI!Written(u)
    BY <1>1, <1>4, <1>6, SMTT(30) DEF TI!Written
  <2>2. TI!AllWritten' = TI!AllWritten
    BY <2>1, IncrWrittenKept
  <2>3. g.j[t] > 0 => TI!Written(t) > 0
    BY <1>1, IncrTypes, SMTT(30) DEF TI!Written
  <2> QED
    BY <1>3, <1>4, <1>6, <2>1, <2>2, <2>3, IncrTypes DEF TI!SomeLost
<1> QED
  BY <1>6, <1>7, <1>9, <1>10 DEF TI!IInv

\* A thread writes 'glob'.
LEMMA IncrWrite ==
    ASSUME TI!IInv, NEW t \in TI!Threads, TI!Write(t)
    PROVE  TI!IInv'
<1> DEFINE k == [g.k EXCEPT ![t] = @ + 1]
           to == IF g.k[t] + 1 < TI!Inner THEN "read" ELSE "unlock"
           n == g.loc[t] + 1
<1>1. pc[t] = "write" /\ pc' = [pc EXCEPT ![t] = to] /\ mtx' = mtx
  BY DEF TI!Write, TI!Go
<1>2. g' = [kind |-> g.kind, glob |-> n, sem |-> g.sem, joined |-> g.joined,
            loc |-> g.loc, j |-> g.j, k |-> k]
  BY IncrTypes DEF TI!Write, IncrData
<1>3. /\ k \in [TI!Threads -> Nat] /\ k[t] = g.k[t] + 1
      /\ \A u \in TI!Threads : u # t => k[u] = g.k[u]
  BY IncrTypes, SMTT(30)
<1>4. g.k[t] < TI!Inner /\ n \in Nat
  BY <1>1, IncrTypes, SMTT(30) DEF TI!LoopsRight
<1>5. /\ to = "read" => g.k[t] + 1 < TI!Inner
      /\ to = "unlock" => g.k[t] + 1 = TI!Inner
      /\ to \in {"read", "unlock"}
  BY <1>4, IncrTypes, SMTT(30)
<1>a. n = g.loc[t] + 1
  OBVIOUS
<1> HIDE DEF k, to, n
<1>6. /\ g'.kind = g.kind /\ g'.glob = n /\ g'.sem = g.sem /\ g'.joined = g.joined
      /\ g'.loc = g.loc /\ g'.j = g.j /\ g'.k = k /\ TI!Inner' = TI!Inner
  BY <1>2 DEF TI!Inner
<1>7. g' \in IncrData
  BY <1>2, <1>3, <1>4, IncrTypes DEF IncrData
<1>8. /\ TI!TypeOK' /\ pc'[TI!Main] = pc[TI!Main]
      /\ \A u \in TI!Threads : pc'[u] = IF u = t THEN to ELSE pc[u]
  <2>1. to \in IncrPoints /\ mtx' \in TI!Tids \cup {TI!Free}
    BY <1>1, <1>5, IncrTypes DEF IncrPoints
  <2> QED
    BY <1>1, <1>7, <2>1, IncrTyped
<1>9. TI!LoopsRight'
  BY <1>1, <1>3, <1>5, <1>6, <1>8, IncrTypes, SMTT(30) DEF TI!LoopsRight
<1>10. TI!NoneLost'
  <2>1. CASE g.kind # "none"
    <3>1. \A u \in TI!Threads : (TI!InCS(u)' <=> TI!InCS(u)) /\ (TI!InCS(u) <=> u = t)
      BY <1>1, <1>5, <1>8, <2>1, IncrTypes DEF TI!NoneLost, TI!InCS
    <3>2. g.glob = TI!Sum(g.j) * TI!Inner + g.k[t] /\ g.loc[t] = g.glob
      BY <1>1, <2>1, <3>1, IncrTypes DEF TI!NoneLost
    <3>3. g'.glob = TI!Sum(g'.j) * TI!Inner + g'.k[t]
      <4> DEFINE m == TI!Sum(g.j) * TI!Inner
      <4>1. m \in Nat
        BY IncrTypes, IncrSums, SMTT(30)
      <4> HIDE DEF m
      <4>2. g.glob = m + g.k[t]
        BY <3>2 DEF m
      <4>3. n = m + k[t]
        BY <1>3, <1>a, <3>2, <4>1, <4>2, IncrTypes, SMTT(30)
      <4> QED
        BY <1>6, <4>3 DEF m
    <3>4. \A u \in TI!Threads : pc'[u] # "write"
      BY <1>5, <1>8, <3>1 DEF TI!InCS
    <3> QED
      BY <1>1, <1>6, <2>1, <3>1, <3>3, <3>4, IncrTypes DEF TI!NoneLost
  <2> QED
    BY <1>6, <2>1 DEF TI!NoneLost
<1>11. TI!SomeLost'
  <2>1. CASE g.kind = "none"
    <3> DEFINE W == [u \in TI!Threads |-> TI!Written(u)]
    <3>1. to = "unlock"
      BY <1>4, <1>5, <2>1, IncrTypes, SMTT(30)
    <3>2. \A u \in TI!Threads : TI!Written(u)' = IF u = t THEN TI!Written(u) + 1 ELSE TI!Written(u)
      BY <1>1, <1>6, <1>8, <3>1, IncrTypes, SMTT(30) DEF TI!Written
    <3>3. TI!Written(t) = g.j[t]
      BY <1>1, IncrTypes, SMTT(30) DEF TI!Written
    <3>4. [u \in TI!Threads |-> TI!Written(u)]' = [W EXCEPT ![t] = @ + 1]
      BY <3>2
    <3>5. Sum([W EXCEPT ![t] = @ + 1]) = Sum(W) + 1
      <4>1. W \in [TI!Threads -> Nat]
        BY IncrSums
      <4> HIDE DEF W
      <4> QED
        BY <4>1, IncrThreadsFinite, SumIncrement
    <3>6. TI!AllWritten' = TI!AllWritten + 1
      BY <3>4, <3>5, IncrSummed DEF TI!AllWritten
    <3> HIDE DEF W
    <3>7. g'.glob > 0 /\ g'.glob <= TI!AllWritten' /\ \A u \in TI!Threads : g'.loc[u] <= TI!AllWritten'
      BY <1>6, <1>a, <2>1, <3>6, IncrTypes, IncrSums, SMTT(30) DEF TI!SomeLost
    <3>8. \A u \in TI!Threads : pc'[u] = "write" /\ g'.j[u] > 0 => g'.loc[u] > 0
      BY <1>6, <1>8, <2>1, <3>1, IncrTypes DEF TI!SomeLost
    <3>9. TI!Written(t)' = IncrLoops => g'.glob >= (IF IncrLoops = 1 THEN 1 ELSE 2)
      <4>1. TI!Written(t)' = g.j[t] + 1
        BY <3>2, <3>3
      <4>2. g.j[t] > 0 => g.loc[t] > 0
        BY <1>1, <2>1, IncrTypes DEF TI!SomeLost
      <4>3. g.loc[t] \in Nat /\ g.j[t] \in Nat /\ IncrLoops \in Nat \ {0}
        BY IncrTypes, IncrThreadsFinite
      <4>4. g.j[t] + 1 = IncrLoops => g.loc[t] + 1 >= (IF IncrLoops = 1 THEN 1 ELSE 2)
        BY <4>2, <4>3, SMTT(30)
      <4> QED
        BY <1>6, <1>a, <4>1, <4>4
    <3> QED
      BY <3>7, <3>8, <3>9 DEF TI!SomeLost
  <2> QED
    BY <1>6, <2>1 DEF TI!SomeLost
<1> QED
  BY <1>8, <1>9, <1>10, <1>11 DEF TI!IInv

\* A thread ends a loop, and gives the lock back.
LEMMA IncrLeave ==
    ASSUME TI!IInv, NEW t \in TI!Threads, TI!Leave(t)
    PROVE  TI!IInv'
<1> DEFINE j == [g.j EXCEPT ![t] = @ + 1]
           to == IF g.j[t] + 1 < IncrLoops THEN "loop" ELSE "end"
           s == IF g.kind = "sem" THEN g.sem + 1 ELSE g.sem
<1>1. pc[t] = "unlock" /\ pc' = [pc EXCEPT ![t] = to] /\ mtx' = TI!Free
  BY DEF TI!Leave, TI!Go
<1>2. g' = [kind |-> g.kind, glob |-> g.glob, sem |-> s, joined |-> g.joined,
            loc |-> g.loc, j |-> j, k |-> g.k]
  BY IncrTypes DEF TI!Leave, IncrData
<1>3. g.j[t] \in Nat /\ g.j[t] < IncrLoops /\ g.k[t] = TI!Inner
  BY <1>1, IncrTypes, IncrTurn DEF TI!LoopsRight
<1>4. /\ j \in [TI!Threads -> 0..IncrLoops] /\ j[t] = g.j[t] + 1
      /\ \A u \in TI!Threads : u # t => j[u] = g.j[u]
  <2>1. g.j \in [TI!Threads -> 0..IncrLoops]
    BY IncrTypes DEF IncrData
  <2>2. g.j[t] + 1 \in 0..IncrLoops
    BY <1>3, IncrThreadsFinite, SMTT(30)
  <2> QED
    BY <2>1, <2>2
<1>5. TI!Sum(j) = TI!Sum(g.j) + 1
  <2> DEFINE f == g.j
  <2>1. f \in [TI!Threads -> Nat]
    BY IncrTypes
  <2>2. j = [f EXCEPT ![t] = @ + 1]
    OBVIOUS
  <2> HIDE DEF f, j
  <2>3. Sum([f EXCEPT ![t] = @ + 1]) = Sum(f) + 1
    BY <2>1, IncrThreadsFinite, SumIncrement
  <2> QED
    BY <2>2, <2>3, IncrSummed DEF f
<1>6. to \in {"loop", "end"} /\ (to = "end" <=> j[t] = IncrLoops)
  BY <1>3, <1>4, IncrThreadsFinite, SMTT(30)
<1>7. g.kind = "sem" => g.sem = 0
  BY <1>1, IncrTypes DEF TI!NoneLost, TI!InCS
<1>8. s \in {0, 1}
  BY <1>7, IncrTypes, SMTT(30)
<1> HIDE DEF j, to, s
<1>9. /\ g'.kind = g.kind /\ g'.glob = g.glob /\ g'.sem = s /\ g'.joined = g.joined
      /\ g'.loc = g.loc /\ g'.j = j /\ g'.k = g.k /\ TI!Inner' = TI!Inner
  BY <1>2 DEF TI!Inner
<1>10. g' \in IncrData
  BY <1>2, <1>4, <1>8, IncrTypes DEF IncrData
<1>11. /\ TI!TypeOK' /\ pc'[TI!Main] = pc[TI!Main]
       /\ \A u \in TI!Threads : pc'[u] = IF u = t THEN to ELSE pc[u]
  <2>1. to \in IncrPoints /\ mtx' \in TI!Tids \cup {TI!Free}
    BY <1>1, <1>6 DEF IncrPoints
  <2> QED
    BY <1>1, <1>10, <2>1, IncrTyped
<1>12. TI!LoopsRight'
  <2>1. \A u \in TI!Threads : pc'[u] = "end" <=> g'.j[u] = IncrLoops
    BY <1>4, <1>6, <1>9, <1>11, IncrTypes, SMTT(30) DEF TI!LoopsRight
  <2>2. \A u \in 1..g.joined : pc'[u] = "end"
    BY <1>1, <1>11, IncrTypes DEF TI!LoopsRight
  <2> QED
    BY <1>6, <1>9, <1>11, <2>1, <2>2, IncrTypes, SMTT(30) DEF TI!LoopsRight
<1>13. TI!NoneLost'
  <2>1. CASE g.kind # "none"
    <3>1. \A u \in TI!Threads : ~TI!InCS(u)' /\ pc'[u] # "write"
      BY <1>1, <1>6, <1>11, <2>1, IncrTypes, SMTT(30) DEF TI!NoneLost, TI!InCS
    <3>2. g.glob = TI!Sum(g.j) * TI!Inner + TI!Inner
      BY <1>1, <1>3, <2>1, IncrTypes DEF TI!NoneLost, TI!InCS
    <3>3. \A m, i \in Nat : (m + 1) * i = m * i + i
      BY SMTT(30)
    <3>4. g.glob = TI!Sum(j) * TI!Inner
      BY <1>5, <3>2, <3>3, IncrTypes, IncrSums
    <3> QED
      BY <1>9, <3>1, <3>4 DEF TI!NoneLost
  <2> QED
    BY <1>9, <2>1 DEF TI!NoneLost
<1>14. TI!SomeLost'
  <2>1. \A u \in TI!Threads : TI!Written(u)' = TI!Written(u)
    <3>1. /\ \A u \in TI!Threads : g.j[u] \in Nat /\ (u # t => g'.j[u] = g.j[u])
          /\ g'.j[t] = g.j[t] + 1
      BY <1>4, <1>9, IncrTypes
    <3>2. /\ \A u \in TI!Threads : u # t => pc'[u] = pc[u]
          /\ pc[t] = "unlock" /\ pc'[t] # "unlock"
      BY <1>1, <1>6, <1>11
    <3> QED
      BY <3>1, <3>2, SMTT(30) DEF TI!Written
  <2>2. TI!AllWritten' = TI!AllWritten
    BY <2>1, IncrWrittenKept
  <2>3. \A u \in TI!Threads : pc'[u] = "write" => pc[u] = "write" /\ g'.j[u] = g.j[u]
    BY <1>4, <1>6, <1>9, <1>11
  <2> QED
    BY <1>9, <2>1, <2>2, <2>3, IncrTypes DEF TI!SomeLost
<1> QED
  BY <1>11, <1>12, <1>13, <1>14 DEF TI!IInv

\* main() joins the next thread.
LEMMA IncrJoin ==
    ASSUME TI!IInv, TI!MJoin
    PROVE  TI!IInv'
<1> DEFINE to == IF g.joined + 1 = IncrThreads THEN "exit" ELSE "join"
<1>1. /\ pc[TI!Main] = "join" /\ pc[g.joined + 1] = "end" /\ mtx' = mtx
      /\ pc' = [pc EXCEPT ![TI!Main] = to]
  BY DEF TI!MJoin, TI!Joined, TI!Go
<1>2. g' = [kind |-> g.kind, glob |-> g.glob, sem |-> g.sem, joined |-> g.joined + 1,
            loc |-> g.loc, j |-> g.j, k |-> g.k]
  BY IncrTypes DEF TI!MJoin, IncrData
<1>3. g.joined # IncrThreads /\ g.joined + 1 \in 0..IncrThreads
  BY <1>1, IncrTypes, IncrThreadsFinite, SMTT(30) DEF TI!LoopsRight, IncrData
<1>4. /\ g'.kind = g.kind /\ g'.glob = g.glob /\ g'.sem = g.sem /\ g'.joined = g.joined + 1
      /\ g'.loc = g.loc /\ g'.j = g.j /\ g'.k = g.k /\ TI!Inner' = TI!Inner
  BY <1>2 DEF TI!Inner
<1>5. to \in {"join", "exit"} /\ (to = "exit" <=> g.joined + 1 = IncrThreads)
  OBVIOUS
<1> HIDE DEF to
<1>6. /\ pc' \in [TI!Tids -> IncrPoints \cup {"join", "exit"}] /\ pc'[TI!Main] = to
      /\ \A u \in TI!Threads : pc'[u] = pc[u]
  BY <1>1, <1>5, IncrTypes, IncrThreadsFinite
<1>7. TI!TypeOK'
  <2>1. g' \in IncrData
    BY <1>2, <1>3, IncrTypes DEF IncrData
  <2> QED
    BY <1>1, <1>5, <1>6, <2>1, IncrTypes DEF TI!TypeOK, IncrData, IncrPoints
<1>8. TI!LoopsRight'
  <2>1. \A u \in 1..(g.joined + 1) : u \in 1..g.joined \/ u = g.joined + 1
    BY IncrTypes, SMTT(30)
  <2>3. g.joined + 1 \in TI!Threads
    BY <1>3, IncrTypes, IncrThreadsFinite, SMTT(30)
  <2>2. \A u \in 1..(g.joined + 1) : pc'[u] = "end"
    BY <1>1, <1>6, <2>1, <2>3, IncrTypes DEF TI!LoopsRight
  <2> QED
    BY <1>4, <1>5, <1>6, <2>2, IncrTypes, SMTT(30) DEF TI!LoopsRight
<1>9. TI!NoneLost'
  <2>1. \A u \in TI!Threads : TI!InCS(u)' <=> TI!InCS(u)
    BY <1>6 DEF TI!InCS
  <2> QED
    BY <1>1, <1>4, <1>6, <2>1, IncrTypes, SMTT(30) DEF TI!NoneLost
<1>10. TI!SomeLost'
  <2>1. \A u \in TI!Threads : TI!Written(u)' = TI!Written(u)
    BY <1>4, <1>6 DEF TI!Written
  <2>2. TI!AllWritten' = TI!AllWritten
    BY <2>1, IncrWrittenKept
  <2> QED
    BY <1>4, <1>6, <2>1, <2>2, IncrTypes DEF TI!SomeLost
<1> QED
  BY <1>7, <1>8, <1>9, <1>10 DEF TI!IInv

\* Every step of the threads that increment a counter keeps the invariant.
LEMMA IncrStep ==
    ASSUME TI!IInv, NEW t \in TI!Tids, TI!Thread(t)
    PROVE  TI!IInv'
BY IncrLock, IncrRead, IncrWrite, IncrLeave, IncrJoin DEF TI!Thread, TI!Tids

\* What the run checks of these programs follows.
LEMMA IncrRight ==
    ASSUME TI!IInv
    PROVE  TI!UpdatesLost
<1> SUFFICES ASSUME pc[TI!Main] = "exit"
             PROVE  IF g.kind = "none"
                    THEN /\ (IF IncrLoops = 1 THEN 1 ELSE 2) <= g.glob
                         /\ g.glob <= IncrThreads * IncrLoops
                    ELSE g.glob = IncrThreads * IncrLoops * TI!Inner
  BY DEF TI!UpdatesLost
<1>1. \A t \in TI!Threads : pc[t] = "end" /\ g.j[t] = IncrLoops
  BY IncrTypes, IncrThreadsFinite DEF TI!LoopsRight
<1>2. TI!Sum(g.j) = IncrThreads * IncrLoops
  <2>1. Sum(g.j) = IncrThreads * IncrLoops
    BY <1>1, IncrTypes, IncrThreadsFinite, SumConstant, SMTT(30)
  <2> QED
    BY <2>1, IncrSummed
<1>3. \A t \in TI!Threads : TI!Written(t) = g.j[t] /\ ~TI!InCS(t)
  BY <1>1, IncrTypes, SMTT(30) DEF TI!Written, TI!InCS
<1>4. TI!AllWritten = TI!Sum(g.j)
  <2>1. [t \in TI!Threads |-> TI!Written(t)] = g.j
    BY <1>3, IncrTypes
  <2> QED
    BY <2>1 DEF TI!AllWritten
<1>5. CASE g.kind = "none"
  BY <1>1, <1>2, <1>3, <1>4, <1>5, IncrTypes, IncrThreadsFinite DEF TI!SomeLost
<1>6. CASE g.kind # "none"
  BY <1>2, <1>3, <1>6, IncrTypes DEF TI!NoneLost
<1> QED
  BY <1>5, <1>6

-----------------------------------------------------------------------------
(* pthread_barrier_demo.c                                                  *)

BarrierData == [created : 0..BarrierThreads, joined : 0..BarrierThreads,
                inside : SUBSET BD!Threads, ret : [BD!Threads -> {"none", "SERIAL", "0"}],
                j : [BD!Threads -> 0..NumBarriers], newlines : Nat]

\* The barrier opens for as many threads as there are: for all of them.
LEMMA BarrierFull ==
    ASSUME NEW S \in SUBSET BD!Threads, BD!Cardinality(S) = BD!Count
    PROVE  S = BD!Threads
<1>1. \A X : BD!Cardinality(X) = Cardinality(X)
  BY DEF BD!Cardinality, Cardinality
<1>2. IsFiniteSet(BD!Threads) /\ Cardinality(BD!Threads) = BarrierThreads
  <2>1. BarrierThreads \in Nat /\ BarrierThreads # 0
    BY BarrierAssumption
  <2> QED
    BY <2>1, FS_Interval, SMTT(30) DEF BD!Threads
<1>3. S \subseteq BD!Threads /\ Cardinality(S) = Cardinality(BD!Threads)
  BY <1>1, <1>2 DEF BD!Count
<1> QED
  BY <1>2, <1>3, FS_Subset

\* No thread is created yet.
LEMMA BarrierInit ==
    ASSUME BD!Init
    PROVE  BD!IInv
<1> USE BarrierAssumption DEF BD!Init, BD!Tids, BD!Threads, BD!Main
<1>1. BD!TypeOK
  BY SMTT(30) DEF BD!TypeOK
<1>2. BD!PointsRight /\ BD!Together
  BY SMTT(30) DEF BD!PointsRight, BD!Together, BD!Passed
<1> QED
  BY <1>1, <1>2 DEF BD!IInv

\* A step that lets no thread through and prints nothing.
LEMMA TogetherKept ==
    ASSUME BD!Together, g'.ret = g.ret, g'.newlines = g.newlines, g'.j = g.j,
           \A t \in BD!Threads : pc'[t] = "woken" <=> pc[t] = "woken"
    PROVE  BD!Together'
BY SMTT(30) DEF BD!Together, BD!Passed

\* A step of main().
LEMMA BarrierMain ==
    ASSUME BD!IInv, BD!MCreate \/ BD!MJoin
    PROVE  BD!IInv'
<1> USE BarrierAssumption DEF BD!IInv, BD!TypeOK, BD!Tids, BD!Threads, BD!Main
<1>1. CASE BD!MCreate
  <2>1. g' = [created |-> g.created + 1, joined |-> g.joined, inside |-> g.inside, ret |-> g.ret,
              j |-> g.j, newlines |-> g.newlines]
    BY <1>1 DEF BD!MCreate
  <2>2. pc[BD!Main] = "create" /\ pc[g.created + 1] = "none" /\ g.created + 1 \in BD!Threads
        /\ pc' = [pc EXCEPT ![g.created + 1] = "loop"]
    BY <1>1, SMTT(30) DEF BD!MCreate, BD!Start
  <2>3. BD!TypeOK'
    BY <2>1, <2>2, SMTT(30)
  <2>4. BD!PointsRight'
    BY <2>1, <2>2, SMTT(30) DEF BD!PointsRight
  <2>5. \A u \in BD!Threads : pc'[u] = "woken" <=> pc[u] = "woken"
    BY <2>2
  <2>6. BD!Together'
    BY <2>1, <2>5, TogetherKept
  <2> QED
    BY <2>3, <2>4, <2>6
<1>2. CASE BD!MJoin
  <2>1. g' = [created |-> g.created, joined |-> g.joined + 1, inside |-> g.inside, ret |-> g.ret,
              j |-> g.j, newlines |-> g.newlines]
    BY <1>2 DEF BD!MJoin
  <2>2. pc[BD!Main] = "create" /\ pc[g.joined + 1] = "end" /\ g.joined + 1 \in BD!Threads
        /\ pc' = [pc EXCEPT ![BD!Main] = IF g.joined + 1 = BarrierThreads THEN "exit" ELSE "create"]
    BY <1>2, SMTT(30) DEF BD!MJoin, BD!Joined, BD!Go, BD!PointsRight
  <2>3. BD!TypeOK'
    BY <2>1, <2>2, SMTT(30)
  <2>4. BD!PointsRight'
    BY <2>1, <2>2, SMTT(30) DEF BD!PointsRight
  <2>5. \A u \in BD!Threads : pc'[u] = "woken" <=> pc[u] = "woken"
    BY <2>2
  <2>6. BD!Together'
    BY <2>1, <2>5, TogetherKept
  <2> QED
    BY <2>3, <2>4, <2>6
<1> QED
  BY <1>1, <1>2

\* A thread that is not the last one arrives at the barrier, or returns.
LEMMA BarrierArrive ==
    ASSUME BD!IInv, NEW t \in BD!Threads, BD!Arrive(t) \/ BD!Return(t)
    PROVE  BD!IInv'
<1> USE BarrierAssumption DEF BD!IInv, BD!TypeOK, BD!Tids, BD!Threads, BD!Main
<1>1. CASE BD!Arrive(t)
  <2>1. g' = [created |-> g.created, joined |-> g.joined, inside |-> g.inside \cup {t},
              ret |-> g.ret, j |-> g.j, newlines |-> g.newlines]
    BY <1>1 DEF BD!Arrive
  <2>2. pc[t] = "loop" /\ g.j[t] < NumBarriers /\ pc' = [pc EXCEPT ![t] = "wait"]
    BY <1>1 DEF BD!Arrive, BD!Go, BD!LoopAgain
  <2>3. BD!TypeOK'
    BY <2>1, <2>2
  <2>4. BD!PointsRight'
    <3>1. g.inside \cup {t} = {u \in BD!Threads : pc'[u] = "wait"}
      BY <2>2, SMTT(30) DEF BD!PointsRight
    <3> QED
      BY <2>1, <2>2, <3>1, SMTT(30) DEF BD!PointsRight
  <2>5. \A u \in BD!Threads : pc'[u] = "woken" <=> pc[u] = "woken"
    BY <2>2
  <2>6. BD!Together'
    BY <2>1, <2>5, TogetherKept
  <2> QED
    BY <2>3, <2>4, <2>6
<1>2. CASE BD!Return(t)
  <2>1. pc[t] = "loop" /\ g.j[t] = NumBarriers /\ pc' = [pc EXCEPT ![t] = "end"] /\ g' = g
    BY <1>2, SMTT(30) DEF BD!Return, BD!Go, BD!LoopAgain
  <2>2. BD!TypeOK'
    BY <2>1
  <2>3. BD!PointsRight'
    BY <2>1, SMTT(30) DEF BD!PointsRight
  <2>4. \A u \in BD!Threads : pc'[u] = "woken" <=> pc[u] = "woken"
    BY <2>1
  <2>5. BD!Together'
    BY <2>1, <2>4, TogetherKept
  <2> QED
    BY <2>2, <2>3, <2>5
<1> QED
  BY <1>1, <1>2

\* The types of the program's data, and that main() is none of the threads.
LEMMA BarrierTypes ==
    ASSUME BD!IInv
    PROVE  /\ pc \in [BD!Tids -> {"none", "loop", "wait", "woken", "end", "create", "exit"}]
           /\ g \in BarrierData /\ NumBarriers \in Nat
           /\ g.j \in [BD!Threads -> Nat] /\ g.newlines \in Nat
           /\ \A t \in BD!Threads : g.j[t] <= NumBarriers
           /\ g.ret \in [BD!Threads -> {"none", "SERIAL", "0"}]
           /\ g.joined \in Nat /\ 1..g.joined \subseteq BD!Threads
           /\ BD!Main \notin BD!Threads /\ BD!Threads \subseteq BD!Tids /\ BD!Main \in BD!Tids
           /\ BD!PointsRight /\ BD!Together
<1> USE BarrierAssumption DEF BD!IInv, BD!TypeOK, BD!Tids, BD!Threads, BD!Main
<1>1. g \in BarrierData
  BY DEF BarrierData
<1>2. g.joined \in Nat /\ 1..g.joined \subseteq BD!Threads /\ NumBarriers \in Nat
  BY SMTT(30)
<1>3. g.j \in [BD!Threads -> Nat] /\ \A t \in BD!Threads : g.j[t] <= NumBarriers
  BY SMTT(30)
<1> QED
  BY <1>1, <1>2, <1>3

\* If no thread is about to print the newline, it has been printed.
LEMMA AllPrinted ==
    ASSUME BD!IInv, \A t \in BD!Threads : g.ret[t] # "SERIAL"
    PROVE  \A t \in BD!Threads : g.newlines = BD!Passed(t)
<1>1. \A s \in BD!Threads : ~\A t \in BD!Threads : g.ret[t] = "SERIAL" <=> t = s
  OBVIOUS
<1> QED
  BY <1>1 DEF BD!IInv, BD!Together

\* The last thread arrives: all are let through.
LEMMA BarrierOpens ==
    ASSUME BD!IInv, NEW t \in BD!Threads, BD!ArriveLast(t)
    PROVE  BD!IInv'
<1>1. g.inside \cup {t} = BD!Threads
  <2>1. g.inside \cup {t} \in SUBSET BD!Threads
    BY BarrierTypes DEF BarrierData
  <2> QED
    BY <2>1, BarrierFull DEF BD!ArriveLast
<1>2. pc[t] = "loop" /\ g.j[t] < NumBarriers
  BY DEF BD!ArriveLast, BD!LoopAgain
<1>3. \A u \in BD!Threads : pc[u] \in {"loop", "wait"} /\ g.j[u] < NumBarriers
  BY <1>1, <1>2, BarrierTypes DEF BD!PointsRight
<1>4. pc' = [u \in BD!Tids |-> IF u \in BD!Threads THEN "woken" ELSE pc[u]]
  BY <1>1 DEF BD!ArriveLast
<1>5. PICK s \in g.inside \cup {t} :
        g' = [g EXCEPT !.inside = {},
                       !.ret = [u \in BD!Threads |-> CASE u = s -> "SERIAL"
                                                    [] u \in (g.inside \cup {t}) \ {s} -> "0"
                                                    [] OTHER -> @[u]]]
  BY DEF BD!ArriveLast
<1> DEFINE ret == [u \in BD!Threads |-> CASE u = s -> "SERIAL"
                                       [] u \in (g.inside \cup {t}) \ {s} -> "0"
                                       [] OTHER -> g.ret[u]]
<1>6. g' = [created |-> g.created, joined |-> g.joined, inside |-> {}, ret |-> ret,
            j |-> g.j, newlines |-> g.newlines]
  BY <1>5, BarrierTypes DEF BarrierData
<1>7. ret \in [BD!Threads -> {"none", "SERIAL", "0"}] /\ s \in BD!Threads
      /\ \A u \in BD!Threads : ret[u] = "SERIAL" <=> u = s
  BY <1>1
<1> HIDE DEF ret
<1>8. g'.j = g.j /\ g'.ret = ret /\ g'.newlines = g.newlines /\ g'.inside = {}
      /\ g'.joined = g.joined
  BY <1>6
<1>9. pc'[BD!Main] = pc[BD!Main] /\ \A u \in BD!Threads : pc'[u] = "woken"
  BY <1>4, BarrierTypes
<1>10. BD!TypeOK'
  <2>1. g' \in BarrierData
    BY <1>6, <1>7, BarrierTypes DEF BarrierData
  <2>2. pc' \in [BD!Tids -> {"none", "loop", "wait", "woken", "end", "create", "exit"}]
    BY <1>4, BarrierTypes
  <2>3. pc'[BD!Main] \in {"create", "exit"}
    BY <1>9 DEF BD!IInv, BD!TypeOK
  <2> QED
    BY <1>9, <2>1, <2>2, <2>3 DEF BD!TypeOK, BarrierData
<1>11. BD!PointsRight'
  <2>1. g.joined = 0
    <3>1. g.joined # 0 => 1 \in 1..g.joined
      BY BarrierTypes, SMTT(30)
    <3> QED
      BY <1>3, <3>1, BarrierTypes DEF BD!PointsRight
  <2>2. pc'[BD!Main] = "exit" <=> g'.joined = BarrierThreads
    BY <1>8, <1>9, BarrierTypes DEF BD!PointsRight
  <2> QED
    BY <1>3, <1>7, <1>8, <1>9, <2>1, <2>2, SMTT(30) DEF BD!PointsRight
<1>12. BD!Together'
  <2>1. \A u \in BD!Threads : BD!Passed(u) = g.j[u] /\ g.ret[u] # "SERIAL"
    <3>1. \A u \in BD!Threads : pc[u] # "woken" /\ g.j[u] + 0 = g.j[u]
      BY <1>3, BarrierTypes, SMTT(30)
    <3> QED
      BY <3>1, BarrierTypes DEF BD!Passed, BD!PointsRight
  <2>2. \A u \in BD!Threads : g.newlines = g.j[u]
    BY <2>1, AllPrinted
  <2>3. \A u \in BD!Threads : BD!Passed(u)' = g.newlines + 1
    BY <1>8, <1>9, <2>2 DEF BD!Passed
  <2>4. s \in BD!Threads /\ (\A u \in BD!Threads : g'.ret[u] = "SERIAL" <=> u = s)
        /\ g'.newlines = g.newlines
    BY <1>7, <1>8
  <2> QED
    BY <2>3, <2>4 DEF BD!Together
<1> QED
  BY <1>10, <1>11, <1>12 DEF BD!IInv

\* A thread goes on after the barrier, the serial one with a newline.
LEMMA BarrierPass ==
    ASSUME BD!IInv, NEW t \in BD!Threads, BD!Pass(t)
    PROVE  BD!IInv'
<1> DEFINE ret == [g.ret EXCEPT ![t] = "none"]
           j == [g.j EXCEPT ![t] = @ + 1]
           n == IF g.ret[t] = "SERIAL" THEN g.newlines + 1 ELSE g.newlines
<1>1. pc[t] = "woken" /\ pc' = [pc EXCEPT ![t] = "loop"] /\ g.j[t] < NumBarriers
  BY BarrierTypes DEF BD!Pass, BD!Go, BD!PointsRight
<1>2. g' = [created |-> g.created, joined |-> g.joined, inside |-> g.inside, ret |-> ret,
            j |-> j, newlines |-> n]
  BY BarrierTypes DEF BD!Pass, BarrierData
<1>3. j \in [BD!Threads -> 0..NumBarriers]
      /\ \A u \in BD!Threads : j[u] = IF u = t THEN g.j[t] + 1 ELSE g.j[u]
  BY <1>1, BarrierTypes, SMTT(30)
<1>4. ret \in [BD!Threads -> {"none", "SERIAL", "0"}]
      /\ \A u \in BD!Threads : ret[u] = IF u = t THEN "none" ELSE g.ret[u]
  BY BarrierTypes
<1>5. n \in Nat /\ (g.ret[t] = "SERIAL" => n = g.newlines + 1)
      /\ (g.ret[t] # "SERIAL" => n = g.newlines)
  BY BarrierTypes, SMTT(30)
<1> HIDE DEF ret, j, n
<1>6. g'.ret = ret /\ g'.j = j /\ g'.newlines = n /\ g'.inside = g.inside /\ g'.joined = g.joined
  BY <1>2
<1>7. pc'[BD!Main] = pc[BD!Main]
      /\ \A u \in BD!Threads : pc'[u] = IF u = t THEN "loop" ELSE pc[u]
  BY <1>1, BarrierTypes
<1>8. BD!TypeOK'
  <2>1. g' \in BarrierData
    BY <1>2, <1>3, <1>4, <1>5, BarrierTypes DEF BarrierData
  <2>2. pc' \in [BD!Tids -> {"none", "loop", "wait", "woken", "end", "create", "exit"}]
    BY <1>1, BarrierTypes
  <2> QED
    BY <1>7, <2>1, <2>2 DEF BD!TypeOK, BarrierData, BD!IInv
<1>9. BD!PointsRight'
  <2>1. BD!PointsRight /\ 1..g.joined \subseteq BD!Threads
    BY BarrierTypes
  <2>2. g'.inside = {u \in BD!Threads : pc'[u] = "wait"}
    BY <1>1, <1>6, <1>7, <2>1, SMTT(30) DEF BD!PointsRight
  <2>3. ASSUME NEW u \in BD!Threads
        PROVE  /\ pc'[u] \in {"wait", "woken"} => g'.j[u] < NumBarriers
               /\ pc'[u] = "end" => g'.j[u] = NumBarriers
               /\ g'.ret[u] = "SERIAL" => pc'[u] = "woken"
    <3>1. CASE u = t
      BY <1>4, <1>6, <1>7, <3>1
    <3>2. CASE u # t
      <4>1. pc'[u] = pc[u] /\ g'.j[u] = g.j[u] /\ g'.ret[u] = g.ret[u]
        BY <1>3, <1>4, <1>6, <1>7, <3>2
      <4> QED
        BY <2>1, <4>1 DEF BD!PointsRight
    <3> QED
      BY <3>1, <3>2
  <2>4. \A u \in 1..g'.joined : pc'[u] = "end"
    <3>1. \A u \in 1..g.joined : u \in BD!Threads /\ pc[u] = "end"
      BY <2>1 DEF BD!PointsRight
    <3>2. t \notin 1..g.joined
      BY <1>1, <3>1
    <3> QED
      BY <1>6, <1>7, <3>1, <3>2
  <2>5. pc'[BD!Main] = "exit" <=> g'.joined = BarrierThreads
    BY <1>6, <1>7, <2>1 DEF BD!PointsRight
  <2> QED
    BY <2>2, <2>3, <2>4, <2>5 DEF BD!PointsRight
<1>10. BD!Together'
  <2>1. \A u \in BD!Threads : BD!Passed(u)' = BD!Passed(u)
    <3>1. \A u \in BD!Threads : g.j[u] \in Nat
      BY BarrierTypes
    <3>2. BD!Passed(t)' = BD!Passed(t)
      BY <1>1, <1>3, <1>6, <1>7, <3>1, SMTT(30) DEF BD!Passed
    <3>3. ASSUME NEW u \in BD!Threads, u # t
          PROVE  BD!Passed(u)' = BD!Passed(u)
      BY <1>3, <1>6, <1>7, <3>3 DEF BD!Passed
    <3> QED
      BY <3>2, <3>3
  <2>2. \A u, v \in BD!Threads : BD!Passed(u)' = BD!Passed(v)'
    BY <2>1, BarrierTypes DEF BD!Together
  <2>3. CASE g.ret[t] = "SERIAL"
    <3>1. g.newlines + 1 = BD!Passed(t) /\ \A u \in BD!Threads : g.ret[u] = "SERIAL" <=> u = t
      BY <2>3, BarrierTypes DEF BD!Together
    <3>2. \A u \in BD!Threads : g'.ret[u] # "SERIAL" /\ g'.newlines = BD!Passed(u)'
      BY <1>4, <1>5, <1>6, <2>1, <2>2, <2>3, <3>1
    <3> QED
      BY <2>2, <3>2 DEF BD!Together
  <2>4. CASE g.ret[t] # "SERIAL"
    <3>1. g'.newlines = g.newlines /\ \A u \in BD!Threads : g'.ret[u] = "SERIAL" <=> g.ret[u] = "SERIAL"
      BY <1>4, <1>5, <1>6, <2>4
    <3> QED
      BY <2>1, <2>2, <3>1, BarrierTypes DEF BD!Together
  <2> QED
    BY <2>3, <2>4
<1> QED
  BY <1>8, <1>9, <1>10 DEF BD!IInv

\* Every step of pthread_barrier_demo.c keeps the invariant.
LEMMA BarrierStep ==
    ASSUME BD!IInv, NEW t \in BD!Tids, BD!Thread(t)
    PROVE  BD!IInv'
BY BarrierMain, BarrierArrive, BarrierOpens, BarrierPass DEF BD!Thread, BD!Tids, BD!Main

\* What the run checks of pthread_barrier_demo.c follows.
LEMMA BarrierRight ==
    ASSUME BD!IInv
    PROVE  BD!InStep
<1>1. ASSUME NEW t \in BD!Threads, NEW u \in BD!Threads, pc[t] = "wait"
      PROVE  g.j[u] <= g.j[t]
  <2>1. BD!Passed(t) = g.j[t] /\ g.j[u] <= BD!Passed(u)
    BY <1>1, BarrierTypes, SMTT(30) DEF BD!Passed
  <2> QED
    BY <2>1, BarrierTypes DEF BD!Together
<1>2. ASSUME pc[BD!Main] = "exit"
      PROVE  g.newlines = NumBarriers /\ \A t \in BD!Threads : g.j[t] = NumBarriers
  <2>1. \A t \in BD!Threads : pc[t] = "end" /\ g.j[t] = NumBarriers /\ g.ret[t] # "SERIAL"
    BY <1>2, BarrierTypes DEF BD!PointsRight, BD!Threads
  <2>2. 1 \in BD!Threads
    BY BarrierAssumption, SMTT(30) DEF BD!Threads
  <2>3. BD!Passed(1) = NumBarriers
    BY <2>1, <2>2, BarrierTypes, SMTT(30) DEF BD!Passed
  <2> QED
    BY <2>1, <2>2, <2>3, AllPrinted
<1> QED
  BY <1>1, <1>2 DEF BD!InStep
-----------------------------------------------------------------------------
(* Steps that change nothing, and whose steps these are.                   *)

\* A program whose main() has ended stays as it is.
LEMMA ProducersStutter ==
    ASSUME PC!IInv, pc' = pc, mtx' = mtx, g' = g
    PROVE  PC!IInv'
BY DEF PC!IInv, PC!TypeOK, PC!MutexProtects, PC!Locked, PC!NoLostWakeup, PC!UnitsCounted

\* A program whose main() has ended stays as it is.
LEMMA JoinsStutter ==
    ASSUME MJ!IInv, pc' = pc, mtx' = mtx, g' = g
    PROVE  MJ!IInv'
BY DEF MJ!IInv, MJ!TypeOK, MJ!MutexProtects, MJ!StatesRight, MJ!CountersRight, MJ!NoLostWakeup,
       MJ!InState

\* A program whose main() has ended stays as it is.
LEMMA IncrStutter ==
    ASSUME TI!IInv, pc' = pc, mtx' = mtx, g' = g
    PROVE  TI!IInv'
<1>1. TI!TypeOK' /\ TI!LoopsRight'
  BY DEF TI!IInv, TI!TypeOK, TI!LoopsRight, TI!Inner
<1>2. \A u \in TI!Threads : TI!Written(u)' = TI!Written(u) /\ (TI!InCS(u)' <=> TI!InCS(u))
  BY DEF TI!Written, TI!InCS
<1>3. TI!AllWritten' = TI!AllWritten
  BY <1>2, IncrWrittenKept
<1> QED
  BY <1>1, <1>2, <1>3 DEF TI!IInv, TI!NoneLost, TI!SomeLost, TI!Inner

\* A program whose main() has ended stays as it is.
LEMMA BarrierStutter ==
    ASSUME BD!IInv, pc' = pc, mtx' = mtx, g' = g
    PROVE  BD!IInv'
BY SMTT(30) DEF BD!IInv, BD!TypeOK, BD!PointsRight, BD!Together, BD!Passed

\* The threads are those that have a control point.
LEMMA CountDomain ==
    /\ PC!IInv => DOMAIN pc = PC!Tids
    /\ MJ!IInv => DOMAIN pc = MJ!Tids
    /\ TI!IInv => DOMAIN pc = TI!Tids
    /\ BD!IInv => DOMAIN pc = BD!Tids
BY DEF PC!IInv, PC!TypeOK, MJ!IInv, MJ!TypeOK, TI!IInv, TI!TypeOK, BD!IInv, BD!TypeOK
=============================================================================
