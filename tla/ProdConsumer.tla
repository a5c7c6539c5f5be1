---------------------------- MODULE ProdConsumer ----------------------------
(***************************************************************************)
(* threads/prod_condvar.c: producer threads make units, the main thread    *)
(* consumes them; a mutex protects 'avail', a condition variable tells     *)
(* the consumer of new units.  threads/prod_no_condvar.c: the same with a  *)
(* consumer that polls 'avail'.                                            *)
(***************************************************************************)
EXTENDS Pthreads

CONSTANTS N,        \* number of producers (argc - 1)
          Cnt       \* Cnt[p]: units producer p makes (argv[p])

Producers == 1..N
Tids == Producers \cup {Main}

Init ==
    /\ pc = [t \in Tids |-> IF t = Main THEN "create" ELSE "none"]
    /\ mtx = Free
    /\ g = [avail |-> 0, made |-> [p \in Producers |-> 0], created |-> 0,
            totRequired |-> 0, numConsumed |-> 0, done |-> FALSE]

-----------------------------------------------------------------------------
(* producer()                                                              *)

PLock(p) == g.made[p] < Cnt[p] /\ Lock(p, "loop", "inc") /\ UNCHANGED g

PInc(p) ==
    /\ Go(p, "inc", "unlock")
    /\ g' = [g EXCEPT !.avail = @ + 1, !.made[p] = @ + 1]
    /\ UNCHANGED mtx

PUnlock_M(p) == Unlock(p, "unlock", "loop") /\ UNCHANGED g
PUnlock(p) == Unlock(p, "unlock", "signal") /\ UNCHANGED g

PSignal(p) == CondSignal(p, "signal", "loop", Main) /\ UNCHANGED g

PReturn(p) == g.made[p] >= Cnt[p] /\ Go(p, "loop", "end") /\ UNCHANGED <<mtx, g>>

\* The producer of prod_no_condvar.c, which signals nobody.
PollUnlock(p) == Unlock(p, "unlock", "loop") /\ UNCHANGED g

-----------------------------------------------------------------------------
(* main().  A producer may run as soon as it is created.                   *)

MCreate ==
    /\ pc[Main] = "create" /\ g.created < N
    /\ Start(g.created + 1, "loop")
    /\ g' = [g EXCEPT !.created = @ + 1, !.totRequired = @ + Cnt[g.created + 1]]

MCreated ==
    g.created = N /\ Go(Main, "create", "lock") /\ UNCHANGED <<mtx, g>>

\* The lock at the top of the loop, and the one inside pthread_cond_wait().
MLock ==
    (Lock(Main, "lock", "test") \/ Lock(Main, "relock", "test")) /\ UNCHANGED g

MWait == g.avail = 0 /\ CondWait(Main, "test") /\ UNCHANGED g

MTestOk == g.avail # 0 /\ Go(Main, "test", "consume") /\ UNCHANGED <<mtx, g>>

MConsume ==
    /\ g.avail > 0 /\ Go(Main, "consume", "consume")
    /\ g' = [g EXCEPT !.avail = @ - 1, !.numConsumed = @ + 1,
                      !.done = g.numConsumed + 1 >= g.totRequired]
    /\ UNCHANGED mtx

MUnlock_M ==
    /\ g.avail = 0
    /\ Unlock(Main, "consume",
              IF g.numConsumed + 1 >= g.totRequired THEN "exit" ELSE "lock")
    /\ UNCHANGED g
MUnlock ==
    /\ g.avail = 0 /\ Unlock(Main, "consume", IF g.done THEN "exit" ELSE "lock")
    /\ UNCHANGED g

\* The consumer of prod_no_condvar.c looks at 'avail' at once.
PollLock == Lock(Main, "lock", "consume") /\ UNCHANGED g

Thread(t) ==
    IF t = Main
    THEN MCreate \/ MCreated \/ MLock \/ MWait \/ MTestOk \/ MConsume \/ MUnlock
    ELSE PLock(t) \/ PInc(t) \/ PUnlock(t) \/ PSignal(t) \/ PReturn(t)

PollThread(t) ==
    IF t = Main THEN MCreate \/ MCreated \/ PollLock \/ MConsume \/ MUnlock
    ELSE PLock(t) \/ PInc(t) \/ PollUnlock(t) \/ PReturn(t)

-----------------------------------------------------------------------------
(* Properties.                                                             *)

Locked(t) == pc[t] \in {"inc", "unlock", "test", "consume"}

\* Only the holder of the mutex is at a statement that touches 'avail'.
MutexProtects == \A t \in Tids : Locked(t) => mtx = t

\* The consumer never waits for a signal that nobody is going to send while
\* units are available: "Wake sleeping consumer" is never lost.
NoLostWakeup ==
    pc[Main] = "wait" /\ g.avail > 0 =>
        \E p \in Producers : pc[p] \in {"unlock", "signal"}

\* Every unit is consumed exactly once, and the program ends when all the units
\* of all producers, and not only of those created first, are consumed.
Abstract == INSTANCE Units WITH Total <- Sum(Cnt), made <- Sum(g.made),
                used <- g.numConsumed, ended <- pc[Main] = "exit"

-----------------------------------------------------------------------------
(* The inductive invariant.                                                *)

PPoints == {"none", "loop", "inc", "unlock", "signal", "end"}
MPoints == {"create", "lock", "test", "wait", "relock", "consume", "exit"}

TypeOK ==
    /\ pc \in [Tids -> PPoints \cup MPoints]
    /\ \A p \in Producers : pc[p] \in PPoints
    /\ pc[Main] \in MPoints
    /\ mtx \in Tids \cup {Free}
    /\ g \in [avail : Nat, made : [Producers -> Nat], created : 0..N,
              totRequired : Nat, numConsumed : Nat, done : BOOLEAN]

\* No unit is lost or made up, no producer makes more than it was asked for, and the
\* consumer knows what is required once all producers are created.
UnitsCounted ==
    /\ g.avail + g.numConsumed = Sum(g.made)
    /\ \A p \in Producers : g.made[p] <= Cnt[p] /\ (pc[p] = "inc" => g.made[p] < Cnt[p])
    /\ g.totRequired = Sum([p \in 1..g.created |-> Cnt[p]])
    /\ pc[Main] # "create" => g.created = N
    /\ g.done => g.numConsumed >= g.totRequired /\ pc[Main] # "create"

IInv == TypeOK /\ MutexProtects /\ NoLostWakeup /\ UnitsCounted
=============================================================================
