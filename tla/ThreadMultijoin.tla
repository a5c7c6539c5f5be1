-------------------------- MODULE ThreadMultijoin --------------------------
(***************************************************************************)
(* threads/thread_multijoin.c: each thread marks itself terminated and     *)
(* signals a condition variable; the main thread joins whatever threads    *)
(* have terminated until none is left.  Thread t has index t - 1 in the    *)
(* program's array.                                                        *)
(***************************************************************************)
EXTENDS Pthreads

CONSTANT N          \* argc - 1, the number of threads

Threads == 1..N
Tids == Threads \cup {Main}

Init ==
    /\ pc = [t \in Tids |-> IF t = Main THEN "create" ELSE "none"]
    /\ mtx = Free
    /\ g = [state |-> [t \in Threads |-> "none"], idx |-> 1,
            numLive |-> 0, numUnjoined |-> 0]

-----------------------------------------------------------------------------
(* threadFunc()                                                            *)

TLock(t) == Lock(t, "work", "mark") /\ UNCHANGED g

TMark(t) ==
    /\ Go(t, "mark", "unlock")
    /\ g' = [g EXCEPT !.numUnjoined = @ + 1, !.state[t] = "TS_TERMINATED"]
    /\ UNCHANGED mtx

TUnlock(t) == Unlock(t, "unlock", "signal") /\ UNCHANGED g

TSignal(t) == CondSignal(t, "signal", "end", Main) /\ UNCHANGED g

-----------------------------------------------------------------------------
(* main()                                                                  *)

MCreate ==
    /\ pc[Main] = "create" /\ g.idx <= N
    /\ Start(g.idx, "work")
    /\ g' = [g EXCEPT !.state[g.idx] = "TS_ALIVE", !.idx = @ + 1]

MCreated ==
    /\ g.idx > N /\ Go(Main, "create", "lock")
    /\ g' = [g EXCEPT !.numLive = N]
    /\ UNCHANGED mtx

MLock_M ==
    /\ Go(Main, "lock", "test") \/ Go(Main, "relock", "test")
    /\ UNCHANGED <<mtx, g>>
MLock ==
    (Lock(Main, "lock", "test") \/ Lock(Main, "relock", "test")) /\ UNCHANGED g

MWait == g.numUnjoined = 0 /\ CondWait(Main, "test") /\ UNCHANGED g

MScan ==
    /\ g.numUnjoined # 0 /\ Go(Main, "test", "scan")
    /\ g' = [g EXCEPT !.idx = 1]
    /\ UNCHANGED mtx

MSkip ==
    /\ g.idx <= N /\ g.state[g.idx] # "TS_TERMINATED"
    /\ Go(Main, "scan", "scan")
    /\ g' = [g EXCEPT !.idx = @ + 1]
    /\ UNCHANGED mtx

\* pthread_join() waits, with the mutex locked, until the thread has returned.
MJoin ==
    /\ g.idx <= N /\ g.state[g.idx] = "TS_TERMINATED"
    /\ Joined(g.idx, "scan", "scan")
    /\ g' = [g EXCEPT !.state[g.idx] = "TS_JOINED", !.numLive = @ - 1,
                      !.numUnjoined = @ - 1, !.idx = @ + 1]

MUnlock ==
    /\ g.idx > N /\ Unlock(Main, "scan", IF g.numLive > 0 THEN "lock" ELSE "exit")
    /\ UNCHANGED g

Thread(t) ==
    IF t = Main
    THEN \/ MCreate \/ MCreated \/ MLock \/ MWait \/ MScan \/ MSkip \/ MJoin
         \/ MUnlock
    ELSE TLock(t) \/ TMark(t) \/ TUnlock(t) \/ TSignal(t)

-----------------------------------------------------------------------------
(* Properties.                                                             *)

InState(s) == {t \in Threads : g.state[t] = s}

\* The comments on the two counters: numUnjoined is the "Number of terminated
\* threads that have not yet been joined", and numLive, once the threads are
\* created, the number "still alive or terminated but not yet joined".  When
\* main() ends, all threads have been joined.
CountersRight ==
    /\ g.numUnjoined = Cardinality(InState("TS_TERMINATED"))
    /\ pc[Main] # "create" =>
           g.numLive = Cardinality(InState("TS_ALIVE") \cup InState("TS_TERMINATED"))
    /\ pc[Main] = "exit" => InState("TS_JOINED") = Threads

\* The main thread never waits for a thread to die when one is dead already
\* and has signalled.
NoLostWakeup ==
    pc[Main] = "wait" /\ g.numUnjoined > 0 =>
        \E t \in Threads : pc[t] \in {"unlock", "signal"}

\* A thread that main joins while it holds the mutex never needs the mutex
\* again: the join cannot deadlock.
JoinIsSafe ==
    \A t \in Threads :
        pc[Main] = "scan" /\ g.state[t] = "TS_TERMINATED" => pc[t] \in {"signal", "end"}

-----------------------------------------------------------------------------
(* The inductive invariant.                                                *)

TPoints == {"none", "work", "mark", "unlock", "signal", "end"}
MPoints == {"create", "lock", "test", "wait", "relock", "scan", "exit"}

TypeOK ==
    /\ pc \in [Tids -> TPoints \cup MPoints]
    /\ \A t \in Threads : pc[t] \in TPoints
    /\ pc[Main] \in MPoints
    /\ mtx \in Tids \cup {Free}
    /\ g \in [state : [Threads -> {"none", "TS_ALIVE", "TS_TERMINATED", "TS_JOINED"}],
              idx : Nat \ {0}, numLive : Int, numUnjoined : Int]

\* Only the holder of the mutex is at a statement that touches the array and the counters.
MutexProtects == \A t \in Tids : pc[t] \in {"mark", "unlock", "test", "scan"} => mtx = t

\* What the array says of a thread is where it is; a thread that is marked terminated never
\* asks for the mutex again.
StatesRight ==
    /\ \A t \in Threads :
           /\ pc[t] = "none" => g.state[t] = "none"
           /\ pc[t] \in {"work", "mark"} => g.state[t] = "TS_ALIVE"
           /\ pc[t] \in {"unlock", "signal", "end"} => g.state[t] \in {"TS_TERMINATED", "TS_JOINED"}
    /\ pc[Main] = "create" =>
           \A t \in Threads : g.state[t] # "TS_JOINED" /\ (t >= g.idx <=> pc[t] = "none")
    /\ pc[Main] # "create" => \A t \in Threads : pc[t] # "none"

IInv == TypeOK /\ MutexProtects /\ StatesRight /\ CountersRight /\ NoLostWakeup
=============================================================================
