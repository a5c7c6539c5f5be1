------------------------------ MODULE Pthreads ------------------------------
(***************************************************************************)
(* What the programs of threads/ use of the POSIX threads API (external).  *)
(* A program has a control point per thread, one lock and its own data;    *)
(* the thread that runs main() is thread 0 and ends the program by         *)
(* reaching "exit".                                                        *)
(***************************************************************************)
EXTENDS Integers, FiniteSets

VARIABLES pc,       \* pc[t]: where thread t is
          mtx,      \* the thread that holds the lock, or Free
          g         \* the program's data, a record

vars == <<pc, mtx, g>>

Main == 0
Free == -1

Go(t, from, to) ==
    /\ pc[t] = from /\ pc[Main] # "exit"
    /\ pc' = [pc EXCEPT ![t] = to]

Lock(t, from, to) == Go(t, from, to) /\ mtx = Free /\ mtx' = t

Unlock(t, from, to) == Go(t, from, to) /\ mtx' = Free

\* pthread_cond_wait() unlocks and goes to sleep in one step; the thread wakes
\* up with a signal, or without one, and then locks again.
CondWait(t, from) == Unlock(t, from, "wait")

SpuriousWakeup(t) == Go(t, "wait", "relock") /\ UNCHANGED <<mtx, g>>

\* pthread_cond_signal(): lost if thread w does not wait.
CondSignal(t, from, to, w) ==
    /\ pc[t] = from /\ pc[Main] # "exit"
    /\ pc' = [pc EXCEPT ![t] = to, ![w] = IF @ = "wait" THEN "relock" ELSE @]
    /\ UNCHANGED mtx

\* main() starts thread t at its first step.
Start(t, first) == pc[t] = "none" /\ pc' = [pc EXCEPT ![t] = first] /\ UNCHANGED mtx

\* pthread_join() by main(), which blocks until thread t has ended.
Joined(t, from, to) == Go(Main, from, to) /\ pc[t] = "end" /\ UNCHANGED mtx

\* The sum of a function of threads: the number of pairs of a thread and one of
\* the units it counts.
Pairs(f) == UNION {{t} \X (1..f[t]) : t \in DOMAIN f}
Sum(f) == Cardinality(Pairs(f))
=============================================================================
