------------------------------ MODULE Threads ------------------------------
(***************************************************************************)
(* The programs of threads/, one of which runs: the initial state chooses  *)
(* the program.  They share the state of Pthreads (where each thread is,   *)
(* who holds the lock, the program's data), and the way it is scheduled.   *)
(***************************************************************************)
EXTENDS CountPrograms

CONSTANTS MaxLoop,                      \* thread_cancel.c: loops until the thread is cancelled
          OnceThreads, OnceCalls,       \* one_time_init.c
          StrThreads, StrCalls, StrErrs, sys_nerr, NullErrs         \* strerror*.c

ASSUME CleanupAssumption == MaxLoop \in Nat

ASSUME OnceAssumption == OnceThreads \in Nat

\* strerror() is called.
ASSUME StrerrorAssumption ==
    /\ StrThreads \in Nat /\ StrCalls \in Nat \ {0}
    /\ StrErrs \subseteq Int /\ sys_nerr \in Int

TC == INSTANCE ThreadCleanup
OT == INSTANCE OneTimeInit WITH NumThreads <- OnceThreads, Calls <- OnceCalls
SE == INSTANCE Strerror WITH NumThreads <- StrThreads, NumCalls <- StrCalls,
                             Errs <- StrErrs

-----------------------------------------------------------------------------
(* One of them runs.                                                       *)

VARIABLE prog

allVars == <<prog, vars>>

Init ==
    \/ prog = "prod_condvar" /\ PC!Init
    \/ prog = "prod_no_condvar" /\ PC!Init
    \/ prog = "thread_multijoin" /\ MJ!Init
    \/ prog = "thread_incr" /\ TI!Init
    \/ prog = "one_time_init" /\ OT!Init
    \/ prog = "strerror_test" /\ SE!Init
    \/ prog = "thread_cleanup" /\ TC!Init
    \/ prog = "pthread_barrier_demo" /\ BD!Init

Tids == UNION {PC!Tids, MJ!Tids, TI!Tids, OT!Tids, SE!Tids, TC!Tids, BD!Tids}

Thread(t) ==
    /\ t \in DOMAIN pc
    /\ \/ prog = "prod_condvar" /\ PC!Thread(t)
       \/ prog = "prod_no_condvar" /\ PC!PollThread(t)
       \/ prog = "thread_multijoin" /\ MJ!Thread(t)
       \/ prog = "thread_incr" /\ TI!Thread(t)
       \/ prog = "one_time_init" /\ OT!Thread(t)
       \/ prog = "strerror_test" /\ SE!Thread(t)
       \/ prog = "thread_cleanup" /\ TC!Thread(t)
       \/ prog = "pthread_barrier_demo" /\ BD!Thread(t)
    /\ UNCHANGED prog

Wakeup ==
    /\ \/ prog \in {"prod_condvar", "thread_multijoin"} /\ SpuriousWakeup(Main)
       \/ prog = "thread_cleanup" /\ SpuriousWakeup(TC!T)
    /\ UNCHANGED prog

Exited == pc[Main] = "exit" /\ UNCHANGED allVars

Next == (\E t \in Tids : Thread(t)) \/ Wakeup \/ Exited

Spec == Init /\ [][Next]_allVars

\* Every thread is scheduled; a thread that finds the lock free again and again
\* gets it in the end.  Spurious wakeups may never come.
FairSpec ==
    /\ Spec
    /\ \A t \in Tids : WF_allVars(Thread(t)) /\ SF_allVars(Thread(t) /\ mtx' = t)

\* Units to produce, for the model checker.
ThreeProducers == <<2, 1, 1>>

-----------------------------------------------------------------------------
(* Properties.                                                             *)

\* Nobody sleeps on a condition variable through the signal meant for it (prod_condvar.c,
\* thread_multijoin.c), because only the holder of the mutex touches what the signal is
\* about; thread_cleanup.c gives the mutex back also when it is cancelled while it waits.
NoLostWakeup ==
    /\ prog = "prod_condvar" => PC!NoLostWakeup /\ PC!MutexProtects
    /\ prog = "thread_multijoin" => MJ!NoLostWakeup
    /\ prog = "thread_cleanup" => TC!MutexGivenBack

Produces == prog \in {"prod_condvar", "prod_no_condvar"}

\* prod_condvar.c and prod_no_condvar.c implement Units: every unit is consumed
\* once, after it was produced, and the program ends when all are consumed.
UnitsSpec ==
    /\ Produces => PC!Abstract!Init
    /\ [][Produces => [PC!Abstract!Next]_(PC!Abstract!uvars)]_allVars

\* thread_multijoin.c: joining with the mutex held cannot deadlock, and its counters are
\* what their comments say.  thread_cleanup.c, thread_cancel.c: cleaned up once, and joined
\* with the status that tells how the thread ended.
JoinedOnce ==
    /\ prog = "thread_multijoin" => MJ!JoinIsSafe /\ MJ!CountersRight
    /\ prog = "thread_cleanup" => TC!CleanedUpOnce

\* What threads share stays whole: thread_incr*.c loses updates without a lock only, init()
\* of one_time_init.c runs once and before any call returns, a string that strerror*.c
\* returns stays the caller's own until its thread ends, and the threads of
\* pthread_barrier_demo.c pass the barriers in step.
SharedDataKept ==
    /\ prog = "thread_incr" => TI!UpdatesLost
    /\ prog = "one_time_init" => OT!InitOnce
    /\ prog = "strerror_test" => SE!ThreadSafe /\ SE!FreedAtExit
    /\ prog = "pthread_barrier_demo" => BD!InStep

\* Every program ends: no thread waits for ever for a lock, a signal, a barrier
\* or a thread that does not end.
Ends == <>(pc[Main] = "exit")
=============================================================================
