--------------------------- MODULE ThreadCleanup ---------------------------
(***************************************************************************)
(* threads/thread_cleanup.c: a thread allocates a buffer, locks a mutex    *)
(* and waits on a condition variable; main() either cancels it (no         *)
(* argument) or sets 'glob' and signals it.  A cleanup handler frees the   *)
(* buffer and unlocks the mutex.  pthread_cond_wait() is a cancellation    *)
(* point, and so may printf() be (thread_cancel.c says so).                *)
(*                                                                         *)
(* threads/thread_cancel.c is the third mode: a thread that prints and     *)
(* sleeps for ever, and is cancelled.                                      *)
(***************************************************************************)
EXTENDS Pthreads

CONSTANT MaxLoop        \* bound on the turns of the loop of thread_cancel.c

T == 1                  \* the thread that main() creates
Tids == {Main, T}

Init ==
    /\ pc = [t \in Tids |-> IF t = Main THEN "create" ELSE "none"]
    /\ mtx = Free
    /\ \E mode \in {"cancel", "signal", "loop"} :
          g = [mode |-> mode, glob |-> 0, buf |-> "none", pending |-> FALSE,
               pushed |-> FALSE,        \* cleanupHandler() has been pushed
               handlers |-> 0,          \* how often it has run
               res |-> "none", j |-> 0]

Canceled(from) ==
    /\ g.pending /\ Go(T, from, "end")
    /\ g' = [g EXCEPT !.res = "PTHREAD_CANCELED"]
    /\ UNCHANGED mtx

-----------------------------------------------------------------------------
(* The thread.                                                             *)

Malloc ==
    Go(T, "malloc", "printf") /\ g' = [g EXCEPT !.buf = "allocated"] /\ UNCHANGED mtx

\* The printf() before the handler is pushed.
Printf == (Go(T, "printf", "lock") /\ UNCHANGED <<mtx, g>>) \/ Canceled("printf")

\* pthread_mutex_lock() and pthread_cleanup_push().
TLock == Lock(T, "lock", "test") /\ g' = [g EXCEPT !.pushed = TRUE]

\* while (glob == 0) pthread_cond_wait(): a cancellation that is already pending
\* is acted on at once; a thread that is cancelled while it waits takes the mutex
\* again before the handler runs.
Wait ==
    /\ g.glob = 0 /\ UNCHANGED g
    /\ \/ ~g.pending /\ CondWait(T, "test")
       \/ g.pending /\ Go(T, "test", "cancelled") /\ UNCHANGED mtx

Relock ==
    (Lock(T, "relock", "test") \/ Lock(T, "cancelRelock", "cancelled")) /\ UNCHANGED g

WaitCanceled == g.pending /\ Go(T, "wait", "cancelRelock") /\ UNCHANGED <<mtx, g>>

LoopDone == g.glob # 0 /\ Go(T, "test", "pop") /\ UNCHANGED <<mtx, g>>

\* pthread_cleanup_pop(1), or the cancellation, runs cleanupHandler(): it frees
\* the buffer and unlocks the mutex.
HandlerFree ==
    /\ Go(T, "cancelled", "unlock") \/ Go(T, "pop", "unlock")
    /\ g' = [g EXCEPT !.buf = "freed", !.handlers = @ + 1,
                      !.res = IF pc[T] = "pop" THEN "NULL" ELSE "PTHREAD_CANCELED"]
    /\ UNCHANGED mtx

HandlerUnlock == Unlock(T, "unlock", "end") /\ UNCHANGED g

\* thread_cancel.c: printf("Loop %d\n", j) may be a cancellation point, sleep()
\* is one.
LoopPrintf ==
    \/ /\ g.j < MaxLoop /\ Go(T, "loop", "sleep")
       /\ g' = [g EXCEPT !.j = @ + 1]
       /\ UNCHANGED mtx
    \/ Canceled("loop")

LoopSleep ==
    (~g.pending /\ Go(T, "sleep", "loop") /\ UNCHANGED <<mtx, g>>) \/ Canceled("sleep")

-----------------------------------------------------------------------------
(* main().  The sleep(2) before it acts guarantees nothing.                *)

MCreate ==
    /\ pc[Main] = "create"
    /\ pc' = [pc EXCEPT ![Main] = "act", ![T] = IF g.mode = "loop" THEN "loop" ELSE "malloc"]
    /\ UNCHANGED <<mtx, g>>

MCancel ==
    /\ g.mode # "signal" /\ Go(Main, "act", "join")
    /\ g' = [g EXCEPT !.pending = TRUE]
    /\ UNCHANGED mtx

MLock == g.mode = "signal" /\ Lock(Main, "act", "set") /\ UNCHANGED g

MSet == Go(Main, "set", "unlock") /\ g' = [g EXCEPT !.glob = 1] /\ UNCHANGED mtx

MUnlock == Unlock(Main, "unlock", "signal") /\ UNCHANGED g

MSignal_M == Go(Main, "signal", "join") /\ UNCHANGED <<mtx, g>>
MSignal == CondSignal(Main, "signal", "join", T) /\ UNCHANGED g

MJoin == Joined(T, "join", "exit") /\ UNCHANGED g

Thread(t) ==
    IF t = Main
    THEN MCreate \/ MCancel \/ MLock \/ MSet \/ MUnlock \/ MSignal \/ MJoin
    ELSE \/ Malloc \/ Printf \/ TLock \/ Wait \/ Relock \/ WaitCanceled \/ LoopDone
         \/ HandlerFree \/ HandlerUnlock \/ LoopPrintf \/ LoopSleep

-----------------------------------------------------------------------------
(* Properties.                                                             *)

\* The handler runs with the mutex held, so that its unlock is legal, and
\* however the thread ends, it does not take the mutex with it.
MutexGivenBack ==
    /\ pc[T] \in {"cancelled", "pop", "unlock"} => mtx = T
    /\ pc[T] = "end" => mtx # T

\* Once the handler is pushed the buffer is freed exactly once, whether the
\* thread is cancelled or ends by itself; only a thread that is cancelled in
\* the printf() before that leaves it allocated.  main() learns how it ended.
CleanedUpOnce ==
    pc[T] = "end" =>
        /\ g.mode # "loop" =>
              IF g.pushed THEN g.handlers = 1 /\ g.buf = "freed"
              ELSE g.handlers = 0 /\ g.buf = "allocated" /\ g.mode = "cancel"
        /\ g.res = IF g.mode = "signal" THEN "NULL" ELSE "PTHREAD_CANCELED"

-----------------------------------------------------------------------------
(* The inductive invariant.                                                *)

TPoints == {"none", "malloc", "printf", "lock", "test", "wait", "relock", "cancelRelock",
            "cancelled", "pop", "unlock", "loop", "sleep", "end"}
MPoints == {"create", "act", "set", "unlock", "signal", "join", "exit"}

TypeOK ==
    /\ pc \in [Tids -> TPoints \cup MPoints]
    /\ pc[T] \in TPoints /\ pc[Main] \in MPoints
    /\ pc[T] = "none" <=> pc[Main] = "create"
    /\ mtx \in Tids \cup {Free}
    /\ g \in [mode : {"cancel", "signal", "loop"}, glob : {0, 1},
              buf : {"none", "allocated", "freed"}, pending : BOOLEAN, pushed : BOOLEAN,
              handlers : {0, 1}, res : {"none", "NULL", "PTHREAD_CANCELED"}, j : Nat]

\* Who holds the mutex.
MutexHeld ==
    /\ mtx = T <=> pc[T] \in {"test", "cancelled", "pop", "unlock"}
    /\ mtx = Main <=> pc[Main] \in {"set", "unlock"}

\* How far the thread is tells what there is to clean up, and by what it will end.
CleanupDue ==
    /\ g.pending => g.mode # "signal"
    /\ g.glob # 0 \/ pc[Main] \in {"set", "unlock", "signal"} => g.mode = "signal"
    /\ pc[T] \notin {"none", "end"} => (g.mode = "loop" <=> pc[T] \in {"loop", "sleep"})
    /\ pc[T] \in {"none", "malloc", "printf", "lock"} => ~g.pushed /\ g.handlers = 0
    /\ pc[T] \in {"printf", "lock"} => g.buf = "allocated"
    /\ pc[T] \in {"test", "wait", "relock", "cancelRelock", "cancelled", "pop"} =>
           g.pushed /\ g.handlers = 0
    /\ pc[T] \in {"cancelRelock", "cancelled"} => g.pending
    /\ pc[T] = "pop" => g.mode = "signal"
    /\ pc[T] = "unlock" =>
           /\ g.pushed /\ g.handlers = 1 /\ g.buf = "freed"
           /\ g.res = IF g.mode = "signal" THEN "NULL" ELSE "PTHREAD_CANCELED"

IInv == TypeOK /\ MutexHeld /\ CleanupDue /\ CleanedUpOnce
=============================================================================
