---------------------------- MODULE BarrierDemo ----------------------------
(***************************************************************************)
(* threads/pthread_barrier_demo.c: threads that wait numBarriers times on  *)
(* one barrier for all of them, and a main thread that joins them.         *)
(***************************************************************************)
EXTENDS Pthreads

CONSTANTS NumBarriers, NumThreads   \* argv[1], argv[2]

Threads == 1..NumThreads
Tids == Threads \cup {Main}

\* The count given to pthread_barrier_init().
Count == NumThreads

Init ==
    /\ pc = [t \in Tids |-> IF t = Main THEN "create" ELSE "none"]
    /\ mtx = Free
    /\ g = [created |-> 0, joined |-> 0,
            inside |-> {},      \* the threads blocked in pthread_barrier_wait()
            ret |-> [t \in Threads |-> "none"],     \* what it has returned
            j |-> [t \in Threads |-> 0],
            newlines |-> 0]     \* newlines printed by "serial" threads

MCreate ==
    /\ pc[Main] = "create" /\ g.created < NumThreads
    /\ Start(g.created + 1, "loop")
    /\ g' = [g EXCEPT !.created = @ + 1]

-----------------------------------------------------------------------------
(* threadFunc()                                                            *)

LoopAgain(t) == g.j[t] < NumBarriers

\* sleep(nsecs) has ended: the call of pthread_barrier_wait() by a thread that
\* is not the last one blocks.
Arrive(t) ==
    /\ LoopAgain(t) /\ Cardinality(g.inside) + 1 < Count
    /\ Go(t, "loop", "wait")
    /\ g' = [g EXCEPT !.inside = @ \cup {t}]
    /\ UNCHANGED mtx

\* The last call releases all, one of them with SERIAL, and resets the barrier.
ArriveLast(t) ==
    LET all == g.inside \cup {t}
    IN  /\ pc[t] = "loop" /\ LoopAgain(t) /\ Cardinality(all) = Count
        /\ pc' = [u \in Tids |-> IF u \in all THEN "woken" ELSE pc[u]]
        /\ \E s \in all :
              g' = [g EXCEPT !.inside = {},
                     !.ret = [u \in Threads |-> CASE u = s -> "SERIAL"
                                                 [] u \in all \ {s} -> "0"
                                                 [] OTHER -> @[u]]]
        /\ UNCHANGED mtx

\* The thread looks at the return value; the serial thread prints a newline.
Pass(t) ==
    /\ Go(t, "woken", "loop")
    /\ g' = [g EXCEPT !.newlines = IF g.ret[t] = "SERIAL" THEN @ + 1 ELSE @,
                      !.j[t] = @ + 1, !.ret[t] = "none"]
    /\ UNCHANGED mtx

Return(t) == ~LoopAgain(t) /\ Go(t, "loop", "end") /\ UNCHANGED <<mtx, g>>

MJoin ==
    /\ g.created = NumThreads
    /\ Joined(g.joined + 1, "create",
              IF g.joined + 1 = NumThreads THEN "exit" ELSE "create")
    /\ g' = [g EXCEPT !.joined = @ + 1]

Thread(t) ==
    IF t = Main THEN MCreate \/ MJoin
    ELSE Arrive(t) \/ ArriveLast(t) \/ Pass(t) \/ Return(t)

-----------------------------------------------------------------------------
\* The threads stay in step though the same barrier is used again at once: a
\* thread waits for a barrier only while all others are at the same one.  "some
\* action is performed exactly once each time a barrier is passed": at the end
\* one newline per barrier has been printed.  The header comment says that the
\* threads "loop 'num-threads' times"; it is 'num-barriers' times.
InStep ==
    /\ \A t, u \in Threads : pc[t] = "wait" => g.j[u] <= g.j[t]
    /\ pc[Main] = "exit" =>
          g.newlines = NumBarriers /\ \A t \in Threads : g.j[t] = NumBarriers

-----------------------------------------------------------------------------
(* The inductive invariant.                                                *)

TypeOK ==
    /\ pc \in [Tids -> {"none", "loop", "wait", "woken", "end", "create", "exit"}]
    /\ \A t \in Threads : pc[t] \in {"none", "loop", "wait", "woken", "end"}
    /\ pc[Main] \in {"create", "exit"}
    /\ g \in [created : 0..NumThreads, joined : 0..NumThreads, inside : SUBSET Threads,
              ret : [Threads -> {"none", "SERIAL", "0"}], j : [Threads -> 0..NumBarriers],
              newlines : Nat]

\* The barriers that thread t has been let through.
Passed(t) == g.j[t] + (IF pc[t] = "woken" THEN 1 ELSE 0)

\* Where a thread is, at the barrier or joined, is what the program's data say.
PointsRight ==
    /\ g.inside = {t \in Threads : pc[t] = "wait"}
    /\ \A t \in Threads : /\ pc[t] \in {"wait", "woken"} => g.j[t] < NumBarriers
                          /\ pc[t] = "end" => g.j[t] = NumBarriers
                          /\ g.ret[t] = "SERIAL" => pc[t] = "woken"
    /\ \A t \in 1..g.joined : pc[t] = "end"
    /\ pc[Main] = "exit" <=> g.joined = NumThreads

\* All threads have been let through equally many barriers, and for each one a newline is
\* printed, or a thread is about to print it.
Together ==
    /\ \A t, u \in Threads : Passed(t) = Passed(u)
    /\ \/ \A t \in Threads : g.ret[t] # "SERIAL" /\ g.newlines = Passed(t)
       \/ \E s \in Threads : /\ \A t \in Threads : g.ret[t] = "SERIAL" <=> t = s
                             /\ g.newlines + 1 = Passed(s)

IInv == TypeOK /\ PointsRight /\ Together
=============================================================================
