----------------------------- MODULE ThreadIncr -----------------------------
(***************************************************************************)
(* The programs in which threads increment a shared variable: thread_incr.c *)
(* (no synchronisation), thread_incr_mutex.c, thread_incr_spinlock.c,      *)
(* thread_incr_rwlock.c, psem/thread_incr_psem.c and thread_lock_speed.c   *)
(* (a mutex or a spin lock around several increments).  Which program runs *)
(* is chosen in the initial state.  Reading and writing 'glob' are two     *)
(* steps.                                                                  *)
(***************************************************************************)
EXTENDS Pthreads

CONSTANTS NumThreads,       \* 2, or the argument of thread_lock_speed
          Loops,            \* num-loops, num-outer-loops
          InnerLoops        \* num-inner-loops of thread_lock_speed

Threads == 1..NumThreads
Tids == Threads \cup {Main}
Kinds == {"none", "mutex", "spin", "rwlock", "sem", "speed"}

\* main() has initialised the lock and created the threads.
Init ==
    /\ pc = [t \in Tids |-> IF t = Main THEN "join" ELSE "loop"]
    /\ mtx = Free
    /\ \E kind \in Kinds :
          g = [kind |-> kind, glob |-> 0, sem |-> 1, joined |-> 0,
               loc |-> [t \in Threads |-> 0], j |-> [t \in Threads |-> 0],
               k |-> [t \in Threads |-> 0]]

Inner == IF g.kind = "speed" THEN InnerLoops ELSE 1
More(t) == g.j[t] < Loops
Enter(t) == g' = [g EXCEPT !.k[t] = 0]

NoLock(t)    == g.kind = "none" /\ More(t) /\ Go(t, "loop", "read")
                /\ Enter(t) /\ UNCHANGED mtx
MutexLock(t) == g.kind = "mutex" /\ More(t) /\ Lock(t, "loop", "read") /\ Enter(t)
SpinLock(t)  == g.kind = "spin" /\ More(t) /\ Lock(t, "loop", "read") /\ Enter(t)
WrLock(t)    == g.kind = "rwlock" /\ More(t) /\ Lock(t, "loop", "read") /\ Enter(t)
SpeedLock(t) == g.kind = "speed" /\ More(t) /\ Lock(t, "loop", "read") /\ Enter(t)
SemWait(t)   == /\ g.kind = "sem" /\ More(t) /\ Go(t, "loop", "read")
                /\ g.sem > 0 /\ g' = [g EXCEPT !.k[t] = 0, !.sem = @ - 1]
                /\ UNCHANGED mtx

\* loc = glob
Read(t) ==
    Go(t, "read", "write") /\ g' = [g EXCEPT !.loc[t] = g.glob] /\ UNCHANGED mtx

\* loc++; glob = loc
Write(t) ==
    /\ Go(t, "write", IF g.k[t] + 1 < Inner THEN "read" ELSE "unlock")
    /\ g' = [g EXCEPT !.glob = g.loc[t] + 1, !.k[t] = @ + 1]
    /\ UNCHANGED mtx

\* The unlock call, if there is a lock, and the end of one turn of the loop.
Leave(t) ==
    /\ Go(t, "unlock", IF g.j[t] + 1 < Loops THEN "loop" ELSE "end")
    /\ g' = [g EXCEPT !.j[t] = @ + 1, !.sem = IF g.kind = "sem" THEN @ + 1 ELSE @]
    /\ mtx' = Free

MJoin ==
    /\ Joined(g.joined + 1, "join", IF g.joined + 1 = NumThreads THEN "exit" ELSE "join")
    /\ g' = [g EXCEPT !.joined = @ + 1]

Thread(t) ==
    IF t = Main THEN MJoin
    ELSE \/ NoLock(t) \/ MutexLock(t) \/ SpinLock(t) \/ WrLock(t) \/ SpeedLock(t)
         \/ SemWait(t) \/ Read(t) \/ Write(t) \/ Leave(t)

-----------------------------------------------------------------------------
\* With a lock "updates are not lost": what main() prints at the end is the
\* number of increments of all threads.  Without one "updates are sometimes
\* lost", but how many is bounded: the result is never above the number of
\* increments, and with two loops or more never below 2, however the threads
\* interleave.
UpdatesLost ==
    pc[Main] = "exit" =>
        IF g.kind = "none"
        THEN (IF Loops = 1 THEN 1 ELSE 2) <= g.glob /\ g.glob <= NumThreads * Loops
        ELSE g.glob = NumThreads * Loops * Inner

-----------------------------------------------------------------------------
(* The inductive invariant.                                                *)

TypeOK ==
    /\ pc \in [Tids -> {"loop", "read", "write", "unlock", "end", "join", "exit"}]
    /\ \A t \in Threads : pc[t] \in {"loop", "read", "write", "unlock", "end"}
    /\ pc[Main] \in {"join", "exit"}
    /\ mtx \in Tids \cup {Free}
    /\ g \in [kind : Kinds, glob : Nat, sem : {0, 1}, joined : 0..NumThreads,
              loc : [Threads -> Nat], j : [Threads -> 0..Loops], k : [Threads -> Nat]]

InCS(t) == pc[t] \in {"read", "write", "unlock"}

\* How far the threads are in their loops, and main() in joining them.
LoopsRight ==
    /\ \A t \in Threads : /\ pc[t] = "end" <=> g.j[t] = Loops
                          /\ pc[t] \in {"read", "write"} => g.k[t] < Inner
                          /\ pc[t] = "unlock" => g.k[t] = Inner
    /\ \A t \in 1..g.joined : pc[t] = "end"
    /\ pc[Main] = "exit" <=> g.joined = NumThreads

\* With a lock one thread at a time reads and writes 'glob', and no increment is lost.
NoneLost ==
    g.kind # "none" =>
        /\ (IF g.kind = "sem" THEN g.sem = 1 ELSE mtx = Free) => \A t \in Threads : ~InCS(t)
        /\ \A t, u \in Threads : InCS(t) /\ InCS(u) => t = u
        /\ (\A t \in Threads : ~InCS(t)) => g.glob = Sum(g.j) * Inner
        /\ \A t \in Threads : InCS(t) => g.glob = Sum(g.j) * Inner + g.k[t]
        /\ \A t \in Threads : pc[t] = "write" => g.loc[t] = g.glob

\* The increments that thread t of thread_incr.c has written.
Written(t) == g.j[t] + (IF pc[t] = "unlock" THEN 1 ELSE 0)
AllWritten == Sum([t \in Threads |-> Written(t)])

\* Without one, 'glob' is at most the number of writes.  What a thread writes after its
\* first loop is at least 2, because what it read then was written by somebody, and the
\* last of all writes is somebody's last.
SomeLost ==
    g.kind = "none" =>
        /\ g.glob <= AllWritten
        /\ \A t \in Threads : g.loc[t] <= AllWritten
        /\ \A t \in Threads : Written(t) > 0 => g.glob > 0
        /\ \A t \in Threads : pc[t] = "write" /\ g.j[t] > 0 => g.loc[t] > 0
        /\ (\A t \in Threads : Written(t) = Loops) => g.glob >= (IF Loops = 1 THEN 1 ELSE 2)

IInv == TypeOK /\ LoopsRight /\ NoneLost /\ SomeLost
=============================================================================
