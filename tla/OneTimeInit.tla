---------------------------- MODULE OneTimeInit ----------------------------
(***************************************************************************)
(* threads/one_time_init.c: one_time_init(), a mutex and a flag that make  *)
(* sure that an initialisation function runs once, and the test program:   *)
(* threads that call it Calls times each.                                  *)
(***************************************************************************)
EXTENDS Pthreads

CONSTANTS NumThreads,   \* 2 in the test
          Calls         \* 2 in the test

Threads == 1..NumThreads
Tids == Threads \cup {Main}

Init ==
    /\ pc = [t \in Tids |-> IF t = Main THEN "create" ELSE "none"]
    /\ mtx = Free
    /\ g = [called |-> FALSE, runs |-> 0, finished |-> 0,
            calls |-> [t \in Threads |-> 0], created |-> 0, joined |-> 0]

MCreate ==
    /\ pc[Main] = "create" /\ g.created < NumThreads
    /\ Start(g.created + 1, "lock")
    /\ g' = [g EXCEPT !.created = @ + 1]

TLock(t) == Lock(t, "lock", "test") /\ UNCHANGED g

\* if (!once_control->called) (*init)();
TestCalled(t) ==
    /\ Go(t, "test", IF g.called THEN "unlock" ELSE "init")
    /\ g' = IF g.called THEN g ELSE [g EXCEPT !.runs = @ + 1]
    /\ UNCHANGED mtx

InitReturns(t) ==
    Go(t, "init", "set") /\ g' = [g EXCEPT !.finished = @ + 1] /\ UNCHANGED mtx

SetCalled(t) ==
    Go(t, "set", "unlock") /\ g' = [g EXCEPT !.called = TRUE] /\ UNCHANGED mtx

TUnlock(t) ==
    /\ Unlock(t, "unlock", IF g.calls[t] + 1 < Calls THEN "lock" ELSE "end")
    /\ g' = [g EXCEPT !.calls[t] = @ + 1]

MJoin ==
    /\ g.created = NumThreads
    /\ Joined(g.joined + 1, "create",
              IF g.joined + 1 = NumThreads THEN "exit" ELSE "create")
    /\ g' = [g EXCEPT !.joined = @ + 1]

Thread(t) ==
    IF t = Main THEN MCreate \/ MJoin
    ELSE TLock(t) \/ TestCalled(t) \/ InitReturns(t) \/ SetCalled(t) \/ TUnlock(t)

-----------------------------------------------------------------------------
\* init_func() runs "only once, no matter how many times one_time_init() is
\* called", by however many threads, and one_time_init() never returns before
\* the initialisation is complete, in whatever thread that runs.
InitOnce ==
    /\ g.runs <= 1
    /\ \A t \in Threads : g.calls[t] > 0 => g.finished = 1

-----------------------------------------------------------------------------
(* The inductive invariant.                                                *)

Locked(t) == pc[t] \in {"test", "init", "set", "unlock"}

TypeOK ==
    /\ pc \in [Tids -> {"create", "exit", "none", "lock", "test", "init", "set", "unlock", "end"}]
    /\ pc[Main] \in {"create", "exit"}
    /\ mtx \in Tids \cup {Free}
    /\ g \in [called : BOOLEAN, runs : Nat, finished : Nat, calls : [Threads -> Nat],
              created : Nat, joined : Nat]

\* The mutex lets one thread at a time decide whether to call init(), and that thread's
\* place tells how far the initialisation is while the flag is not yet set.
IInv ==
    /\ TypeOK
    /\ \A t \in Threads : Locked(t) => mtx = t
    /\ g.called => g.runs = 1 /\ g.finished = 1
    /\ ~g.called => \/ \E t \in Threads : pc[t] = "init" /\ g.runs = 1 /\ g.finished = 0
                    \/ \E t \in Threads : pc[t] = "set" /\ g.runs = 1 /\ g.finished = 1
                    \/ /\ \A t \in Threads : pc[t] \notin {"init", "set"}
                       /\ g.runs = 0 /\ g.finished = 0
    /\ \A t \in Threads : /\ pc[t] \in {"init", "set"} => ~g.called
                          /\ pc[t] = "unlock" \/ g.calls[t] > 0 => g.called
=============================================================================
