----------------------------- MODULE SvsemInit -----------------------------
(***************************************************************************)
(* svsem/svsem_good_init.c and svsem_bad_init.c: several processes create  *)
(* or find one semaphore, initialise it and add to it.                     *)
(***************************************************************************)
EXTENDS Processes

CONSTANTS SemOp,        \* SemOp[p]: what process p adds to the semaphore
          MAX_TRIES,    \* how often a process looks at sem_otime
          Garbage       \* the values a new semaphore may have

Procs == DOMAIN SemOp

Init ==
    \E kind \in {"svsem_good_init", "svsem_bad_init"}, val \in Garbage :
        /\ pc = [p \in Procs |-> "semget"]
        /\ g = [kind |-> kind, exists |-> FALSE, set |-> FALSE, otime |-> 0, val |-> val,
                done |-> 0, lost |-> 0, tries |-> [p \in Procs |-> 0]]

Good == g.kind = "svsem_good_init"

\* semget(IPC_CREAT | IPC_EXCL) creates the set for one process only.
Create(p) ==
    ~g.exists /\ Go(p, "semget", "setval") /\ g' = [g EXCEPT !.exists = TRUE]

GoodExists_M(p) ==
    Good /\ g.exists /\ Go(p, "semget", "semop") /\ UNCHANGED g
GoodExists(p) ==
    Good /\ g.exists /\ Go(p, "semget", "stat") /\ UNCHANGED g

BadExists(p) == ~Good /\ g.exists /\ Go(p, "semget", "semop") /\ UNCHANGED g

SetVal(p, next) ==
    /\ Go(p, "setval", next)
    /\ g' = [g EXCEPT !.val = 0, !.set = TRUE, !.lost = g.done]

GoodSetVal(p) == Good /\ SetVal(p, "dummy")
BadSetVal(p) == ~Good /\ SetVal(p, "semop")

\* The "no-op" semop() waits for 0 and sets sem_otime.
Dummy(p) ==
    g.val = 0 /\ Go(p, "dummy", "semop") /\ g' = [g EXCEPT !.otime = 1]

\* IPC_STAT, up to MAX_TRIES times.
StatSet(p) == g.otime # 0 /\ Go(p, "stat", "semop") /\ UNCHANGED g

StatRetry(p) ==
    /\ g.otime = 0 /\ Go(p, "stat", IF g.tries[p] + 1 < MAX_TRIES THEN "stat" ELSE "fatal")
    /\ g' = [g EXCEPT !.tries[p] = @ + 1]

SemOp1(p) ==
    /\ Go(p, "semop", "exit")
    /\ g' = [g EXCEPT !.val = @ + SemOp[p], !.done = @ + SemOp[p], !.otime = 1]

Step(p) ==
    /\ p \in Procs
    /\ \/ Create(p) \/ GoodExists(p) \/ BadExists(p) \/ GoodSetVal(p) \/ BadSetVal(p)
       \/ Dummy(p) \/ StatSet(p) \/ StatRetry(p) \/ SemOp1(p)

\* Properties.

\* svsem_good_init.c "avoids race conditions": no process operates on the set
\* before it is initialised, so no operation is lost and the semaphore is the sum
\* of what was added.  svsem_bad_init.c can lose the operations that come before
\* its SETVAL, and no others.
NoOpLost ==
    /\ g.set => g.val + g.lost = g.done
    /\ Good => g.lost = 0 /\ (g.done # 0 => g.set)

\* Where it must end: every process has operated on the semaphore or given up.
Settled == \A p \in Procs : pc[p] \in {"exit", "fatal"}

-----------------------------------------------------------------------------
(* The inductive invariant.                                                *)

Points == {"semget", "setval", "dummy", "stat", "semop", "fatal", "exit"}

Record ==
    [kind : {"svsem_good_init", "svsem_bad_init"}, exists : BOOLEAN, set : BOOLEAN, otime : {0, 1},
     val : Int, done : Int, lost : Int, tries : [Procs -> Nat]]

\* Only the process that created the set initialises it, and in svsem_good_init.c the
\* others get past their look at sem_otime after that.
IInv ==
    /\ pc \in [Procs -> Points]
    /\ g \in Record
    /\ g.set \/ (\E p \in Procs : pc[p] = "setval") => g.exists
    /\ \A p \in Procs : pc[p] = "setval" => ~g.set /\ \A q \in Procs \ {p} : pc[q] # "setval"
    /\ Good => g.otime = 0 \/ g.set
    /\ Good => \A p \in Procs : pc[p] \in {"dummy", "semop", "exit"} => g.set
    /\ NoOpLost
=============================================================================
