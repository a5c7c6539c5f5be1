--------------------------- MODULE CountPrograms ----------------------------
(***************************************************************************)
(* The programs of threads/ that are right if they count right: units,     *)
(* terminated threads, increments, threads at a barrier.                   *)
(***************************************************************************)
EXTENDS Pthreads

CONSTANTS NumProducers, Cnt,    \* prod_condvar.c, prod_no_condvar.c: argc - 1, argv[]
          MultijoinThreads,     \* thread_multijoin.c: argc - 1
          IncrThreads, IncrLoops, IncrInnerLoops,   \* thread_incr*.c, thread_lock_speed.c
          NumBarriers, BarrierThreads               \* pthread_barrier_demo.c

\* No producer is asked for a negative number of units.
ASSUME ProducersAssumption == NumProducers \in Nat /\ Cnt \in [1..NumProducers -> Nat]

ASSUME MultijoinAssumption == MultijoinThreads \in Nat

\* A lock is tried by somebody, some number of times (getInt() with GN_GT_0).
ASSUME IncrAssumption == {IncrThreads, IncrLoops, IncrInnerLoops} \subseteq Nat \ {0}

\* Some thread waits at the barrier: pthread_barrier_init() wants a count.
ASSUME BarrierAssumption == NumBarriers \in Nat /\ BarrierThreads \in Nat \ {0}

PC == INSTANCE ProdConsumer WITH N <- NumProducers
MJ == INSTANCE ThreadMultijoin WITH N <- MultijoinThreads
TI == INSTANCE ThreadIncr WITH NumThreads <- IncrThreads, Loops <- IncrLoops,
                               InnerLoops <- IncrInnerLoops
BD == INSTANCE BarrierDemo WITH NumThreads <- BarrierThreads
=============================================================================
