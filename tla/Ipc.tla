-------------------------------- MODULE Ipc --------------------------------
(***************************************************************************)
(* The programs of pipes/, svmsg/, svsem/ and pmsg/ whose processes work   *)
(* together, one of which runs: the initial state chooses the program.     *)
(***************************************************************************)
EXTENDS FileServer

CONSTANTS MaxMsgs, MqMaxQueue,                  \* mq_notify_*.c
          FifoClients, SeqLen,                  \* fifo_seqnum_*.c
          SemOp, MAX_TRIES, Garbage,            \* svsem_*_init.c
          SyncChildren                          \* pipe_sync.c

ASSUME MqAssumption == MaxMsgs \in Nat /\ MqMaxQueue \in Nat

\* A client asks for a positive number of numbers (getInt() with GN_GT_0).
ASSUME FifoAssumption == FifoClients \in Nat /\ SeqLen \in [1..FifoClients -> Nat \ {0}]

\* The processes add integers to the semaphore.
ASSUME SemAssumption ==
    SemOp \in [DOMAIN SemOp -> Int] /\ MAX_TRIES \in Nat /\ Garbage \subseteq Int

ASSUME SyncAssumption == SyncChildren \in Nat

MQ == INSTANCE MqNotify WITH MaxQueue <- MqMaxQueue
FS == INSTANCE FifoSeqnum WITH N <- FifoClients
SI == INSTANCE SvsemInit
PS == INSTANCE PipeSync WITH N <- SyncChildren

VARIABLE prog

allVars == <<prog, vars>>

Procs == UNION {MQ!Procs, FS!Clients \cup {FS!Server}, MF!Procs, SI!Procs,
                PS!Children \cup {PS!Parent}}

\* Numbers to ask for, operations, and sizes of files, for the model checker.
ThreeLengths == <<2, 1, 3>>
ThreeOps == <<1, 2, 1>>
FileSizes == {-1, 0, 3}

Init ==
    \/ prog = "mq_notify" /\ MQ!Init
    \/ prog = "fifo_seqnum" /\ FS!Init
    \/ prog = "svmsg_file" /\ MF!Init
    \/ prog = "svsem_init" /\ SI!Init
    \/ prog = "pipe_sync" /\ PS!Init

Step(p) ==
    /\ p \in DOMAIN pc
    /\ \/ prog = "mq_notify" /\ MQ!Step(p)
       \/ prog = "fifo_seqnum" /\ FS!Step(p)
       \/ prog = "svmsg_file" /\ MF!Step(p)
       \/ prog = "svsem_init" /\ SI!Step(p)
       \/ prog = "pipe_sync" /\ PS!Step(p)
    /\ UNCHANGED prog

Env ==
    /\ \/ prog = "mq_notify" /\ MQ!Env
       \/ prog = "fifo_seqnum" /\ FS!Env
       \/ prog = "svmsg_file" /\ MF!Env
    /\ UNCHANGED prog

Next == (\E p \in Procs : Step(p)) \/ Env

Spec == Init /\ [][Next]_allVars

\* Every process is scheduled; nobody need send a message, fail or be killed.
FairSpec == Spec /\ \A p \in Procs : WF_allVars(Step(p))

-----------------------------------------------------------------------------
(* Properties.                                                             *)

\* mq_notify_*.c: a queued message is in hand, or the next one will notify, and
\* no registration is attempted while one stands.
NoMessageForgotten == prog = "mq_notify" => MQ!NoMessageForgotten /\ MQ!NeverBusy

\* fifo_seqnum_*.c: no number is given to two clients.  svmsg_file_*.c: a client gets its
\* whole file, or is told that it cannot, and no terminated child of the server stays.
ClientsServed ==
    /\ prog = "fifo_seqnum" => FS!UniqueNumbers
    /\ prog = "svmsg_file" => MF!WholeFile /\ MF!ZombiesReaped

\* svsem_*_init.c: no operation on the semaphore is lost to its initialisation.
\* pipe_sync.c: the parent goes on after all its children have finished.
InitFirst ==
    /\ prog = "svsem_init" => SI!NoOpLost
    /\ prog = "pipe_sync" => PS!AfterAllChildren

Settled ==
    /\ prog = "mq_notify" => MQ!Settled
    /\ prog = "fifo_seqnum" => FS!Settled
    /\ prog = "svmsg_file" => MF!Settled
    /\ prog = "svsem_init" => SI!Settled
    /\ prog = "pipe_sync" => PS!Settled

\* Everybody who waits is served in the end: the message queue is drained, the
\* clients get their answers, the semaphore's users and the parent go on.
AllGoOn == <>[]Settled
=============================================================================
