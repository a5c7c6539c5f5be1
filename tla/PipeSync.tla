------------------------------ MODULE PipeSync ------------------------------
(***************************************************************************)
(* pipes/pipe_sync.c: a parent learns that all its children have finished  *)
(* from end-of-file on a pipe, which comes when the last descriptor for    *)
(* its write end is closed.                                                *)
(***************************************************************************)
EXTENDS Processes

CONSTANT N          \* argc - 1, the number of children

Parent == 0
Children == 1..N

\* writers: the processes that have the write end open.
Init ==
    /\ pc = [p \in Children \cup {Parent} |-> IF p = Parent THEN "fork" ELSE "none"]
    /\ g = [writers |-> {Parent}, j |-> 1]

Fork ==
    /\ g.j <= N /\ pc[Parent] = "fork"
    /\ pc' = [pc EXCEPT ![g.j] = "work"]
    /\ g' = [g EXCEPT !.writers = @ \cup {g.j}, !.j = @ + 1]

CloseWriteEnd_M == g.j > N /\ Go(Parent, "fork", "read") /\ UNCHANGED g
CloseWriteEnd ==
    /\ g.j > N /\ Go(Parent, "fork", "read")
    /\ g' = [g EXCEPT !.writers = @ \ {Parent}]

ReadEof == g.writers = {} /\ Go(Parent, "read", "exit") /\ UNCHANGED g

Work(c) == Go(c, "work", "close") /\ UNCHANGED g

Close(c) == Go(c, "close", "closed") /\ g' = [g EXCEPT !.writers = @ \ {c}]

Step(p) == IF p = Parent THEN Fork \/ CloseWriteEnd \/ ReadEof ELSE Work(p) \/ Close(p)

\* "The parent can see that all children have finished their work when it sees
\* end-of-file": it goes on only after the last of them, in whatever order they
\* finish.
AfterAllChildren ==
    pc[Parent] = "exit" => \A c \in Children : pc[c] = "closed"

\* Where it must end: the parent has seen end-of-file, so it kept no descriptor
\* for the write end open itself.
Settled == pc[Parent] = "exit"

-----------------------------------------------------------------------------
(* The inductive invariant.                                                *)

\* A child that has been created and is not done holds the write end, and all have been
\* created when the parent reads.
IInv ==
    /\ pc \in [Children \cup {Parent} -> {"fork", "read", "exit", "none", "work", "close", "closed"}]
    /\ pc[Parent] \in {"fork", "read", "exit"}
    /\ g \in [writers : SUBSET (Children \cup {Parent}), j : 1 .. N + 1]
    /\ \A c \in Children : /\ c < g.j <=> pc[c] \in {"work", "close", "closed"}
                           /\ pc[c] \in {"work", "close"} => c \in g.writers
    /\ pc[Parent] # "fork" => g.j > N
    /\ AfterAllChildren
=============================================================================
