----------------------------- MODULE SvmsgFile -----------------------------
(***************************************************************************)
(* svmsg/svmsg_file_server.c and svmsg_file_client.c: a file server that   *)
(* forks a child for each request; the child sends the file, chunk by      *)
(* chunk, through the client's own System V message queue.                 *)
(***************************************************************************)
EXTENDS Processes

CONSTANTS N,            \* the number of clients
          Sizes,        \* the sizes of files, in messages; Missing for no file
          MaxQueue      \* how many messages a client's queue holds

Server == 0
Clients == 1..N
Child(c) == N + c
Children == {Child(c) : c \in Clients}
Missing == -1

\* The n-th message with data of a file, and the messages without data.
Data(n) == [mtype |-> "RESP_MT_DATA", data |-> n]
NoData(mtype) == [mtype |-> mtype, data |-> 0]

\* File[c] is the size of the file that client c asks for.  healthy: no call
\* fails for want of resources, and no client is killed.
Init ==
    \E file \in [Clients -> Sizes], healthy \in BOOLEAN :
        /\ pc = [p \in Clients \cup Children \cup {Server} |->
                    IF p \in Children THEN "none" ELSE "start"]
        /\ g = [requests |-> <<>>, req |-> 0, serverQueue |-> FALSE, queue |-> [c \in Clients |-> <<>>],
                queues |-> {}, numSent |-> [c \in Clients |-> 0],
                got |-> [c \in Clients |-> <<>>], cut |-> {}, zombies |-> {},
                sigchld |-> FALSE, inHandler |-> FALSE, file |-> file, healthy |-> healthy]

-----------------------------------------------------------------------------
(* svmsg_file_client.c                                                     *)

\* removeQueue() at exit()
Exit(c, from) ==
    /\ Go(c, from, "exit")
    /\ g' = [g EXCEPT !.queues = @ \ {c}, !.queue[c] = <<>>]

CNoServer(c) == ~g.serverQueue /\ Go(c, "start", "exit") /\ UNCHANGED g

CCreate(c) ==
    /\ g.serverQueue /\ Go(c, "start", "request")
    /\ g' = [g EXCEPT !.queues = @ \cup {c}]

CRequest(c) ==
    IF g.serverQueue
    THEN Go(c, "request", "receive") /\ g' = [g EXCEPT !.requests = Append(@, c)]
    ELSE Exit(c, "request")

\* msgrcv(): data is counted; the failure and end messages end the client.
CReceive(c) ==
    /\ g.queue[c] # <<>>
    /\ LET msg == Head(g.queue[c]) IN
       /\ Go(c, "receive", IF msg.mtype = "RESP_MT_DATA" THEN "receive" ELSE "remove")
       /\ g' = [g EXCEPT !.queue[c] = Tail(@), !.got[c] = Append(@, msg)]

CExit(c) == Exit(c, "remove")

\* msgrcv() may fail, which makes the client remove its queue and exit; a client
\* that is killed leaves its queue.
CFail(c) == ~g.healthy /\ Exit(c, "receive")

CKilled(c) == ~g.healthy /\ Go(c, "receive", "killed") /\ UNCHANGED g

-----------------------------------------------------------------------------
(* serveRequest(), in the child for client c                               *)

\* msgsnd() waits while the queue is full and fails when it is removed.
CanSend(c) == c \notin g.queues \/ Len(g.queue[c]) < MaxQueue

Sent(c, msg) == IF c \in g.queues THEN Append(g.queue[c], msg) ELSE g.queue[c]

SendFailure(c) ==
    /\ g.file[c] = Missing /\ CanSend(c) /\ Go(Child(c), "open", "exit")
    /\ g' = [g EXCEPT !.queue[c] = Sent(c, NoData("RESP_MT_FAILURE"))]

OpenFile(c) == g.file[c] # Missing /\ Go(Child(c), "open", "read") /\ UNCHANGED g

SendData_M(c) ==
    /\ g.numSent[c] < g.file[c]
    /\ Go(Child(c), "read", IF CanSend(c) /\ c \in g.queues THEN "read" ELSE "end")
    /\ g' = IF ~CanSend(c) THEN g
            ELSE [g EXCEPT !.queue[c] = Sent(c, Data(g.numSent[c] + 1)), !.numSent[c] = @ + 1]
SendData(c) ==
    /\ g.numSent[c] < g.file[c] /\ CanSend(c)
    /\ Go(Child(c), "read", IF c \in g.queues THEN "read" ELSE "end")
    /\ g' = [g EXCEPT !.queue[c] = Sent(c, Data(g.numSent[c] + 1)), !.numSent[c] = @ + 1]

\* read() returns 0 at the end of the file.  An error ends the loop as well:
\* "We don't diagnose read() and msgsnd() errors since we can't notify client".
EndOfFile(c) ==
    /\ Go(Child(c), "read", "end")
    /\ \/ g.numSent[c] = g.file[c] /\ UNCHANGED g
       \/ ~g.healthy /\ g.numSent[c] < g.file[c] /\ g' = [g EXCEPT !.cut = @ \cup {c}]

SendEnd(c) ==
    /\ CanSend(c) /\ Go(Child(c), "end", "exit")
    /\ g' = [g EXCEPT !.queue[c] = Sent(c, NoData("RESP_MT_END"))]

ChildExit(c) ==
    /\ Go(Child(c), "exit", "zombie")
    /\ g' = [g EXCEPT !.zombies = @ \cup {Child(c)}, !.sigchld = pc[Server] # "exit"]

-----------------------------------------------------------------------------
(* main() of the server, and grimReaper(), which interrupts it             *)

SCreate ==
    ~g.inHandler /\ Go(Server, "start", "msgrcv") /\ g' = [g EXCEPT !.serverQueue = TRUE]

SReceive ==
    /\ ~g.inHandler /\ g.requests # <<>> /\ Go(Server, "msgrcv", "fork")
    /\ g' = [g EXCEPT !.req = Head(g.requests), !.requests = Tail(@)]

SFork ==
    /\ ~g.inHandler /\ pc[Server] = "fork"
    /\ pc' = [pc EXCEPT ![Server] = "msgrcv", ![Child(g.req)] = "open"]
    /\ UNCHANGED g

\* fork() fails: the server removes its queue and ends.
SForkFails ==
    /\ ~g.healthy /\ ~g.inHandler /\ Go(Server, "fork", "exit")
    /\ g' = [g EXCEPT !.serverQueue = FALSE, !.requests = <<>>]

\* SIGCHLD is blocked while its handler runs.
Sigchld ==
    /\ g.sigchld /\ ~g.inHandler /\ pc[Server] # "exit"
    /\ g' = [g EXCEPT !.sigchld = FALSE, !.inHandler = TRUE]
    /\ UNCHANGED pc

\* while (waitpid(-1, NULL, WNOHANG) > 0)
Reap ==
    /\ g.inHandler /\ UNCHANGED pc
    /\ IF g.zombies = {} THEN g' = [g EXCEPT !.inHandler = FALSE]
       ELSE \E z \in g.zombies : g' = [g EXCEPT !.zombies = @ \ {z}]

Step(p) ==
    IF p = Server THEN SCreate \/ SReceive \/ SFork \/ Sigchld \/ Reap
    ELSE \/ p \in Clients
            /\ (CNoServer(p) \/ CCreate(p) \/ CRequest(p) \/ CReceive(p) \/ CExit(p))
         \/ \E c \in Clients :
              /\ p = Child(c)
              /\ \/ SendFailure(c) \/ OpenFile(c) \/ SendData(c) \/ EndOfFile(c)
                 \/ SendEnd(c) \/ ChildExit(c)

Env == SForkFails \/ \E c \in Clients : CFail(c) \/ CKilled(c)

-----------------------------------------------------------------------------
(* Properties.                                                             *)

\* A client that was told of the end has the whole file, in order and once, and
\* one that was told of a failure has nothing, unless the child could not read
\* on (which the code does not tell it).
WholeFile ==
    \A c \in Clients :
        LET got == g.got[c] IN
        /\ \A i \in 1 .. Len(got) - 1 : got[i] = Data(i)
        /\ got # <<>> /\ got[Len(got)].mtype = "RESP_MT_END" =>
               Len(got) - 1 = g.file[c] \/ c \in g.cut
        /\ got # <<>> /\ got[Len(got)].mtype = "RESP_MT_FAILURE" => Len(got) = 1

\* grimReaper() leaves no zombie behind, even when several children end while one
\* SIGCHLD is pending: a zombie is there only with the signal that will reap it.
ZombiesReaped ==
    g.zombies # {} => g.sigchld \/ g.inHandler \/ pc[Server] = "exit"

\* Where it must end when no call fails and no client is killed: every client has
\* got its answer and every child is reaped.  Full queues only delay the children.
Settled ==
    g.healthy => /\ \A c \in Clients : pc[c] = "exit"
                 /\ \A z \in Children : pc[z] \in {"none", "zombie"} /\ z \notin g.zombies

-----------------------------------------------------------------------------
(* The inductive invariant.                                                *)

CPoints == {"start", "request", "receive", "remove", "exit", "killed"}
ChildPoints == {"none", "open", "read", "end", "exit", "zombie"}
SPoints == {"start", "msgrcv", "fork", "exit"}
Procs == Clients \cup Children \cup {Server}

Messages == [mtype : {"RESP_MT_DATA", "RESP_MT_END", "RESP_MT_FAILURE"}, data : Nat]

TypeOK ==
    /\ pc \in [Procs -> CPoints \cup ChildPoints \cup SPoints]
    /\ g \in [requests : Seq(Clients), req : Clients \cup {0}, serverQueue : BOOLEAN,
              queue : [Clients -> Seq(Messages)], queues : SUBSET Clients,
              numSent : [Clients -> Nat], got : [Clients -> Seq(Messages)],
              cut : SUBSET Clients, zombies : SUBSET Children, sigchld : BOOLEAN,
              inHandler : BOOLEAN, file : [Clients -> Nat \cup {Missing}], healthy : BOOLEAN]

Requested(c) == \E i \in 1 .. Len(g.requests) : g.requests[i] = c

\* A client asks once, so one child is forked for it.
ForkedOnce ==
    /\ \A i, k \in 1 .. Len(g.requests) : g.requests[i] = g.requests[k] => i = k
    /\ pc[Server] = "fork" =>
           g.req \in Clients /\ pc[Child(g.req)] = "none" /\ ~Requested(g.req)
    /\ \A c \in Clients :
           /\ Requested(c) => pc[Child(c)] = "none" /\ pc[c] \notin {"start", "request"}
           /\ pc[c] \in {"start", "request"} =>
                  pc[Child(c)] = "none" /\ (pc[Server] = "fork" => g.req # c)
           /\ pc[c] = "start" => c \notin g.queues

\* The messages that client c has or will find in its queue, in the order they were sent.
Total(c) == Len(g.got[c]) + Len(g.queue[c])
Message(c, i) ==
    IF i <= Len(g.got[c]) THEN g.got[c][i] ELSE g.queue[c][i - Len(g.got[c])]

Ended(c) == pc[Child(c)] \in {"exit", "zombie"}

\* They are the first messages of the file, and once the child has ended, a last one.
SentInOrder ==
    \A c \in Clients :
        /\ c \notin g.queues => g.queue[c] = <<>>
        /\ pc[Child(c)] \in {"none", "open"} => Total(c) = 0 /\ g.numSent[c] = 0
        /\ c \in g.queues =>
               /\ Total(c) = g.numSent[c] + (IF Ended(c) THEN 1 ELSE 0)
               /\ \A i \in 1 .. g.numSent[c] : Message(c, i) = Data(i)
               /\ pc[Child(c)] = "end" => g.numSent[c] = g.file[c] \/ c \in g.cut
               /\ Ended(c) =>
                      \/ /\ Message(c, Total(c)) = NoData("RESP_MT_END")
                         /\ g.numSent[c] = g.file[c] \/ c \in g.cut
                      \/ /\ Message(c, Total(c)) = NoData("RESP_MT_FAILURE")
                         /\ g.numSent[c] = 0

IInv == TypeOK /\ ForkedOnce /\ SentInOrder /\ WholeFile /\ ZombiesReaped
=============================================================================
