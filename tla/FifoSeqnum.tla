----------------------------- MODULE FifoSeqnum -----------------------------
(***************************************************************************)
(* pipes/fifo_seqnum_server.c and fifo_seqnum_client.c: a server that      *)
(* hands out sequence numbers.  Requests come through one FIFO; each       *)
(* client has a FIFO of its own for the answer.  Opening a FIFO waits for  *)
(* the other end to be opened.                                             *)
(***************************************************************************)
EXTENDS Processes

CONSTANTS N,        \* the number of clients
          SeqLen    \* SeqLen[c]: how many numbers client c asks for

Server == 0
Clients == 1..N
None == -1

\* healthy: whether all clients live to read their answer.
Init ==
    \E healthy \in BOOLEAN :
        /\ pc = [p \in Clients \cup {Server} |-> "mkfifo"]
        /\ g = [requests |-> <<>>, fifos |-> {}, met |-> FALSE, cur |-> None,
                paired |-> FALSE, seqNum |-> 0, got |-> [c \in Clients |-> None],
                healthy |-> healthy]

-----------------------------------------------------------------------------
(* fifo_seqnum_client.c                                                    *)

CMkfifo(c) ==
    Go(c, "mkfifo", "open") /\ g' = [g EXCEPT !.fifos = @ \cup {c}]

\* removeFifo() at exit()
Exit(c, from) == Go(c, from, "exit") /\ g' = [g EXCEPT !.fifos = @ \ {c}]

\* The server's FIFO does not exist yet: errExit().
CNoServer(c) == pc[Server] = "mkfifo" /\ Exit(c, "open")

COpenServer(c) ==
    /\ pc[Server] # "mkfifo" /\ Go(c, "open", "write")
    /\ g' = [g EXCEPT !.met = TRUE]

CWrite(c) ==
    Go(c, "write", "await") /\ g' = [g EXCEPT !.requests = Append(@, c)]

\* open() of its own FIFO waits until the server opens it for writing.
COpenOwn(c) ==
    /\ g.cur = c /\ pc[Server] = "blocked" /\ Go(c, "await", "read")
    /\ g' = [g EXCEPT !.paired = TRUE]

CRead(c) == g.got[c] # None /\ Exit(c, "read")

\* A client may fail after its request was sent, and remove its FIFO, or be
\* killed at any point and leave it.
CFail(c) == ~g.healthy /\ Exit(c, "await")

CKilled(c) ==
    /\ ~g.healthy /\ pc[c] \in {"open", "write", "await", "read"}
    /\ pc' = [pc EXCEPT ![c] = "killed"] /\ UNCHANGED g

-----------------------------------------------------------------------------
(* fifo_seqnum_server.c                                                    *)

SMkfifo == Go(Server, "mkfifo", "openr") /\ UNCHANGED g

\* open() for reading waits for the first client; the extra descriptor for
\* writing keeps read() from ever returning end-of-file.
SOpen == g.met /\ Go(Server, "openr", "read") /\ UNCHANGED g

SRead ==
    /\ g.requests # <<>> /\ Go(Server, "read", "open")
    /\ g' = [g EXCEPT !.cur = Head(g.requests), !.requests = Tail(@), !.paired = FALSE]

\* "Open failed, give up on client"
SGiveUp == g.cur \notin g.fifos /\ Go(Server, "open", "read") /\ UNCHANGED g

SOpenClient == g.cur \in g.fifos /\ Go(Server, "open", "blocked") /\ UNCHANGED g

SOpened == g.paired /\ Go(Server, "blocked", "write") /\ UNCHANGED g

\* The write fails when the client is gone; the numbers are used up all the same.
SWrite ==
    /\ Go(Server, "write", "read")
    /\ g' = [g EXCEPT !.seqNum = @ + SeqLen[g.cur],
                      !.got[g.cur] = IF pc[g.cur] = "read" THEN g.seqNum ELSE @]

Step(p) ==
    IF p = Server
    THEN SMkfifo \/ SOpen \/ SRead \/ SGiveUp \/ SOpenClient \/ SOpened \/ SWrite
    ELSE \/ CMkfifo(p) \/ CNoServer(p) \/ COpenServer(p) \/ CWrite(p) \/ COpenOwn(p)
         \/ CRead(p)

Env == \E c \in Clients : CFail(c) \/ CKilled(c)

-----------------------------------------------------------------------------
(* Properties.                                                             *)

Range(c) == g.got[c] .. g.got[c] + SeqLen[c] - 1

\* "The allocation of unique sequential numbers": no number is given to two
\* clients, whatever becomes of other clients; and with clients that all live
\* the numbers are handed out without a gap.
UniqueNumbers ==
    LET served == {c \in Clients : g.got[c] # None} IN
    /\ \A c, d \in served : c # d => Range(c) \cap Range(d) = {}
    /\ g.healthy => UNION {Range(c) : c \in served} = 0 .. g.seqNum - 1

\* Where it must end: every client has ended, or the server waits to open the FIFO
\* of a client that died before it opened it.  Only that can stop the server.
Settled ==
    \/ \A c \in Clients : pc[c] \in {"exit", "killed"}
    \/ ~g.healthy /\ pc[Server] = "blocked" /\ pc[g.cur] \in {"exit", "killed"}

-----------------------------------------------------------------------------
(* The inductive invariant.                                                *)

CPoints == {"mkfifo", "open", "write", "await", "read", "exit", "killed"}
SPoints == {"mkfifo", "openr", "read", "open", "blocked", "write"}

TypeOK ==
    /\ pc \in [Clients \cup {Server} -> CPoints \cup SPoints]
    /\ \A c \in Clients : pc[c] \in CPoints
    /\ pc[Server] \in SPoints
    /\ g \in [requests : Seq(Clients), fifos : SUBSET Clients, met : BOOLEAN,
              cur : Clients \cup {None}, paired : BOOLEAN, seqNum : Nat,
              got : [Clients -> Nat \cup {None}], healthy : BOOLEAN]

Serving == pc[Server] \in {"open", "blocked", "write"}
Requested(c) == \E i \in 1 .. Len(g.requests) : g.requests[i] = c

\* A client asks once: until it has, and from then until it is served, it has no answer.
AsksOnce ==
    /\ \A i, k \in 1 .. Len(g.requests) : g.requests[i] = g.requests[k] => i = k
    /\ Serving => g.cur \in Clients /\ g.got[g.cur] = None /\ ~Requested(g.cur)
    /\ \A c \in Clients :
           /\ Requested(c) => g.got[c] = None
           /\ pc[c] \in {"mkfifo", "open", "write"} =>
                  g.got[c] = None /\ ~Requested(c) /\ (Serving => c # g.cur)

\* The client that the server answers reads, if it lives.
AnswersRead ==
    /\ pc[Server] = "open" => ~g.paired
    /\ pc[Server] = "write" => g.paired
    /\ g.healthy => \A c \in Clients : pc[c] # "killed"
    /\ g.healthy /\ Serving /\ g.paired => pc[g.cur] = "read"

\* The numbers of a client end below the next one, and two clients' are in some order.
InOrder ==
    /\ \A c \in Clients : g.got[c] # None => g.got[c] + SeqLen[c] <= g.seqNum
    /\ \A c, d \in Clients : c # d /\ g.got[c] # None /\ g.got[d] # None =>
           g.got[c] + SeqLen[c] <= g.got[d] \/ g.got[d] + SeqLen[d] <= g.got[c]
    /\ g.healthy => \A n \in 0 .. g.seqNum - 1 : \E c \in Clients : g.got[c] # None /\ n \in Range(c)

IInv == TypeOK /\ AsksOnce /\ AnswersRead /\ InOrder
=============================================================================
