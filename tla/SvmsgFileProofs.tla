-------------------------- MODULE SvmsgFileProofs ---------------------------
(***************************************************************************)
(* What svmsg_file_server.c and its clients keep, for any number of        *)
(* clients, files of any size and queues of any length.                    *)
(***************************************************************************)
EXTENDS FileServer, TLAPS

\* How long the provers may take for one step.
USE SMTT(30), ZenonT(30)

MfData == [requests : Seq(MF!Clients), req : MF!Clients \cup {0}, serverQueue : BOOLEAN,
           queue : [MF!Clients -> Seq(MF!Messages)], queues : SUBSET MF!Clients,
           numSent : [MF!Clients -> Nat], got : [MF!Clients -> Seq(MF!Messages)],
           cut : SUBSET MF!Clients, zombies : SUBSET MF!Children, sigchld : BOOLEAN,
           inHandler : BOOLEAN, file : [MF!Clients -> Nat \cup {MF!Missing}], healthy : BOOLEAN]

MfPoints == MF!CPoints \cup MF!ChildPoints \cup MF!SPoints

\* What the invariant says of one client.
MfForked(c) ==
    /\ MF!Requested(c) => pc[MF!Child(c)] = "none" /\ pc[c] \notin {"start", "request"}
    /\ pc[c] \in {"start", "request"} =>
           pc[MF!Child(c)] = "none" /\ (pc[MF!Server] = "fork" => g.req # c)
    /\ pc[c] = "start" => c \notin g.queues

MfSent(c) ==
    /\ c \notin g.queues => g.queue[c] = <<>>
    /\ pc[MF!Child(c)] \in {"none", "open"} => MF!Total(c) = 0 /\ g.numSent[c] = 0
    /\ c \in g.queues =>
           /\ MF!Total(c) = g.numSent[c] + (IF MF!Ended(c) THEN 1 ELSE 0)
           /\ \A i \in 1 .. g.numSent[c] : MF!Message(c, i) = MF!Data(i)
           /\ pc[MF!Child(c)] = "end" => g.numSent[c] = g.file[c] \/ c \in g.cut
           /\ MF!Ended(c) =>
                  \/ /\ MF!Message(c, MF!Total(c)) = MF!NoData("RESP_MT_END")
                     /\ g.numSent[c] = g.file[c] \/ c \in g.cut
                  \/ /\ MF!Message(c, MF!Total(c)) = MF!NoData("RESP_MT_FAILURE")
                     /\ g.numSent[c] = 0

MfWhole(c) ==
    /\ \A i \in 1 .. Len(g.got[c]) - 1 : g.got[c][i] = MF!Data(i)
    /\ g.got[c] # <<>> /\ g.got[c][Len(g.got[c])].mtype = "RESP_MT_END" =>
           Len(g.got[c]) - 1 = g.file[c] \/ c \in g.cut
    /\ g.got[c] # <<>> /\ g.got[c][Len(g.got[c])].mtype = "RESP_MT_FAILURE" =>
           Len(g.got[c]) = 1

\* No two requests are of the same client.
MfRequests ==
    /\ \A i, k \in 1 .. Len(g.requests) : g.requests[i] = g.requests[k] => i = k
    /\ pc[MF!Server] = "fork" =>
           g.req \in MF!Clients /\ pc[MF!Child(g.req)] = "none" /\ ~MF!Requested(g.req)

\* The invariant in these terms.
LEMMA MfParts ==
    MF!IInv <=> /\ MF!TypeOK /\ MfRequests /\ MF!ZombiesReaped
                /\ \A c \in MF!Clients : MfForked(c) /\ MfSent(c) /\ MfWhole(c)
<1>1. MF!ForkedOnce <=> MfRequests /\ \A c \in MF!Clients : MfForked(c)
  BY DEF MF!ForkedOnce, MfRequests, MfForked
<1>2. MF!SentInOrder <=> \A c \in MF!Clients : MfSent(c)
  BY DEF MF!SentInOrder, MfSent
<1>3. MF!WholeFile <=> \A c \in MF!Clients : MfWhole(c)
  BY DEF MF!WholeFile, MfWhole
<1> QED
  BY <1>1, <1>2, <1>3, ZenonT(30) DEF MF!IInv

\* The same in the next state.
LEMMA MfParts2 ==
    ASSUME pc' \in [MF!Procs -> MfPoints], g' \in MfData, MfRequests', MF!ZombiesReaped',
           \A c \in MF!Clients : MfForked(c)' /\ MfSent(c)' /\ MfWhole(c)'
    PROVE  MF!IInv'
<1>1. MF!TypeOK'
  BY DEF MF!TypeOK, MfData, MfPoints
<1>2. MF!ForkedOnce'
  BY DEF MF!ForkedOnce, MfRequests, MfForked
<1>3. MF!SentInOrder'
  BY DEF MF!SentInOrder, MfSent
<1>4. MF!WholeFile'
  BY DEF MF!WholeFile, MfWhole
<1> QED
  BY <1>1, <1>2, <1>3, <1>4 DEF MF!IInv

\* Server, clients and children are different processes, each client with its child.
LEMMA MfProcs ==
    /\ MF!Server \in MF!Procs /\ MF!Server \notin MF!Clients /\ MF!Clients \subseteq MF!Procs
    /\ 0 \notin MF!Clients
    /\ \A c \in MF!Clients : /\ MF!Child(c) \in MF!Procs /\ MF!Child(c) \in MF!Children
                             /\ MF!Child(c) \notin MF!Clients /\ MF!Child(c) # MF!Server
    /\ \A c, d \in MF!Clients : MF!Child(c) = MF!Child(d) => c = d
BY FileAssumption DEF MF!Procs, MF!Children, MF!Child, MF!Clients, MF!Server

\* The types of the data.
LEMMA MfTypes ==
    ASSUME MF!IInv
    PROVE  /\ pc \in [MF!Procs -> MfPoints] /\ g \in MfData
           /\ g.requests \in Seq(MF!Clients) /\ g.req \in MF!Clients \cup {0}
           /\ g.serverQueue \in BOOLEAN /\ g.queue \in [MF!Clients -> Seq(MF!Messages)]
           /\ g.queues \in SUBSET MF!Clients /\ g.numSent \in [MF!Clients -> Nat]
           /\ g.got \in [MF!Clients -> Seq(MF!Messages)] /\ g.cut \in SUBSET MF!Clients
           /\ g.zombies \in SUBSET MF!Children /\ g.sigchld \in BOOLEAN
           /\ g.inHandler \in BOOLEAN /\ g.file \in [MF!Clients -> Nat \cup {MF!Missing}]
           /\ MfRequests /\ MF!ZombiesReaped
           /\ \A c \in MF!Clients : MfForked(c) /\ MfSent(c) /\ MfWhole(c)
<1>1. MF!TypeOK /\ MfRequests /\ MF!ZombiesReaped
      /\ \A c \in MF!Clients : MfForked(c) /\ MfSent(c) /\ MfWhole(c)
  BY MfParts
<1>2. g \in MfData /\ pc \in [MF!Procs -> MfPoints]
  BY <1>1 DEF MF!TypeOK, MfData, MfPoints
<1>3. /\ g.requests \in Seq(MF!Clients) /\ g.req \in MF!Clients \cup {0}
      /\ g.serverQueue \in BOOLEAN /\ g.queue \in [MF!Clients -> Seq(MF!Messages)]
      /\ g.queues \in SUBSET MF!Clients /\ g.numSent \in [MF!Clients -> Nat]
      /\ g.got \in [MF!Clients -> Seq(MF!Messages)] /\ g.cut \in SUBSET MF!Clients
      /\ g.zombies \in SUBSET MF!Children /\ g.sigchld \in BOOLEAN
      /\ g.inHandler \in BOOLEAN /\ g.file \in [MF!Clients -> Nat \cup {MF!Missing}]
  BY <1>2 DEF MfData
<1> QED
  BY <1>1, <1>2, <1>3

\* The state with new values of what the steps change.
MfState(requests, req, serverQueue, queue, queues, numSent, got, cut, zombies, sigchld, inHandler) ==
    [requests |-> requests, req |-> req, serverQueue |-> serverQueue, queue |-> queue,
     queues |-> queues, numSent |-> numSent, got |-> got, cut |-> cut, zombies |-> zombies,
     sigchld |-> sigchld, inHandler |-> inHandler, file |-> g.file, healthy |-> g.healthy]

\* Nothing is asked for or sent at first.
LEMMA MfInit ==
    ASSUME MF!Init
    PROVE  MF!IInv
<1>1. PICK file \in [MF!Clients -> Sizes], healthy \in BOOLEAN :
        /\ pc = [p \in MF!Clients \cup MF!Children \cup {MF!Server} |->
                    IF p \in MF!Children THEN "none" ELSE "start"]
        /\ g = [requests |-> <<>>, req |-> 0, serverQueue |-> FALSE,
                queue |-> [c \in MF!Clients |-> <<>>],
                queues |-> {}, numSent |-> [c \in MF!Clients |-> 0],
                got |-> [c \in MF!Clients |-> <<>>], cut |-> {}, zombies |-> {},
                sigchld |-> FALSE, inHandler |-> FALSE, file |-> file, healthy |-> healthy]
  BY ZenonT(30) DEF MF!Init
<1>2. file \in [MF!Clients -> Nat \cup {MF!Missing}]
  BY ZenonT(30), FileAssumption DEF MF!Missing
<1>3. pc \in [MF!Procs -> MfPoints]
  BY <1>1 DEF MF!Procs, MfPoints, MF!CPoints, MF!ChildPoints, MF!SPoints
<1>4. /\ g \in MfData
      /\ g.requests = <<>> /\ g.queues = {} /\ g.zombies = {} /\ g.cut = {}
      /\ \A c \in MF!Clients : g.queue[c] = <<>> /\ g.got[c] = <<>> /\ g.numSent[c] = 0
  BY <1>1, <1>2 DEF MfData
<1>5. pc[MF!Server] = "start" /\ \A c \in MF!Clients : pc[MF!Child(c)] = "none" /\ pc[c] = "start"
  BY <1>1, MfProcs, FileAssumption DEF MF!Children, MF!Child, MF!Clients, MF!Server
<1>6. MF!TypeOK
  BY <1>3, <1>4 DEF MF!TypeOK, MfData, MfPoints
<1>7. MfRequests /\ MF!ZombiesReaped
  BY <1>4, <1>5 DEF MfRequests, MF!ZombiesReaped
<1>8. ASSUME NEW c \in MF!Clients
      PROVE  MfForked(c) /\ MfSent(c) /\ MfWhole(c)
  <2>1. MfForked(c)
    BY <1>4, <1>5 DEF MfForked, MF!Requested
  <2>2. Len(g.got[c]) = 0 /\ Len(g.queue[c]) = 0
    BY <1>4
  <2>3. MfSent(c)
    BY <1>4, <1>5, <2>2 DEF MfSent, MF!Total
  <2>4. MfWhole(c)
    BY <1>4, <2>2 DEF MfWhole
  <2> QED
    BY <2>1, <2>3, <2>4
<1> QED
  BY <1>6, <1>7, <1>8, MfParts

\* What is sent to a client is not touched by a step that has nothing to do with it.
LEMMA MfSentKept ==
    ASSUME NEW c \in MF!Clients, MfSent(c), MfWhole(c),
           g'.got[c] = g.got[c], g'.queue[c] = g.queue[c], g'.numSent[c] = g.numSent[c],
           g'.file = g.file, c \in g'.queues <=> c \in g.queues, c \in g.cut => c \in g'.cut,
           pc'[MF!Child(c)] = pc[MF!Child(c)]
    PROVE  MfSent(c)' /\ MfWhole(c)'
<1>1. MF!Total(c)' = MF!Total(c) /\ (MF!Ended(c)' <=> MF!Ended(c))
  BY DEF MF!Total, MF!Ended
<1>2. \A i : MF!Message(c, i)' = MF!Message(c, i)
  BY DEF MF!Message
<1>3. MF!Message(c, MF!Total(c))' = MF!Message(c, MF!Total(c))
  BY <1>1 DEF MF!Message
<1>4. MfSent(c)'
  BY <1>1, <1>2, <1>3 DEF MfSent
<1>5. MfWhole(c)'
  BY DEF MfWhole
<1> QED
  BY <1>4, <1>5

\* The requests are not touched by a step that asks for nothing and forks nothing.
LEMMA MfForkedKept ==
    ASSUME MF!IInv, g'.requests = g.requests, g'.req = g.req,
           pc'[MF!Server] = "fork" => pc[MF!Server] = "fork",
           \A c \in MF!Clients :
               /\ pc[MF!Child(c)] = "none" => pc'[MF!Child(c)] = "none"
               /\ pc'[c] \in {"start", "request"} => pc[c] \in {"start", "request"}
               /\ pc'[c] = "start" => pc[c] = "start" /\ (c \in g'.queues => c \in g.queues)
    PROVE  MfRequests' /\ \A c \in MF!Clients : MfForked(c)'
<1>1. \A c : MF!Requested(c)' <=> MF!Requested(c)
  BY DEF MF!Requested
<1>2. MfRequests'
  <2>1. \A i, k \in 1 .. Len(g'.requests) : g'.requests[i] = g'.requests[k] => i = k
    BY MfTypes DEF MfRequests
  <2>2. pc'[MF!Server] = "fork" =>
            g'.req \in MF!Clients /\ pc'[MF!Child(g'.req)] = "none" /\ ~MF!Requested(g.req)'
    BY <1>1, MfTypes DEF MfRequests
  <2> QED
    BY <2>1, <2>2 DEF MfRequests, MF!Requested
<1>3. ASSUME NEW c \in MF!Clients
      PROVE  MfForked(c)'
  <2>1. MfForked(c)
    BY MfTypes
  <2> QED
    BY <1>1, <2>1 DEF MfForked
<1> QED
  BY <1>2, <1>3

\* A client whose end changes nothing else.
LEMMA MfClientGone ==
    ASSUME MF!IInv, NEW c \in MF!Clients, MF!CNoServer(c) \/ MF!CKilled(c)
    PROVE  MF!IInv'
<1>1. PICK to \in {"exit", "killed"} : pc' = [pc EXCEPT ![c] = to] /\ g' = g /\ to \in MfPoints
  BY DEF MF!CNoServer, MF!CKilled, MF!Go, MfPoints, MF!CPoints
<1>2. /\ pc' \in [MF!Procs -> MfPoints] /\ pc'[MF!Server] = pc[MF!Server]
      /\ \A d \in MF!Clients : /\ pc'[MF!Child(d)] = pc[MF!Child(d)]
                               /\ pc'[d] = IF d = c THEN to ELSE pc[d]
  BY <1>1, MfTypes, MfProcs
<1>3. MfRequests' /\ \A d \in MF!Clients : MfForked(d)'
  BY <1>1, <1>2, MfForkedKept
<1>4. ASSUME NEW d \in MF!Clients
      PROVE  MfSent(d)' /\ MfWhole(d)'
  <2>1. MfSent(d) /\ MfWhole(d)
    BY MfTypes
  <2> QED
    BY <1>1, <1>2, <2>1, MfSentKept
<1>5. MF!ZombiesReaped'
  BY <1>1, <1>2, MfTypes DEF MF!ZombiesReaped
<1> QED
  BY <1>1, <1>2, <1>3, <1>4, <1>5, MfTypes, MfParts2

\* A client that removes its queue and ends.
LEMMA MfExit ==
    ASSUME MF!IInv, NEW c \in MF!Clients, NEW from, MF!Exit(c, from)
    PROVE  MF!IInv'
<1> DEFINE queue == [g.queue EXCEPT ![c] = <<>>]
<1>1. pc' = [pc EXCEPT ![c] = "exit"] /\ "exit" \in MfPoints
  BY DEF MF!Exit, MF!Go, MfPoints, MF!CPoints
<1>2. /\ pc' \in [MF!Procs -> MfPoints] /\ pc'[MF!Server] = pc[MF!Server]
      /\ \A d \in MF!Clients : /\ pc'[MF!Child(d)] = pc[MF!Child(d)]
                               /\ pc'[d] = IF d = c THEN "exit" ELSE pc[d]
  BY <1>1, MfTypes, MfProcs
<1>3. g' = MfState(g.requests, g.req, g.serverQueue, queue, g.queues \ {c}, g.numSent, g.got, g.cut,
                   g.zombies, g.sigchld, g.inHandler)
  BY MfTypes, ZenonT(30) DEF MF!Exit, MfState, MfData
<1>4. /\ queue \in [MF!Clients -> Seq(MF!Messages)] /\ queue[c] = <<>>
      /\ \A d \in MF!Clients : d # c => queue[d] = g.queue[d]
  BY MfTypes
<1> HIDE DEF queue
<1>5. /\ g' \in MfData /\ g'.requests = g.requests /\ g'.req = g.req /\ g'.queue = queue
      /\ g'.queues = g.queues \ {c} /\ g'.numSent = g.numSent /\ g'.got = g.got /\ g'.cut = g.cut
      /\ g'.zombies = g.zombies /\ g'.sigchld = g.sigchld /\ g'.inHandler = g.inHandler
      /\ g'.file = g.file
  BY <1>3, <1>4, MfTypes DEF MfState, MfData
<1>6. MfRequests' /\ \A d \in MF!Clients : MfForked(d)'
  BY <1>2, <1>5, MfForkedKept
<1>7. ASSUME NEW d \in MF!Clients
      PROVE  MfSent(d)' /\ MfWhole(d)'
  <2>1. CASE d # c
    <3>1. MfSent(d) /\ MfWhole(d)
      BY MfTypes
    <3>2. g'.queue[d] = g.queue[d] /\ (d \in g'.queues <=> d \in g.queues)
      BY <1>4, <1>5, <2>1
    <3> QED
      BY <1>2, <1>5, <3>1, <3>2, MfSentKept
  <2>2. CASE d = c
    <3>1. MfSent(c) /\ MfWhole(c) /\ g.got[c] \in Seq(MF!Messages) /\ g.queue[c] \in Seq(MF!Messages)
      BY MfTypes
    <3>2. g'.queue[c] = <<>> /\ g'.got[c] = g.got[c] /\ c \notin g'.queues
      BY <1>4, <1>5
    <3>3. MF!Total(c) = 0 => MF!Total(c)' = 0
      <4>1. Len(g.got[c]) \in Nat /\ Len(g.queue[c]) \in Nat
        BY <3>1
      <4>2. Len(g'.queue[c]) = 0
        BY <3>2
      <4>3. Len(g'.got[c]) = Len(g.got[c])
        BY <3>2
      <4>4. \A m, n \in Nat : m + n = 0 => m = 0 /\ m + 0 = 0
        OBVIOUS
      <4>5. MF!Total(c)' = Len(g.got[c]) + 0
        BY <4>2, <4>3 DEF MF!Total
      <4> QED
        BY <4>1, <4>4, <4>5, ZenonT(30) DEF MF!Total
    <3>4. MfSent(c)'
      BY <1>2, <1>5, <3>1, <3>2, <3>3 DEF MfSent
    <3>5. MfWhole(c)'
      BY <1>5, <3>1, <3>2 DEF MfWhole
    <3> QED
      BY <2>2, <3>4, <3>5
  <2> QED
    BY <2>1, <2>2
<1>8. MF!ZombiesReaped'
  BY <1>2, <1>5, MfTypes DEF MF!ZombiesReaped
<1> QED
  BY <1>2, <1>5, <1>6, <1>7, <1>8, MfParts2

\* A client makes its queue.
LEMMA MfCreate ==
    ASSUME MF!IInv, NEW c \in MF!Clients, MF!CCreate(c)
    PROVE  MF!IInv'
<1>1. pc[c] = "start" /\ pc' = [pc EXCEPT ![c] = "request"] /\ "request" \in MfPoints
  BY DEF MF!CCreate, MF!Go, MF!At, MfPoints, MF!CPoints
<1>2. /\ pc' \in [MF!Procs -> MfPoints] /\ pc'[MF!Server] = pc[MF!Server]
      /\ \A d \in MF!Clients : /\ pc'[MF!Child(d)] = pc[MF!Child(d)]
                               /\ pc'[d] = IF d = c THEN "request" ELSE pc[d]
  BY <1>1, MfTypes, MfProcs
<1>3. g' = MfState(g.requests, g.req, g.serverQueue, g.queue, g.queues \cup {c}, g.numSent, g.got,
                   g.cut, g.zombies, g.sigchld, g.inHandler)
  BY MfTypes, ZenonT(30) DEF MF!CCreate, MfState, MfData
<1>4. /\ g' \in MfData /\ g'.requests = g.requests /\ g'.req = g.req /\ g'.queue = g.queue
      /\ g'.queues = g.queues \cup {c} /\ g'.numSent = g.numSent /\ g'.got = g.got /\ g'.cut = g.cut
      /\ g'.zombies = g.zombies /\ g'.sigchld = g.sigchld /\ g'.inHandler = g.inHandler
      /\ g'.file = g.file
  BY <1>3, MfTypes DEF MfState, MfData
<1>5. MfRequests' /\ \A d \in MF!Clients : MfForked(d)'
  BY <1>1, <1>2, <1>4, MfForkedKept
<1>6. ASSUME NEW d \in MF!Clients
      PROVE  MfSent(d)' /\ MfWhole(d)'
  <2>1. CASE d # c
    <3>1. MfSent(d) /\ MfWhole(d)
      BY MfTypes
    <3>2. d \in g'.queues <=> d \in g.queues
      BY <1>4, <2>1
    <3> QED
      BY <1>2, <1>4, <3>1, <3>2, MfSentKept
  <2>2. CASE d = c
    <3>1. MfSent(c) /\ MfWhole(c) /\ MfForked(c)
      BY MfTypes
    <3>2. pc'[MF!Child(c)] = "none" /\ MF!Total(c) = 0 /\ g.numSent[c] = 0
      BY <1>1, <1>2, <3>1 DEF MfForked, MfSent
    <3>3. MF!Total(c)' = 0 /\ g'.numSent[c] = 0 /\ ~MF!Ended(c)' /\ c \in g'.queues
      BY ZenonT(30), <1>4, <3>2 DEF MF!Total, MF!Ended
    <3>4. MfSent(c)'
      BY <3>2, <3>3 DEF MfSent
    <3>5. MfWhole(c)'
      BY <1>4, <3>1 DEF MfWhole
    <3> QED
      BY <2>2, <3>4, <3>5
  <2> QED
    BY <2>1, <2>2
<1>7. MF!ZombiesReaped'
  BY <1>2, <1>4, MfTypes DEF MF!ZombiesReaped
<1> QED
  BY <1>2, <1>4, <1>5, <1>6, <1>7, MfParts2

\* Two sequences one after the other, and what becomes of them when a message is put at the
\* end of the second, or moved from the second to the first.
MfAt(u, v, i) == IF i <= Len(u) THEN u[i] ELSE v[i - Len(u)]

\* msgsnd() adds one message behind those received and queued.
LEMMA MfQueued ==
    ASSUME NEW u \in Seq(MF!Messages), NEW v \in Seq(MF!Messages), NEW m \in MF!Messages
    PROVE  /\ Len(u) + Len(v) \in Nat
           /\ Len(u) + Len(Append(v, m)) = Len(u) + Len(v) + 1
           /\ \A i \in 1 .. Len(u) + Len(v) : MfAt(u, Append(v, m), i) = MfAt(u, v, i)
           /\ MfAt(u, Append(v, m), Len(u) + Len(v) + 1) = m
<1>1. Len(u) \in Nat /\ Len(v) \in Nat /\ Len(Append(v, m)) = Len(v) + 1
  OBVIOUS
<1>2. /\ \A i \in 1 .. Len(v) : Append(v, m)[i] = v[i]
      /\ Append(v, m)[Len(v) + 1] = m
  OBVIOUS
<1>3. ASSUME NEW i \in 1 .. Len(u) + Len(v)
      PROVE  MfAt(u, Append(v, m), i) = MfAt(u, v, i)
  <2>1. CASE i <= Len(u)
    BY <2>1 DEF MfAt
  <2>2. CASE ~(i <= Len(u))
    <3>1. i - Len(u) \in 1 .. Len(v)
      BY <1>1, <2>2
    <3> QED
      BY <1>2, <2>2, <3>1 DEF MfAt
  <2> QED
    BY <2>1, <2>2
<1>4. MfAt(u, Append(v, m), Len(u) + Len(v) + 1) = m
  <2>1. ~(Len(u) + Len(v) + 1 <= Len(u)) /\ Len(u) + Len(v) + 1 - Len(u) = Len(v) + 1
    BY <1>1
  <2> QED
    BY <1>2, <2>1 DEF MfAt
<1> QED
  BY <1>1, <1>3, <1>4

\* msgrcv() moves the oldest message and changes no position.
LEMMA MfMoved ==
    ASSUME NEW u \in Seq(MF!Messages), NEW v \in Seq(MF!Messages), v # <<>>
    PROVE  /\ Head(v) \in MF!Messages /\ Tail(v) \in Seq(MF!Messages) /\ Append(u, Head(v)) \in Seq(MF!Messages)
           /\ Len(Append(u, Head(v))) = Len(u) + 1 /\ Len(u) \in Nat /\ Len(v) >= 1
           /\ Len(Append(u, Head(v))) + Len(Tail(v)) = Len(u) + Len(v)
           /\ \A i \in 1 .. Len(u) + Len(v) :
                  MfAt(Append(u, Head(v)), Tail(v), i) = MfAt(u, v, i)
<1>1. /\ Len(u) \in Nat /\ Len(v) \in Nat /\ Len(v) >= 1 /\ Len(Tail(v)) = Len(v) - 1
      /\ Head(v) = v[1] /\ Head(v) \in MF!Messages /\ Tail(v) \in Seq(MF!Messages)
  OBVIOUS
<1>2. /\ Len(Append(u, Head(v))) = Len(u) + 1 /\ Append(u, Head(v)) \in Seq(MF!Messages)
      /\ \A i \in 1 .. Len(u) : Append(u, Head(v))[i] = u[i]
      /\ Append(u, Head(v))[Len(u) + 1] = Head(v)
  BY <1>1
<1>3. \A i \in 1 .. Len(v) - 1 : Tail(v)[i] = v[i + 1]
  OBVIOUS
<1>4. ASSUME NEW i \in 1 .. Len(u) + Len(v)
      PROVE  MfAt(Append(u, Head(v)), Tail(v), i) = MfAt(u, v, i)
  <2>1. CASE i <= Len(u)
    BY <1>1, <1>2, <2>1 DEF MfAt
  <2>2. CASE i = Len(u) + 1
    <3>1. i <= Len(u) + 1 /\ ~(i <= Len(u)) /\ i - Len(u) = 1
      BY <1>1, <2>2
    <3> QED
      BY <1>1, <1>2, <2>2, <3>1 DEF MfAt
  <2>3. CASE i > Len(u) + 1
    <3>1. /\ ~(i <= Len(u) + 1) /\ ~(i <= Len(u)) /\ i - (Len(u) + 1) \in 1 .. Len(v) - 1
          /\ i - (Len(u) + 1) + 1 = i - Len(u)
      BY <1>1, <2>3
    <3> QED
      BY <1>2, <1>3, <3>1 DEF MfAt
  <2> QED
    BY <1>1, <2>1, <2>2, <2>3
<1> QED
  BY <1>1, <1>2, <1>4

\* The messages of the protocol.
LEMMA MfMessages ==
    /\ \A n \in Nat : MF!Data(n) \in MF!Messages /\ MF!Data(n).mtype = "RESP_MT_DATA"
    /\ \A t \in {"RESP_MT_END", "RESP_MT_FAILURE"} :
           MF!NoData(t) \in MF!Messages /\ MF!NoData(t).mtype = t
BY DEF MF!Data, MF!NoData, MF!Messages

\* A client takes the next message from its queue.
LEMMA MfReceive ==
    ASSUME MF!IInv, NEW c \in MF!Clients, MF!CReceive(c)
    PROVE  MF!IInv'
<1>0. PICK u \in Seq(MF!Messages), v \in Seq(MF!Messages) : u = g.got[c] /\ v = g.queue[c]
  BY MfTypes
<1> DEFINE queue == [g.queue EXCEPT ![c] = Tail(v)]
           got == [g.got EXCEPT ![c] = Append(u, Head(v))]
<1>1. PICK to \in {"receive", "remove"} : pc[c] = "receive" /\ pc' = [pc EXCEPT ![c] = to]
  BY ZenonT(30) DEF MF!CReceive, MF!Go, MF!At
<1>2. /\ pc' \in [MF!Procs -> MfPoints] /\ pc'[MF!Server] = pc[MF!Server]
      /\ \A d \in MF!Clients : /\ pc'[MF!Child(d)] = pc[MF!Child(d)]
                               /\ pc'[d] = IF d = c THEN to ELSE pc[d]
  <2>1. to \in MfPoints
    BY DEF MfPoints, MF!CPoints
  <2> QED
    BY <1>1, <2>1, MfTypes, MfProcs
<1>3. g' = MfState(g.requests, g.req, g.serverQueue, queue, g.queues, g.numSent, got, g.cut,
                   g.zombies, g.sigchld, g.inHandler)
  BY <1>0, MfTypes, ZenonT(30) DEF MF!CReceive, MfState, MfData
<1>4. v # <<>>
  BY <1>0 DEF MF!CReceive
<1>5. /\ Head(v) \in MF!Messages /\ Tail(v) \in Seq(MF!Messages)
      /\ Append(u, Head(v)) \in Seq(MF!Messages) /\ Len(u) \in Nat /\ Len(v) >= 1
      /\ Len(Append(u, Head(v))) = Len(u) + 1
      /\ Len(Append(u, Head(v))) + Len(Tail(v)) = Len(u) + Len(v)
      /\ \A i \in 1 .. Len(u) + Len(v) :
             MfAt(Append(u, Head(v)), Tail(v), i) = MfAt(u, v, i)
  BY <1>4, MfMoved
<1>6. /\ queue \in [MF!Clients -> Seq(MF!Messages)] /\ queue[c] = Tail(v)
      /\ \A d \in MF!Clients : d # c => queue[d] = g.queue[d]
  BY <1>5, MfTypes
<1>7. /\ got \in [MF!Clients -> Seq(MF!Messages)] /\ got[c] = Append(u, Head(v))
      /\ \A d \in MF!Clients : d # c => got[d] = g.got[d]
  BY <1>5, MfTypes
<1> HIDE DEF queue, got
<1>8. /\ g' \in MfData /\ g'.requests = g.requests /\ g'.req = g.req /\ g'.queue = queue
      /\ g'.queues = g.queues /\ g'.numSent = g.numSent /\ g'.got = got /\ g'.cut = g.cut
      /\ g'.zombies = g.zombies /\ g'.sigchld = g.sigchld /\ g'.inHandler = g.inHandler
      /\ g'.file = g.file
  BY <1>3, <1>6, <1>7, MfTypes DEF MfState, MfData
<1>9. MfRequests' /\ \A d \in MF!Clients : MfForked(d)'
  BY <1>1, <1>2, <1>8, MfForkedKept
<1>10. PICK ns \in Nat, e \in {0, 1} :
          /\ MfSent(c) /\ MfWhole(c) /\ c \in g.queues /\ g.numSent[c] = ns
          /\ e = IF MF!Ended(c) THEN 1 ELSE 0
  BY ZenonT(30), <1>0, <1>4, MfTypes DEF MfSent
<1>11. PICK n \in Nat : /\ n = Len(u) + Len(v) /\ n >= Len(u) + 1
                        /\ MF!Total(c) = n /\ MF!Total(c)' = n
  <2>1. Len(u) + Len(v) \in Nat /\ Len(u) + Len(v) >= Len(u) + 1
    BY <1>5
  <2>2. MF!Total(c) = Len(u) + Len(v)
    BY <1>0 DEF MF!Total
  <2>3. MF!Total(c)' = Len(u) + Len(v)
    BY ZenonT(30), <1>5, <1>6, <1>7, <1>8 DEF MF!Total
  <2> QED
    BY <2>1, <2>2, <2>3
<1>12. \A i \in 1 .. n : MF!Message(c, i)' = MF!Message(c, i)
  <2>1. ASSUME NEW i \in 1 .. n
        PROVE  MF!Message(c, i)' = MF!Message(c, i)
    <3>1. MF!Message(c, i) = MfAt(u, v, i)
      BY <1>0 DEF MF!Message, MfAt
    <3>2. MF!Message(c, i)' = MfAt(Append(u, Head(v)), Tail(v), i)
      BY ZenonT(30), <1>6, <1>7, <1>8 DEF MF!Message, MfAt
    <3> QED
      BY <1>5, <1>11, <3>1, <3>2
  <2> QED
    BY <2>1
<1>13. n = ns + e /\ ns <= n /\ Len(u) <= ns
  BY <1>5, <1>10, <1>11 DEF MfSent
<1>14. MF!Message(c, MF!Total(c)) = MF!Message(c, n) /\ MF!Message(c, MF!Total(c))' = MF!Message(c, n)
  <2>1. n \in 1 .. n
    BY <1>5, <1>11
  <2>2. MF!Message(c, MF!Total(c))' = MF!Message(c, n)'
    BY <1>11 DEF MF!Message
  <2> QED
    BY <1>11, <1>12, <2>1, <2>2
<1>15. MfSent(c)'
  <2>1. MF!Ended(c)' <=> MF!Ended(c)
    BY <1>2 DEF MF!Ended
  <2>2. \A i \in 1 .. ns : MF!Message(c, i)' = MF!Data(i)
    <3>1. \A i \in 1 .. ns : i \in 1 .. n
      BY <1>13
    <3> QED
      BY <1>10, <1>12, <3>1 DEF MfSent
  <2> QED
    BY <1>2, <1>8, <1>10, <1>11, <1>14, <2>1, <2>2 DEF MfSent
<1>16. MfWhole(c)'
  <2>1. /\ g'.got[c] = Append(u, Head(v)) /\ Len(g'.got[c]) = Len(u) + 1
        /\ \A i \in 1 .. Len(u) + 1 : g'.got[c][i] = MF!Message(c, i)
    <3>1. g'.got[c] = Append(u, Head(v))
      BY <1>7, <1>8
    <3>2. \A i \in 1 .. Len(u) + 1 : i <= Len(g'.got[c])
      BY <1>5, <3>1
    <3>3. \A i \in 1 .. Len(u) + 1 : MF!Message(c, i)' = g'.got[c][i]
      BY <3>2 DEF MF!Message
    <3>4. \A i \in 1 .. Len(u) + 1 : i \in 1 .. n
      BY <1>5, <1>11
    <3> QED
      BY <1>5, <1>12, <3>1, <3>3, <3>4
  <2>2. \A i \in 1 .. Len(u) : g'.got[c][i] = MF!Data(i)
    <3>1. \A i \in 1 .. Len(u) : i \in 1 .. Len(u) + 1 /\ i \in 1 .. ns
      BY <1>5, <1>13
    <3> QED
      BY <1>10, <2>1, <3>1 DEF MfSent
  <2>3. CASE Len(u) + 1 <= ns
    <3>1. Len(u) + 1 \in 1 .. ns /\ Len(u) + 1 \in 1 .. Len(u) + 1 /\ Len(u) + 1 \in Nat
      BY <1>5, <1>10, <2>3
    <3>2. g'.got[c][Len(u) + 1] = MF!Data(Len(u) + 1)
      BY <1>10, <2>1, <3>1 DEF MfSent
    <3>3. g'.got[c][Len(u) + 1].mtype = "RESP_MT_DATA"
      BY <3>1, <3>2, MfMessages
    <3> QED
      BY <1>5, <2>1, <2>2, <3>3 DEF MfWhole
  <2>4. CASE ~(Len(u) + 1 <= ns)
    <3>1. Len(u) = ns /\ e = 1 /\ n = Len(u) + 1
      BY <1>5, <1>11, <1>13, <2>4
    <3>2. g'.got[c][Len(u) + 1] = MF!Message(c, MF!Total(c))
      BY <1>5, <1>11, <2>1, <3>1
    <3>3. \/ /\ g'.got[c][Len(u) + 1].mtype = "RESP_MT_END"
             /\ Len(u) = g.file[c] \/ c \in g.cut
          \/ g'.got[c][Len(u) + 1].mtype = "RESP_MT_FAILURE" /\ Len(u) = 0
      BY <1>10, <3>1, <3>2, MfMessages DEF MfSent
    <3> QED
      BY <1>5, <1>8, <2>1, <2>2, <3>3 DEF MfWhole
  <2> QED
    BY <2>3, <2>4
<1>17. ASSUME NEW d \in MF!Clients
       PROVE  MfSent(d)' /\ MfWhole(d)'
  <2>1. CASE d # c
    <3>1. MfSent(d) /\ MfWhole(d)
      BY MfTypes
    <3>2. g'.queue[d] = g.queue[d] /\ g'.got[d] = g.got[d]
      BY <1>6, <1>7, <1>8, <2>1
    <3> QED
      BY <1>2, <1>8, <3>1, <3>2, MfSentKept
  <2> QED
    BY <1>15, <1>16, <2>1
<1>18. MF!ZombiesReaped'
  BY <1>2, <1>8, MfTypes DEF MF!ZombiesReaped
<1> QED
  BY <1>2, <1>8, <1>9, <1>17, <1>18, MfParts2

\* A client sends its request.
LEMMA MfRequest ==
    ASSUME MF!IInv, NEW c \in MF!Clients, MF!CRequest(c)
    PROVE  MF!IInv'
<1>1. CASE MF!Exit(c, "request")
  BY <1>1, MfExit
<1>2. CASE MF!Go(c, "request", "receive") /\ g' = [g EXCEPT !.requests = Append(@, c)]
  <2>1. pc[c] = "request" /\ pc' = [pc EXCEPT ![c] = "receive"] /\ "receive" \in MfPoints
    BY <1>2 DEF MF!Go, MF!At, MfPoints, MF!CPoints
  <2>2. /\ pc' \in [MF!Procs -> MfPoints] /\ pc'[MF!Server] = pc[MF!Server]
        /\ \A d \in MF!Clients : /\ pc'[MF!Child(d)] = pc[MF!Child(d)]
                                 /\ pc'[d] = IF d = c THEN "receive" ELSE pc[d]
    BY <2>1, MfTypes, MfProcs
  <2>3. g' = MfState(Append(g.requests, c), g.req, g.serverQueue, g.queue, g.queues, g.numSent, g.got,
                     g.cut, g.zombies, g.sigchld, g.inHandler)
    BY <1>2, MfTypes, ZenonT(30) DEF MfState, MfData
  <2>4. /\ g' \in MfData /\ g'.requests = Append(g.requests, c) /\ g'.req = g.req
        /\ g'.queue = g.queue /\ g'.queues = g.queues /\ g'.numSent = g.numSent /\ g'.got = g.got
        /\ g'.cut = g.cut /\ g'.zombies = g.zombies /\ g'.sigchld = g.sigchld
        /\ g'.inHandler = g.inHandler /\ g'.file = g.file
    BY <2>3, MfTypes DEF MfState, MfData
  <2>5. PICK n \in Nat :
          /\ n = Len(g.requests) /\ Len(g'.requests) = n + 1
          /\ \A i \in 1 .. n : g'.requests[i] = g.requests[i]
          /\ g'.requests[n + 1] = c
    <3>1. PICK r \in Seq(MF!Clients) : r = g.requests
      BY MfTypes
    <3>2. PICK n \in Nat : n = Len(r)
      OBVIOUS
    <3>3. /\ Len(Append(r, c)) = n + 1 /\ Append(r, c)[n + 1] = c
          /\ \A i \in 1 .. n : Append(r, c)[i] = r[i]
      BY <3>2
    <3> QED
      BY <2>4, <3>1, <3>2, <3>3
  <2>6. /\ pc[MF!Child(c)] = "none" /\ (pc[MF!Server] = "fork" => g.req # c)
        /\ \A i \in 1 .. n : g.requests[i] # c
    <3>1. MfForked(c)
      BY MfTypes
    <3> QED
      BY <2>1, <2>5, <3>1 DEF MfForked, MF!Requested
  <2>7. \A i \in 1 .. n + 1 : i \in 1 .. n \/ i = n + 1
    OBVIOUS
  <2>8. \A d \in MF!Clients : MF!Requested(d)' => MF!Requested(d) \/ d = c
    BY <2>5, <2>7 DEF MF!Requested
  <2>9. MfRequests'
    <3>1. ASSUME NEW i \in 1 .. n + 1, NEW k \in 1 .. n + 1, g'.requests[i] = g'.requests[k]
          PROVE  i = k
      <4>1. CASE i \in 1 .. n /\ k \in 1 .. n
        BY ZenonT(30), <2>5, <3>1, <4>1, MfTypes DEF MfRequests
      <4>2. CASE i = n + 1 \/ k = n + 1
        BY <2>5, <2>6, <2>7, <3>1, <4>2
      <4> QED
        BY <2>7, <4>1, <4>2
    <3>2. pc'[MF!Server] = "fork" =>
              g'.req \in MF!Clients /\ pc'[MF!Child(g'.req)] = "none" /\ ~MF!Requested(g.req)'
      BY <2>2, <2>4, <2>6, <2>8, MfTypes DEF MfRequests
    <3> QED
      BY <2>4, <2>5, <3>1, <3>2 DEF MfRequests, MF!Requested
  <2>10. ASSUME NEW d \in MF!Clients
         PROVE  MfForked(d)' /\ MfSent(d)' /\ MfWhole(d)'
    <3>1. MfForked(d) /\ MfSent(d) /\ MfWhole(d)
      BY MfTypes
    <3>2. MfSent(d)' /\ MfWhole(d)'
      BY <2>2, <2>4, <3>1, MfSentKept
    <3>3. MfForked(d)'
      BY <2>2, <2>4, <2>6, <2>8, <3>1 DEF MfForked
    <3> QED
      BY <3>2, <3>3
  <2>11. MF!ZombiesReaped'
    BY <2>2, <2>4, MfTypes DEF MF!ZombiesReaped
  <2> QED
    BY <2>2, <2>4, <2>9, <2>10, <2>11, MfParts2
<1> QED
  BY <1>1, <1>2 DEF MF!CRequest

\* A child takes a step from one point to another: what is left to show is what it sends.
LEMMA MfChild ==
    ASSUME MF!IInv, NEW c \in MF!Clients, NEW from, NEW to \in MF!ChildPoints, from # "none",
           MF!Go(MF!Child(c), from, to)
    PROVE  /\ pc[MF!Child(c)] = from /\ pc'[MF!Child(c)] = to
           /\ pc' \in [MF!Procs -> MfPoints] /\ pc'[MF!Server] = pc[MF!Server]
           /\ \A d \in MF!Clients : /\ pc'[d] = pc[d]
                                    /\ d # c => pc'[MF!Child(d)] = pc[MF!Child(d)]
                                    /\ pc[MF!Child(d)] = "none" => pc'[MF!Child(d)] = "none"
<1>1. pc[MF!Child(c)] = from /\ pc' = [pc EXCEPT ![MF!Child(c)] = to] /\ to \in MfPoints
  BY DEF MF!Go, MF!At, MfPoints
<1>2. pc'[MF!Child(c)] = to /\ pc' \in [MF!Procs -> MfPoints] /\ pc'[MF!Server] = pc[MF!Server]
  BY <1>1, MfTypes, MfProcs
<1>3. \A d \in MF!Clients : /\ pc'[d] = pc[d]
                            /\ d # c => pc'[MF!Child(d)] = pc[MF!Child(d)]
  BY <1>1, MfTypes, MfProcs
<1> QED
  BY <1>1, <1>2, <1>3

\* A step of one child that leaves the other processes, the requests and the
\* queues alone keeps the invariant.
LEMMA MfChildKeeps ==
    ASSUME MF!IInv, NEW c \in MF!Clients,
           pc' \in [MF!Procs -> MfPoints], pc'[MF!Server] = pc[MF!Server],
           \A d \in MF!Clients : /\ pc'[d] = pc[d]
                                 /\ d # c => pc'[MF!Child(d)] = pc[MF!Child(d)]
                                 /\ pc[MF!Child(d)] = "none" => pc'[MF!Child(d)] = "none",
           g' \in MfData, g'.requests = g.requests, g'.req = g.req, g'.queues = g.queues,
           g'.got = g.got, g'.file = g.file, g.cut \subseteq g'.cut,
           \A d \in MF!Clients : d # c => g'.queue[d] = g.queue[d] /\ g'.numSent[d] = g.numSent[d],
           MF!ZombiesReaped', MfSent(c)'
    PROVE  MF!IInv'
<1>1. MfRequests' /\ \A d \in MF!Clients : MfForked(d)'
  BY MfForkedKept
<1>2. ASSUME NEW d \in MF!Clients
      PROVE  MfSent(d)' /\ MfWhole(d)'
  <2>1. MfSent(d) /\ MfWhole(d)
    BY MfTypes
  <2>2. CASE d # c
    <3>1. (d \in g'.queues <=> d \in g.queues) /\ (d \in g.cut => d \in g'.cut)
      OBVIOUS
    <3> QED
      BY <2>1, <2>2, <3>1, MfSentKept
  <2>3. MfWhole(d)'
    BY <2>1 DEF MfWhole
  <2> QED
    BY <2>2, <2>3
<1> QED
  BY <1>1, <1>2, MfParts2

\* A child puts a message into the queue of its client, if there is one still.
LEMMA MfSends ==
    ASSUME MF!IInv, NEW c \in MF!Clients, NEW m \in MF!Messages,
           g'.got = g.got, g'.queue[c] = MF!Sent(c, m)
    PROVE  /\ c \notin g.queues => g'.queue[c] = <<>>
           /\ c \in g.queues =>
                  \E n \in Nat : /\ MF!Total(c) = n /\ MF!Total(c)' = n + 1
                                 /\ \A i \in 1 .. n : MF!Message(c, i)' = MF!Message(c, i)
                                 /\ MF!Message(c, n + 1)' = m
                                 /\ MF!Message(c, MF!Total(c))' = m
<1>0. PICK u \in Seq(MF!Messages), v \in Seq(MF!Messages) : u = g.got[c] /\ v = g.queue[c]
  BY MfTypes
<1>1. CASE c \notin g.queues
  <2>1. MfSent(c)
    BY MfTypes
  <2> QED
    BY <1>1, <2>1 DEF MfSent, MF!Sent
<1>2. CASE c \in g.queues
  <2>1. g'.queue[c] = Append(v, m) /\ g'.got[c] = u
    BY <1>0, <1>2 DEF MF!Sent
  <2>2. /\ Len(u) + Len(v) \in Nat
        /\ Len(u) + Len(Append(v, m)) = Len(u) + Len(v) + 1
        /\ \A i \in 1 .. Len(u) + Len(v) : MfAt(u, Append(v, m), i) = MfAt(u, v, i)
        /\ MfAt(u, Append(v, m), Len(u) + Len(v) + 1) = m
    BY MfQueued
  <2>3. PICK n \in Nat : n = Len(u) + Len(v)
    BY <2>2
  <2>4. MF!Total(c) = n /\ MF!Total(c)' = n + 1
    BY ZenonT(30), <1>0, <2>1, <2>2, <2>3 DEF MF!Total
  <2>5. /\ \A i : MF!Message(c, i) = MfAt(u, v, i)
        /\ \A i : MF!Message(c, i)' = MfAt(u, Append(v, m), i)
    BY <1>0, <2>1 DEF MF!Message, MfAt
  <2>6. MF!Message(c, MF!Total(c))' = MF!Message(c, n + 1)'
    BY <2>4 DEF MF!Message
  <2> QED
    BY <1>2, <2>2, <2>3, <2>4, <2>5, <2>6
<1> QED
  BY <1>1, <1>2

\* serveRequest() opens the file, or tells the client that it cannot.
LEMMA MfOpen ==
    ASSUME MF!IInv, NEW c \in MF!Clients, MF!OpenFile(c) \/ MF!SendFailure(c)
    PROVE  MF!IInv'
<1>0. MfSent(c) /\ g.numSent[c] = 0 /\ pc[MF!Child(c)] = "open" /\ MF!Total(c) = 0
  <2>1. MfSent(c) /\ pc[MF!Child(c)] = "open"
    BY MfTypes DEF MF!OpenFile, MF!SendFailure, MF!Go, MF!At
  <2> QED
    BY <2>1 DEF MfSent
<1>1. CASE MF!OpenFile(c)
  <2>1. g' = g /\ MF!Go(MF!Child(c), "open", "read") /\ "read" \in MF!ChildPoints
    BY <1>1 DEF MF!OpenFile, MF!ChildPoints
  <2>2. /\ pc'[MF!Child(c)] = "read"
        /\ pc' \in [MF!Procs -> MfPoints] /\ pc'[MF!Server] = pc[MF!Server]
        /\ \A d \in MF!Clients : /\ pc'[d] = pc[d]
                                 /\ d # c => pc'[MF!Child(d)] = pc[MF!Child(d)]
                                 /\ pc[MF!Child(d)] = "none" => pc'[MF!Child(d)] = "none"
    BY <2>1, MfChild
  <2>3. MF!Total(c)' = 0 /\ ~MF!Ended(c)'
    BY ZenonT(30), <1>0, <2>1, <2>2 DEF MF!Total, MF!Ended
  <2>4. MfSent(c)'
    BY <1>0, <2>1, <2>2, <2>3 DEF MfSent
  <2>5. MF!ZombiesReaped'
    BY <2>1, <2>2, MfTypes DEF MF!ZombiesReaped
  <2> QED
    BY ZenonT(30), <2>1, <2>2, <2>4, <2>5, MfTypes, MfChildKeeps
<1>2. CASE MF!SendFailure(c)
  <2> DEFINE m == MF!NoData("RESP_MT_FAILURE")
             queue == [g.queue EXCEPT ![c] = MF!Sent(c, m)]
  <2>1. MF!Go(MF!Child(c), "open", "exit") /\ "exit" \in MF!ChildPoints
    BY <1>2 DEF MF!SendFailure, MF!ChildPoints
  <2>2. /\ pc'[MF!Child(c)] = "exit"
        /\ pc' \in [MF!Procs -> MfPoints] /\ pc'[MF!Server] = pc[MF!Server]
        /\ \A d \in MF!Clients : /\ pc'[d] = pc[d]
                                 /\ d # c => pc'[MF!Child(d)] = pc[MF!Child(d)]
                                 /\ pc[MF!Child(d)] = "none" => pc'[MF!Child(d)] = "none"
    BY <2>1, MfChild
  <2>3. g' = MfState(g.requests, g.req, g.serverQueue, queue, g.queues, g.numSent, g.got, g.cut,
                     g.zombies, g.sigchld, g.inHandler)
    BY <1>2, MfTypes, ZenonT(30) DEF MF!SendFailure, MfState, MfData
  <2>4. m \in MF!Messages
    BY MfMessages
  <2> HIDE DEF m
  <2>5. MF!Sent(c, m) \in Seq(MF!Messages)
    BY <2>4, MfTypes DEF MF!Sent
  <2>6. /\ queue \in [MF!Clients -> Seq(MF!Messages)] /\ queue[c] = MF!Sent(c, m)
        /\ \A d \in MF!Clients : d # c => queue[d] = g.queue[d]
    BY <2>5, MfTypes
  <2> HIDE DEF queue
  <2>7. /\ g' \in MfData /\ g'.requests = g.requests /\ g'.req = g.req /\ g'.queue = queue
        /\ g'.queues = g.queues /\ g'.numSent = g.numSent /\ g'.got = g.got /\ g'.cut = g.cut
        /\ g'.zombies = g.zombies /\ g'.sigchld = g.sigchld /\ g'.inHandler = g.inHandler
        /\ g'.file = g.file
    BY <2>3, <2>6, MfTypes DEF MfState, MfData
  <2>8. MfSent(c)'
    <3>1. g'.queue[c] = MF!Sent(c, m)
      BY <2>6, <2>7
    <3>2. CASE c \notin g.queues
      <4>1. g'.queue[c] = <<>>
        BY <2>4, <2>7, <3>1, <3>2, MfSends
      <4> QED
        BY <2>2, <2>7, <3>2, <4>1 DEF MfSent
    <3>3. CASE c \in g.queues
      <4>1. PICK n \in Nat : MF!Total(c) = n /\ MF!Total(c)' = n + 1 /\ MF!Message(c, MF!Total(c))' = m
        BY <2>4, <2>7, <3>1, <3>3, MfSends
      <4>2. MF!Total(c)' = 1 /\ MF!Ended(c)' /\ g'.numSent[c] = 0
        BY <1>0, <2>2, <2>7, <4>1 DEF MF!Ended
      <4> QED
        BY <2>2, <2>7, <3>3, <4>1, <4>2 DEF MfSent, m
    <3> QED
      BY <3>2, <3>3
  <2>9. MF!ZombiesReaped'
    BY <2>2, <2>7, MfTypes DEF MF!ZombiesReaped
  <2> QED
    BY <2>2, <2>6, <2>7, <2>8, <2>9, MfChildKeeps
<1> QED
  BY <1>1, <1>2

\* serveRequest() sends the next part of the file.
LEMMA MfSendData ==
    ASSUME MF!IInv, NEW c \in MF!Clients, MF!SendData(c)
    PROVE  MF!IInv'
<1>0. PICK ns \in Nat : g.numSent[c] = ns
  BY MfTypes
<1> DEFINE m == MF!Data(ns + 1)
           queue == [g.queue EXCEPT ![c] = MF!Sent(c, m)]
           numSent == [g.numSent EXCEPT ![c] = ns + 1]
<1>1. PICK to \in MF!ChildPoints :
        /\ MF!Go(MF!Child(c), "read", to)
        /\ to = IF c \in g.queues THEN "read" ELSE "end"
  BY DEF MF!SendData, MF!ChildPoints
<1>2. /\ pc[MF!Child(c)] = "read" /\ pc'[MF!Child(c)] = to
      /\ pc' \in [MF!Procs -> MfPoints] /\ pc'[MF!Server] = pc[MF!Server]
      /\ \A d \in MF!Clients : /\ pc'[d] = pc[d]
                               /\ d # c => pc'[MF!Child(d)] = pc[MF!Child(d)]
                               /\ pc[MF!Child(d)] = "none" => pc'[MF!Child(d)] = "none"
  BY <1>1, MfChild
<1>3. g' = MfState(g.requests, g.req, g.serverQueue, queue, g.queues, numSent, g.got, g.cut,
                   g.zombies, g.sigchld, g.inHandler)
  BY <1>0, MfTypes, ZenonT(30) DEF MF!SendData, MfState, MfData
<1>4. m \in MF!Messages
  BY MfMessages
<1> HIDE DEF m
<1>5. MF!Sent(c, m) \in Seq(MF!Messages)
  BY <1>4, MfTypes DEF MF!Sent
<1>6. /\ queue \in [MF!Clients -> Seq(MF!Messages)] /\ queue[c] = MF!Sent(c, m)
      /\ \A d \in MF!Clients : d # c => queue[d] = g.queue[d]
  BY <1>5, MfTypes
<1>7. /\ numSent \in [MF!Clients -> Nat] /\ numSent[c] = ns + 1
      /\ \A d \in MF!Clients : d # c => numSent[d] = g.numSent[d]
  BY MfTypes
<1> HIDE DEF queue, numSent
<1>8. /\ g' \in MfData /\ g'.requests = g.requests /\ g'.req = g.req /\ g'.queue = queue
      /\ g'.queues = g.queues /\ g'.numSent = numSent /\ g'.got = g.got /\ g'.cut = g.cut
      /\ g'.zombies = g.zombies /\ g'.sigchld = g.sigchld /\ g'.inHandler = g.inHandler
      /\ g'.file = g.file
  BY <1>3, <1>6, <1>7, MfTypes DEF MfState, MfData
<1>9. MfSent(c)'
  <2>1. g'.queue[c] = MF!Sent(c, m) /\ g'.numSent[c] = ns + 1 /\ MfSent(c)
    BY <1>6, <1>7, <1>8, MfTypes
  <2>2. CASE c \notin g.queues
    <3>1. g'.queue[c] = <<>>
      BY <1>4, <1>8, <2>1, <2>2, MfSends
    <3> QED
      BY <1>1, <1>2, <1>8, <2>2, <3>1 DEF MfSent
  <2>3. CASE c \in g.queues
    <3>1. PICK n \in Nat : /\ MF!Total(c) = n /\ MF!Total(c)' = n + 1
                           /\ \A i \in 1 .. n : MF!Message(c, i)' = MF!Message(c, i)
                           /\ MF!Message(c, n + 1)' = m
      BY <1>4, <1>8, <2>1, <2>3, MfSends
    <3>2. n = ns /\ ~MF!Ended(c)' /\ \A i \in 1 .. n : MF!Message(c, i) = MF!Data(i)
      BY <1>0, <1>1, <1>2, <2>1, <2>3, <3>1 DEF MfSent, MF!Ended
    <3>3. \A i \in 1 .. n + 1 : i \in 1 .. n \/ i = n + 1
      OBVIOUS
    <3>4. \A i \in 1 .. n + 1 : MF!Message(c, i)' = MF!Data(i)
      BY <3>1, <3>2, <3>3 DEF m
    <3> QED
      BY <1>1, <1>2, <1>8, <2>1, <2>3, <3>1, <3>2, <3>4 DEF MfSent
  <2> QED
    BY <2>2, <2>3
<1>10. MF!ZombiesReaped'
  BY <1>2, <1>8, MfTypes DEF MF!ZombiesReaped
<1> QED
  BY <1>2, <1>6, <1>7, <1>8, <1>9, <1>10, MfChildKeeps

\* serveRequest() comes to the end of the file, or cannot read on, and says that it is done.
LEMMA MfEnd ==
    ASSUME MF!IInv, NEW c \in MF!Clients, MF!EndOfFile(c) \/ MF!SendEnd(c)
    PROVE  MF!IInv'
<1>1. CASE MF!EndOfFile(c)
  <2>1. MF!Go(MF!Child(c), "read", "end") /\ "end" \in MF!ChildPoints
    BY <1>1 DEF MF!EndOfFile, MF!ChildPoints
  <2>2. /\ pc[MF!Child(c)] = "read" /\ pc'[MF!Child(c)] = "end"
        /\ pc' \in [MF!Procs -> MfPoints] /\ pc'[MF!Server] = pc[MF!Server]
        /\ \A d \in MF!Clients : /\ pc'[d] = pc[d]
                                 /\ d # c => pc'[MF!Child(d)] = pc[MF!Child(d)]
                                 /\ pc[MF!Child(d)] = "none" => pc'[MF!Child(d)] = "none"
    BY <2>1, MfChild
  <2>3. PICK cut \in SUBSET MF!Clients :
          /\ g' = MfState(g.requests, g.req, g.serverQueue, g.queue, g.queues, g.numSent, g.got, cut,
                          g.zombies, g.sigchld, g.inHandler)
          /\ g.cut \subseteq cut /\ (g.numSent[c] = g.file[c] \/ c \in cut)
    <3>1. CASE g.numSent[c] = g.file[c] /\ g' = g
      <4>1. g' = MfState(g.requests, g.req, g.serverQueue, g.queue, g.queues, g.numSent, g.got, g.cut,
                         g.zombies, g.sigchld, g.inHandler)
        BY <3>1, MfTypes DEF MfState, MfData
      <4> QED
        BY ZenonT(30), <3>1, <4>1, MfTypes
    <3>2. CASE g' = [g EXCEPT !.cut = @ \cup {c}]
      <4>1. g' = MfState(g.requests, g.req, g.serverQueue, g.queue, g.queues, g.numSent, g.got,
                         g.cut \cup {c}, g.zombies, g.sigchld, g.inHandler)
        BY <3>2, MfTypes, ZenonT(30) DEF MfState, MfData
      <4>2. g.cut \cup {c} \in SUBSET MF!Clients
        BY MfTypes
      <4> QED
        BY <4>1, <4>2
    <3> QED
      BY <1>1, <3>1, <3>2 DEF MF!EndOfFile
  <2>4. /\ g' \in MfData /\ g'.requests = g.requests /\ g'.req = g.req /\ g'.queue = g.queue
        /\ g'.queues = g.queues /\ g'.numSent = g.numSent /\ g'.got = g.got /\ g'.cut = cut
        /\ g'.zombies = g.zombies /\ g'.sigchld = g.sigchld /\ g'.inHandler = g.inHandler
        /\ g'.file = g.file
    BY <2>3, MfTypes DEF MfState, MfData
  <2>5. MfSent(c)'
    <3>1. MF!Total(c)' = MF!Total(c) /\ ~MF!Ended(c)' /\ ~MF!Ended(c)
      BY <2>2, <2>4 DEF MF!Total, MF!Ended
    <3>2. \A i : MF!Message(c, i)' = MF!Message(c, i)
      BY <2>4 DEF MF!Message
    <3>3. MfSent(c)
      BY MfTypes
    <3> QED
      BY <2>2, <2>3, <2>4, <3>1, <3>2, <3>3, ZenonT(30) DEF MfSent
  <2>6. MF!ZombiesReaped'
    BY <2>2, <2>4, MfTypes DEF MF!ZombiesReaped
  <2> QED
    BY <2>2, <2>3, <2>4, <2>5, <2>6, MfChildKeeps
<1>2. CASE MF!SendEnd(c)
  <2> DEFINE m == MF!NoData("RESP_MT_END")
             queue == [g.queue EXCEPT ![c] = MF!Sent(c, m)]
  <2>1. MF!Go(MF!Child(c), "end", "exit") /\ "exit" \in MF!ChildPoints
    BY <1>2 DEF MF!SendEnd, MF!ChildPoints
  <2>2. /\ pc[MF!Child(c)] = "end" /\ pc'[MF!Child(c)] = "exit"
        /\ pc' \in [MF!Procs -> MfPoints] /\ pc'[MF!Server] = pc[MF!Server]
        /\ \A d \in MF!Clients : /\ pc'[d] = pc[d]
                                 /\ d # c => pc'[MF!Child(d)] = pc[MF!Child(d)]
                                 /\ pc[MF!Child(d)] = "none" => pc'[MF!Child(d)] = "none"
    BY <2>1, MfChild
  <2>3. g' = MfState(g.requests, g.req, g.serverQueue, queue, g.queues, g.numSent, g.got, g.cut,
                     g.zombies, g.sigchld, g.inHandler)
    BY <1>2, MfTypes, ZenonT(30) DEF MF!SendEnd, MfState, MfData
  <2>4. m \in MF!Messages
    BY MfMessages
  <2> HIDE DEF m
  <2>5. MF!Sent(c, m) \in Seq(MF!Messages)
    BY <2>4, MfTypes DEF MF!Sent
  <2>6. /\ queue \in [MF!Clients -> Seq(MF!Messages)] /\ queue[c] = MF!Sent(c, m)
        /\ \A d \in MF!Clients : d # c => queue[d] = g.queue[d]
    BY <2>5, MfTypes
  <2> HIDE DEF queue
  <2>7. /\ g' \in MfData /\ g'.requests = g.requests /\ g'.req = g.req /\ g'.queue = queue
        /\ g'.queues = g.queues /\ g'.numSent = g.numSent /\ g'.got = g.got /\ g'.cut = g.cut
        /\ g'.zombies = g.zombies /\ g'.sigchld = g.sigchld /\ g'.inHandler = g.inHandler
        /\ g'.file = g.file
    BY ZenonT(30), <2>3, <2>6, MfTypes DEF MfState, MfData
  <2>8. MfSent(c)'
    <3>1. g'.queue[c] = MF!Sent(c, m) /\ MfSent(c)
      BY <2>6, <2>7, MfTypes
    <3>2. CASE c \notin g.queues
      <4>1. g'.queue[c] = <<>>
        BY <2>4, <2>7, <3>1, <3>2, MfSends
      <4> QED
        BY <2>2, <2>7, <3>2, <4>1 DEF MfSent
    <3>3. CASE c \in g.queues
      <4>1. PICK n \in Nat : /\ MF!Total(c) = n /\ MF!Total(c)' = n + 1
                             /\ \A i \in 1 .. n : MF!Message(c, i)' = MF!Message(c, i)
                             /\ MF!Message(c, MF!Total(c))' = m
        BY <2>4, <2>7, <3>1, <3>3, MfSends
      <4>2. PICK ns \in Nat : g.numSent[c] = ns /\ g'.numSent[c] = ns
        BY <2>7, MfTypes
      <4>3. /\ n = ns /\ MF!Ended(c)' /\ (ns = g.file[c] \/ c \in g.cut)
            /\ \A i \in 1 .. ns : MF!Message(c, i)' = MF!Data(i)
        BY <2>2, <3>1, <3>3, <4>1, <4>2 DEF MfSent, MF!Ended
      <4> QED
        BY <2>2, <2>7, <3>3, <4>1, <4>2, <4>3 DEF MfSent, m
    <3> QED
      BY <3>2, <3>3
  <2>9. MF!ZombiesReaped'
    BY <2>2, <2>7, MfTypes DEF MF!ZombiesReaped
  <2> QED
    BY <2>2, <2>6, <2>7, <2>8, <2>9, MfChildKeeps
<1> QED
  BY <1>1, <1>2

\* A child ends, and SIGCHLD is sent to the server.
LEMMA MfChildExit ==
    ASSUME MF!IInv, NEW c \in MF!Clients, MF!ChildExit(c)
    PROVE  MF!IInv'
<1> DEFINE s == pc[MF!Server] # "exit"
<1>1. MF!Go(MF!Child(c), "exit", "zombie") /\ "zombie" \in MF!ChildPoints
  BY DEF MF!ChildExit, MF!ChildPoints
<1>2. /\ pc[MF!Child(c)] = "exit" /\ pc'[MF!Child(c)] = "zombie"
      /\ pc' \in [MF!Procs -> MfPoints] /\ pc'[MF!Server] = pc[MF!Server]
      /\ \A d \in MF!Clients : /\ pc'[d] = pc[d]
                               /\ d # c => pc'[MF!Child(d)] = pc[MF!Child(d)]
                               /\ pc[MF!Child(d)] = "none" => pc'[MF!Child(d)] = "none"
  BY <1>1, MfChild
<1>3. g' = MfState(g.requests, g.req, g.serverQueue, g.queue, g.queues, g.numSent, g.got, g.cut,
                   g.zombies \cup {MF!Child(c)}, s, g.inHandler)
  BY MfTypes, ZenonT(30) DEF MF!ChildExit, MfState, MfData
<1>4. g.zombies \cup {MF!Child(c)} \in SUBSET MF!Children /\ s \in BOOLEAN
  BY MfTypes, MfProcs
<1>5. /\ g' \in MfData /\ g'.requests = g.requests /\ g'.req = g.req /\ g'.queue = g.queue
      /\ g'.queues = g.queues /\ g'.numSent = g.numSent /\ g'.got = g.got /\ g'.cut = g.cut
      /\ (g'.sigchld <=> s) /\ g'.file = g.file
  BY ZenonT(30), <1>3, <1>4, MfTypes DEF MfState, MfData
<1>6. MfSent(c)'
  <2>1. MF!Total(c)' = MF!Total(c) /\ MF!Ended(c)' /\ MF!Ended(c)
    BY <1>2, <1>5 DEF MF!Total, MF!Ended
  <2>2. \A i : MF!Message(c, i)' = MF!Message(c, i)
    BY <1>5 DEF MF!Message
  <2>3. MF!Message(c, MF!Total(c))' = MF!Message(c, MF!Total(c))
    BY <1>5, <2>1 DEF MF!Message
  <2>4. MfSent(c)
    BY MfTypes
  <2>5. /\ pc[MF!Child(c)] = "exit" /\ pc'[MF!Child(c)] = "zombie"
        /\ g'.queue = g.queue /\ g'.queues = g.queues /\ g'.numSent = g.numSent
        /\ g'.cut = g.cut /\ g'.file = g.file
    BY <1>2, <1>5
  <2> QED
    BY <2>1, <2>2, <2>3, <2>4, <2>5 DEF MfSent
<1>7. MF!ZombiesReaped'
  BY <1>2, <1>5 DEF MF!ZombiesReaped
<1> QED
  BY <1>2, <1>5, <1>6, <1>7, MfChildKeeps

\* A step of the server that touches neither requests nor files: it makes its queue, or
\* grimReaper() runs.
LEMMA MfServer ==
    ASSUME MF!IInv, MF!SCreate \/ MF!Sigchld \/ MF!Reap
    PROVE  MF!IInv'
<1>1. /\ pc' \in [MF!Procs -> MfPoints]
      /\ pc'[MF!Server] = "fork" => pc[MF!Server] = "fork"
      /\ pc[MF!Server] = "exit" => pc'[MF!Server] = "exit"
      /\ \A c \in MF!Clients : pc'[c] = pc[c] /\ pc'[MF!Child(c)] = pc[MF!Child(c)]
  <2>1. CASE MF!SCreate
    <3>1. /\ pc[MF!Server] = "start" /\ pc' = [pc EXCEPT ![MF!Server] = "msgrcv"]
          /\ "msgrcv" \in MfPoints
      BY <2>1 DEF MF!SCreate, MF!Go, MF!At, MfPoints, MF!SPoints
    <3> QED
      BY <3>1, MfTypes, MfProcs
  <2>2. CASE pc' = pc
    BY <2>2, MfTypes
  <2> QED
    BY <2>1, <2>2 DEF MF!Sigchld, MF!Reap
<1>2. PICK serverQueue \in BOOLEAN, zombies \in SUBSET MF!Children, sigchld \in BOOLEAN,
           inHandler \in BOOLEAN :
        /\ g' = MfState(g.requests, g.req, serverQueue, g.queue, g.queues, g.numSent, g.got, g.cut,
                        zombies, sigchld, inHandler)
        /\ zombies # {} => inHandler \/ (zombies = g.zombies /\ sigchld = g.sigchld /\ inHandler = g.inHandler)
  <2>1. CASE MF!SCreate
    <3>1. g' = MfState(g.requests, g.req, TRUE, g.queue, g.queues, g.numSent, g.got, g.cut,
                       g.zombies, g.sigchld, g.inHandler)
      BY <2>1, MfTypes, ZenonT(30) DEF MF!SCreate, MfState, MfData
    <3> QED
      BY ZenonT(30), <3>1, MfTypes
  <2>2. CASE MF!Sigchld
    <3>1. g' = MfState(g.requests, g.req, g.serverQueue, g.queue, g.queues, g.numSent, g.got, g.cut,
                       g.zombies, FALSE, TRUE)
      BY <2>2, MfTypes, ZenonT(30) DEF MF!Sigchld, MfState, MfData
    <3> QED
      BY ZenonT(30), <3>1, MfTypes
  <2>3. CASE g.zombies = {} /\ g' = [g EXCEPT !.inHandler = FALSE]
    <3>1. g' = MfState(g.requests, g.req, g.serverQueue, g.queue, g.queues, g.numSent, g.got, g.cut,
                       g.zombies, g.sigchld, FALSE)
      BY <2>3, MfTypes, ZenonT(30) DEF MfState, MfData
    <3> QED
      BY ZenonT(30), <2>3, <3>1, MfTypes
  <2>4. CASE g.inHandler /\ \E z \in g.zombies : g' = [g EXCEPT !.zombies = @ \ {z}]
    <3>1. PICK z \in g.zombies : g' = [g EXCEPT !.zombies = @ \ {z}]
      BY <2>4
    <3>2. g' = MfState(g.requests, g.req, g.serverQueue, g.queue, g.queues, g.numSent, g.got, g.cut,
                       g.zombies \ {z}, g.sigchld, g.inHandler)
      BY <3>1, MfTypes, ZenonT(30) DEF MfState, MfData
    <3>3. g.zombies \ {z} \in SUBSET MF!Children
      BY MfTypes
    <3> QED
      BY ZenonT(30), <2>4, <3>2, <3>3, MfTypes
  <2> QED
    BY <2>1, <2>2, <2>3, <2>4 DEF MF!Reap
<1>3. /\ g' \in MfData /\ g'.requests = g.requests /\ g'.req = g.req /\ g'.queue = g.queue
      /\ g'.queues = g.queues /\ g'.numSent = g.numSent /\ g'.got = g.got /\ g'.cut = g.cut
      /\ g'.zombies = zombies /\ g'.sigchld = sigchld /\ g'.inHandler = inHandler
      /\ g'.file = g.file
  BY ZenonT(30), <1>2, MfTypes DEF MfState, MfData
<1>4. MfRequests' /\ \A d \in MF!Clients : MfForked(d)'
  BY <1>1, <1>3, MfForkedKept
<1>5. ASSUME NEW d \in MF!Clients
      PROVE  MfSent(d)' /\ MfWhole(d)'
  <2>1. MfSent(d) /\ MfWhole(d)
    BY MfTypes
  <2> QED
    BY <1>1, <1>3, <2>1, MfSentKept
<1>6. MF!ZombiesReaped'
  BY <1>1, <1>2, <1>3, MfTypes DEF MF!ZombiesReaped
<1> QED
  BY <1>1, <1>3, <1>4, <1>5, <1>6, MfParts2

\* The server takes the next request.
LEMMA MfTake ==
    ASSUME MF!IInv, MF!SReceive
    PROVE  MF!IInv'
<1>1. /\ pc[MF!Server] = "msgrcv" /\ pc' = [pc EXCEPT ![MF!Server] = "fork"] /\ g.requests # <<>>
      /\ "fork" \in MfPoints
  BY DEF MF!SReceive, MF!Go, MF!At, MfPoints, MF!SPoints
<1>2. /\ pc' \in [MF!Procs -> MfPoints] /\ pc'[MF!Server] = "fork"
      /\ \A d \in MF!Clients : pc'[d] = pc[d] /\ pc'[MF!Child(d)] = pc[MF!Child(d)]
  BY ZenonT(30), <1>1, MfTypes, MfProcs
<1>3. PICK r \in Seq(MF!Clients) : r = g.requests
  BY MfTypes
<1>4. PICK c \in MF!Clients : c = Head(r) /\ c = r[1]
  BY <1>1, <1>3
<1>5. PICK n \in Nat :
        /\ Len(r) = n + 1 /\ Len(Tail(r)) = n /\ Tail(r) \in Seq(MF!Clients)
        /\ \A i \in 1 .. n : Tail(r)[i] = r[i + 1]
  <2>1. Len(r) \in Nat /\ Len(r) > 0 /\ Len(Tail(r)) = Len(r) - 1 /\ Tail(r) \in Seq(MF!Clients)
        /\ \A i \in 1 .. Len(r) - 1 : Tail(r)[i] = r[i + 1]
    BY <1>1, <1>3
  <2>2. Len(r) - 1 \in Nat /\ Len(r) = (Len(r) - 1) + 1
    BY <2>1
  <2> QED
    BY <2>1, <2>2
<1>6. g' = MfState(Tail(r), c, g.serverQueue, g.queue, g.queues, g.numSent, g.got, g.cut,
                   g.zombies, g.sigchld, g.inHandler)
  BY <1>3, <1>4, MfTypes, ZenonT(30) DEF MF!SReceive, MfState, MfData
<1>7. /\ g' \in MfData /\ g'.requests = Tail(r) /\ g'.req = c /\ g'.queue = g.queue
      /\ g'.queues = g.queues /\ g'.numSent = g.numSent /\ g'.got = g.got /\ g'.cut = g.cut
      /\ g'.zombies = g.zombies /\ g'.sigchld = g.sigchld /\ g'.inHandler = g.inHandler
      /\ g'.file = g.file
  BY ZenonT(30), <1>5, <1>6, MfTypes DEF MfState, MfData
<1>8. \A i, k \in 1 .. n + 1 : r[i] = r[k] => i = k
  BY <1>3, <1>5, MfTypes DEF MfRequests
<1>9. \A i \in 1 .. n : i + 1 \in 1 .. n + 1 /\ 1 \in 1 .. n + 1 /\ i + 1 # 1
  OBVIOUS
<1>10. MF!Requested(c)
  <2>1. 1 \in 1 .. n + 1
    OBVIOUS
  <2> QED
    BY <1>3, <1>4, <1>5, <2>1 DEF MF!Requested
<1>11. \A d \in MF!Clients : MF!Requested(d)' => MF!Requested(d) /\ d # c
  <2>1. ASSUME NEW d \in MF!Clients, NEW i \in 1 .. n, Tail(r)[i] = d
        PROVE  MF!Requested(d) /\ d # c
    <3>1. r[i + 1] = d /\ i + 1 \in 1 .. n + 1
      BY <1>5, <1>9, <2>1
    <3>2. d # c
      BY <1>4, <1>8, <1>9, <3>1
    <3> QED
      BY <1>3, <1>5, <3>1, <3>2 DEF MF!Requested
  <2> QED
    BY <1>5, <1>7, <2>1 DEF MF!Requested
<1>12. pc[MF!Child(c)] = "none" /\ pc[c] \notin {"start", "request"}
  <2>1. MfForked(c)
    BY MfTypes
  <2> QED
    BY <1>10, <2>1 DEF MfForked
<1>13. MfRequests'
  <2>1. \A i, k \in 1 .. n : Tail(r)[i] = Tail(r)[k] => i = k
    <3>1. ASSUME NEW i \in 1 .. n, NEW k \in 1 .. n, Tail(r)[i] = Tail(r)[k]
          PROVE  i = k
      <4>1. r[i + 1] = r[k + 1]
        BY <1>5, <3>1
      <4>2. i + 1 = k + 1
        BY <1>8, <1>9, <4>1
      <4> QED
        BY <4>2
    <3> QED
      BY ZenonT(30), <3>1
  <2>2. ~MF!Requested(c)'
    BY <1>11
  <2> QED
    BY <1>2, <1>5, <1>7, <1>12, <2>1, <2>2 DEF MfRequests, MF!Requested
<1>14. ASSUME NEW d \in MF!Clients
       PROVE  MfForked(d)' /\ MfSent(d)' /\ MfWhole(d)'
  <2>1. MfForked(d) /\ MfSent(d) /\ MfWhole(d)
    BY MfTypes
  <2>2. MfSent(d)' /\ MfWhole(d)'
    BY <1>2, <1>7, <2>1, MfSentKept
  <2>3. MfForked(d)'
    BY <1>2, <1>7, <1>11, <1>12, <2>1 DEF MfForked
  <2> QED
    BY <2>2, <2>3
<1>15. MF!ZombiesReaped'
  BY <1>1, <1>2, <1>7, MfTypes DEF MF!ZombiesReaped
<1> QED
  BY <1>2, <1>7, <1>13, <1>14, <1>15, MfParts2

\* The server forks a child for the request, or cannot and ends.
LEMMA MfFork ==
    ASSUME MF!IInv, MF!SFork \/ MF!SForkFails
    PROVE  MF!IInv'
<1>1. CASE MF!SFork
  <2>1. pc[MF!Server] = "fork" /\ g' = g
    BY <1>1 DEF MF!SFork
  <2>2. PICK c \in MF!Clients : c = g.req /\ pc[MF!Child(c)] = "none" /\ ~MF!Requested(c)
    BY <2>1, MfTypes DEF MfRequests
  <2>3. /\ pc' = [pc EXCEPT ![MF!Server] = "msgrcv", ![MF!Child(c)] = "open"]
        /\ "msgrcv" \in MfPoints /\ "open" \in MfPoints
    BY <1>1, <2>2 DEF MF!SFork, MfPoints, MF!SPoints, MF!ChildPoints
  <2>4. /\ pc' \in [MF!Procs -> MfPoints] /\ pc'[MF!Server] = "msgrcv" /\ pc'[MF!Child(c)] = "open"
        /\ \A d \in MF!Clients : pc'[d] = pc[d]
        /\ \A d \in MF!Clients : d # c => pc'[MF!Child(d)] = pc[MF!Child(d)]
    BY ZenonT(30), <2>3, MfTypes, MfProcs
  <2>5. \A d : MF!Requested(d)' <=> MF!Requested(d)
    BY <2>1 DEF MF!Requested
  <2>6. MfRequests'
    BY <2>1, <2>4, MfTypes DEF MfRequests
  <2>7. ASSUME NEW d \in MF!Clients
        PROVE  MfForked(d)'
    <3>1. MfForked(d)
      BY MfTypes
    <3> QED
      BY <2>1, <2>2, <2>4, <2>5, <3>1 DEF MfForked
  <2>8. ASSUME NEW d \in MF!Clients
        PROVE  MfSent(d)' /\ MfWhole(d)'
    <3>1. MfSent(d) /\ MfWhole(d)
      BY MfTypes
    <3>2. CASE d # c
      BY <2>1, <2>4, <3>1, <3>2, MfSentKept
    <3>3. CASE d = c
      <4>1. MF!Total(c)' = MF!Total(c) /\ ~MF!Ended(c)' /\ ~MF!Ended(c)
        BY <2>1, <2>2, <2>4 DEF MF!Total, MF!Ended
      <4>2. \A i : MF!Message(c, i)' = MF!Message(c, i)
        BY <2>1 DEF MF!Message
      <4>3. MfSent(c)'
        BY ZenonT(30), <2>1, <2>2, <2>4, <3>1, <3>3, <4>1, <4>2 DEF MfSent
      <4>4. MfWhole(c)'
        BY <2>1, <3>1, <3>3 DEF MfWhole
      <4> QED
        BY <3>3, <4>3, <4>4
    <3> QED
      BY <3>2, <3>3
  <2>9. MF!ZombiesReaped'
    BY <2>1, <2>4, MfTypes DEF MF!ZombiesReaped
  <2> QED
    BY <2>1, <2>4, <2>6, <2>7, <2>8, <2>9, MfTypes, MfParts2
<1>2. CASE MF!SForkFails
  <2>1. pc' = [pc EXCEPT ![MF!Server] = "exit"] /\ "exit" \in MfPoints
    BY <1>2 DEF MF!SForkFails, MF!Go, MfPoints, MF!SPoints
  <2>2. /\ pc' \in [MF!Procs -> MfPoints] /\ pc'[MF!Server] = "exit"
        /\ \A d \in MF!Clients : pc'[d] = pc[d] /\ pc'[MF!Child(d)] = pc[MF!Child(d)]
    BY <2>1, MfTypes, MfProcs
  <2>3. g' = MfState(<<>>, g.req, FALSE, g.queue, g.queues, g.numSent, g.got, g.cut,
                     g.zombies, g.sigchld, g.inHandler)
    BY <1>2, MfTypes, ZenonT(30) DEF MF!SForkFails, MfState, MfData
  <2>4. /\ g' \in MfData /\ g'.requests = <<>> /\ g'.req = g.req /\ g'.queue = g.queue
        /\ g'.queues = g.queues /\ g'.numSent = g.numSent /\ g'.got = g.got /\ g'.cut = g.cut
        /\ g'.file = g.file
    BY <2>3, MfTypes DEF MfState, MfData
  <2>5. Len(g'.requests) = 0
    BY <2>4
  <2>6. MfRequests' /\ \A d : ~MF!Requested(d)'
    BY <2>2, <2>5 DEF MfRequests, MF!Requested
  <2>7. ASSUME NEW d \in MF!Clients
        PROVE  MfForked(d)' /\ MfSent(d)' /\ MfWhole(d)'
    <3>1. MfForked(d) /\ MfSent(d) /\ MfWhole(d)
      BY MfTypes
    <3>2. MfSent(d)' /\ MfWhole(d)'
      BY <2>2, <2>4, <3>1, MfSentKept
    <3>3. MfForked(d)'
      BY <2>2, <2>4, <2>6, <3>1 DEF MfForked
    <3> QED
      BY <3>2, <3>3
  <2>8. MF!ZombiesReaped'
    BY <2>2 DEF MF!ZombiesReaped
  <2> QED
    BY <2>2, <2>4, <2>6, <2>7, <2>8, MfParts2
<1> QED
  BY <1>1, <1>2

\* Every step of a client, of the server and of a child keeps the invariant, and so do failures.
LEMMA MfStep ==
    ASSUME MF!IInv
    PROVE  /\ \A p \in MF!Procs : MF!Step(p) => MF!IInv'
           /\ MF!Env => MF!IInv'
<1>1. ASSUME NEW p \in MF!Procs, MF!Step(p)
      PROVE  MF!IInv'
  <2>1. CASE p = MF!Server
    BY <1>1, <2>1, MfServer, MfTake, MfFork DEF MF!Step
  <2>2. CASE p # MF!Server
    BY <1>1, <2>2, MfClientGone, MfCreate, MfRequest, MfReceive, MfExit, MfOpen, MfSendData, MfEnd,
       MfChildExit DEF MF!Step, MF!CExit
  <2> QED
    BY <2>1, <2>2
<1>2. ASSUME MF!Env
      PROVE  MF!IInv'
  BY <1>2, MfFork, MfExit, MfClientGone DEF MF!Env, MF!CFail
<1> QED
  BY <1>1, <1>2

\* Nothing happens.
LEMMA MfStutter ==
    ASSUME MF!IInv, pc' = pc, g' = g
    PROVE  MF!IInv'
<1>1. MfRequests' /\ \A c \in MF!Clients : MfForked(c)'
  BY MfForkedKept
<1>2. ASSUME NEW c \in MF!Clients
      PROVE  MfSent(c)' /\ MfWhole(c)'
  <2>1. MfSent(c) /\ MfWhole(c)
    BY MfTypes
  <2> QED
    BY <2>1, MfSentKept
<1>3. MF!ZombiesReaped'
  BY MfTypes DEF MF!ZombiesReaped
<1> QED
  BY <1>1, <1>2, <1>3, MfTypes, MfParts2
=============================================================================
