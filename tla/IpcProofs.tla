----------------------------- MODULE IpcProofs ------------------------------
(***************************************************************************)
(* The safety properties of the programs of Ipc, for any number of         *)
(* processes, messages, clients and files.  Each program has its own       *)
(* inductive invariant; which one counts, the initial state decides.       *)
(***************************************************************************)
EXTENDS Ipc, SvmsgFileProofs

\* How long the provers may take for one step.
USE SMTT(30), ZenonT(30)

-----------------------------------------------------------------------------
(* svsem_good_init.c and svsem_bad_init.c                                  *)

\* Nobody has looked for the semaphore set yet.
LEMMA SemInit ==
    ASSUME SI!Init
    PROVE  SI!IInv
BY SemAssumption DEF SI!Init, SI!IInv, SI!Record, SI!Points, SI!Good, SI!NoOpLost

\* Every step of a process keeps the invariant.
LEMMA SemStep ==
    ASSUME SI!IInv, NEW p \in SI!Procs, SI!Step(p)
    PROVE  SI!IInv'
<1>0. SemOp \in [SI!Procs -> Int]
  BY SemAssumption DEF SI!Procs
<1> USE <1>0 DEF SI!IInv, SI!Record, SI!Points, SI!Good, SI!NoOpLost
<1>1. CASE SI!Create(p)
  BY <1>1, ZenonT(30) DEF SI!Create, SI!Go, SI!At
<1>2. CASE SI!GoodExists(p)
  BY <1>2 DEF SI!GoodExists, SI!Go, SI!At
<1>3. CASE SI!BadExists(p)
  BY <1>3 DEF SI!BadExists, SI!Go, SI!At
<1>4. CASE SI!GoodSetVal(p) \/ SI!BadSetVal(p)
  <2>1. /\ g' \in SI!Record /\ g'.kind = g.kind /\ g'.exists = g.exists /\ g'.otime = g.otime
        /\ g'.val = 0 /\ g'.set /\ g'.lost = g.done /\ g'.done = g.done
    <3>1. g' = [kind |-> g.kind, exists |-> g.exists, set |-> TRUE, otime |-> g.otime, val |-> 0,
                done |-> g.done, lost |-> g.done, tries |-> g.tries]
      BY <1>4, ZenonT(30) DEF SI!GoodSetVal, SI!BadSetVal, SI!SetVal
    <3> QED
      BY <3>1
  <2>2. CASE SI!GoodSetVal(p)
    BY <2>1, <2>2 DEF SI!GoodSetVal, SI!SetVal, SI!Go, SI!At
  <2>3. CASE SI!BadSetVal(p)
    BY <2>1, <2>3 DEF SI!BadSetVal, SI!SetVal, SI!Go, SI!At
  <2> QED
    BY <1>4, <2>2, <2>3
<1>5. CASE SI!Dummy(p)
  BY <1>5 DEF SI!Dummy, SI!Go, SI!At
<1>6. CASE SI!StatSet(p)
  BY <1>6 DEF SI!StatSet, SI!Go, SI!At
<1>7. CASE SI!StatRetry(p)
  BY <1>7 DEF SI!StatRetry, SI!Go, SI!At
<1>8. CASE SI!SemOp1(p)
  <2>1. /\ g' \in SI!Record /\ g'.kind = g.kind /\ g'.exists = g.exists /\ g'.otime = 1
        /\ g'.val = g.val + SemOp[p] /\ g'.done = g.done + SemOp[p]
        /\ g'.set = g.set /\ g'.lost = g.lost
    <3>1. g' = [kind |-> g.kind, exists |-> g.exists, set |-> g.set, otime |-> 1,
                val |-> g.val + SemOp[p], done |-> g.done + SemOp[p], lost |-> g.lost,
                tries |-> g.tries]
      BY <1>8, ZenonT(30) DEF SI!SemOp1
    <3> QED
      BY <3>1
  <2> QED
    BY <1>8, <2>1 DEF SI!SemOp1, SI!Go, SI!At
<1> QED
  BY <1>1, <1>2, <1>3, <1>4, <1>5, <1>6, <1>7, <1>8 DEF SI!Step

-----------------------------------------------------------------------------
(* pipe_sync.c                                                             *)

\* No child is created yet.
LEMMA SyncInit ==
    ASSUME PS!Init
    PROVE  PS!IInv
BY SyncAssumption DEF PS!Init, PS!IInv, PS!Children, PS!Parent, PS!AfterAllChildren

\* Every step of the parent and of a child keeps the invariant.
LEMMA SyncStep ==
    ASSUME PS!IInv, NEW p \in PS!Children \cup {PS!Parent}, PS!Step(p)
    PROVE  PS!IInv'
<1> USE SyncAssumption DEF PS!IInv, PS!Children, PS!Parent, PS!AfterAllChildren
<1>1. CASE PS!Fork
  <2>1. g.j \in PS!Children /\ pc' = [pc EXCEPT ![g.j] = "work"] /\ pc[PS!Parent] = "fork"
    BY <1>1 DEF PS!Fork
  <2>2. /\ g' \in [writers : SUBSET (PS!Children \cup {PS!Parent}), j : 1 .. SyncChildren + 1]
        /\ g'.writers = g.writers \cup {g.j} /\ g'.j = g.j + 1
    <3>1. g' = [writers |-> g.writers \cup {g.j}, j |-> g.j + 1]
      BY <1>1, ZenonT(30) DEF PS!Fork
    <3> QED
      BY <2>1, <3>1
  <2>3. \A c \in PS!Children : c < g'.j <=> c < g.j \/ c = g.j
    BY <2>1, <2>2
  <2> QED
    BY <2>1, <2>2, <2>3
<1>2. CASE PS!CloseWriteEnd
  BY <1>2 DEF PS!CloseWriteEnd, PS!Go, PS!At
<1>3. CASE PS!ReadEof
  BY <1>3 DEF PS!ReadEof, PS!Go, PS!At
<1>4. ASSUME NEW c \in PS!Children, PS!Work(c)
      PROVE  PS!IInv'
  BY <1>4 DEF PS!Work, PS!Go, PS!At
<1>5. ASSUME NEW c \in PS!Children, PS!Close(c)
      PROVE  PS!IInv'
  BY <1>5 DEF PS!Close, PS!Go, PS!At
<1> HIDE DEF PS!IInv
<1> QED
  BY <1>1, <1>2, <1>3, <1>4, <1>5 DEF PS!Step

-----------------------------------------------------------------------------
(* mq_notify_*.c                                                           *)

MqData == [kind : MQ!Waiting \cup MQ!Polling \cup MQ!Threaded, queued : Nat, sent : Nat,
           registered : BOOLEAN, pending : BOOLEAN, gotSig : BOOLEAN, missed : BOOLEAN]

\* No registration is made yet.
LEMMA MqInit ==
    ASSUME MQ!Init
    PROVE  MQ!IInv
<1> USE MqAssumption DEF MQ!Procs, MQ!Threads, MQ!Main
<1>1. PICK kind \in MQ!Waiting \cup MQ!Polling \cup MQ!Threaded, n \in 0..MqMaxQueue :
        /\ pc = [p \in MQ!Procs |-> IF p # MQ!Main THEN "none"
                                    ELSE IF kind \in MQ!Polling THEN "test" ELSE "first"]
        /\ g = [kind |-> kind, queued |-> n, sent |-> 0, registered |-> FALSE,
                pending |-> FALSE, gotSig |-> kind \in MQ!Polling, missed |-> FALSE]
  BY ZenonT(30) DEF MQ!Init
<1>2. MQ!TypeOK
  BY <1>1 DEF MQ!TypeOK, MQ!Points
<1>3. /\ pc[MQ!Main] = IF kind \in MQ!Polling THEN "test" ELSE "first"
      /\ \A t \in MQ!Threads : pc[t] = "none"
  BY <1>1
<1>4. ~g.registered /\ ~g.pending /\ (g.gotSig <=> kind \in MQ!Polling) /\ ~g.missed
  BY <1>1, ZenonT(30)
<1>5. MQ!OneRegistration /\ MQ!Missed
  BY <1>3, <1>4 DEF MQ!OneRegistration, MQ!Missed, MQ!Registering
<1>6. MQ!NoMessageForgotten
  BY <1>3, <1>4 DEF MQ!NoMessageForgotten, MQ!InHand
<1> QED
  BY <1>2, <1>5, <1>6 DEF MQ!IInv

\* The types of the program's data, and that main() is none of the threads.
LEMMA MqTypes ==
    ASSUME MQ!IInv
    PROVE  /\ pc \in [MQ!Procs -> MQ!Points] /\ g \in MqData
           /\ g.queued \in Nat /\ g.sent \in Nat
           /\ g.registered \in BOOLEAN /\ g.pending \in BOOLEAN /\ g.gotSig \in BOOLEAN
           /\ g.missed \in BOOLEAN
           /\ MQ!Main \in MQ!Procs /\ MQ!Threads \subseteq MQ!Procs
           /\ MQ!Main \notin MQ!Threads /\ MQ!Procs = MQ!Threads \cup {MQ!Main}
           /\ MQ!OneRegistration /\ MQ!Missed /\ MQ!NoMessageForgotten
<1>1. g \in MqData
  BY DEF MQ!IInv, MQ!TypeOK, MqData
<1>2. /\ MQ!Main \in MQ!Procs /\ MQ!Threads \subseteq MQ!Procs
      /\ MQ!Main \notin MQ!Threads /\ MQ!Procs = MQ!Threads \cup {MQ!Main}
  BY MqAssumption DEF MQ!Procs, MQ!Threads, MQ!Main
<1> QED
  BY <1>1, <1>2 DEF MQ!IInv, MQ!TypeOK, MqData

\* While nothing is missed and nobody has the messages in hand, the registration stands and
\* there are none.
LEMMA MqInHand ==
    ASSUME MQ!IInv, ~MQ!InHand
    PROVE  g.registered /\ (~g.missed => g.queued = 0)
BY MqTypes DEF MQ!NoMessageForgotten, MQ!OneRegistration, MQ!InHand, MQ!Registering

\* Another process sends a message.
LEMMA MqSend ==
    ASSUME MQ!IInv, MQ!Send
    PROVE  MQ!IInv'
<1> DEFINE notify == g.registered /\ g.queued = 0
           r == g.registered /\ ~notify
           s == g.pending \/ (notify /\ g.kind \notin MQ!Threaded)
<1>1. g' = [kind |-> g.kind, queued |-> g.queued + 1, sent |-> g.sent + 1, registered |-> r,
            pending |-> s, gotSig |-> g.gotSig, missed |-> g.missed]
  BY MqTypes, ZenonT(30) DEF MQ!Send, MqData
<1>2. g' \in MqData /\ g'.queued = g.queued + 1 /\ g'.gotSig = g.gotSig /\ g'.missed = g.missed
  BY <1>1, MqTypes DEF MqData
<1>3. g'.registered \in BOOLEAN /\ g'.pending \in BOOLEAN /\ g'.gotSig \in BOOLEAN /\ g'.missed \in BOOLEAN
  BY <1>2 DEF MqData
<1>4. CASE ~notify
  <2>1. /\ g'.registered = g.registered /\ g'.pending = g.pending /\ pc' = pc
    BY <1>1, <1>4, MqTypes DEF MQ!Send
  <2>2. MQ!TypeOK' /\ MQ!OneRegistration' /\ MQ!Missed'
    BY <1>2, <2>1, MqTypes DEF MQ!TypeOK, MqData, MQ!OneRegistration, MQ!Missed, MQ!Registering
  <2>3. MQ!InHand' <=> MQ!InHand
    BY <1>2, <2>1 DEF MQ!InHand
  <2>4. MQ!NoMessageForgotten'
    BY <1>2, <1>4, <2>1, <2>3, MqTypes, MqInHand DEF MQ!NoMessageForgotten
  <2> QED
    BY <2>2, <2>4 DEF MQ!IInv
<1>5. CASE notify /\ g.kind \notin MQ!Threaded
  <2>1. ~g'.registered /\ g'.pending /\ pc' = pc
    BY <1>1, <1>5, ZenonT(30) DEF MQ!Send
  <2>2. ~g.missed /\ ~g.gotSig /\ ~MQ!Registering /\ pc[MQ!Main] # "first"
    BY <1>5, MqTypes DEF MQ!Missed, MQ!OneRegistration
  <2>3. MQ!TypeOK' /\ MQ!OneRegistration' /\ MQ!Missed'
    BY <1>2, <2>1, <2>2, MqTypes
       DEF MQ!TypeOK, MqData, MQ!OneRegistration, MQ!Missed, MQ!Registering
  <2>4. MQ!NoMessageForgotten'
    BY <1>2, <2>1, <2>2 DEF MQ!NoMessageForgotten, MQ!InHand
  <2> QED
    BY <2>3, <2>4 DEF MQ!IInv
<1>6. CASE notify /\ g.kind \in MQ!Threaded
  <2>1. ~g'.registered /\ g'.pending = g.pending
    BY <1>1, <1>6, MqTypes, ZenonT(30)
  <2>2. PICK t \in MQ!Threads : pc[t] = "none" /\ pc' = [pc EXCEPT ![t] = "register"]
    BY <1>6 DEF MQ!Send, MQ!Go, MQ!At
  <2>3. ~g.missed /\ ~g.gotSig /\ ~g.pending /\ ~MQ!Registering /\ pc[MQ!Main] # "first"
    BY <1>6, MqTypes DEF MQ!Missed, MQ!OneRegistration
  <2>4. /\ \A p \in MQ!Procs : pc'[p] = "register" <=> p = t
        /\ pc'[t] = "register" /\ t \in MQ!Procs /\ pc'[MQ!Main] = pc[MQ!Main]
    BY <2>2, <2>3, MqTypes DEF MQ!Registering
  <2>5. MQ!TypeOK'
    BY <1>2, <2>2, MqTypes DEF MQ!TypeOK, MqData, MQ!Points
  <2>6. MQ!OneRegistration' /\ MQ!Missed'
    BY <1>2, <2>1, <2>3, <2>4, MqTypes DEF MQ!OneRegistration, MQ!Missed, MQ!Registering
  <2>7. MQ!NoMessageForgotten'
    BY <1>2, <2>3, <2>4 DEF MQ!NoMessageForgotten, MQ!InHand
  <2> QED
    BY <2>5, <2>6, <2>7 DEF MQ!IInv
<1> QED
  BY <1>4, <1>5, <1>6

\* A registration is made, the first one or again: it cannot fail, and only the first may
\* come too late for a message.
LEMMA MqRegisters ==
    ASSUME MQ!IInv, NEW p \in MQ!Procs, NEW from \in {"first", "register"},
           NEW to \in {"wait", "drain"}, MQ!Notify(p, from, to),
           from = "first" => p = MQ!Main /\ (to = "wait" <=> g.kind \in MQ!Unprepared),
           from = "register" => to = "drain"
    PROVE  MQ!IInv'
<1> DEFINE m == g.missed \/ (from = "first" /\ g.queued > 0 /\ g.kind \in MQ!Unprepared)
<1>1. pc[p] = from
  BY DEF MQ!Notify, MQ!Go, MQ!At
<1>2. /\ ~g.registered /\ ~g.pending /\ ~g.gotSig /\ ~g.missed
      /\ \A q \in MQ!Procs : q # p => pc[q] # "register"
      /\ from = "register" => pc[MQ!Main] # "first"
  <2>1. CASE from = "first"
    BY <1>1, <2>1, MqTypes DEF MQ!OneRegistration, MQ!Registering, MQ!Missed
  <2>2. CASE from = "register"
    <3>1. MQ!Registering
      BY <1>1, <2>2 DEF MQ!Registering
    <3>2. ~g.registered /\ ~g.pending /\ ~g.gotSig /\ pc[MQ!Main] # "first"
      BY <3>1, MqTypes DEF MQ!OneRegistration
    <3>3. \A q \in MQ!Procs : q # p => pc[q] # "register"
      BY <1>1, <2>2, MqTypes DEF MQ!OneRegistration
    <3> QED
      BY <2>2, <3>2, <3>3, MqTypes DEF MQ!Missed
  <2> QED
    BY <2>1, <2>2
<1>3. pc' = [pc EXCEPT ![p] = to]
  BY <1>2 DEF MQ!Notify, MQ!Go
<1>4. g' = [kind |-> g.kind, queued |-> g.queued, sent |-> g.sent, registered |-> TRUE,
            pending |-> g.pending, gotSig |-> g.gotSig, missed |-> m]
  BY MqTypes, ZenonT(30) DEF MQ!Notify, MqData
<1>5. /\ g' \in MqData /\ g'.registered /\ ~g'.pending /\ ~g'.gotSig /\ g'.queued = g.queued
      /\ (g'.missed <=> m)
  BY <1>2, <1>4, MqTypes, ZenonT(30) DEF MqData
<1>6. \A q \in MQ!Procs : pc'[q] = IF q = p THEN to ELSE pc[q]
  BY <1>3, MqTypes
<1>7. MQ!TypeOK'
  BY <1>3, <1>5, MqTypes DEF MQ!TypeOK, MqData, MQ!Points
<1>8. MQ!OneRegistration'
  <2>1. pc'[MQ!Main] \notin {"first", "clear"} /\ ~MQ!Registering'
    BY <1>1, <1>2, <1>6, MqTypes DEF MQ!Registering, MQ!OneRegistration
  <2> QED
    BY <1>5, <2>1, MqTypes DEF MQ!OneRegistration, MQ!Registering
<1>9. CASE m
  <2>1. from = "first" /\ g.queued > 0 /\ p = MQ!Main /\ to = "wait"
    BY <1>2, <1>9
  <2>2. pc'[MQ!Main] = "wait" /\ \A t \in MQ!Threads : pc'[t] = "none"
    BY <1>1, <1>6, <2>1, MqTypes DEF MQ!Missed
  <2>3. MQ!Missed'
    BY <1>5, <2>1, <2>2 DEF MQ!Missed
  <2>4. ~MQ!InHand'
    BY <1>5, <2>2, MqTypes DEF MQ!InHand
  <2> QED
    BY <1>5, <1>7, <1>8, <1>9, <2>2, <2>3, <2>4 DEF MQ!IInv, MQ!NoMessageForgotten
<1>10. CASE ~m
  <2>1. pc'[MQ!Main] # "first" /\ ~g'.missed
    BY <1>1, <1>2, <1>5, <1>6, <1>10, MqTypes
  <2>2. MQ!Missed'
    BY <2>1 DEF MQ!Missed
  <2>3. ~MQ!InHand' => g'.queued = 0
    <3>1. CASE to = "drain"
      BY <1>6, <3>1 DEF MQ!InHand
    <3>2. CASE to = "wait"
      BY <1>5, <1>10, <3>2, MqTypes
    <3> QED
      BY <3>1, <3>2
  <2> QED
    BY <1>5, <1>7, <1>8, <2>1, <2>2, <2>3 DEF MQ!IInv, MQ!NoMessageForgotten
<1> QED
  BY <1>9, <1>10

\* The program learns of the notification, and goes to register again.
LEMMA MqTold ==
    ASSUME MQ!IInv, MQ!Woken \/ MQ!SetFlag \/ MQ!Test \/ MQ!Clear
    PROVE  MQ!IInv'
<1>1. CASE MQ!Woken
  <2>1. g.pending /\ pc[MQ!Main] = "wait" /\ pc' = [pc EXCEPT ![MQ!Main] = "register"]
    BY <1>1 DEF MQ!Woken, MQ!Go, MQ!At
  <2>2. g' = [kind |-> g.kind, queued |-> g.queued, sent |-> g.sent, registered |-> g.registered,
              pending |-> FALSE, gotSig |-> g.gotSig, missed |-> g.missed]
    BY <1>1, MqTypes, ZenonT(30) DEF MQ!Woken, MqData
  <2>3. /\ g' \in MqData /\ g'.queued = g.queued /\ g'.registered = g.registered
        /\ ~g'.pending /\ g'.gotSig = g.gotSig /\ g'.missed = g.missed
    BY <2>2, MqTypes DEF MqData
  <2>4. ~g.gotSig /\ ~g.registered /\ ~g.missed /\ ~MQ!Registering
    BY <2>1, MqTypes DEF MQ!OneRegistration, MQ!Missed
  <2>5. \A q \in MQ!Procs : pc'[q] = IF q = MQ!Main THEN "register" ELSE pc[q]
    BY <2>1, MqTypes
  <2>6. MQ!TypeOK'
    BY <2>1, <2>3, MqTypes DEF MQ!TypeOK, MqData, MQ!Points
  <2>7. MQ!OneRegistration' /\ MQ!Missed'
    BY <2>3, <2>4, <2>5, MqTypes DEF MQ!OneRegistration, MQ!Registering, MQ!Missed
  <2>8. MQ!NoMessageForgotten'
    BY <2>3, <2>4, <2>5, MqTypes DEF MQ!NoMessageForgotten, MQ!InHand
  <2> QED
    BY <2>6, <2>7, <2>8 DEF MQ!IInv
<1>2. CASE MQ!SetFlag
  <2>1. g.pending /\ pc' = pc
    BY <1>2 DEF MQ!SetFlag
  <2>2. g' = [kind |-> g.kind, queued |-> g.queued, sent |-> g.sent, registered |-> g.registered,
              pending |-> FALSE, gotSig |-> TRUE, missed |-> g.missed]
    BY <1>2, MqTypes, ZenonT(30) DEF MQ!SetFlag, MqData
  <2>3. /\ g' \in MqData /\ g'.queued = g.queued /\ g'.registered = g.registered
        /\ ~g'.pending /\ g'.gotSig /\ g'.missed = g.missed
    BY <2>2, MqTypes DEF MqData
  <2>4. ~g.registered /\ ~g.missed /\ ~MQ!Registering /\ pc[MQ!Main] # "first"
    BY <2>1, MqTypes DEF MQ!OneRegistration, MQ!Missed
  <2>5. MQ!TypeOK'
    BY <2>1, <2>3, MqTypes DEF MQ!TypeOK, MqData
  <2>6. MQ!OneRegistration' /\ MQ!Missed'
    BY <2>1, <2>3, <2>4, MqTypes DEF MQ!OneRegistration, MQ!Registering, MQ!Missed
  <2>7. MQ!NoMessageForgotten'
    BY <2>3, <2>4 DEF MQ!NoMessageForgotten, MQ!InHand
  <2> QED
    BY <2>5, <2>6, <2>7 DEF MQ!IInv
<1>3. CASE MQ!Test
  <2>1. g.gotSig /\ pc[MQ!Main] = "test" /\ pc' = [pc EXCEPT ![MQ!Main] = "clear"] /\ g' = g
    BY <1>3 DEF MQ!Test, MQ!Go, MQ!At
  <2>2. ~g.registered /\ ~g.pending /\ ~g.missed /\ ~MQ!Registering
    BY <2>1, MqTypes DEF MQ!OneRegistration, MQ!Missed
  <2>3. \A q \in MQ!Procs : pc'[q] = IF q = MQ!Main THEN "clear" ELSE pc[q]
    BY <2>1, MqTypes
  <2>4. MQ!TypeOK'
    BY <2>1, MqTypes DEF MQ!TypeOK, MqData, MQ!Points
  <2>5. MQ!OneRegistration' /\ MQ!Missed'
    BY <2>1, <2>2, <2>3, MqTypes DEF MQ!OneRegistration, MQ!Registering, MQ!Missed
  <2>6. MQ!NoMessageForgotten'
    BY <2>1, <2>2 DEF MQ!NoMessageForgotten, MQ!InHand
  <2> QED
    BY <2>4, <2>5, <2>6 DEF MQ!IInv
<1>4. CASE MQ!Clear
  <2>1. pc[MQ!Main] = "clear" /\ pc' = [pc EXCEPT ![MQ!Main] = "register"]
    BY <1>4 DEF MQ!Clear, MQ!Go, MQ!At
  <2>2. g' = [kind |-> g.kind, queued |-> g.queued, sent |-> g.sent, registered |-> g.registered,
              pending |-> g.pending, gotSig |-> FALSE, missed |-> g.missed]
    BY <1>4, MqTypes, ZenonT(30) DEF MQ!Clear, MqData
  <2>3. /\ g' \in MqData /\ g'.queued = g.queued /\ g'.registered = g.registered
        /\ g'.pending = g.pending /\ ~g'.gotSig /\ g'.missed = g.missed
    BY <2>2, MqTypes DEF MqData
  <2>4. ~g.registered /\ ~g.pending /\ ~g.missed /\ ~MQ!Registering
    BY <2>1, MqTypes DEF MQ!OneRegistration, MQ!Missed
  <2>5. \A q \in MQ!Procs : pc'[q] = IF q = MQ!Main THEN "register" ELSE pc[q]
    BY <2>1, MqTypes
  <2>6. MQ!TypeOK'
    BY <2>1, <2>3, MqTypes DEF MQ!TypeOK, MqData, MQ!Points
  <2>7. MQ!OneRegistration' /\ MQ!Missed'
    BY <2>3, <2>4, <2>5, MqTypes DEF MQ!OneRegistration, MQ!Registering, MQ!Missed
  <2>8. MQ!NoMessageForgotten'
    BY <2>3, <2>4, <2>5, MqTypes DEF MQ!NoMessageForgotten, MQ!InHand
  <2> QED
    BY <2>6, <2>7, <2>8 DEF MQ!IInv
<1> QED
  BY <1>1, <1>2, <1>3, <1>4

\* Somebody reads a message, or finds the queue empty and goes back to wait.
LEMMA MqDrain ==
    ASSUME MQ!IInv, NEW p \in MQ!Procs, NEW next \in {"wait", "test", "end"},
           MQ!Receive(p) \/ MQ!Empty(p, next)
    PROVE  MQ!IInv'
<1>1. pc[p] = "drain" /\ ~g.missed
  BY MqTypes DEF MQ!Receive, MQ!Empty, MQ!Go, MQ!At, MQ!Missed
<1>2. CASE MQ!Receive(p)
  <2>1. pc' = pc /\ g.queued > 0
    BY <1>1, <1>2, MqTypes DEF MQ!Receive, MQ!Go, MQ!At
  <2>2. g' = [kind |-> g.kind, queued |-> g.queued - 1, sent |-> g.sent, registered |-> g.registered,
              pending |-> g.pending, gotSig |-> g.gotSig, missed |-> g.missed]
    BY <1>2, MqTypes, ZenonT(30) DEF MQ!Receive, MqData
  <2>3. /\ g' \in MqData /\ g'.registered = g.registered /\ g'.pending = g.pending
        /\ g'.gotSig = g.gotSig /\ g'.missed = g.missed
    BY <2>1, <2>2, MqTypes DEF MqData
  <2>4. MQ!TypeOK' /\ MQ!OneRegistration' /\ MQ!Missed'
    BY <1>1, <2>1, <2>3, MqTypes
       DEF MQ!TypeOK, MqData, MQ!OneRegistration, MQ!Registering, MQ!Missed
  <2>5. MQ!NoMessageForgotten'
    BY <1>1, <2>1, <2>3 DEF MQ!NoMessageForgotten, MQ!InHand
  <2> QED
    BY <2>4, <2>5 DEF MQ!IInv
<1>3. CASE MQ!Empty(p, next)
  <2>1. pc' = [pc EXCEPT ![p] = next] /\ g.queued = 0 /\ g' = g
    BY <1>3 DEF MQ!Empty, MQ!Go, MQ!At
  <2>2. \A q \in MQ!Procs : pc'[q] = IF q = p THEN next ELSE pc[q]
    BY <2>1, MqTypes
  <2>3. MQ!TypeOK'
    BY <2>1, MqTypes DEF MQ!TypeOK, MqData, MQ!Points
  <2>4. MQ!Registering' <=> MQ!Registering
    BY <1>1, <2>2 DEF MQ!Registering
  <2>5. /\ pc'[MQ!Main] = "first" <=> pc[MQ!Main] = "first"
        /\ pc'[MQ!Main] = "clear" <=> pc[MQ!Main] = "clear"
    BY <1>1, <2>2, MqTypes
  <2>6. \A q \in MQ!Procs : pc'[q] = "register" => pc[q] = "register"
    BY <2>2
  <2>7. MQ!OneRegistration'
    BY <2>1, <2>4, <2>5, <2>6, MqTypes DEF MQ!OneRegistration
  <2>8. MQ!Missed'
    <3>1. pc[MQ!Main] = "first" => \A t \in MQ!Threads : pc'[t] = "none"
      BY <1>1, MqTypes DEF MQ!Missed
    <3> QED
      BY <1>1, <2>1, <2>5, <3>1 DEF MQ!Missed
  <2>9. MQ!NoMessageForgotten'
    BY <1>1, <2>1, <2>7, MqTypes DEF MQ!NoMessageForgotten, MQ!InHand, MQ!OneRegistration, MQ!Registering
  <2> QED
    BY <2>3, <2>7, <2>8, <2>9 DEF MQ!IInv
<1> QED
  BY <1>2, <1>3

\* Every step of the program and of its threads keeps the invariant.
LEMMA MqStep ==
    ASSUME MQ!IInv, NEW p \in MQ!Procs, MQ!Step(p)
    PROVE  MQ!IInv'
<1> USE MqTypes
<1>1. CASE MQ!SigFirst \/ MQ!SigwaitinfoFirst \/ MQ!ThreadFirst
  <2>1. MQ!Notify(MQ!Main, "first", "wait") /\ g.kind \in MQ!Unprepared
    BY <1>1 DEF MQ!SigFirst, MQ!SigwaitinfoFirst, MQ!ThreadFirst, MQ!First, MQ!Unprepared, MQ!Waiting
  <2> QED
    BY <2>1, MqRegisters
<1>2. CASE MQ!ViaThreadFirst
  <2>1. MQ!Notify(MQ!Main, "first", "drain") /\ g.kind \notin MQ!Unprepared
    BY <1>2 DEF MQ!ViaThreadFirst, MQ!First, MQ!Unprepared, MQ!Waiting
  <2> QED
    BY <2>1, MqRegisters
<1>3. CASE \/ MQ!Sigsuspend \/ MQ!Sigwaitinfo \/ MQ!ViaSignalHandler \/ MQ!SiginfoHandler
           \/ MQ!Test \/ MQ!Clear
  BY <1>3, MqTold DEF MQ!Sigsuspend, MQ!Sigwaitinfo, MQ!ViaSignalHandler, MQ!SiginfoHandler
<1>4. CASE MQ!LoopRegister \/ MQ!FlagRegister \/ MQ!ThreadRegister(p) \/ MQ!ViaThreadRegister(p)
  <2>1. \E q \in MQ!Procs : MQ!Notify(q, "register", "drain")
    BY <1>4 DEF MQ!LoopRegister, MQ!FlagRegister, MQ!ThreadRegister, MQ!ViaThreadRegister
  <2> QED
    BY <2>1, MqRegisters
<1>5. CASE MQ!WaitingDrain \/ MQ!PollingDrain \/ MQ!ViaThreadMainDrain \/ MQ!ThreadDrain(p)
  BY <1>5, MqDrain DEF MQ!WaitingDrain, MQ!PollingDrain, MQ!ViaThreadMainDrain, MQ!ThreadDrain
<1> QED
  BY <1>1, <1>2, <1>3, <1>4, <1>5 DEF MQ!Step
\* What the invariant says of the messages and of mq_notify().
LEMMA MqRight ==
    ASSUME MQ!IInv
    PROVE  MQ!NoMessageForgotten /\ MQ!NeverBusy
BY MqTypes DEF MQ!NeverBusy, MQ!Points

\* Nothing happens.
LEMMA MqStutter ==
    ASSUME MQ!IInv, pc' = pc, g' = g
    PROVE  MQ!IInv'
BY DEF MQ!IInv, MQ!TypeOK, MQ!OneRegistration, MQ!Registering, MQ!Missed, MQ!NoMessageForgotten,
       MQ!InHand

-----------------------------------------------------------------------------
(* fifo_seqnum_*.c                                                         *)

FsData == [requests : Seq(FS!Clients), fifos : SUBSET FS!Clients, met : BOOLEAN,
           cur : FS!Clients \cup {FS!None}, paired : BOOLEAN, seqNum : Nat,
           got : [FS!Clients -> Nat \cup {FS!None}], healthy : BOOLEAN]

\* Nobody has asked yet, and no number is handed out.
LEMMA FsInit ==
    ASSUME FS!Init
    PROVE  FS!IInv
<1> USE FifoAssumption DEF FS!Clients, FS!Server, FS!None
<1>1. PICK healthy \in BOOLEAN :
        /\ pc = [p \in FS!Clients \cup {FS!Server} |-> "mkfifo"]
        /\ g = [requests |-> <<>>, fifos |-> {}, met |-> FALSE, cur |-> FS!None,
                paired |-> FALSE, seqNum |-> 0, got |-> [c \in FS!Clients |-> FS!None],
                healthy |-> healthy]
  BY ZenonT(30) DEF FS!Init
<1>2. FS!TypeOK
  BY <1>1 DEF FS!TypeOK, FS!CPoints, FS!SPoints
<1>3. FS!AsksOnce /\ FS!AnswersRead
  BY <1>1 DEF FS!AsksOnce, FS!AnswersRead, FS!Serving, FS!Requested
<1>4. FS!InOrder
  BY <1>1 DEF FS!InOrder
<1> QED
  BY <1>2, <1>3, <1>4 DEF FS!IInv

\* The types of the data, and that the server is none of the clients.
LEMMA FsTypes ==
    ASSUME FS!IInv
    PROVE  /\ pc \in [FS!Clients \cup {FS!Server} -> FS!CPoints \cup FS!SPoints] /\ g \in FsData
           /\ \A c \in FS!Clients : pc[c] \in FS!CPoints
           /\ pc[FS!Server] \in FS!SPoints
           /\ g.requests \in Seq(FS!Clients) /\ g.fifos \subseteq FS!Clients
           /\ g.cur \in FS!Clients \cup {FS!None} /\ g.seqNum \in Nat
           /\ g.met \in BOOLEAN /\ g.paired \in BOOLEAN /\ g.healthy \in BOOLEAN
           /\ g.got \in [FS!Clients -> Nat \cup {FS!None}]
           /\ FS!Server \notin FS!Clients /\ FS!None \notin FS!Clients /\ FS!None \notin Nat
           /\ SeqLen \in [FS!Clients -> Nat \ {0}]
           /\ FS!AsksOnce /\ FS!AnswersRead /\ FS!InOrder
<1>1. g \in FsData
  BY DEF FS!IInv, FS!TypeOK, FsData
<1>2. /\ FS!Server \notin FS!Clients /\ FS!None \notin FS!Clients /\ FS!None \notin Nat
      /\ SeqLen \in [FS!Clients -> Nat \ {0}]
  BY FifoAssumption DEF FS!Clients, FS!Server, FS!None
<1> QED
  BY <1>1, <1>2 DEF FS!IInv, FS!TypeOK, FsData

\* A client goes on, without asking for numbers: it opens FIFOs, reads its answer, or ends.
LEMMA FsClient ==
    ASSUME FS!IInv, NEW c \in FS!Clients, NEW to \in FS!CPoints,
           pc' = [pc EXCEPT ![c] = to], g' \in FsData,
           g'.requests = g.requests, g'.cur = g.cur, g'.seqNum = g.seqNum, g'.got = g.got,
           g'.healthy = g.healthy,
           to \in {"mkfifo", "open", "write"} => pc[c] \in {"mkfifo", "open", "write"},
           to = "killed" => ~g.healthy,
           pc[c] = "read" => ~g.healthy \/ g.got[c] # FS!None,
           \/ g'.paired = g.paired
           \/ g'.paired /\ g.cur = c /\ to = "read" /\ pc[FS!Server] = "blocked"
    PROVE  FS!IInv'
<1>1. /\ \A d \in FS!Clients : pc'[d] = IF d = c THEN to ELSE pc[d]
      /\ pc'[FS!Server] = pc[FS!Server]
  BY FsTypes
<1>2. FS!TypeOK'
  BY <1>1, FsTypes DEF FS!TypeOK, FsData
<1>3. FS!Serving' <=> FS!Serving
  BY <1>1 DEF FS!Serving
<1>4. \A d : FS!Requested(d)' <=> FS!Requested(d)
  BY DEF FS!Requested
<1>5. FS!AsksOnce'
  <2>1. \A i, k \in 1 .. Len(g'.requests) : g'.requests[i] = g'.requests[k] => i = k
    BY FsTypes DEF FS!AsksOnce
  <2>2. FS!Serving' => g'.cur \in FS!Clients /\ g'.got[g'.cur] = FS!None /\ ~FS!Requested(g.cur)'
    BY <1>3, <1>4, FsTypes DEF FS!AsksOnce
  <2>3. \A d \in FS!Clients : /\ FS!Requested(d)' => g'.got[d] = FS!None
                              /\ pc'[d] \in {"mkfifo", "open", "write"} =>
                                   g'.got[d] = FS!None /\ ~FS!Requested(d)' /\ (FS!Serving' => d # g'.cur)
    BY <1>1, <1>3, <1>4, FsTypes DEF FS!AsksOnce
  <2> QED
    BY <2>1, <2>2, <2>3 DEF FS!AsksOnce, FS!Requested
<1>6. FS!AnswersRead'
  <2>1. (pc'[FS!Server] = "open" => ~g'.paired) /\ (pc'[FS!Server] = "write" => g'.paired)
    BY <1>1, FsTypes DEF FS!AnswersRead
  <2>2. g'.healthy => \A d \in FS!Clients : pc'[d] # "killed"
    BY <1>1, FsTypes DEF FS!AnswersRead
  <2>3. g'.healthy /\ FS!Serving' /\ g'.paired => pc'[g'.cur] = "read"
    <3>1. CASE g'.paired = g.paired
      <4>1. g.healthy /\ FS!Serving /\ g.paired => pc[g.cur] = "read" /\ g.cur # c /\ g.cur \in FS!Clients
        BY FsTypes DEF FS!AnswersRead, FS!AsksOnce
      <4> QED
        BY <1>1, <1>3, <3>1, <4>1
    <3>2. CASE g'.paired /\ g.cur = c /\ to = "read"
      BY <1>1, <3>2
    <3> QED
      BY <3>1, <3>2, ZenonT(30)
  <2> QED
    BY <2>1, <2>2, <2>3 DEF FS!AnswersRead
<1>7. FS!InOrder'
  BY FsTypes, ZenonT(30) DEF FS!InOrder, FS!Range
<1> QED
  BY <1>2, <1>5, <1>6, <1>7 DEF FS!IInv

\* A client that ends, and removes its FIFO.
LEMMA FsExit ==
    ASSUME FS!IInv, NEW c \in FS!Clients, NEW from \in {"open", "await", "read"}, FS!Exit(c, from),
           from = "read" => g.got[c] # FS!None
    PROVE  FS!IInv'
<1>1. pc[c] = from /\ pc' = [pc EXCEPT ![c] = "exit"]
  BY DEF FS!Exit, FS!Go, FS!At
<1>2. g' = [requests |-> g.requests, fifos |-> g.fifos \ {c}, met |-> g.met, cur |-> g.cur,
            paired |-> g.paired, seqNum |-> g.seqNum, got |-> g.got, healthy |-> g.healthy]
  BY FsTypes, ZenonT(30) DEF FS!Exit, FsData
<1>3. /\ g' \in FsData /\ g'.requests = g.requests /\ g'.cur = g.cur /\ g'.seqNum = g.seqNum
      /\ g'.got = g.got /\ g'.healthy = g.healthy /\ g'.paired = g.paired
  BY <1>2, FsTypes DEF FsData
<1>4. "exit" \in FS!CPoints
  BY DEF FS!CPoints
<1> QED
  BY <1>1, <1>3, <1>4, FsClient, ZenonT(30)

\* The steps of a client but the request, and what may happen to it.
LEMMA FsClientStep ==
    ASSUME FS!IInv, NEW c \in FS!Clients,
           \/ FS!CMkfifo(c) \/ FS!CNoServer(c) \/ FS!COpenServer(c) \/ FS!COpenOwn(c) \/ FS!CRead(c)
           \/ FS!CFail(c) \/ FS!CKilled(c)
    PROVE  FS!IInv'
<1>1. CASE FS!CNoServer(c) \/ FS!CRead(c) \/ FS!CFail(c)
  BY <1>1, FsExit DEF FS!CNoServer, FS!CRead, FS!CFail
<1>2. CASE FS!CMkfifo(c)
  <2>1. pc[c] = "mkfifo" /\ pc' = [pc EXCEPT ![c] = "open"]
    BY <1>2 DEF FS!CMkfifo, FS!Go, FS!At
  <2>2. g' = [requests |-> g.requests, fifos |-> g.fifos \cup {c}, met |-> g.met, cur |-> g.cur,
              paired |-> g.paired, seqNum |-> g.seqNum, got |-> g.got, healthy |-> g.healthy]
    BY <1>2, FsTypes, ZenonT(30) DEF FS!CMkfifo, FsData
  <2>3. /\ g' \in FsData /\ g'.requests = g.requests /\ g'.cur = g.cur /\ g'.seqNum = g.seqNum
        /\ g'.got = g.got /\ g'.healthy = g.healthy /\ g'.paired = g.paired
    BY <2>2, FsTypes DEF FsData
  <2>4. "open" \in FS!CPoints
    BY DEF FS!CPoints
  <2> QED
    BY <2>1, <2>3, <2>4, FsClient, ZenonT(30)
<1>3. CASE FS!COpenServer(c)
  <2>1. pc[c] = "open" /\ pc' = [pc EXCEPT ![c] = "write"]
    BY <1>3 DEF FS!COpenServer, FS!Go, FS!At
  <2>2. g' = [requests |-> g.requests, fifos |-> g.fifos, met |-> TRUE, cur |-> g.cur,
              paired |-> g.paired, seqNum |-> g.seqNum, got |-> g.got, healthy |-> g.healthy]
    BY <1>3, FsTypes, ZenonT(30) DEF FS!COpenServer, FsData
  <2>3. /\ g' \in FsData /\ g'.requests = g.requests /\ g'.cur = g.cur /\ g'.seqNum = g.seqNum
        /\ g'.got = g.got /\ g'.healthy = g.healthy /\ g'.paired = g.paired
    BY <2>2, FsTypes, ZenonT(30) DEF FsData
  <2>4. "write" \in FS!CPoints
    BY DEF FS!CPoints
  <2> QED
    BY <2>1, <2>3, <2>4, FsClient, ZenonT(30)
<1>4. CASE FS!COpenOwn(c)
  <2>1. /\ pc[c] = "await" /\ pc' = [pc EXCEPT ![c] = "read"] /\ g.cur = c
        /\ pc[FS!Server] = "blocked"
    BY <1>4 DEF FS!COpenOwn, FS!Go, FS!At
  <2>2. g' = [requests |-> g.requests, fifos |-> g.fifos, met |-> g.met, cur |-> g.cur,
              paired |-> TRUE, seqNum |-> g.seqNum, got |-> g.got, healthy |-> g.healthy]
    BY <1>4, FsTypes, ZenonT(30) DEF FS!COpenOwn, FsData
  <2>3. /\ g' \in FsData /\ g'.requests = g.requests /\ g'.cur = g.cur /\ g'.seqNum = g.seqNum
        /\ g'.got = g.got /\ g'.healthy = g.healthy /\ g'.paired
    BY <2>2, FsTypes DEF FsData
  <2>4. "read" \in FS!CPoints
    BY DEF FS!CPoints
  <2> QED
    BY <2>1, <2>3, <2>4, FsClient, ZenonT(30)
<1>5. CASE FS!CKilled(c)
  <2>1. ~g.healthy /\ pc' = [pc EXCEPT ![c] = "killed"] /\ g' = g /\ "killed" \in FS!CPoints
    BY <1>5 DEF FS!CKilled, FS!CPoints
  <2> QED
    BY <2>1, FsTypes, FsClient, ZenonT(30)
<1> QED
  BY <1>1, <1>2, <1>3, <1>4, <1>5

\* A client sends its request.
LEMMA FsRequest ==
    ASSUME FS!IInv, NEW c \in FS!Clients, FS!CWrite(c)
    PROVE  FS!IInv'
<1>1. pc[c] = "write" /\ pc' = [pc EXCEPT ![c] = "await"]
  BY DEF FS!CWrite, FS!Go, FS!At
<1>2. g' = [requests |-> Append(g.requests, c), fifos |-> g.fifos, met |-> g.met, cur |-> g.cur,
            paired |-> g.paired, seqNum |-> g.seqNum, got |-> g.got, healthy |-> g.healthy]
  BY FsTypes, ZenonT(30) DEF FS!CWrite, FsData
<1>3. /\ g' \in FsData /\ g'.requests = Append(g.requests, c) /\ g'.cur = g.cur
      /\ g'.seqNum = g.seqNum /\ g'.got = g.got /\ g'.healthy = g.healthy /\ g'.paired = g.paired
  BY <1>2, FsTypes DEF FsData
<1>4. /\ \A d \in FS!Clients : pc'[d] = IF d = c THEN "await" ELSE pc[d]
      /\ pc'[FS!Server] = pc[FS!Server]
  BY <1>1, FsTypes
<1>5. FS!TypeOK'
  BY <1>1, <1>3, <1>4, FsTypes, ZenonT(30) DEF FS!TypeOK, FsData, FS!CPoints
<1>6. FS!Serving' <=> FS!Serving
  BY <1>4 DEF FS!Serving
<1>7. g.got[c] = FS!None /\ ~FS!Requested(c) /\ (FS!Serving => c # g.cur)
  BY <1>1, FsTypes DEF FS!AsksOnce
<1>8. /\ Len(g'.requests) = Len(g.requests) + 1
      /\ \A i \in 1 .. Len(g'.requests) :
             g'.requests[i] = IF i <= Len(g.requests) THEN g.requests[i] ELSE c
  BY <1>3, FsTypes
<1>0. Len(g.requests) \in Nat
  BY FsTypes
<1>9. \A d \in FS!Clients : FS!Requested(d)' => FS!Requested(d) \/ d = c
  <2>1. ASSUME NEW d \in FS!Clients, NEW i \in 1 .. Len(g'.requests), g'.requests[i] = d
        PROVE  FS!Requested(d) \/ d = c
    <3>1. CASE i <= Len(g.requests)
      <4>1. i \in 1 .. Len(g.requests) /\ g.requests[i] = d
        BY <1>0, <1>8, <2>1, <3>1
      <4> QED
        BY <4>1 DEF FS!Requested
    <3>2. CASE ~(i <= Len(g.requests))
      BY <1>8, <2>1, <3>2
    <3> QED
      BY <3>1, <3>2
  <2> QED
    BY <2>1 DEF FS!Requested
<1>10. FS!AsksOnce'
  <2>1. \A i, k \in 1 .. Len(g'.requests) : g'.requests[i] = g'.requests[k] => i = k
    <3>1. ASSUME NEW i \in 1 .. Len(g'.requests), NEW k \in 1 .. Len(g'.requests),
                 g'.requests[i] = g'.requests[k]
          PROVE  i = k
      <4>1. \A m \in 1 .. Len(g.requests) : g.requests[m] # c
        BY <1>7 DEF FS!Requested
      <4>2. \A m \in 1 .. Len(g'.requests) : m \in 1 .. Len(g.requests) \/ m = Len(g.requests) + 1
        BY <1>0, <1>8
      <4>3. CASE i \in 1 .. Len(g.requests) /\ k \in 1 .. Len(g.requests)
        BY <1>0, <1>8, <3>1, <4>3, FsTypes DEF FS!AsksOnce
      <4>4. CASE i = Len(g.requests) + 1 \/ k = Len(g.requests) + 1
        BY <1>0, <1>8, <3>1, <4>1, <4>2, <4>4
      <4> QED
        BY <4>2, <4>3, <4>4
    <3> QED
      BY <3>1
  <2>2. FS!Serving' => g'.cur \in FS!Clients /\ g'.got[g'.cur] = FS!None /\ ~FS!Requested(g.cur)'
    BY <1>3, <1>6, <1>7, <1>9, FsTypes DEF FS!AsksOnce
  <2>3. \A d \in FS!Clients : /\ FS!Requested(d)' => g'.got[d] = FS!None
                              /\ pc'[d] \in {"mkfifo", "open", "write"} =>
                                   g'.got[d] = FS!None /\ ~FS!Requested(d)' /\ (FS!Serving' => d # g'.cur)
    BY <1>3, <1>4, <1>6, <1>7, <1>9, FsTypes, ZenonT(30) DEF FS!AsksOnce
  <2> QED
    BY <1>3, <2>1, <2>2, <2>3 DEF FS!AsksOnce, FS!Requested
<1>11. FS!AnswersRead'
  BY <1>1, <1>3, <1>4, <1>6, FsTypes DEF FS!AnswersRead
<1>12. FS!InOrder'
  BY <1>3, FsTypes, ZenonT(30) DEF FS!InOrder, FS!Range
<1> QED
  BY <1>5, <1>10, <1>11, <1>12 DEF FS!IInv

\* The server opens its FIFO, or that of a client, or gives up on the client.
LEMMA FsServer ==
    ASSUME FS!IInv,
           FS!SMkfifo \/ FS!SOpen \/ FS!SGiveUp \/ FS!SOpenClient \/ FS!SOpened
    PROVE  FS!IInv'
<1>1. PICK to \in FS!SPoints :
        /\ pc' = [pc EXCEPT ![FS!Server] = to] /\ g' = g
        /\ to \in {"open", "blocked", "write"} => FS!Serving
        /\ to = "open" => FALSE
        /\ to = "write" => g.paired
  BY DEF FS!SMkfifo, FS!SOpen, FS!SGiveUp, FS!SOpenClient, FS!SOpened, FS!Go, FS!At, FS!SPoints,
         FS!Serving
<1>2. pc'[FS!Server] = to /\ \A c \in FS!Clients : pc'[c] = pc[c]
  BY <1>1, FsTypes
<1>3. FS!Serving' => FS!Serving
  BY <1>1, <1>2 DEF FS!Serving
<1>4. FS!TypeOK'
  BY <1>1, <1>2, FsTypes DEF FS!TypeOK, FsData
<1>5. \A d : FS!Requested(d)' <=> FS!Requested(d)
  BY <1>1 DEF FS!Requested
<1>6. FS!AsksOnce'
  <2>1. FS!Serving' => g'.cur \in FS!Clients /\ g'.got[g'.cur] = FS!None /\ ~FS!Requested(g.cur)'
    BY <1>1, <1>3, <1>5, FsTypes DEF FS!AsksOnce
  <2>2. \A d \in FS!Clients : /\ FS!Requested(d)' => g'.got[d] = FS!None
                              /\ pc'[d] \in {"mkfifo", "open", "write"} =>
                                   g'.got[d] = FS!None /\ ~FS!Requested(d)' /\ (FS!Serving' => d # g'.cur)
    BY <1>1, <1>2, <1>3, <1>5, FsTypes, ZenonT(30) DEF FS!AsksOnce
  <2>3. \A i, k \in 1 .. Len(g'.requests) : g'.requests[i] = g'.requests[k] => i = k
    BY <1>1, FsTypes, ZenonT(30) DEF FS!AsksOnce
  <2> QED
    BY <1>1, <2>1, <2>2, <2>3 DEF FS!AsksOnce, FS!Requested
<1>7. FS!AnswersRead'
  <2>1. FS!Serving => g.cur \in FS!Clients
    BY FsTypes DEF FS!AsksOnce
  <2> QED
    BY <1>1, <1>2, <1>3, <2>1, FsTypes, ZenonT(30) DEF FS!AnswersRead
<1>8. FS!InOrder'
  BY <1>1, FsTypes, ZenonT(30) DEF FS!InOrder, FS!Range
<1> QED
  BY <1>4, <1>6, <1>7, <1>8 DEF FS!IInv

\* The server takes the next request.
LEMMA FsTake ==
    ASSUME FS!IInv, FS!SRead
    PROVE  FS!IInv'
<1>1. /\ pc[FS!Server] = "read" /\ pc' = [pc EXCEPT ![FS!Server] = "open"] /\ g.requests # <<>>
  BY DEF FS!SRead, FS!Go, FS!At
<1>0. PICK c \in FS!Clients : c = Head(g.requests)
  BY <1>1, FsTypes
<1>2. g' = [requests |-> Tail(g.requests), fifos |-> g.fifos, met |-> g.met, cur |-> c,
            paired |-> FALSE, seqNum |-> g.seqNum, got |-> g.got, healthy |-> g.healthy]
  BY <1>0, FsTypes, ZenonT(30) DEF FS!SRead, FsData
<1>3. c = g.requests[1] /\ Len(g.requests) \in Nat \ {0}
  BY <1>0, <1>1, FsTypes
<1>4. /\ Tail(g.requests) \in Seq(FS!Clients)
      /\ Len(Tail(g.requests)) = Len(g.requests) - 1
      /\ \A i \in 1 .. Len(Tail(g.requests)) : Tail(g.requests)[i] = g.requests[i + 1]
  BY <1>1, FsTypes
<1>5. /\ g' \in FsData /\ g'.requests = Tail(g.requests) /\ g'.cur = c /\ ~g'.paired
      /\ g'.seqNum = g.seqNum /\ g'.got = g.got /\ g'.healthy = g.healthy
  BY <1>2, <1>3, <1>4, FsTypes DEF FsData
<1>6. pc'[FS!Server] = "open" /\ \A d \in FS!Clients : pc'[d] = pc[d]
  BY <1>1, FsTypes
<1>7. FS!TypeOK'
  BY <1>1, <1>5, <1>6, FsTypes DEF FS!TypeOK, FsData, FS!SPoints
<1>8. FS!Requested(c)
  BY <1>3, FsTypes DEF FS!Requested
<1>9. \A d \in FS!Clients : FS!Requested(d)' => FS!Requested(d) /\ d # c
  <2>1. ASSUME NEW d \in FS!Clients, NEW i \in 1 .. Len(g'.requests), g'.requests[i] = d
        PROVE  FS!Requested(d) /\ d # c
    <3>1. i + 1 \in 1 .. Len(g.requests) /\ 1 \in 1 .. Len(g.requests) /\ g.requests[i + 1] = d /\ i + 1 # 1
      BY <1>3, <1>4, <1>5, <2>1
    <3>2. d # c
      BY <1>3, <3>1, FsTypes DEF FS!AsksOnce
    <3> QED
      BY <3>1, <3>2 DEF FS!Requested
  <2> QED
    BY <2>1 DEF FS!Requested
<1>10. g.got[c] = FS!None /\ pc[c] \notin {"mkfifo", "open", "write"}
  BY <1>3, <1>8, FsTypes DEF FS!AsksOnce
<1>11. FS!AsksOnce'
  <2>1. \A i, k \in 1 .. Len(g'.requests) : g'.requests[i] = g'.requests[k] => i = k
    <3>1. ASSUME NEW i \in 1 .. Len(g'.requests), NEW k \in 1 .. Len(g'.requests),
                 g'.requests[i] = g'.requests[k]
          PROVE  i = k
      <4>1. i + 1 \in 1 .. Len(g.requests) /\ k + 1 \in 1 .. Len(g.requests)
        BY <1>3, <1>4, <1>5
      <4>2. g.requests[i + 1] = g.requests[k + 1]
        BY <1>4, <1>5, <3>1
      <4>3. i + 1 = k + 1
        BY <4>1, <4>2, FsTypes, ZenonT(30) DEF FS!AsksOnce
      <4> QED
        BY <4>3
    <3> QED
      BY <3>1
  <2>2. g'.cur \in FS!Clients /\ g'.got[g'.cur] = FS!None /\ ~FS!Requested(c)'
    BY <1>3, <1>5, <1>9, <1>10
  <2>3. \A d \in FS!Clients : /\ FS!Requested(d)' => g'.got[d] = FS!None
                              /\ pc'[d] \in {"mkfifo", "open", "write"} =>
                                   g'.got[d] = FS!None /\ ~FS!Requested(d)' /\ d # g'.cur
    BY <1>5, <1>6, <1>9, <1>10, FsTypes, ZenonT(30) DEF FS!AsksOnce
  <2> QED
    BY <1>5, <2>1, <2>2, <2>3 DEF FS!AsksOnce, FS!Requested
<1>12. FS!AnswersRead'
  BY <1>5, <1>6, FsTypes, ZenonT(30) DEF FS!AnswersRead
<1>13. FS!InOrder'
  BY <1>5, FsTypes, ZenonT(30) DEF FS!InOrder, FS!Range
<1> QED
  BY <1>7, <1>11, <1>12, <1>13 DEF FS!IInv

\* The server writes the answer: the numbers after those it has handed out.
LEMMA FsAnswer ==
    ASSUME FS!IInv, FS!SWrite
    PROVE  FS!IInv'
<1> DEFINE c == g.cur
           n == SeqLen[c]
           got == [g.got EXCEPT ![c] = IF pc[c] = "read" THEN g.seqNum ELSE @]
<1>1. pc[FS!Server] = "write" /\ pc' = [pc EXCEPT ![FS!Server] = "read"]
  BY DEF FS!SWrite, FS!Go, FS!At
<1>2. g' = [requests |-> g.requests, fifos |-> g.fifos, met |-> g.met, cur |-> g.cur,
            paired |-> g.paired, seqNum |-> g.seqNum + n, got |-> got, healthy |-> g.healthy]
  BY FsTypes, ZenonT(30) DEF FS!SWrite, FsData
<1>3. c \in FS!Clients /\ g.got[c] = FS!None /\ ~FS!Requested(c) /\ n \in Nat /\ n > 0
  BY <1>1, FsTypes DEF FS!AsksOnce, FS!Serving
<1>4. /\ got \in [FS!Clients -> Nat \cup {FS!None}]
      /\ got[c] = IF pc[c] = "read" THEN g.seqNum ELSE FS!None
      /\ \A d \in FS!Clients : d # c => got[d] = g.got[d]
  BY <1>3, FsTypes, ZenonT(30)
<1> HIDE DEF got
<1>5. /\ g' \in FsData /\ g'.requests = g.requests /\ g'.cur = c /\ g'.paired = g.paired
      /\ g'.seqNum = g.seqNum + n /\ g'.got = got /\ g'.healthy = g.healthy
  BY <1>2, <1>3, <1>4, FsTypes DEF FsData
<1>6. pc'[FS!Server] = "read" /\ \A d \in FS!Clients : pc'[d] = pc[d]
  BY <1>1, FsTypes, ZenonT(30)
<1>7. FS!TypeOK'
  BY <1>1, <1>5, <1>6, FsTypes, ZenonT(30) DEF FS!TypeOK, FsData, FS!SPoints
<1>8. \A d \in FS!Clients : FS!Requested(d)' <=> FS!Requested(d)
  BY <1>5 DEF FS!Requested
<1>9. FS!AsksOnce'
  <2>1. \A i, k \in 1 .. Len(g'.requests) : g'.requests[i] = g'.requests[k] => i = k
    BY <1>5, FsTypes, ZenonT(30) DEF FS!AsksOnce
  <2>2. ~FS!Serving'
    BY <1>6 DEF FS!Serving
  <2>3. pc[c] \notin {"mkfifo", "open", "write"}
    BY <1>1, <1>3, FsTypes DEF FS!AsksOnce, FS!Serving
  <2>4. \A d \in FS!Clients : /\ FS!Requested(d)' => g'.got[d] = FS!None
                              /\ pc'[d] \in {"mkfifo", "open", "write"} =>
                                   g'.got[d] = FS!None /\ ~FS!Requested(d)'
    BY <1>3, <1>4, <1>5, <1>6, <1>8, <2>3, FsTypes, ZenonT(30) DEF FS!AsksOnce
  <2> QED
    BY <2>1, <2>2, <2>4 DEF FS!AsksOnce
<1>10. FS!AnswersRead'
  BY <1>5, <1>6, FsTypes, ZenonT(30) DEF FS!AnswersRead, FS!Serving
<1>11. g.healthy => pc[c] = "read"
  BY <1>1, FsTypes DEF FS!AnswersRead, FS!Serving
<1>12. \A d \in FS!Clients : SeqLen[d] \in Nat /\ g.got[d] \in Nat \cup {FS!None}
  BY FsTypes
<1>13. \A d \in FS!Clients : g'.got[d] # FS!None => g'.got[d] + SeqLen[d] <= g'.seqNum
  <2>1. ASSUME NEW d \in FS!Clients, g'.got[d] # FS!None
        PROVE  g'.got[d] + SeqLen[d] <= g'.seqNum
    <3>1. CASE d = c
      BY <1>3, <1>4, <1>5, <2>1, <3>1, FsTypes
    <3>2. CASE d # c
      <4>1. g.got[d] + SeqLen[d] <= g.seqNum /\ g'.got[d] = g.got[d] /\ g.got[d] \in Nat
        BY <1>4, <1>5, <1>12, <2>1, <3>2, FsTypes, ZenonT(30) DEF FS!InOrder
      <4> QED
        BY <1>3, <1>5, <1>12, <4>1, FsTypes
    <3> QED
      BY <3>1, <3>2
  <2> QED
    BY <2>1
<1>14. ASSUME NEW d \in FS!Clients, NEW e \in FS!Clients, d # e, g'.got[d] # FS!None,
              g'.got[e] # FS!None
       PROVE  g'.got[d] + SeqLen[d] <= g'.got[e] \/ g'.got[e] + SeqLen[e] <= g'.got[d]
  <2>1. CASE d # c /\ e # c
    BY <1>4, <1>5, <1>14, <2>1, FsTypes, ZenonT(30) DEF FS!InOrder
  <2>2. CASE d = c /\ e # c
    <3>1. g'.got[d] = g.seqNum /\ g'.got[e] = g.got[e]
      BY <1>4, <1>5, <1>14, <2>2, ZenonT(30)
    <3> QED
      BY <1>14, <3>1, FsTypes, ZenonT(30) DEF FS!InOrder
  <2>3. CASE d # c /\ e = c
    <3>1. g'.got[e] = g.seqNum /\ g'.got[d] = g.got[d]
      BY <1>4, <1>5, <1>14, <2>3, ZenonT(30)
    <3> QED
      BY <1>14, <3>1, FsTypes, ZenonT(30) DEF FS!InOrder
  <2> QED
    BY <1>14, <2>1, <2>2, <2>3, ZenonT(30)
<1>15. ASSUME g'.healthy, NEW m \in 0 .. g'.seqNum - 1
       PROVE  \E d \in FS!Clients : g'.got[d] # FS!None /\ m \in g'.got[d] .. g'.got[d] + SeqLen[d] - 1
  <2>1. CASE m < g.seqNum
    <3>1. m \in 0 .. g.seqNum - 1
      BY <2>1, FsTypes
    <3>2. PICK d \in FS!Clients : g.got[d] # FS!None /\ m \in g.got[d] .. g.got[d] + SeqLen[d] - 1
      BY <1>5, <1>15, <3>1, FsTypes, ZenonT(30) DEF FS!InOrder, FS!Range
    <3> QED
      BY <1>3, <1>4, <1>5, <3>2, ZenonT(30)
  <2>2. CASE m >= g.seqNum
    <3>1. g'.got[c] = g.seqNum /\ g.seqNum # FS!None
      BY <1>4, <1>5, <1>11, <1>15, FsTypes, ZenonT(30)
    <3>2. m \in g.seqNum .. g.seqNum + n - 1
      BY <1>3, <1>5, <2>2, FsTypes
    <3> QED
      BY <1>3, <3>1, <3>2
  <2> QED
    BY <2>1, <2>2, FsTypes
<1>16. FS!InOrder'
  BY <1>13, <1>14, <1>15, ZenonT(30) DEF FS!InOrder, FS!Range
<1> QED
  BY <1>7, <1>9, <1>10, <1>16 DEF FS!IInv

\* Every step of the server and of a client keeps the invariant, and so does a client's death.
LEMMA FsStep ==
    ASSUME FS!IInv
    PROVE  /\ \A p \in FS!Clients \cup {FS!Server} : FS!Step(p) => FS!IInv'
           /\ FS!Env => FS!IInv'
BY FsClientStep, FsRequest, FsServer, FsTake, FsAnswer DEF FS!Step, FS!Env

\* The numbers of two clients are apart, and together they are all that were handed out.
LEMMA FsRight ==
    ASSUME FS!IInv
    PROVE  FS!UniqueNumbers
<1> DEFINE served == {c \in FS!Clients : g.got[c] # FS!None}
<1>1. \A c \in served : g.got[c] \in Nat /\ SeqLen[c] \in Nat /\ g.got[c] + SeqLen[c] <= g.seqNum
  BY FsTypes, ZenonT(30) DEF FS!InOrder
<1>2. \A c, d \in served : c # d => FS!Range(c) \cap FS!Range(d) = {}
  <2>1. ASSUME NEW c \in served, NEW d \in served, c # d, NEW m \in FS!Range(c), m \in FS!Range(d)
        PROVE  FALSE
    <3>1. g.got[c] + SeqLen[c] <= g.got[d] \/ g.got[d] + SeqLen[d] <= g.got[c]
      BY <2>1, FsTypes, ZenonT(30) DEF FS!InOrder
    <3> QED
      BY <1>1, <2>1, <3>1 DEF FS!Range
  <2> QED
    BY <2>1
<1>3. ASSUME g.healthy
      PROVE  UNION {FS!Range(c) : c \in served} = 0 .. g.seqNum - 1
  <2>1. ASSUME NEW c \in served, NEW m \in FS!Range(c)
        PROVE  m \in 0 .. g.seqNum - 1
    BY <1>1, <2>1, FsTypes DEF FS!Range
  <2>2. ASSUME NEW m \in 0 .. g.seqNum - 1
        PROVE  \E c \in served : m \in FS!Range(c)
    BY <1>3, <2>2, FsTypes DEF FS!InOrder
  <2> HIDE DEF served
  <2> QED
    BY <2>1, <2>2
<1> QED
  BY <1>2, <1>3 DEF FS!UniqueNumbers

\* Nothing happens.
LEMMA FsStutter ==
    ASSUME FS!IInv, pc' = pc, g' = g
    PROVE  FS!IInv'
BY ZenonT(30) DEF FS!IInv, FS!TypeOK, FS!AsksOnce, FS!Serving, FS!Requested, FS!AnswersRead, FS!InOrder,
       FS!Range

-----------------------------------------------------------------------------
(* All programs                                                            *)

Names == {"mq_notify", "fifo_seqnum", "svmsg_file", "svsem_init", "pipe_sync"}

IInv ==
    /\ prog \in Names
    /\ prog = "mq_notify" => MQ!IInv
    /\ prog = "fifo_seqnum" => FS!IInv
    /\ prog = "svmsg_file" => MF!IInv
    /\ prog = "svsem_init" => SI!IInv
    /\ prog = "pipe_sync" => PS!IInv

\* Whatever program is started, its invariant holds.
LEMMA IpcInit == Init => IInv
BY MqInit, FsInit, MfInit, SemInit, SyncInit DEF Init, IInv, Names

\* The processes of a program are those it has points for.
LEMMA IpcDomain ==
    /\ MQ!IInv => DOMAIN pc = MQ!Procs
    /\ FS!IInv => DOMAIN pc = FS!Clients \cup {FS!Server}
    /\ MF!IInv => DOMAIN pc = MF!Procs
    /\ SI!IInv => DOMAIN pc = SI!Procs
    /\ PS!IInv => DOMAIN pc = PS!Children \cup {PS!Parent}
<1>1. MQ!IInv => DOMAIN pc = MQ!Procs
  BY DEF MQ!IInv, MQ!TypeOK
<1>2. FS!IInv => DOMAIN pc = FS!Clients \cup {FS!Server}
  BY DEF FS!IInv, FS!TypeOK
<1>3. MF!IInv => DOMAIN pc = MF!Procs
  BY DEF MF!IInv, MF!TypeOK
<1>4. SI!IInv => DOMAIN pc = SI!Procs
  BY DEF SI!IInv
<1>5. PS!IInv => DOMAIN pc = PS!Children \cup {PS!Parent}
  BY DEF PS!IInv
<1> QED
  BY <1>1, <1>2, <1>3, <1>4, <1>5

\* A process takes a step, or something happens to one.
LEMMA IpcKeeps ==
    ASSUME IInv, (\E p : Step(p)) \/ Env
    PROVE  IInv'
<1>0. prog' = prog
  BY DEF Step, Env
<1>1. CASE prog = "mq_notify"
  <2>1. MQ!IInv'
    BY <1>1, IpcDomain, MqStep, MqSend DEF IInv, Step, Env, MQ!Env
  <2> QED
    BY <1>0, <1>1, <2>1 DEF IInv, Names
<1>2. CASE prog = "fifo_seqnum"
  <2>1. FS!IInv'
    BY <1>2, IpcDomain, FsStep DEF IInv, Step, Env
  <2> QED
    BY <1>0, <1>2, <2>1 DEF IInv, Names
<1>3. CASE prog = "svmsg_file"
  <2>1. MF!IInv'
    BY <1>3, IpcDomain, MfStep DEF IInv, Step, Env
  <2> QED
    BY <1>0, <1>3, <2>1, ZenonT(30) DEF IInv, Names
<1>4. CASE prog = "svsem_init"
  <2>1. SI!IInv'
    BY <1>4, IpcDomain, SemStep DEF IInv, Step, Env
  <2> QED
    BY <1>0, <1>4, <2>1 DEF IInv, Names
<1>5. CASE prog = "pipe_sync"
  <2>1. PS!IInv'
    BY <1>5, IpcDomain, SyncStep DEF IInv, Step, Env
  <2> QED
    BY <1>0, <1>5, <2>1 DEF IInv, Names
<1> QED
  BY <1>1, <1>2, <1>3, <1>4, <1>5 DEF IInv, Names

\* Nothing happens.
LEMMA IpcStutter ==
    ASSUME IInv, UNCHANGED allVars
    PROVE  IInv'
<1>1. prog' = prog /\ pc' = pc /\ g' = g
  BY DEF allVars, vars
<1>2. SI!IInv => SI!IInv'
  BY <1>1, ZenonT(30) DEF SI!IInv, SI!Record, SI!Points, SI!Good, SI!NoOpLost
<1>3. PS!IInv => PS!IInv'
  BY <1>1 DEF PS!IInv, PS!AfterAllChildren
<1> QED
  BY <1>1, <1>2, <1>3, MqStutter, FsStutter, MfStutter DEF IInv

\* Each of the programs keeps its invariant, whichever process runs, fails or is killed.
THEOREM IpcSafe == Spec => []IInv
<1>1. IInv /\ [Next]_allVars => IInv'
  BY IpcKeeps, IpcStutter DEF Next
<1> QED
  BY IpcInit, <1>1, PTL DEF Spec

\* mq_notify_*.c, for any number of messages and any mq_maxmsg: a queued message is in hand, or
\* the next one will notify, and mq_notify() never fails with EBUSY.
THEOREM NotifiedOfMessages == Spec => []NoMessageForgotten
<1>1. IInv => NoMessageForgotten
  BY MqRight DEF IInv, NoMessageForgotten
<1> QED
  BY IpcSafe, <1>1, PTL

\* fifo_seqnum_*.c and svmsg_file_*.c, for any number of clients: no number is given to two
\* clients, a client that is told of the end has its whole file, and no zombie stays.
THEOREM ServersRight == Spec => []ClientsServed
<1>1. IInv => ClientsServed
  BY FsRight DEF IInv, ClientsServed, MF!IInv
<1> QED
  BY IpcSafe, <1>1, PTL

\* svsem_*_init.c and pipe_sync.c, for any number of processes: what follows the initialisation,
\* or the children's work, does follow it.
THEOREM InitialisedFirst == Spec => []InitFirst
<1>1. IInv => InitFirst
  BY DEF IInv, InitFirst, SI!IInv, PS!IInv
<1> QED
  BY IpcSafe, <1>1, PTL
=============================================================================
