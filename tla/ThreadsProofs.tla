--------------------------- MODULE ThreadsProofs ---------------------------
(***************************************************************************)
(* The safety properties of the programs of threads/, for any number of    *)
(* threads, producers, units, loops and calls.  Each program has its own   *)
(* inductive invariant; which one counts, the initial state decides.       *)
(***************************************************************************)
EXTENDS Threads, CountProofs

\* How long the provers may take for one step.
USE ZenonT(30)

-----------------------------------------------------------------------------
(* one_time_init.c                                                         *)

OnceData == [called : BOOLEAN, runs : Nat, finished : Nat, calls : [OT!Threads -> Nat],
             created : Nat, joined : Nat]

\* Nothing is initialised yet.
LEMMA OnceInit ==
    ASSUME OT!Init
    PROVE  OT!IInv
BY OnceAssumption, SMTT(30)
   DEF OT!Init, OT!IInv, OT!TypeOK, OT!Tids, OT!Threads, OT!Main, OT!Free, OT!Locked

\* Every step of one_time_init() and of its callers keeps the invariant.
LEMMA OnceStep ==
    ASSUME OT!IInv, NEW w \in OT!Tids, OT!Thread(w)
    PROVE  OT!IInv'
<1> USE OnceAssumption
    DEF OT!IInv, OT!TypeOK, OT!Tids, OT!Threads, OT!Main, OT!Free, OT!Locked, OnceData
<1>1. CASE OT!MCreate
  <2>1. /\ g' \in OnceData /\ g'.called = g.called /\ g'.runs = g.runs
        /\ g'.finished = g.finished /\ g'.calls = g.calls
    <3>1. g' = [called |-> g.called, runs |-> g.runs, finished |-> g.finished, calls |-> g.calls,
                created |-> g.created + 1, joined |-> g.joined]
      BY <1>1 DEF OT!MCreate
    <3> QED
      BY <3>1, SMTT(30)
  <2>2. \A t \in OT!Threads : pc'[t] = pc[t] \/ (pc[t] = "none" /\ pc'[t] = "lock")
    BY <1>1 DEF OT!MCreate, OT!Start
  <2>3. /\ mtx' = mtx /\ pc'[OT!Main] = pc[OT!Main]
        /\ pc' \in [OT!Tids -> {"create", "exit", "none", "lock", "test", "init", "set", "unlock", "end"}]
    BY <1>1 DEF OT!MCreate, OT!Start
  <2> QED
    BY <2>1, <2>2, <2>3, SMTT(30)
<1>2. CASE OT!MJoin
  <2>1. /\ g' \in OnceData /\ g'.called = g.called /\ g'.runs = g.runs
        /\ g'.finished = g.finished /\ g'.calls = g.calls
    <3>1. g' = [called |-> g.called, runs |-> g.runs, finished |-> g.finished, calls |-> g.calls,
                created |-> g.created, joined |-> g.joined + 1]
      BY <1>2 DEF OT!MJoin
    <3> QED
      BY <3>1, SMTT(30)
  <2>2. /\ mtx' = mtx /\ pc'[OT!Main] \in {"create", "exit"}
        /\ \A t \in OT!Threads : pc'[t] = pc[t]
        /\ pc' \in [OT!Tids -> {"create", "exit", "none", "lock", "test", "init", "set", "unlock", "end"}]
    BY <1>2, SMTT(30) DEF OT!MJoin, OT!Joined, OT!Go
  <2> QED
    BY <2>1, <2>2
<1>3. ASSUME NEW t \in OT!Threads, OT!TLock(t)
      PROVE  OT!IInv'
  BY <1>3, SMTT(30) DEF OT!TLock, OT!Lock, OT!Go
<1>4. ASSUME NEW t \in OT!Threads, OT!TestCalled(t)
      PROVE  OT!IInv'
  <2>1. pc[t] = "test" /\ mtx = t /\ mtx' = mtx
    BY <1>4 DEF OT!TestCalled, OT!Go
  <2>2. CASE g.called
    <3>1. g' = g /\ pc' = [pc EXCEPT ![t] = "unlock"]
      BY <1>4, <2>2 DEF OT!TestCalled, OT!Go
    <3> QED
      BY <2>1, <2>2, <3>1
  <2>3. CASE ~g.called
    <3>1. pc' = [pc EXCEPT ![t] = "init"]
      BY <1>4, <2>3 DEF OT!TestCalled, OT!Go
    <3>2. g.runs = 0 /\ g.finished = 0
      BY <2>1, <2>3
    <3>3. g' = [called |-> g.called, runs |-> g.runs + 1, finished |-> g.finished,
                calls |-> g.calls, created |-> g.created, joined |-> g.joined]
      BY <1>4, <2>3 DEF OT!TestCalled
    <3>4. g' \in OnceData /\ g'.runs = 1 /\ g'.finished = 0 /\ ~g'.called /\ g'.calls = g.calls
      BY <2>3, <3>2, <3>3, SMTT(30)
    <3>5. \A u \in OT!Threads : u # t => pc'[u] = pc[u] /\ ~OT!Locked(u)
      BY <2>1, <3>1
    <3> QED
      BY <2>1, <2>3, <3>1, <3>4, <3>5
  <2> QED
    BY <2>2, <2>3
<1>5. ASSUME NEW t \in OT!Threads, OT!InitReturns(t)
      PROVE  OT!IInv'
  <2>1. pc[t] = "init" /\ g.runs = 1 /\ g.finished = 0 /\ ~g.called
    BY <1>5 DEF OT!InitReturns, OT!Go
  <2>2. g' \in OnceData /\ g'.runs = 1 /\ g'.finished = 1 /\ ~g'.called /\ g'.calls = g.calls
    <3>1. g' = [called |-> g.called, runs |-> g.runs, finished |-> g.finished + 1,
                calls |-> g.calls, created |-> g.created, joined |-> g.joined]
      BY <1>5 DEF OT!InitReturns
    <3> QED
      BY <2>1, <3>1, SMTT(30)
  <2> QED
    BY <1>5, <2>1, <2>2 DEF OT!InitReturns, OT!Go
<1>6. ASSUME NEW t \in OT!Threads, OT!SetCalled(t)
      PROVE  OT!IInv'
  BY <1>6 DEF OT!SetCalled, OT!Go
<1>7. ASSUME NEW t \in OT!Threads, OT!TUnlock(t)
      PROVE  OT!IInv'
  <2> DEFINE calls == [g.calls EXCEPT ![t] = @ + 1]
  <2>0. g' = [called |-> g.called, runs |-> g.runs, finished |-> g.finished,
              calls |-> calls, created |-> g.created, joined |-> g.joined]
    BY <1>7 DEF OT!TUnlock
  <2>a. calls \in [OT!Threads -> Nat]
    BY SMTT(30)
  <2> HIDE DEF calls
  <2>1. /\ pc' \in [OT!Tids -> {"create", "exit", "none", "lock", "test", "init", "set", "unlock", "end"}]
        /\ pc' = [pc EXCEPT ![t] = pc'[t]] /\ pc'[t] \in {"lock", "end"}
        /\ pc[t] = "unlock" /\ mtx' = OT!Free
    <3> DEFINE to == IF g.calls[t] + 1 < OnceCalls THEN "lock" ELSE "end"
    <3>1. pc' = [pc EXCEPT ![t] = to] /\ pc[t] = "unlock" /\ mtx' = OT!Free
      BY <1>7 DEF OT!TUnlock, OT!Unlock, OT!Go
    <3>2. to \in {"lock", "end"}
      OBVIOUS
    <3> HIDE DEF to
    <3> QED
      BY <3>1, <3>2
  <2>2. /\ g' \in OnceData /\ g.called
        /\ g'.called = g.called /\ g'.runs = g.runs /\ g'.finished = g.finished
    <3>1. g.called
      BY <2>1
    <3>2. g' \in OnceData
      BY <2>0, <2>a
    <3> QED
      BY <2>0, <3>1, <3>2
  <2>3. \A u \in OT!Threads : u # t => pc'[u] = pc[u] /\ ~OT!Locked(u)
    BY <2>1
  <2>4. pc'[OT!Main] = pc[OT!Main]
    BY <2>1
  <2>5. OT!TypeOK'
    BY <2>1, <2>2, <2>4
  <2>6. \A u \in OT!Threads : ~OT!Locked(u)' /\ pc'[u] \notin {"init", "set"}
    BY <2>1, <2>3
  <2>7. g'.called /\ g'.runs = 1 /\ g'.finished = 1
    BY <2>2
  <2> QED
    BY <2>5, <2>6, <2>7
<1> HIDE DEF OT!IInv
<1> QED
  BY <1>1, <1>2, <1>3, <1>4, <1>5, <1>6, <1>7 DEF OT!Thread

\* What the run checks of one_time_init.c follows.
LEMMA OnceRight ==
    ASSUME OT!IInv
    PROVE  OT!InitOnce
BY OnceAssumption, SMTT(30) DEF OT!IInv, OT!TypeOK, OT!InitOnce, OT!Threads

-----------------------------------------------------------------------------
(* strerror.c, strerror_tls.c and strerror_tsd.c                           *)

StrPoints == {"idle", "once", "create", "get", "fill1", "fill2", "end", "join", "exit"}
StrData == [impl : {"static", "tls", "tsd"}, keyState : {"none", "creating", "made"},
            specific : [SE!Threads -> SE!Threads \cup {SE!NoBuf}],
            bufs : [{SE!Static} \cup SE!Threads -> [1..2 -> SE!Text]],
            freed : SUBSET SE!Threads, err : [SE!Threads -> Int],
            str : [SE!Threads -> Int], calls : [SE!Threads -> Nat]]

\* No thread has called strerror() yet.
LEMMA StrInit ==
    ASSUME SE!Init
    PROVE  SE!IInv
<1> USE StrerrorAssumption DEF SE!Init, SE!Tids, SE!Threads, SE!Main, SE!NoBuf, SE!Static
<1>1. SE!TypeOK
  <2>1. SE!Empty \in SE!Text
    BY SMTT(30) DEF SE!Empty, SE!Text
  <2>2. <<SE!Empty, SE!Empty>> \in [1..2 -> SE!Text]
    BY <2>1, SMTT(30)
  <2> QED
    BY <2>2, SMTT(30) DEF SE!TypeOK
<1>2. SE!KeyFirst /\ SE!Filled /\ SE!Freed
  BY SMTT(30) DEF SE!KeyFirst, SE!Filled, SE!Freed
<1> QED
  BY <1>1, <1>2 DEF SE!IInv

\* The types of the program's data; that main() is none of the threads, and that the
\* buffers are told apart.
LEMMA StrTypes ==
    ASSUME SE!IInv
    PROVE  /\ pc \in [SE!Tids -> StrPoints] /\ pc[SE!Main] \in {"join", "exit"}
           /\ g \in StrData
           /\ g.impl \in {"static", "tls", "tsd"}
           /\ g.specific \in [SE!Threads -> SE!Threads \cup {SE!NoBuf}]
           /\ g.bufs \in [{SE!Static} \cup SE!Threads -> [1..2 -> SE!Text]]
           /\ g.freed \in SUBSET SE!Threads /\ g.err \in [SE!Threads -> Int]
           /\ g.str \in [SE!Threads -> Int] /\ g.calls \in [SE!Threads -> Nat]
           /\ SE!Main \notin SE!Threads /\ SE!Threads \subseteq SE!Tids /\ SE!Main \in SE!Tids
           /\ SE!Static \notin SE!Threads /\ SE!NoBuf \notin SE!Threads
           /\ SE!Threads \subseteq Int /\ SE!Static \in Int
           /\ SE!KeyFirst /\ SE!Filled /\ SE!Freed
<1>1. /\ SE!Main \notin SE!Threads /\ SE!Threads \subseteq SE!Tids /\ SE!Main \in SE!Tids
      /\ SE!Static \notin SE!Threads /\ SE!NoBuf \notin SE!Threads
      /\ SE!Threads \subseteq Int /\ SE!Static \in Int
  BY StrerrorAssumption, SMTT(30) DEF SE!Tids, SE!Threads, SE!Main, SE!NoBuf, SE!Static
<1>2. g \in StrData /\ pc \in [SE!Tids -> StrPoints] /\ pc[SE!Main] \in {"join", "exit"}
  BY DEF SE!IInv, SE!TypeOK, StrData, StrPoints
<1> QED
  BY <1>1, <1>2 DEF StrData, SE!IInv

\* The message for an error number is a text.
LEMMA StrMessage ==
    ASSUME NEW e \in Int
    PROVE  SE!Message(e) \in SE!Text
BY DEF SE!Message, SE!Text

\* A step of thread t that is typed, and that changes no other thread's call.
LEMMA StrTyped ==
    ASSUME SE!IInv, NEW t \in SE!Threads, NEW to \in StrPoints \ {"join", "exit"},
           pc' = [pc EXCEPT ![t] = to], g' \in StrData
    PROVE  /\ SE!TypeOK'
           /\ \A u \in SE!Threads : pc'[u] = IF u = t THEN to ELSE pc[u]
<1>1. pc' \in [SE!Tids -> StrPoints] /\ pc'[SE!Main] \in {"join", "exit"}
  BY StrTypes
<1>2. \A u \in SE!Threads : pc'[u] = IF u = t THEN to ELSE pc[u]
  BY StrTypes
<1> QED
  BY <1>1, <1>2 DEF SE!TypeOK, StrData, StrPoints

\* strerror() is called.
LEMMA StrCall ==
    ASSUME SE!IInv, NEW t \in SE!Threads, NEW e \in StrErrs, SE!Call(t, e)
    PROVE  SE!IInv'
<1> DEFINE err == [g.err EXCEPT ![t] = e]
           calls == [g.calls EXCEPT ![t] = @ + 1]
           to == IF g.impl = "tsd" THEN "once" ELSE "fill1"
<1>1. pc[t] = "idle" /\ pc' = [pc EXCEPT ![t] = to] /\ to \in {"once", "fill1"}
  BY DEF SE!Call, SE!Go
<1>2. g' = [impl |-> g.impl, keyState |-> g.keyState, specific |-> g.specific, bufs |-> g.bufs,
            freed |-> g.freed, err |-> err, str |-> g.str, calls |-> calls]
  BY StrTypes DEF SE!Call, StrData
<1>3. /\ err \in [SE!Threads -> Int] /\ \A u \in SE!Threads : u # t => err[u] = g.err[u]
      /\ calls \in [SE!Threads -> Nat] /\ calls[t] > 0
      /\ \A u \in SE!Threads : u # t => calls[u] = g.calls[u]
  BY StrTypes, StrerrorAssumption, SMTT(30)
<1>4. g.impl = "tsd" <=> to = "once"
  OBVIOUS
<1> HIDE DEF err, calls, to
<1>5. /\ g'.impl = g.impl /\ g'.keyState = g.keyState /\ g'.specific = g.specific
      /\ g'.bufs = g.bufs /\ g'.freed = g.freed /\ g'.err = err /\ g'.str = g.str
      /\ g'.calls = calls
  BY <1>2
<1>6. g' \in StrData
  BY <1>2, <1>3, StrTypes DEF StrData
<1>7. SE!TypeOK' /\ \A u \in SE!Threads : pc'[u] = IF u = t THEN to ELSE pc[u]
  BY <1>1, <1>6, StrTyped DEF StrPoints
<1>8. SE!KeyFirst'
  BY <1>1, <1>3, <1>4, <1>5, <1>7, StrTypes, SMTT(30) DEF SE!KeyFirst
<1>9. SE!Filled'
  <2>1. pc'[t] \notin {"idle", "fill2"}
    BY <1>1, <1>7
  <2>2. \A u \in SE!Threads \ {t} : (SE!Alone(u)' => SE!Alone(u)) /\ SE!Own(u)' = SE!Own(u)
    BY <1>3, <1>5, SMTT(30) DEF SE!Alone, SE!Own
  <2>3. \A u \in SE!Threads \ {t} : /\ pc'[u] = pc[u] /\ g'.calls[u] = g.calls[u]
                                    /\ g'.err[u] = g.err[u]
    BY <1>3, <1>5, <1>7
  <2> QED
    BY <1>5, <2>1, <2>2, <2>3, StrTypes, SMTT(30) DEF SE!Filled, SE!Message
<1>10. SE!Freed'
  BY <1>1, <1>5, <1>7, StrTypes DEF SE!Freed
<1> QED
  BY <1>7, <1>8, <1>9, <1>10 DEF SE!IInv

\* A step in which no thread ends.
LEMMA StrFreedKept ==
    ASSUME SE!Freed, g'.impl = g.impl, g'.freed = g.freed,
           \A u \in SE!Threads : pc'[u] = "end" <=> pc[u] = "end"
    PROVE  SE!Freed'
<1>1. {u \in SE!Threads : pc'[u] = "end"} = {u \in SE!Threads : pc[u] = "end"}
  OBVIOUS
<1> QED
  BY <1>1 DEF SE!Freed

\* A step up to where the buffer is filled.
LEMMA StrFilledKept ==
    ASSUME SE!IInv, NEW t \in SE!Threads, NEW to \in {"create", "get", "fill1"},
           \A u \in SE!Threads : pc'[u] = IF u = t THEN to ELSE pc[u],
           g'.impl = g.impl, g'.bufs = g.bufs, g'.err = g.err, g'.str = g.str,
           g'.calls = g.calls, g'.freed = g.freed, pc[t] \in {"once", "create", "get"}
    PROVE  SE!Filled' /\ SE!Freed'
<1>1. \A u \in SE!Threads : SE!Alone(u)' <=> SE!Alone(u)
  BY DEF SE!Alone
<1>2. SE!Filled'
  BY <1>1, StrTypes, SMTT(30) DEF SE!Filled, SE!Own, SE!Message
<1>3. \A u \in SE!Threads : pc'[u] = "end" <=> pc[u] = "end"
  OBVIOUS
<1> QED
  BY <1>2, <1>3, StrTypes, StrFreedKept

\* The first caller of strerror_tsd.c creates the key; the others wait for it; each gets
\* a buffer of its own.
LEMMA StrKey ==
    ASSUME SE!IInv, NEW t \in SE!Threads,
           SE!OnceFirst(t) \/ SE!CreateKey(t) \/ SE!OnceDone(t) \/ SE!GetBuffer(t)
    PROVE  SE!IInv'
<1>1. CASE SE!OnceFirst(t)
  <2>1. pc[t] = "once" /\ pc' = [pc EXCEPT ![t] = "create"] /\ g.keyState = "none"
    BY <1>1 DEF SE!OnceFirst, SE!Go
  <2>2. g' = [impl |-> g.impl, keyState |-> "creating", specific |-> g.specific, bufs |-> g.bufs,
              freed |-> g.freed, err |-> g.err, str |-> g.str, calls |-> g.calls]
    BY <1>1, StrTypes DEF SE!OnceFirst, StrData
  <2>3. g' \in StrData
    BY <2>2, StrTypes DEF StrData
  <2>4. SE!TypeOK' /\ \A u \in SE!Threads : pc'[u] = IF u = t THEN "create" ELSE pc[u]
    BY <2>1, <2>3, StrTyped DEF StrPoints
  <2>5. SE!KeyFirst'
    BY <2>1, <2>2, <2>4, StrTypes DEF SE!KeyFirst
  <2>6. SE!Filled' /\ SE!Freed'
    BY <2>1, <2>2, <2>4, StrFilledKept
  <2> QED
    BY <2>4, <2>5, <2>6 DEF SE!IInv
<1>2. CASE SE!CreateKey(t)
  <2> DEFINE specific == [u \in SE!Threads |-> SE!NoBuf]
  <2>1. pc[t] = "create" /\ pc' = [pc EXCEPT ![t] = "get"]
    BY <1>2 DEF SE!CreateKey, SE!Go
  <2>2. g' = [impl |-> g.impl, keyState |-> "made", specific |-> specific, bufs |-> g.bufs,
              freed |-> g.freed, err |-> g.err, str |-> g.str, calls |-> g.calls]
    BY <1>2, StrTypes DEF SE!CreateKey, StrData
  <2>3. g' \in StrData
    BY <2>2, StrTypes DEF StrData
  <2>4. SE!TypeOK' /\ \A u \in SE!Threads : pc'[u] = IF u = t THEN "get" ELSE pc[u]
    BY <2>1, <2>3, StrTyped DEF StrPoints
  <2>5. g.impl = "tsd" /\ g.keyState = "creating"
    BY <2>1, StrTypes DEF SE!KeyFirst
  <2>6. \A u \in SE!Threads : pc[u] \in {"idle", "once", "create"} /\ (pc[u] = "idle" => g.calls[u] = 0)
    BY <2>5, StrTypes DEF SE!KeyFirst
  <2>7. SE!KeyFirst'
    BY <2>1, <2>2, <2>4, <2>5, <2>6, StrTypes, SMTT(30) DEF SE!KeyFirst
  <2>8. SE!Filled' /\ SE!Freed'
    BY <2>1, <2>2, <2>4, StrFilledKept
  <2> QED
    BY <2>4, <2>7, <2>8 DEF SE!IInv
<1>3. CASE SE!OnceDone(t)
  <2>1. pc[t] = "once" /\ pc' = [pc EXCEPT ![t] = "get"] /\ g.keyState = "made" /\ g' = g
    BY <1>3 DEF SE!OnceDone, SE!Go
  <2>2. SE!TypeOK' /\ \A u \in SE!Threads : pc'[u] = IF u = t THEN "get" ELSE pc[u]
    BY <2>1, StrTyped, StrTypes DEF StrPoints
  <2>3. SE!KeyFirst'
    BY <2>1, <2>2, StrTypes DEF SE!KeyFirst
  <2>4. SE!Filled' /\ SE!Freed'
    BY <2>1, <2>2, StrFilledKept
  <2> QED
    BY <2>2, <2>3, <2>4 DEF SE!IInv
<1>4. CASE SE!GetBuffer(t)
  <2> DEFINE specific == [g.specific EXCEPT ![t] = IF @ = SE!NoBuf THEN t ELSE @]
  <2>1. pc[t] = "get" /\ pc' = [pc EXCEPT ![t] = "fill1"]
    BY <1>4 DEF SE!GetBuffer, SE!Go
  <2>2. g' = [impl |-> g.impl, keyState |-> g.keyState, specific |-> specific, bufs |-> g.bufs,
              freed |-> g.freed, err |-> g.err, str |-> g.str, calls |-> g.calls]
    BY <1>4, StrTypes DEF SE!GetBuffer, StrData
  <2>3. /\ specific \in [SE!Threads -> SE!Threads \cup {SE!NoBuf}] /\ specific[t] = t
        /\ \A u \in SE!Threads : u # t => specific[u] = g.specific[u]
    BY StrTypes DEF SE!KeyFirst
  <2> HIDE DEF specific
  <2>4. g' \in StrData
    BY <2>2, <2>3, StrTypes DEF StrData
  <2>5. SE!TypeOK' /\ \A u \in SE!Threads : pc'[u] = IF u = t THEN "fill1" ELSE pc[u]
    BY <2>1, <2>4, StrTyped DEF StrPoints
  <2>6. g.impl = "tsd" /\ g.keyState = "made"
    BY <2>1, StrTypes DEF SE!KeyFirst, StrData
  <2>7. SE!KeyFirst'
    BY <2>1, <2>2, <2>3, <2>5, <2>6, StrTypes DEF SE!KeyFirst
  <2>8. SE!Filled' /\ SE!Freed'
    BY <2>1, <2>2, <2>5, StrFilledKept
  <2> QED
    BY <2>5, <2>7, <2>8 DEF SE!IInv
<1> QED
  BY <1>1, <1>2, <1>3, <1>4

\* A thread fills the first part of its buffer, then the rest, and has the string.
LEMMA StrFill ==
    ASSUME SE!IInv, NEW t \in SE!Threads, SE!FillFirst(t) \/ SE!FillRest(t)
    PROVE  SE!IInv'
<1> DEFINE m == SE!Message(g.err[t])
           i == IF pc[t] = "fill1" THEN 1 ELSE 2
           to == IF pc[t] = "fill1" THEN "fill2" ELSE "idle"
           b == SE!Own(t)
           bufs == [g.bufs EXCEPT ![b][i] = m]
           str == IF pc[t] = "fill1" THEN g.str ELSE [g.str EXCEPT ![t] = b]
<1>1. pc[t] \in {"fill1", "fill2"} /\ pc' = [pc EXCEPT ![t] = to]
  BY DEF SE!FillFirst, SE!FillRest, SE!Go
<1>2. SE!Buffer(t) = b
  BY <1>1, StrTypes DEF SE!Buffer, SE!Own, SE!KeyFirst
<1>3. g' = [impl |-> g.impl, keyState |-> g.keyState, specific |-> g.specific, bufs |-> bufs,
            freed |-> g.freed, err |-> g.err, str |-> str, calls |-> g.calls]
  <2>1. CASE SE!FillFirst(t)
    <3>1. pc[t] = "fill1"
      BY <2>1 DEF SE!FillFirst, SE!Go
    <3>2. g' = [g EXCEPT !.bufs = [g.bufs EXCEPT ![b][1] = m]]
      BY <1>2, <2>1, StrTypes DEF SE!FillFirst, StrData
    <3> QED
      BY <3>1, <3>2, StrTypes DEF StrData
  <2>2. CASE SE!FillRest(t)
    <3>1. pc[t] = "fill2" /\ "fill2" # "fill1"
      BY <2>2 DEF SE!FillRest, SE!Go
    <3>2. g' = [g EXCEPT !.bufs = [g.bufs EXCEPT ![b][2] = m], !.str = [g.str EXCEPT ![t] = b]]
      BY <1>2, <2>2, StrTypes DEF SE!FillRest, StrData
    <3> QED
      BY <3>1, <3>2, StrTypes DEF StrData
  <2> QED
    BY <2>1, <2>2
<1>4. /\ b \in {SE!Static} \cup SE!Threads /\ b \in Int
      /\ \A u \in SE!Threads : u # t /\ g.impl # "static" => SE!Own(u) # b
  BY StrTypes DEF SE!Own
<1>5. m \in SE!Text
  BY StrTypes, StrMessage
<1>6. i \in 1..2 /\ (pc[t] = "fill1" <=> i = 1)
  BY SMTT(30)
<1>7. /\ bufs \in [{SE!Static} \cup SE!Threads -> [1..2 -> SE!Text]]
      /\ bufs[b][i] = m /\ \A k \in 1..2 : k # i => bufs[b][k] = g.bufs[b][k]
      /\ \A c \in {SE!Static} \cup SE!Threads : c # b => bufs[c] = g.bufs[c]
  <2> HIDE DEF m, i, b
  <2> QED
    BY <1>4, <1>5, <1>6, StrTypes
<1>8. /\ str \in [SE!Threads -> Int] /\ (pc[t] = "fill2" => str[t] = b)
      /\ \A u \in SE!Threads : u # t => str[u] = g.str[u]
  <2> HIDE DEF b
  <2> QED
    BY <1>4, StrTypes
<1>9. (pc[t] = "fill1" /\ to = "fill2") \/ (pc[t] = "fill2" /\ to = "idle")
  BY <1>1
<1> HIDE DEF bufs, str, i, to
<1>10. /\ g'.impl = g.impl /\ g'.keyState = g.keyState /\ g'.specific = g.specific
       /\ g'.bufs = bufs /\ g'.freed = g.freed /\ g'.err = g.err /\ g'.str = str
       /\ g'.calls = g.calls
  BY <1>3
<1>11. g' \in StrData
  BY <1>3, <1>7, <1>8, StrTypes DEF StrData
<1>12. SE!TypeOK' /\ \A u \in SE!Threads : pc'[u] = IF u = t THEN to ELSE pc[u]
  BY <1>1, <1>9, <1>11, StrTyped DEF StrPoints
<1>13. g.calls[t] > 0
  BY <1>1, StrTypes, SMTT(30) DEF SE!KeyFirst
<1>14. SE!KeyFirst'
  <2>1. g.impl = "tsd" => g.specific[t] = t /\ g.keyState = "made"
    BY <1>1, StrTypes DEF SE!KeyFirst
  <2>2. pc'[t] \in {"fill2", "idle"} /\ g'.calls[t] # 0
    BY <1>9, <1>10, <1>12, <1>13, StrTypes, SMTT(30)
  <2>3. \A u, v \in SE!Threads : pc'[u] = "create" =>
            g'.keyState = "creating" /\ (pc'[v] = "create" => u = v)
    BY <1>10, <1>12, <2>2, StrTypes, SMTT(30) DEF SE!KeyFirst
  <2>4. \A u \in SE!Threads \ {t} : pc'[u] = pc[u]
    BY <1>12
  <2> QED
    BY <1>10, <2>1, <2>2, <2>3, <2>4, StrTypes, SMTT(30) DEF SE!KeyFirst
<1>15. \A u \in SE!Threads : (SE!Alone(u)' <=> SE!Alone(u)) /\ SE!Own(u)' = SE!Own(u)
  BY <1>10 DEF SE!Alone, SE!Own
<1>16. ASSUME NEW u \in SE!Threads, u # t, SE!Alone(u), pc[u] \in {"idle", "fill2"}
       PROVE  SE!Own(u) # b
  BY <1>4, <1>13, <1>16, StrTypes, SMTT(30) DEF SE!Alone
<1>17. \A u \in SE!Threads : SE!Own(u) \in {SE!Static} \cup SE!Threads
  BY DEF SE!Own
<1> HIDE DEF b
<1>18. b = SE!Own(t)
  BY DEF b
<1>19. SE!Filled'
  <2>1. ASSUME NEW u \in SE!Threads, u # t
        PROVE  /\ pc'[u] = pc[u] /\ g'.err[u] = g.err[u] /\ g'.str[u] = g.str[u]
               /\ g'.calls[u] = g.calls[u]
               /\ SE!Alone(u) /\ pc[u] \in {"idle", "fill2"} => g'.bufs[SE!Own(u)] = g.bufs[SE!Own(u)]
    BY <1>7, <1>8, <1>10, <1>12, <1>16, <1>17, <2>1
  <2>2. pc'[t] = "idle" => g'.str[t] = b
    BY <1>8, <1>9, <1>10, <1>12
  <2>3. SE!Alone(t) /\ pc'[t] = "fill2" => g'.bufs[b][1] = m
    BY <1>6, <1>7, <1>9, <1>10, <1>12
  <2>4. SE!Alone(t) /\ pc'[t] = "idle" => g'.bufs[b][1] = m /\ g'.bufs[b][2] = m
    <3>1. SE!Alone(t) /\ pc[t] = "fill2" => g.bufs[b][1] = m
      BY <1>18, StrTypes DEF SE!Filled
    <3> QED
      BY <1>6, <1>7, <1>9, <1>10, <1>12, <3>1, SMTT(30)
  <2>5. g'.err[t] = g.err[t]
    BY <1>10
  <2>6. m = SE!Message(g'.err[t])
    BY <2>5 DEF m
  <2> HIDE DEF m
  <2> DEFINE F(u) ==
         /\ pc'[u] = "idle" /\ g'.calls[u] > 0 => g'.str[u] = SE!Own(u)
         /\ SE!Alone(u) /\ pc'[u] = "fill2" => g'.bufs[SE!Own(u)][1] = SE!Message(g'.err[u])
         /\ SE!Alone(u) /\ pc'[u] = "idle" /\ g'.calls[u] > 0 =>
                /\ g'.bufs[SE!Own(u)][1] = SE!Message(g'.err[u])
                /\ g'.bufs[SE!Own(u)][2] = SE!Message(g'.err[u])
  <2>7. F(t)
    BY <1>18, <2>2, <2>3, <2>4, <2>6
  <2>8. ASSUME NEW u \in SE!Threads, u # t
        PROVE  F(u)
    <3>1. /\ pc[u] = "idle" /\ g.calls[u] > 0 => g.str[u] = SE!Own(u)
          /\ SE!Alone(u) /\ pc[u] = "fill2" => g.bufs[SE!Own(u)][1] = SE!Message(g.err[u])
          /\ SE!Alone(u) /\ pc[u] = "idle" /\ g.calls[u] > 0 =>
                 /\ g.bufs[SE!Own(u)][1] = SE!Message(g.err[u])
                 /\ g.bufs[SE!Own(u)][2] = SE!Message(g.err[u])
      BY DEF SE!IInv, SE!Filled
    <3>2. /\ pc'[u] = pc[u] /\ g'.err[u] = g.err[u] /\ g'.str[u] = g.str[u]
          /\ g'.calls[u] = g.calls[u]
          /\ SE!Alone(u) /\ pc[u] \in {"idle", "fill2"} => g'.bufs[SE!Own(u)] = g.bufs[SE!Own(u)]
      BY <2>1, <2>8
    <3> QED
      BY <3>1, <3>2
  <2>9. \A u \in SE!Threads : F(u)
    <3> HIDE DEF F
    <3> QED
      BY <2>7, <2>8
  <2> QED
    BY <1>15, <2>9 DEF SE!Filled
<1>20. \A u \in SE!Threads : pc'[u] = "end" <=> pc[u] = "end"
  BY <1>9, <1>12
<1>21. SE!Freed'
  BY <1>10, <1>20, StrTypes, StrFreedKept
<1> QED
  BY <1>12, <1>14, <1>19, <1>21 DEF SE!IInv

\* A thread ends, and the destructor frees its buffer.
LEMMA StrExit ==
    ASSUME SE!IInv, NEW t \in SE!Threads, SE!ThreadExit(t)
    PROVE  SE!IInv'
<1> DEFINE freed == IF g.impl = "tsd" THEN g.freed \cup {g.specific[t]} ELSE g.freed
<1>1. pc[t] = "idle" /\ pc' = [pc EXCEPT ![t] = "end"] /\ g.calls[t] = StrCalls /\ g.calls[t] > 0
  BY StrerrorAssumption, SMTT(30) DEF SE!ThreadExit, SE!Go
<1>2. g' = [impl |-> g.impl, keyState |-> g.keyState, specific |-> g.specific, bufs |-> g.bufs,
            freed |-> freed, err |-> g.err, str |-> g.str, calls |-> g.calls]
  BY StrTypes DEF SE!ThreadExit, StrData
<1>3. g.impl = "tsd" => g.specific[t] = t
  BY <1>1, StrTypes DEF SE!KeyFirst
<1>4. freed = IF g.impl = "tsd" THEN g.freed \cup {t} ELSE g.freed
  BY <1>3
<1> HIDE DEF freed
<1>5. g' \in StrData
  BY <1>2, <1>4, StrTypes DEF StrData
<1>6. SE!TypeOK' /\ \A u \in SE!Threads : pc'[u] = IF u = t THEN "end" ELSE pc[u]
  BY <1>1, <1>5, StrTyped DEF StrPoints
<1>7. SE!KeyFirst'
  BY <1>1, <1>2, <1>3, <1>6, StrTypes, SMTT(30) DEF SE!KeyFirst
<1>8. SE!Filled'
  <2>1. \A u \in SE!Threads : (SE!Alone(u)' <=> SE!Alone(u)) /\ SE!Own(u)' = SE!Own(u)
    BY <1>2 DEF SE!Alone, SE!Own
  <2> QED
    BY <1>2, <1>6, <2>1, StrTypes DEF SE!Filled, SE!Message
<1>9. SE!Freed'
  <2>1. {u \in SE!Threads : pc'[u] = "end"} = {u \in SE!Threads : pc[u] = "end"} \cup {t}
    BY <1>6
  <2> QED
    BY <1>2, <1>4, <2>1, StrTypes DEF SE!Freed
<1> QED
  BY <1>6, <1>7, <1>8, <1>9 DEF SE!IInv

\* Every step of the threads that call strerror() keeps the invariant.
LEMMA StrStep ==
    ASSUME SE!IInv, NEW t \in SE!Tids, SE!Thread(t)
    PROVE  SE!IInv'
<1>1. CASE t = SE!Main
  <2>1. g' = g /\ pc' = [pc EXCEPT ![SE!Main] = "exit"]
    BY <1>1 DEF SE!Thread, SE!MJoin, SE!Go
  <2>2. SE!TypeOK' /\ \A u \in SE!Threads : pc'[u] = pc[u]
    BY <2>1, StrTypes DEF SE!IInv, SE!TypeOK
  <2>3. \A u \in SE!Threads : (SE!Alone(u)' <=> SE!Alone(u)) /\ SE!Own(u)' = SE!Own(u)
    BY <2>1 DEF SE!Alone, SE!Own
  <2>4. SE!KeyFirst'
    BY <2>1, <2>2, StrTypes, SMTT(30) DEF SE!KeyFirst
  <2>5. SE!Filled'
    BY <2>1, <2>2, <2>3, StrTypes DEF SE!Filled, SE!Message
  <2>6. SE!Freed'
    BY <2>1, <2>2, StrTypes, StrFreedKept
  <2> QED
    BY <2>2, <2>4, <2>5, <2>6 DEF SE!IInv
<1>2. CASE t # SE!Main
  BY <1>2, StrCall, StrKey, StrFill, StrExit DEF SE!Thread, SE!Tids
<1> QED
  BY <1>1, <1>2

\* What the run checks of the strerror() programs follows.
LEMMA StrRight ==
    ASSUME SE!IInv
    PROVE  SE!ThreadSafe /\ SE!FreedAtExit
<1>1. SE!FreedAtExit
  BY StrTypes DEF SE!Freed, SE!FreedAtExit
<1>2. ASSUME NEW t \in SE!Threads, pc[t] = "idle", g.calls[t] > 0, SE!Alone(t)
      PROVE  /\ g.bufs[g.str[t]] = <<SE!Message(g.err[t]), SE!Message(g.err[t])>>
             /\ g.str[t] \notin g.freed
  <2> DEFINE m == SE!Message(g.err[t])
  <2>1. g.str[t] = SE!Own(t) /\ SE!Own(t) \in {SE!Static} \cup SE!Threads
    BY <1>2, StrTypes DEF SE!Filled, SE!Own
  <2>2. g.bufs[SE!Own(t)][1] = m /\ g.bufs[SE!Own(t)][2] = m
    BY <1>2, StrTypes DEF SE!Filled
  <2>3. g.bufs[SE!Own(t)] \in [1..2 -> SE!Text]
    BY <2>1, StrTypes
  <2>4. m \in SE!Text
    BY StrTypes, StrMessage
  <2>5. g.bufs[SE!Own(t)] = <<m, m>>
    <3> HIDE DEF m
    <3> QED
      BY <2>2, <2>3, <2>4, SMTT(30)
  <2>6. SE!Own(t) \notin g.freed
    BY <1>2, StrTypes DEF SE!Freed, SE!Own
  <2> QED
    BY <2>1, <2>5, <2>6
<1> QED
  BY <1>1, <1>2 DEF SE!ThreadSafe, SE!Alone

-----------------------------------------------------------------------------
(* thread_cleanup.c and thread_cancel.c                                    *)

\* No thread is created yet.
LEMMA CleanupInit ==
    ASSUME TC!Init
    PROVE  TC!IInv
BY SMTT(30) DEF TC!Init, TC!IInv, TC!TypeOK, TC!MutexHeld, TC!CleanupDue, TC!CleanedUpOnce, TC!TPoints,
       TC!MPoints, TC!Tids, TC!T, TC!Main, TC!Free

\* Every step of main() and of the thread keeps the invariant.
LEMMA CleanupStep ==
    ASSUME TC!IInv, NEW t \in TC!Tids, TC!Thread(t) \/ SpuriousWakeup(TC!T)
    PROVE  TC!IInv'
<1> USE DEF TC!IInv, TC!TypeOK, TC!MutexHeld, TC!CleanupDue, TC!CleanedUpOnce, TC!TPoints,
            TC!MPoints, TC!Tids, TC!T, TC!Main, TC!Free
<1>1. CASE TC!Malloc
  BY <1>1 DEF TC!Malloc, TC!Go
<1>2. CASE TC!Printf
  BY <1>2, SMTT(30) DEF TC!Printf, TC!Canceled, TC!Go
<1>3. CASE TC!TLock
  <2> USE <1>3 DEF TC!TLock, TC!Lock, TC!Go
  <2>1. TC!TypeOK'
    OBVIOUS
  <2>2. TC!MutexHeld'
    BY SMTT(30)
  <2>3. TC!CleanupDue' /\ TC!CleanedUpOnce'
    OBVIOUS
  <2> QED
    BY <2>1, <2>2, <2>3
<1>4. CASE TC!Wait
  BY <1>4, SMTT(30) DEF TC!Wait, TC!CondWait, TC!Unlock, TC!Go
<1>5. CASE TC!Relock
  BY <1>5, SMTT(30) DEF TC!Relock, TC!Lock, TC!Go
<1>6. CASE TC!WaitCanceled
  BY <1>6 DEF TC!WaitCanceled, TC!Go
<1>7. CASE TC!LoopDone
  BY <1>7 DEF TC!LoopDone, TC!Go
<1>8. CASE TC!HandlerFree
  <2> DEFINE res == IF pc[TC!T] = "pop" THEN "NULL" ELSE "PTHREAD_CANCELED"
  <2>0. g' = [mode |-> g.mode, glob |-> g.glob, buf |-> "freed", pending |-> g.pending,
              pushed |-> g.pushed, handlers |-> g.handlers + 1, res |-> res, j |-> g.j]
    BY <1>8 DEF TC!HandlerFree
  <2> USE <1>8 DEF TC!HandlerFree, TC!Go
  <2>1. TC!TypeOK'
    <3>1. res \in {"NULL", "PTHREAD_CANCELED"} /\ g.handlers = 0
      OBVIOUS
    <3>2. g' \in [mode : {"cancel", "signal", "loop"}, glob : {0, 1},
                  buf : {"none", "allocated", "freed"}, pending : BOOLEAN, pushed : BOOLEAN,
                  handlers : {0, 1}, res : {"none", "NULL", "PTHREAD_CANCELED"}, j : Nat]
      <4> HIDE DEF res
      <4> QED
        BY <2>0, <3>1, SMTT(30)
    <3> QED
      BY <3>2, SMTT(30)
  <2>2. TC!MutexHeld'
    OBVIOUS
  <2>3. TC!CleanupDue' /\ TC!CleanedUpOnce'
    BY SMTT(30)
  <2> QED
    BY <2>1, <2>2, <2>3
<1>9. CASE TC!HandlerUnlock
  BY <1>9, SMTT(30) DEF TC!HandlerUnlock, TC!Unlock, TC!Go
<1>10. CASE TC!LoopPrintf
  BY <1>10, SMTT(30) DEF TC!LoopPrintf, TC!Canceled, TC!Go
<1>11. CASE TC!LoopSleep
  BY <1>11, SMTT(30) DEF TC!LoopSleep, TC!Canceled, TC!Go
<1>12. CASE TC!MCreate
  BY <1>12, SMTT(30) DEF TC!MCreate
<1>13. CASE TC!MCancel
  BY <1>13 DEF TC!MCancel, TC!Go
<1>14. CASE TC!MLock
  BY <1>14, SMTT(30) DEF TC!MLock, TC!Lock, TC!Go
<1>15. CASE TC!MSet
  <2> USE <1>15 DEF TC!MSet, TC!Go
  <2>1. TC!TypeOK'
    OBVIOUS
  <2>2. TC!MutexHeld'
    OBVIOUS
  <2>3. TC!CleanupDue' /\ TC!CleanedUpOnce'
    OBVIOUS
  <2> QED
    BY <2>1, <2>2, <2>3
<1>16. CASE TC!MUnlock
  BY <1>16, SMTT(30) DEF TC!MUnlock, TC!Unlock, TC!Go
<1>17. CASE TC!MSignal
  BY <1>17, SMTT(30) DEF TC!MSignal, TC!CondSignal
<1>18. CASE TC!MJoin
  BY <1>18, SMTT(30) DEF TC!MJoin, TC!Joined, TC!Go
<1>19. CASE SpuriousWakeup(TC!T)
  BY <1>19, SMTT(30) DEF SpuriousWakeup, Go, Main
<1> HIDE DEF TC!IInv
<1> QED
  BY <1>1, <1>2, <1>3, <1>4, <1>5, <1>6, <1>7, <1>8, <1>9, <1>10, <1>11, <1>12, <1>13, <1>14,
     <1>15, <1>16, <1>17, <1>18, <1>19 DEF TC!Thread

\* What the run checks of thread_cleanup.c follows.
LEMMA CleanupRight ==
    ASSUME TC!IInv
    PROVE  TC!MutexGivenBack /\ TC!CleanedUpOnce
BY DEF TC!IInv, TC!MutexHeld, TC!MutexGivenBack

-----------------------------------------------------------------------------
(* Steps that change nothing, and whose steps these are.                   *)

\* A program whose main() has ended stays as it is.
LEMMA OnceStutter ==
    ASSUME OT!IInv, pc' = pc, mtx' = mtx, g' = g
    PROVE  OT!IInv'
BY DEF OT!IInv, OT!TypeOK, OT!Locked

\* A program whose main() has ended stays as it is.
LEMMA StrStutter ==
    ASSUME SE!IInv, pc' = pc, mtx' = mtx, g' = g
    PROVE  SE!IInv'
<1>1. SE!TypeOK' /\ SE!KeyFirst'
  BY SMTT(30) DEF SE!IInv, SE!TypeOK, SE!KeyFirst
<1>2. SE!Filled'
  BY DEF SE!IInv, SE!Filled, SE!Alone, SE!Own, SE!Message
<1>3. SE!Freed'
  BY DEF SE!IInv, SE!Freed
<1> QED
  BY <1>1, <1>2, <1>3 DEF SE!IInv

\* A program whose main() has ended stays as it is.
LEMMA CleanupStutter ==
    ASSUME TC!IInv, pc' = pc, mtx' = mtx, g' = g
    PROVE  TC!IInv'
BY SMTT(30) DEF TC!IInv, TC!TypeOK, TC!MutexHeld, TC!CleanupDue, TC!CleanedUpOnce

\* The threads are those that have a control point.
LEMMA ThreadsDomain ==
    /\ OT!IInv => DOMAIN pc = OT!Tids
    /\ SE!IInv => DOMAIN pc = SE!Tids
    /\ TC!IInv => DOMAIN pc = TC!Tids
BY DEF OT!IInv, OT!TypeOK, SE!IInv, SE!TypeOK, TC!IInv, TC!TypeOK

-----------------------------------------------------------------------------
(* The programs together.                                                  *)

Names == {"prod_condvar", "prod_no_condvar", "thread_multijoin", "thread_incr",
          "one_time_init", "strerror_test", "thread_cleanup", "pthread_barrier_demo"}

\* The consumer of prod_no_condvar.c polls, and so never sleeps.
IInv ==
    /\ prog \in Names
    /\ Produces => PC!IInv
    /\ prog = "prod_no_condvar" => pc[Main] \notin {"wait", "relock"}
    /\ prog = "thread_multijoin" => MJ!IInv
    /\ prog = "thread_incr" => TI!IInv
    /\ prog = "one_time_init" => OT!IInv
    /\ prog = "strerror_test" => SE!IInv
    /\ prog = "thread_cleanup" => TC!IInv
    /\ prog = "pthread_barrier_demo" => BD!IInv

\* Whatever program is started, its invariant holds.
LEMMA ThreadsInit == Init => IInv
<1> SUFFICES ASSUME Init
             PROVE  IInv
  OBVIOUS
<1>1. CASE prog \in {"prod_condvar", "prod_no_condvar"} /\ PC!Init
  <2>1. pc[Main] \notin {"wait", "relock"}
    BY <1>1 DEF PC!Init, PC!Tids, PC!Main, Main
  <2> QED
    BY <1>1, <2>1, ProducersInit DEF IInv, Names, Produces
<1>2. CASE prog = "thread_multijoin" /\ MJ!Init
  BY <1>2, JoinsInit DEF IInv, Names, Produces
<1>3. CASE prog = "thread_incr" /\ TI!Init
  BY <1>3, IncrInit DEF IInv, Names, Produces
<1>4. CASE prog = "one_time_init" /\ OT!Init
  BY <1>4, OnceInit DEF IInv, Names, Produces
<1>5. CASE prog = "strerror_test" /\ SE!Init
  BY <1>5, StrInit DEF IInv, Names, Produces
<1>6. CASE prog = "thread_cleanup" /\ TC!Init
  BY <1>6, CleanupInit DEF IInv, Names, Produces
<1>7. CASE prog = "pthread_barrier_demo" /\ BD!Init
  BY <1>7, BarrierInit DEF IInv, Names, Produces
<1> QED
  BY <1>1, <1>2, <1>3, <1>4, <1>5, <1>6, <1>7 DEF Init

\* A thread of the program takes a step.
LEMMA ThreadKeeps ==
    ASSUME IInv, NEW t, Thread(t)
    PROVE  IInv'
<1>0. prog' = prog /\ t \in DOMAIN pc
  BY DEF Thread
<1>1. CASE prog = "prod_condvar" /\ PC!Thread(t)
  <2>1. PC!IInv /\ t \in PC!Tids
    BY <1>0, <1>1, CountDomain DEF IInv, Produces
  <2> QED
    BY <1>0, <1>1, <2>1, ProducersStep DEF IInv, Names, Produces
<1>2. CASE prog = "prod_no_condvar" /\ PC!PollThread(t)
  <2>1. PC!IInv /\ t \in PC!Tids /\ pc[Main] \notin {"wait", "relock"}
    BY <1>0, <1>2, CountDomain DEF IInv, Produces
  <2> QED
    BY <1>0, <1>2, <2>1, PollersStep DEF IInv, Names, Produces
<1>3. CASE prog = "thread_multijoin" /\ MJ!Thread(t)
  <2>1. MJ!IInv /\ t \in MJ!Tids
    BY <1>0, <1>3, CountDomain DEF IInv
  <2> QED
    BY <1>0, <1>3, <2>1, JoinsStep DEF IInv, Names, Produces
<1>4. CASE prog = "thread_incr" /\ TI!Thread(t)
  <2>1. TI!IInv /\ t \in TI!Tids
    BY <1>0, <1>4, CountDomain DEF IInv
  <2> QED
    BY <1>0, <1>4, <2>1, IncrStep DEF IInv, Names, Produces
<1>5. CASE prog = "one_time_init" /\ OT!Thread(t)
  <2>1. OT!IInv /\ t \in OT!Tids
    BY <1>0, <1>5, ThreadsDomain DEF IInv
  <2> QED
    BY <1>0, <1>5, <2>1, OnceStep DEF IInv, Names, Produces
<1>6. CASE prog = "strerror_test" /\ SE!Thread(t)
  <2>1. SE!IInv /\ t \in SE!Tids
    BY <1>0, <1>6, ThreadsDomain DEF IInv
  <2> QED
    BY <1>0, <1>6, <2>1, StrStep DEF IInv, Names, Produces
<1>7. CASE prog = "thread_cleanup" /\ TC!Thread(t)
  <2>1. TC!IInv /\ t \in TC!Tids
    BY <1>0, <1>7, ThreadsDomain DEF IInv
  <2> QED
    BY <1>0, <1>7, <2>1, CleanupStep DEF IInv, Names, Produces
<1>8. CASE prog = "pthread_barrier_demo" /\ BD!Thread(t)
  <2>1. BD!IInv /\ t \in BD!Tids
    BY <1>0, <1>8, CountDomain DEF IInv
  <2> QED
    BY <1>0, <1>8, <2>1, BarrierStep DEF IInv, Names, Produces
<1> QED
  BY <1>1, <1>2, <1>3, <1>4, <1>5, <1>6, <1>7, <1>8 DEF Thread

\* A thread that waits on a condition variable wakes up although nobody has signalled.
LEMMA WakeupKeeps ==
    ASSUME IInv, Wakeup
    PROVE  IInv'
<1>0. prog' = prog
  BY DEF Wakeup
<1>1. CASE prog = "prod_condvar" /\ SpuriousWakeup(Main)
  <2>1. PC!IInv /\ Main \in PC!Tids
    BY <1>1 DEF IInv, Produces, PC!Tids, PC!Main, Main
  <2> QED
    BY <1>0, <1>1, <2>1, ProducersStep DEF IInv, Names, Produces
<1>2. CASE prog = "thread_multijoin" /\ SpuriousWakeup(Main)
  <2>1. MJ!IInv /\ Main \in MJ!Tids
    BY <1>2 DEF IInv, MJ!Tids, MJ!Main, Main
  <2> QED
    BY <1>0, <1>2, <2>1, JoinsStep DEF IInv, Names, Produces
<1>3. CASE prog = "thread_cleanup" /\ SpuriousWakeup(TC!T)
  <2>1. TC!IInv /\ TC!T \in TC!Tids
    BY <1>3 DEF IInv, TC!Tids
  <2> QED
    BY <1>0, <1>3, <2>1, CleanupStep DEF IInv, Names, Produces
<1> QED
  BY <1>1, <1>2, <1>3 DEF Wakeup

\* Nothing happens.
LEMMA StutterKeeps ==
    ASSUME IInv, UNCHANGED allVars
    PROVE  IInv'
<1>1. prog' = prog /\ pc' = pc /\ mtx' = mtx /\ g' = g
  BY DEF allVars, vars
<1> QED
  BY <1>1, ProducersStutter, JoinsStutter, CleanupStutter, IncrStutter, OnceStutter, StrStutter,
     BarrierStutter DEF IInv, Produces

\* Each of the programs keeps its invariant, whichever thread runs.
THEOREM ThreadsSafe == Spec => []IInv
<1>1. IInv /\ [Next]_allVars => IInv'
  BY ThreadKeeps, WakeupKeeps, StutterKeeps DEF Next, Exited
<1> QED
  BY ThreadsInit, <1>1, PTL DEF Spec

\* No thread of prod_condvar.c, thread_multijoin.c and thread_cleanup.c sleeps through the
\* signal that is meant for it, or keeps the mutex when it is cancelled.
THEOREM SignalsReceived == Spec => []NoLostWakeup
<1>1. IInv => NoLostWakeup
  BY JoinsRight, CleanupRight DEF IInv, Produces, NoLostWakeup, PC!IInv
<1> QED
  BY ThreadsSafe, <1>1, PTL

\* thread_multijoin.c joins without a deadlock and counts right, and thread_cleanup.c cleans
\* up once, however many threads there are and whenever they end or are cancelled.
THEOREM ThreadsJoined == Spec => []JoinedOnce
<1>1. IInv => JoinedOnce
  BY JoinsRight, CleanupRight DEF IInv, JoinedOnce
<1> QED
  BY ThreadsSafe, <1>1, PTL

\* What the threads of thread_incr*.c, one_time_init.c, strerror*.c and
\* pthread_barrier_demo.c share stays whole.
THEOREM DataShared == Spec => []SharedDataKept
<1>1. IInv => SharedDataKept
  BY IncrRight, OnceRight, StrRight, BarrierRight DEF IInv, SharedDataKept
<1> QED
  BY ThreadsSafe, <1>1, PTL

\* prod_condvar.c and prod_no_condvar.c implement Units: what the producers make, the
\* consumer uses, each unit once, and it ends with the last one.
THEOREM UnitsImplemented == Spec => UnitsSpec
<1>1. Init => (Produces => PC!Abstract!Init)
  BY UnitsInit DEF Init, Produces
<1>2. ASSUME IInv, [Next]_allVars
      PROVE  [Produces => [PC!Abstract!Next]_(PC!Abstract!uvars)]_allVars
  <2>1. CASE UNCHANGED allVars
    BY <2>1
  <2>2. CASE ~Produces
    BY <2>2
  <2>3. CASE Produces /\ (\E t \in Tids : Thread(t))
    <3>1. PICK t \in Tids : Thread(t)
      BY <2>3
    <3>2. PC!IInv /\ t \in PC!Tids /\ (PC!Thread(t) \/ PC!PollThread(t))
      BY <1>2, <2>3, <3>1, CountDomain DEF IInv, Produces, Thread
    <3> QED
      BY <3>2, UnitsStep
  <2>4. CASE Produces /\ Wakeup
    <3>1. PC!IInv /\ Main \in PC!Tids /\ SpuriousWakeup(Main)
      BY <1>2, <2>4 DEF IInv, Produces, Wakeup, PC!Tids, PC!Main, Main
    <3> QED
      BY <3>1, UnitsStep
  <2> QED
    BY <1>2, <2>1, <2>2, <2>3, <2>4 DEF Next, Exited
<1> QED
  BY ThreadsSafe, <1>1, <1>2, PTL DEF Spec, UnitsSpec
=============================================================================
