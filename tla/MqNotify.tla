------------------------------ MODULE MqNotify ------------------------------
(***************************************************************************)
(* pmsg/mq_notify_*.c: six programs that are told of messages on a POSIX   *)
(* message queue and then read them.  Two wait for a blocked signal, two   *)
(* poll a flag that a signal handler sets, and two have a thread started   *)
(* for each notification.  The kernel's side (external): a registration is *)
(* used up by the first message that arrives on an empty queue.            *)
(***************************************************************************)
EXTENDS Processes

CONSTANTS MaxMsgs,      \* how many messages are sent while the program runs
          MaxQueue      \* mq_maxmsg: how many the queue holds

Main == 0
Threads == 1..MaxMsgs
Procs == Threads \cup {Main}

Waiting == {"mq_notify_sig", "mq_notify_sigwaitinfo"}
Polling == {"mq_notify_via_signal", "mq_notify_siginfo"}
Threaded == {"mq_notify_thread", "mq_notify_via_thread"}

\* The programs that say they do not handle messages queued before they register.
Unprepared == Waiting \cup {"mq_notify_thread"}

Init ==
    \E kind \in Waiting \cup Polling \cup Threaded, n \in 0..MaxQueue :
        /\ pc = [p \in Procs |-> IF p # Main THEN "none"
                                 ELSE IF kind \in Polling THEN "test" ELSE "first"]
        /\ g = [kind |-> kind, queued |-> n, sent |-> 0, registered |-> FALSE,
                pending |-> FALSE, gotSig |-> kind \in Polling, missed |-> FALSE]

-----------------------------------------------------------------------------
(* The kernel and the processes that send (external).                      *)

\* mq_send() by another process.  A thread is started, or the signal made
\* pending, by the message that uses up the registration.
Send ==
    /\ g.sent < MaxMsgs /\ g.queued < MaxQueue
    /\ LET notify == g.registered /\ g.queued = 0 IN
       /\ g' = [g EXCEPT !.sent = @ + 1, !.queued = @ + 1,
                         !.registered = @ /\ ~notify,
                         !.pending = @ \/ (notify /\ g.kind \notin Threaded)]
       /\ IF notify /\ g.kind \in Threaded
          THEN \E t \in Threads : Go(t, "none", "register")
          ELSE UNCHANGED pc

\* mq_notify(), which fails (EBUSY, and errExit()) when a registration stands.
Notify(p, from, to) ==
    /\ Go(p, from, IF g.registered THEN "died" ELSE to)
    /\ g' = [g EXCEPT !.registered = TRUE,
                      !.missed = @ \/ (from = "first" /\ g.queued > 0 /\ g.kind \in Unprepared)]

-----------------------------------------------------------------------------
(* The first registration, before the loop or pause().                     *)

First(kind, to) == g.kind = kind /\ Notify(Main, "first", to)

SigFirst == First("mq_notify_sig", "wait")
SigwaitinfoFirst == First("mq_notify_sigwaitinfo", "wait")
ThreadFirst == First("mq_notify_thread", "wait")
ViaThreadFirst_M == First("mq_notify_via_thread", "wait")
ViaThreadFirst == First("mq_notify_via_thread", "drain")

-----------------------------------------------------------------------------
(* Learning of a notification.                                             *)

Woken == /\ g.pending /\ Go(Main, "wait", "register")
         /\ g' = [g EXCEPT !.pending = FALSE]

Sigsuspend == g.kind = "mq_notify_sig" /\ Woken
Sigwaitinfo == g.kind = "mq_notify_sigwaitinfo" /\ Woken

\* The signal handlers of the polling programs, which run at any point.
SetFlag == /\ g.pending /\ UNCHANGED pc
           /\ g' = [g EXCEPT !.pending = FALSE, !.gotSig = TRUE]

ViaSignalHandler == g.kind = "mq_notify_via_signal" /\ SetFlag
SiginfoHandler == g.kind = "mq_notify_siginfo" /\ SetFlag

\* if (gotSig), at the top of the loop.
Test == g.gotSig /\ Go(Main, "test", "clear") /\ UNCHANGED g

\* gotSig = 0
Clear ==
    Go(Main, "clear", "register") /\ g' = [g EXCEPT !.gotSig = FALSE]

-----------------------------------------------------------------------------
(* Registering again, in the loop or in threadFunc(), and then draining.   *)

LoopRegister == g.kind \in Waiting /\ Notify(Main, "register", "drain")
FlagRegister == g.kind \in Polling /\ Notify(Main, "register", "drain")
ThreadRegister(t) == g.kind = "mq_notify_thread" /\ Notify(t, "register", "drain")
ViaThreadRegister(t) == g.kind = "mq_notify_via_thread" /\ Notify(t, "register", "drain")

\* One mq_receive() of the draining loop finds a message ...
Receive(p) ==
    Go(p, "drain", "drain") /\ g.queued > 0 /\ g' = [g EXCEPT !.queued = @ - 1]

\* ... or fails with EAGAIN, which ends the loop.
Empty(p, next) == g.queued = 0 /\ Go(p, "drain", next) /\ UNCHANGED g

WaitingDrain == g.kind \in Waiting /\ (Receive(Main) \/ Empty(Main, "wait"))
PollingDrain == g.kind \in Polling /\ (Receive(Main) \/ Empty(Main, "test"))
ThreadDrain(t) == t \in Threads /\ (Receive(t) \/ Empty(t, "end"))
ViaThreadMainDrain ==
    g.kind = "mq_notify_via_thread" /\ (Receive(Main) \/ Empty(Main, "wait"))

Step(p) ==
    \/ p = Main /\ \/ SigFirst \/ SigwaitinfoFirst \/ ThreadFirst \/ ViaThreadFirst
                   \/ Sigsuspend \/ Sigwaitinfo \/ ViaSignalHandler \/ SiginfoHandler
                   \/ Test \/ Clear \/ LoopRegister \/ FlagRegister
                   \/ WaitingDrain \/ PollingDrain \/ ViaThreadMainDrain
    \/ ThreadRegister(p) \/ ViaThreadRegister(p) \/ ThreadDrain(p)

Env == Send

-----------------------------------------------------------------------------
(* Properties.                                                             *)

\* Somebody is about to read the queue, or is on the way to be told to.
InHand ==
    \/ g.pending \/ g.gotSig
    \/ \E p \in Procs : pc[p] \in {"first", "clear", "register", "drain"}

\* Re-registering before draining closes the window in which a message could
\* arrive untold: while messages are queued somebody has them in hand, and when
\* nobody has, the next message will notify.  The exception is the one that the
\* comments of three programs admit (a message queued before the first
\* registration): they "would never receive a notification".
NoMessageForgotten ==
    IF g.missed THEN ~InHand /\ \A t \in Threads : pc[t] = "none"
    ELSE ~InHand => g.queued = 0 /\ g.registered

\* mq_notify() never fails with EBUSY: each registration but the first is made
\* after the previous one was used up, also by threads that run side by side.
NeverBusy == \A p \in Procs : pc[p] # "died"

\* Where it must end when no more messages come: with the queue emptied, save in
\* the case that is admitted.
Settled == g.queued = 0 \/ g.missed

-----------------------------------------------------------------------------
(* The inductive invariant.                                                *)

Points == {"none", "first", "wait", "register", "drain", "test", "clear", "end"}

TypeOK ==
    /\ pc \in [Procs -> Points]
    /\ g \in [kind : Waiting \cup Polling \cup Threaded, queued : Nat, sent : Nat,
              registered : BOOLEAN, pending : BOOLEAN, gotSig : BOOLEAN, missed : BOOLEAN]

Registering == \E p \in Procs : pc[p] = "register"

\* There is one registration, and it is in one place at a time: still to be made, standing,
\* used up by a signal that is pending or was caught, or about to be made again.
OneRegistration ==
    /\ pc[Main] = "first" \/ g.registered \/ g.pending \/ g.gotSig \/ Registering
    /\ pc[Main] = "first" => ~g.registered /\ ~g.pending /\ ~g.gotSig /\ ~Registering
    /\ g.registered => ~g.pending /\ ~g.gotSig /\ ~Registering
    /\ g.pending => ~g.gotSig /\ ~Registering
    /\ g.gotSig => ~Registering
    /\ \A p, q \in Procs : pc[p] = "register" /\ pc[q] = "register" => p = q
    /\ pc[Main] = "clear" => g.gotSig

\* The message that was missed keeps the registration from ever being used.
Missed ==
    /\ pc[Main] = "first" => ~g.missed /\ \A t \in Threads : pc[t] = "none"
    /\ g.missed => /\ g.queued > 0 /\ g.registered /\ pc[Main] = "wait"
                   /\ \A t \in Threads : pc[t] = "none"

IInv == TypeOK /\ OneRegistration /\ Missed /\ NoMessageForgotten
=============================================================================
