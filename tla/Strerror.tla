------------------------------ MODULE Strerror ------------------------------
(***************************************************************************)
(* Three implementations of strerror(): threads/strerror.c (one static     *)
(* buffer), strerror_tls.c (a thread-local buffer) and strerror_tsd.c (a   *)
(* buffer per thread, kept under a key that the first caller creates with  *)
(* pthread_once()).  Threads, as in strerror_test.c, call strerror() and   *)
(* look at the returned string later.                                      *)
(*                                                                         *)
(* A message is the error number it is for and whether the number is       *)
(* known; a buffer has two parts that are written one after the other.     *)
(***************************************************************************)
EXTENDS Pthreads

CONSTANTS NumThreads, NumCalls,     \* threads and calls of each
          Errs,                     \* arguments of strerror()
          sys_nerr, NullErrs        \* _sys_nerr, numbers without a message

Threads == 1..NumThreads
Tids == Threads \cup {Main}
NoBuf == -1
Static == 0
Empty == [known |-> FALSE, err |-> sys_nerr + 1000]    \* no message yet

Init ==
    /\ pc = [t \in Tids |-> IF t = Main THEN "join" ELSE "idle"]
    /\ mtx = Free
    /\ \E impl \in {"static", "tls", "tsd"} :
          g = [impl |-> impl,
               keyState |-> "none",     \* strerrorKey: "none", "creating", "made"
               specific |-> [t \in Threads |-> NoBuf],
               bufs |-> [b \in {Static} \cup Threads |-> <<Empty, Empty>>],
               freed |-> {},
               err |-> [t \in Threads |-> 0],
               str |-> [t \in Threads |-> NoBuf],   \* the returned pointer
               calls |-> [t \in Threads |-> 0]]

\* The text for e: _sys_errlist[e], or "Unknown error e".
Message(e) ==
    [known |-> ~(e < 0 \/ e >= sys_nerr \/ e \in NullErrs), err |-> e]

Call(t, e) ==
    /\ g.calls[t] < NumCalls
    /\ Go(t, "idle", IF g.impl = "tsd" THEN "once" ELSE "fill1")
    /\ g' = [g EXCEPT !.err[t] = e, !.calls[t] = @ + 1]
    /\ UNCHANGED mtx

\* pthread_once(&once, createKey): one caller creates the key, the others wait
\* until it has.
OnceFirst(t) ==
    /\ g.keyState = "none" /\ Go(t, "once", "create")
    /\ g' = [g EXCEPT !.keyState = "creating"]
    /\ UNCHANGED mtx

\* pthread_key_create(): every thread's value of a new key is NULL.
CreateKey(t) ==
    /\ Go(t, "create", "get")
    /\ g' = [g EXCEPT !.keyState = "made", !.specific = [u \in Threads |-> NoBuf]]
    /\ UNCHANGED mtx

OnceDone(t) == g.keyState = "made" /\ Go(t, "once", "get") /\ UNCHANGED <<mtx, g>>

\* pthread_getspecific(), malloc() and pthread_setspecific().
GetBuffer_M(t) ==
    /\ Go(t, "get", "fill1")
    /\ g' = [g EXCEPT !.specific = [u \in Threads |-> IF @[u] = NoBuf THEN t ELSE @[u]]]
    /\ UNCHANGED mtx
GetBuffer(t) ==
    /\ Go(t, "get", "fill1")
    /\ g' = [g EXCEPT !.specific[t] = IF @ = NoBuf THEN t ELSE @]
    /\ UNCHANGED mtx

Buffer(t) ==
    CASE g.impl = "static" -> Static [] g.impl = "tls" -> t [] OTHER -> g.specific[t]

FillFirst(t) ==
    /\ Go(t, "fill1", "fill2")
    /\ g' = [g EXCEPT !.bufs[Buffer(t)][1] = Message(g.err[t])]
    /\ UNCHANGED mtx

FillRest(t) ==
    /\ Go(t, "fill2", "idle")
    /\ g' = [g EXCEPT !.bufs[Buffer(t)][2] = Message(g.err[t]), !.str[t] = Buffer(t)]
    /\ UNCHANGED mtx

\* A thread that has made its calls ends; the destructor of the key frees the
\* buffer of that thread.
ThreadExit(t) ==
    /\ g.calls[t] = NumCalls /\ Go(t, "idle", "end")
    /\ g' = [g EXCEPT !.freed = IF g.impl = "tsd" THEN @ \cup {g.specific[t]} ELSE @]
    /\ UNCHANGED mtx

MJoin ==
    /\ \A t \in Threads : pc[t] = "end"
    /\ Go(Main, "join", "exit")
    /\ UNCHANGED <<mtx, g>>

Thread(t) ==
    IF t = Main THEN MJoin
    ELSE \/ \E e \in Errs : Call(t, e)
         \/ OnceFirst(t) \/ CreateKey(t) \/ OnceDone(t) \/ GetBuffer(t)
         \/ FillFirst(t) \/ FillRest(t) \/ ThreadExit(t)

-----------------------------------------------------------------------------
(* Properties.                                                             *)

\* "Made thread-safe": once strerror() has returned to a thread, the string it
\* points to is the message that thread asked for, and is not freed, until the
\* thread calls strerror() again or ends, whatever other threads do.  The static
\* buffer gives this only as long as no other thread calls strerror() at all.
ThreadSafe ==
    \A t \in Threads :
        /\ pc[t] = "idle" /\ g.calls[t] > 0
        /\ g.impl = "static" => \A u \in Threads \ {t} : g.calls[u] = 0
        =>
            /\ g.bufs[g.str[t]] = <<Message(g.err[t]), Message(g.err[t])>>
            /\ g.str[t] \notin g.freed

\* Every buffer that strerror_tsd.c allocates is freed when its thread ends,
\* and no other buffer ever is.
FreedAtExit == g.impl = "tsd" => g.freed = {t \in Threads : pc[t] = "end"}

-----------------------------------------------------------------------------
(* The inductive invariant.                                                *)

Text == [known : BOOLEAN, err : Int]

TypeOK ==
    /\ pc \in [Tids -> {"idle", "once", "create", "get", "fill1", "fill2", "end", "join", "exit"}]
    /\ pc[Main] \in {"join", "exit"}
    /\ g \in [impl : {"static", "tls", "tsd"}, keyState : {"none", "creating", "made"},
              specific : [Threads -> Threads \cup {NoBuf}],
              bufs : [{Static} \cup Threads -> [1..2 -> Text]], freed : SUBSET Threads,
              err : [Threads -> Int], str : [Threads -> Int], calls : [Threads -> Nat]]

\* The buffer that is thread t's in the end.
Own(t) == IF g.impl = "static" THEN Static ELSE t

\* strerror_tsd.c: one thread creates the key, before any thread has a buffer; a thread
\* that fills one has allocated its own.
KeyFirst ==
    /\ \A t, u \in Threads : pc[t] = "create" =>
           g.keyState = "creating" /\ (pc[u] = "create" => t = u)
    /\ \A t \in Threads :
           /\ g.specific[t] \in {NoBuf, t}
           /\ pc[t] \in {"once", "create", "get"} => g.impl = "tsd"
           /\ g.calls[t] = 0 => pc[t] = "idle"
           /\ g.impl = "tsd" /\ g.keyState # "made" =>
                  /\ g.specific[t] = NoBuf /\ pc[t] \in {"idle", "once", "create"}
                  /\ pc[t] = "idle" => g.calls[t] = 0
           /\ g.impl = "tsd" /\ pc[t] \in {"fill1", "fill2", "end"} => g.specific[t] = t
           /\ g.impl = "tsd" /\ pc[t] = "idle" /\ g.calls[t] > 0 => g.specific[t] = t

Alone(t) == g.impl = "static" => \A u \in Threads \ {t} : g.calls[u] = 0

\* What a thread has filled is what it asked for, unless it shares its buffer with others.
Filled ==
    \A t \in Threads :
        /\ pc[t] = "idle" /\ g.calls[t] > 0 => g.str[t] = Own(t)
        /\ Alone(t) /\ pc[t] = "fill2" => g.bufs[Own(t)][1] = Message(g.err[t])
        /\ Alone(t) /\ pc[t] = "idle" /\ g.calls[t] > 0 =>
               g.bufs[Own(t)][1] = Message(g.err[t]) /\ g.bufs[Own(t)][2] = Message(g.err[t])

Freed == g.freed = IF g.impl = "tsd" THEN {t \in Threads : pc[t] = "end"} ELSE {}

IInv == TypeOK /\ KeyFirst /\ Filled /\ Freed
=============================================================================
