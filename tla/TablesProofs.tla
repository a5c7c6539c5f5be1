--------------------------- MODULE TablesProofs -----------------------------
(***************************************************************************)
(* Proofs about the programs that rewrite or read a table of the process:   *)
(* what xdup() and xdup2() return is right whatever another thread opens or *)
(* closes meanwhile, xsetenv() and xunsetenv() keep a map (TablesRight),    *)
(* and the scan of /proc misses no process that stays and no parent         *)
(* (ProcessesFound).                                                        *)
(*                                                                          *)
(* DfInv, EnInv and PtInv are the inductive invariants of the programs.     *)
(* Each operation has a lemma that it preserves its program's; IInv joins   *)
(* them.                                                                    *)
(***************************************************************************)
EXTENDS Tables, TLAPS, WellFoundedInduction

USE SMTT(30), ZenonT(30)

\* A nonempty set of natural numbers has a least element.
LEMMA LeastNatural ==
    ASSUME NEW T \in SUBSET Nat, T # {}
    PROVE  \E n \in T : \A k \in T : n <= k
<1> DEFINE R == {ss \in Nat \X Nat : ss[1] < ss[2]}
<1>1. IsWellFoundedOn(R, Nat)
  BY NatLessThanWellFounded, ZenonT(30) DEF OpToRel
<1>2. \A k, n \in Nat : k < n => <<k, n>> \in R
  OBVIOUS
<1> HIDE DEF R
<1>3. PICK n \in T : \A k \in T : ~(<<k, n>> \in R)
  BY <1>1, WFMin, ZenonT(30)
<1>4. \A k \in T : ~(k < n)
  BY <1>2, <1>3, ZenonT(30)
<1>5. \A k \in T : k \in Nat /\ n \in Nat
  OBVIOUS
<1> QED  BY <1>4, <1>5

-----------------------------------------------------------------------------
(* dup.c.                                                                  *)

\* A descriptor table; "t" is the other thread's file.
DfTable == [Fds -> {"a", "b", "t", "closed"}]

DfData == [table : DfTable, called : DfTable, fun : {"none", "xdup", "xdup2"}, old : Int,
           new : Int, ret : Int, errno : {"0", "EBADF", "EINVAL"}, raced : BOOLEAN, calls : Nat]

DfTypes ==
    /\ g \in DfData
    /\ pc \in [{0, 1} -> {"run", "xdup", "xdup2", "close", "fcntl"}]

\* The file of oldfd stays open during a call if it is the caller's.
DfKept ==
    (g.old \in Fds /\ g.called[g.old] \in {"a", "b"}) => g.table[g.old] = g.called[g.old]

\* What a call has found out and done when it has come so far.
DfCall ==
    /\ pc[0] = "xdup" => g.fun = "xdup"
    /\ pc[0] \in {"xdup2", "close", "fcntl"} => g.fun = "xdup2"
    /\ pc[0] # "run" => DfKept
    /\ (pc[0] \in {"xdup", "xdup2", "close"} /\ ~g.raced) => g.table = g.called
    /\ pc[0] \in {"close", "fcntl"} =>
           /\ g.old \in Fds /\ g.new >= 0 /\ g.new # g.old
           /\ ~g.raced => g.table[g.old] # "closed"
    /\ (pc[0] = "fcntl" /\ ~g.raced) =>
           /\ \A fd \in Fds \ {g.new} : g.table[fd] = g.called[fd]
           /\ g.new \in Fds => g.table[g.new] = "closed"

\* What holds when a call has returned; DupRight without its guard.
DfReturned ==
    /\ g.ret >= 0 => /\ g.old \in Fds /\ g.ret \in Fds
                     /\ g.ret >= (IF g.fun = "xdup2" THEN g.new ELSE g.old)
                     /\ g.called[g.old] \in {"a", "b"} => g.table[g.ret] = g.called[g.old]
    /\ g.ret >= 0 /\ ~g.raced =>
          /\ g.fun = "xdup2" => g.ret = g.new
          /\ \A fd \in Fds \ {g.ret, g.new} : g.table[fd] = g.called[fd]
    /\ g.ret = -1 /\ ~g.raced => g.table = g.called

DfInv == DfTypes /\ DfCall /\ ((pc[0] = "run" /\ g.calls > 0) => DfReturned)

\* F_DUPFD and open() take the lowest of the free descriptors.
LEMMA DfLowest ==
    ASSUME NEW S \in SUBSET Fds, S # {}
    PROVE  Lowest(S) \in S /\ \A fd \in S : Lowest(S) <= fd
<1>1. S \in SUBSET Nat
  BY DupAssumption DEF Fds
<1>2. \E n \in S : \A k \in S : n <= k
  BY <1>1, LeastNatural
<1> QED  BY <1>2, ZenonT(30) DEF Lowest

\* A program starts with the caller's files only.
LEMMA DfStarts ==
    ASSUME DupInit
    PROVE  DfInv
<1>1. PICK table \in [Fds -> {"a", "b", Closed}] :
        /\ pc = [p \in {Main, Other} |-> "run"]
        /\ g = [table |-> table, called |-> table, fun |-> "none", old |-> 0, new |-> 0,
                ret |-> -1, errno |-> "0", raced |-> FALSE, calls |-> 0]
  BY ZenonT(30) DEF DupInit
<1>2. table \in DfTable
  BY DEF DfTable, Closed
<1>3. g \in DfData
  BY <1>1, <1>2 DEF DfData
<1>5. pc \in [{0, 1} -> {"run", "xdup", "xdup2", "close", "fcntl"}]
  BY <1>1 DEF Main, Other
<1>4. pc[0] = "run" /\ g.calls = 0
  BY <1>1 DEF Main, Other
<1> QED  BY <1>3, <1>4, <1>5 DEF DfInv, DfCall, DfTypes

\* The fields that a call keeps while it runs.
DfSameCall ==
    /\ g'.called = g.called /\ g'.fun = g.fun /\ g'.old = g.old /\ g'.new = g.new
    /\ g'.calls = g.calls

\* A return sets the result, errno and the table.
LEMMA DfReturns ==
    ASSUME DfTypes, NEW from, NEW ret \in Int, NEW errno \in {"0", "EBADF", "EINVAL"},
           NEW table \in DfTable, Return(from, ret, errno, table)
    PROVE  /\ pc[0] = from /\ pc'[0] = "run" /\ DfTypes' /\ DfSameCall
           /\ g'.raced = g.raced /\ g'.table = table /\ g'.ret = ret
<1>1. pc[0] = from /\ pc' = [pc EXCEPT ![0] = "run"]
  BY ZenonT(30) DEF Return, Go, At, Main
<1>2. g' = [table |-> table, called |-> g.called, fun |-> g.fun, old |-> g.old, new |-> g.new,
            ret |-> ret, errno |-> errno, raced |-> g.raced, calls |-> g.calls]
  BY ZenonT(30) DEF Return, DfTypes, DfData
<1>3. g' \in DfData
  BY <1>2 DEF DfTypes, DfData
<1>4. pc' \in [{0, 1} -> {"run", "xdup", "xdup2", "close", "fcntl"}] /\ pc'[0] = "run"
  BY <1>1 DEF DfTypes
<1> QED  BY <1>1, <1>2, <1>3, <1>4 DEF DfTypes, DfSameCall

\* fcntl(F_DUPFD) fails and changes nothing, or takes the lowest free descriptor.
LEMMA DfFcntl ==
    ASSUME DfTypes, NEW from, NEW start \in Int, F_DUPFD(from, g.old, start)
    PROVE  /\ pc[0] = from /\ pc'[0] = "run" /\ DfTypes' /\ DfSameCall /\ g'.raced = g.raced
           /\ \/ /\ g'.ret = -1 /\ g'.table = g.table
                 /\ ~OpenFd(g.old) \/ FreeFds(start) = {}
              \/ /\ OpenFd(g.old) /\ g'.ret \in FreeFds(start)
                 /\ \A fd \in FreeFds(start) : g'.ret <= fd
                 /\ g'.table = [g.table EXCEPT ![g'.ret] = g.table[g.old]]
<1>1. g.table \in DfTable
  BY DEF DfTypes, DfData
<1>2. CASE ~OpenFd(g.old) /\ Return(from, -1, "EBADF", g.table)
  <2>1. /\ pc[0] = from /\ pc'[0] = "run" /\ DfTypes' /\ DfSameCall /\ g'.raced = g.raced
        /\ g'.ret = -1 /\ g'.table = g.table
    BY <1>1, <1>2, DfReturns, SMTT(30)
  <2> QED  BY <2>1, <1>2
<1>3. CASE /\ OpenFd(g.old) /\ FreeFds(start) = {}
           /\ Return(from, -1, IF start \in Fds THEN "EBADF" ELSE "EINVAL", g.table)
  <2>1. PICK errno \in {"0", "EBADF", "EINVAL"} : Return(from, -1, errno, g.table)
    BY <1>3, ZenonT(30)
  <2>2. /\ pc[0] = from /\ pc'[0] = "run" /\ DfTypes' /\ DfSameCall /\ g'.raced = g.raced
        /\ g'.ret = -1 /\ g'.table = g.table
    <3>1. -1 \in Int
      OBVIOUS
    <3> QED  BY <3>1, <1>1, <2>1, DfReturns, ZenonT(30)
  <2> QED  BY <2>2, <1>3
<1>4. CASE /\ OpenFd(g.old) /\ FreeFds(start) # {}
           /\ Return(from, Lowest(FreeFds(start)), "0",
                     [g.table EXCEPT ![Lowest(FreeFds(start))] = g.table[g.old]])
  <2> DEFINE fd == Lowest(FreeFds(start))
  <2>1. fd \in FreeFds(start) /\ \A k \in FreeFds(start) : fd <= k
    BY <1>4, DfLowest DEF FreeFds
  <2>2. fd \in Fds /\ fd \in Int
    BY <2>1, DupAssumption DEF FreeFds, Fds
  <2>3. g.old \in Fds
    BY <1>4 DEF OpenFd
  <2> HIDE DEF fd
  <2>4. [g.table EXCEPT ![fd] = g.table[g.old]] \in DfTable
    BY <2>2, <2>3, <1>1, ZenonT(30) DEF DfTable
  <2>5. Return(from, fd, "0", [g.table EXCEPT ![fd] = g.table[g.old]])
    BY <1>4 DEF fd
  <2>6. /\ pc[0] = from /\ pc'[0] = "run" /\ DfTypes' /\ DfSameCall /\ g'.raced = g.raced
        /\ g'.ret = fd /\ g'.table = [g.table EXCEPT ![fd] = g.table[g.old]]
    <3>1. "0" \in {"0", "EBADF", "EINVAL"}
      OBVIOUS
    <3> QED  BY <3>1, <1>1, <2>2, <2>4, <2>5, DfReturns, ZenonT(30)
  <2> QED  BY <2>1, <2>6, <1>4
<1> QED  BY <1>2, <1>3, <1>4, ZenonT(30) DEF F_DUPFD

\* xdup(), whose descriptor is at least the old one.
LEMMA DfXdup ==
    ASSUME DfInv, Xdup
    PROVE  DfInv'
<1>1. DfTypes /\ g.table \in DfTable /\ g.called \in DfTable /\ g.old \in Int
  BY DEF DfInv, DfTypes, DfData
<1>2. CASE g.old < 0 /\ Return("xdup", -1, "EBADF", g.table)
  <2>1. /\ pc[0] = "xdup" /\ pc'[0] = "run" /\ DfTypes' /\ DfSameCall /\ g'.raced = g.raced
        /\ g'.ret = -1 /\ g'.table = g.table
    <3>1. -1 \in Int /\ "EBADF" \in {"0", "EBADF", "EINVAL"}
      OBVIOUS
    <3> QED  BY <3>1, <1>1, <1>2, DfReturns, ZenonT(30)
  <2>2. ~g.raced => g.table = g.called
    BY <2>1 DEF DfInv, DfCall
  <2> QED  BY <2>1, <2>2 DEF DfInv, DfCall, DfReturned, DfSameCall
<1>3. CASE g.old >= 0 /\ F_DUPFD("xdup", g.old, g.old)
  <2>1. /\ pc[0] = "xdup" /\ pc'[0] = "run" /\ DfTypes' /\ DfSameCall /\ g'.raced = g.raced
        /\ \/ /\ g'.ret = -1 /\ g'.table = g.table
              /\ ~OpenFd(g.old) \/ FreeFds(g.old) = {}
           \/ /\ OpenFd(g.old) /\ g'.ret \in FreeFds(g.old)
              /\ \A fd \in FreeFds(g.old) : g'.ret <= fd
              /\ g'.table = [g.table EXCEPT ![g'.ret] = g.table[g.old]]
    BY <1>1, <1>3, DfFcntl, SMTT(30)
  <2>2. /\ g.fun = "xdup" /\ DfKept /\ (~g.raced => g.table = g.called)
    BY <2>1 DEF DfInv, DfCall
  <2>3. CASE g'.ret = -1 /\ g'.table = g.table
    BY <2>1, <2>2, <2>3 DEF DfInv, DfCall, DfReturned, DfSameCall
  <2>4. CASE /\ OpenFd(g.old) /\ g'.ret \in FreeFds(g.old)
             /\ g'.table = [g.table EXCEPT ![g'.ret] = g.table[g.old]]
    <3>1. g.old \in Fds /\ g'.ret \in Fds /\ g'.ret >= g.old /\ g'.ret >= 0
      BY <2>4, <1>3, DupAssumption DEF OpenFd, FreeFds, Fds
    <3>2. /\ g'.table[g'.ret] = g.table[g.old]
          /\ \A fd \in Fds \ {g'.ret} : g'.table[fd] = g.table[fd]
      BY <3>1, <2>4, <1>1 DEF DfTable
    <3>3. DfReturned'
      BY <3>1, <3>2, <2>1, <2>2 DEF DfReturned, DfSameCall, DfKept
    <3> QED  BY <3>3, <2>1 DEF DfInv, DfCall
  <2> QED  BY <2>1, <2>3, <2>4
<1> QED  BY <1>2, <1>3 DEF Xdup

\* The checks of xdup2().
LEMMA DfXdup2 ==
    ASSUME DfInv, Xdup2
    PROVE  DfInv'
<1>1. /\ DfTypes /\ g.table \in DfTable /\ g.called \in DfTable /\ g.old \in Int /\ g.new \in Int
      /\ g.errno \in {"0", "EBADF", "EINVAL"}
  BY DEF DfInv, DfTypes, DfData
<1>2. CASE Return("xdup2", -1, "EBADF", g.table)
  <2>1. /\ pc[0] = "xdup2" /\ pc'[0] = "run" /\ DfTypes' /\ DfSameCall /\ g'.raced = g.raced
        /\ g'.ret = -1 /\ g'.table = g.table
    <3>1. -1 \in Int /\ "EBADF" \in {"0", "EBADF", "EINVAL"}
      OBVIOUS
    <3> QED  BY <3>1, <1>1, <1>2, DfReturns, ZenonT(30)
  <2>2. ~g.raced => g.table = g.called
    BY <2>1 DEF DfInv, DfCall
  <2> QED  BY <2>1, <2>2 DEF DfInv, DfCall, DfReturned, DfSameCall
<1>3. CASE OpenFd(g.old) /\ g.old = g.new /\ Return("xdup2", g.new, g.errno, g.table)
  <2>1. /\ pc[0] = "xdup2" /\ pc'[0] = "run" /\ DfTypes' /\ DfSameCall /\ g'.raced = g.raced
        /\ g'.ret = g.new /\ g'.table = g.table
    BY <1>1, <1>3, DfReturns, SMTT(30)
  <2>2. DfKept /\ (~g.raced => g.table = g.called)
    BY <2>1 DEF DfInv, DfCall
  <2>3. g.old \in Fds /\ g.old >= 0
    BY <1>3, DupAssumption DEF OpenFd, Fds
  <2>4. DfReturned'
    BY <2>1, <2>2, <2>3, <1>1, <1>3 DEF DfReturned, DfSameCall, DfKept
  <2> QED  BY <2>1, <2>4 DEF DfInv, DfCall
<1>4. CASE /\ OpenFd(g.old) /\ g.new >= 0 /\ g.old # g.new
           /\ Go(Main, "xdup2", "close") /\ UNCHANGED g
  <2>1. pc[0] = "xdup2" /\ pc' = [pc EXCEPT ![0] = "close"] /\ g' = g
    BY <1>4 DEF Go, At, Main
  <2>2. pc'[0] = "close" /\ DfTypes'
    BY <2>1, <1>1 DEF DfTypes
  <2>3. g.old \in Fds /\ g.table[g.old] # "closed"
    BY <1>4 DEF OpenFd, Closed
  <2> QED  BY <2>1, <2>2, <2>3, <1>4 DEF DfInv, DfCall, DfKept
<1> QED  BY <1>2, <1>3, <1>4 DEF Xdup2

\* A call begins.
LEMMA DfCalls ==
    ASSUME DfInv, DupCall
    PROVE  DfInv'
<1>1. DfTypes /\ g.table \in DfTable
  BY DEF DfInv, DfTypes, DfData
<1>2. PICK fun \in {"xdup", "xdup2"}, old \in -1..(MaxFd + 1), new \in -1..(MaxFd + 1) :
        /\ Go(Main, "run", fun)
        /\ g' = [g EXCEPT !.fun = fun, !.old = old, !.new = new, !.called = g.table,
                          !.raced = FALSE, !.calls = @ + 1]
  BY ZenonT(30) DEF DupCall
<1>3. old \in Int /\ new \in Int
  BY DupAssumption
<1>4. g' = [table |-> g.table, called |-> g.table, fun |-> fun, old |-> old, new |-> new,
            ret |-> g.ret, errno |-> g.errno, raced |-> FALSE, calls |-> g.calls + 1]
  BY <1>1, <1>2, ZenonT(30) DEF DfTypes, DfData
<1>5. g' \in DfData
  BY <1>1, <1>3, <1>4 DEF DfTypes, DfData
<1>6. pc' = [pc EXCEPT ![0] = fun]
  BY <1>2 DEF Go, At, Main
<1>7. DfTypes' /\ pc'[0] = fun
  BY <1>1, <1>5, <1>6 DEF DfTypes
<1> QED  BY <1>4, <1>7 DEF DfInv, DfCall, DfKept

\* close(newfd): oldfd, which differs, stays as it is.
LEMMA DfClose ==
    ASSUME DfInv, CloseNew
    PROVE  DfInv'
<1>1. DfTypes /\ g.table \in DfTable /\ g.called \in DfTable
  BY DEF DfInv, DfTypes, DfData
<1>2. pc[0] = "close" /\ pc' = [pc EXCEPT ![0] = "fcntl"]
  BY DEF CloseNew, Go, At, Main
<1>3. pc'[0] = "fcntl" /\ pc' \in [{0, 1} -> {"run", "xdup", "xdup2", "close", "fcntl"}]
  BY <1>1, <1>2 DEF DfTypes
<1>4. /\ g.fun = "xdup2" /\ DfKept /\ (~g.raced => g.table = g.called)
      /\ g.old \in Fds /\ g.new >= 0 /\ g.new # g.old
      /\ ~g.raced => g.table[g.old] # "closed"
  BY <1>2 DEF DfInv, DfCall
<1>5. /\ g' \in DfData /\ DfSameCall /\ g'.raced = g.raced
      /\ \A fd \in Fds \ {g.new} : g'.table[fd] = g.table[fd]
      /\ g.new \in Fds => g'.table[g.new] = "closed"
  <2>1. CASE OpenFd(g.new) /\ g' = [g EXCEPT !.table[g.new] = Closed]
    <3>1. g.new \in Fds
      BY <2>1 DEF OpenFd
    <3> DEFINE T == [g.table EXCEPT ![g.new] = "closed"]
    <3>2. /\ T \in DfTable /\ T[g.new] = "closed"
          /\ \A fd \in Fds \ {g.new} : T[fd] = g.table[fd]
      BY <3>1, <1>1 DEF DfTable
    <3>3. g' = [table |-> T, called |-> g.called, fun |-> g.fun, old |-> g.old, new |-> g.new,
                ret |-> g.ret, errno |-> g.errno, raced |-> g.raced, calls |-> g.calls]
      BY <1>1, <2>1, ZenonT(30) DEF DfTypes, DfData, Closed
    <3> HIDE DEF T
    <3> QED  BY <3>2, <3>3, <1>1 DEF DfTypes, DfData, DfSameCall
  <2>2. CASE ~OpenFd(g.new) /\ g' = g
    BY <2>2, <1>1 DEF DfTypes, DfSameCall, OpenFd, Closed
  <2> QED  BY <2>1, <2>2 DEF CloseNew
<1> QED  BY <1>1, <1>3, <1>4, <1>5 DEF DfInv, DfCall, DfTypes, DfKept, DfSameCall

\* fcntl(oldfd, F_DUPFD, newfd) finds newfd free, unless another thread took it.
LEMMA DfDupNew ==
    ASSUME DfInv, DupNew
    PROVE  DfInv'
<1>1. DfTypes /\ g.table \in DfTable /\ g.called \in DfTable /\ g.new \in Int
  BY DEF DfInv, DfTypes, DfData
<1>2. /\ pc[0] = "fcntl" /\ pc'[0] = "run" /\ DfTypes' /\ DfSameCall /\ g'.raced = g.raced
      /\ \/ /\ g'.ret = -1 /\ g'.table = g.table
            /\ ~OpenFd(g.old) \/ FreeFds(g.new) = {}
         \/ /\ OpenFd(g.old) /\ g'.ret \in FreeFds(g.new)
            /\ \A fd \in FreeFds(g.new) : g'.ret <= fd
            /\ g'.table = [g.table EXCEPT ![g'.ret] = g.table[g.old]]
  BY <1>1, DfFcntl, SMTT(30) DEF DupNew
<1>3. /\ g.fun = "xdup2" /\ DfKept /\ g.old \in Fds /\ g.new >= 0
      /\ ~g.raced => /\ g.table[g.old] # "closed"
                     /\ \A fd \in Fds \ {g.new} : g.table[fd] = g.called[fd]
                     /\ g.new \in Fds => g.table[g.new] = "closed"
  BY <1>2 DEF DfInv, DfCall
<1>4. CASE g'.ret = -1 /\ g'.table = g.table /\ (~OpenFd(g.old) \/ FreeFds(g.new) = {})
  <2>1. ASSUME ~g.raced PROVE g.new \notin Fds
    <3>1. FreeFds(g.new) = {}
      BY <1>3, <1>4, <2>1 DEF OpenFd, Closed
    <3> QED  BY <3>1, <2>1, <1>1, <1>3 DEF FreeFds, Closed
  <2>2. ~g.raced => g.table = g.called
    BY <2>1, <1>1, <1>3 DEF DfTable
  <2> QED  BY <1>2, <1>4, <2>2 DEF DfInv, DfCall, DfReturned, DfSameCall
<1>5. CASE /\ OpenFd(g.old) /\ g'.ret \in FreeFds(g.new)
           /\ \A fd \in FreeFds(g.new) : g'.ret <= fd
           /\ g'.table = [g.table EXCEPT ![g'.ret] = g.table[g.old]]
  <2>1. g'.ret \in Fds /\ g'.ret >= g.new /\ g'.ret >= 0 /\ g.new \in Fds
    BY <1>1, <1>3, <1>5, DupAssumption DEF FreeFds, Fds
  <2>2. /\ g'.table[g'.ret] = g.table[g.old]
        /\ \A fd \in Fds \ {g'.ret} : g'.table[fd] = g.table[fd]
    BY <2>1, <1>5, <1>1 DEF DfTable
  <2>3. ~g.raced => g'.ret = g.new
    <3>1. ~g.raced => g.new \in FreeFds(g.new)
      BY <2>1, <1>1, <1>3 DEF FreeFds, Closed
    <3>2. g'.ret \in Int
      BY <2>1, DupAssumption DEF Fds
    <3> QED  BY <3>1, <3>2, <2>1, <1>1, <1>5
  <2>4. DfReturned'
    BY <2>1, <2>2, <2>3, <1>2, <1>3 DEF DfReturned, DfSameCall, DfKept
  <2> QED  BY <2>4, <1>2 DEF DfInv, DfCall
<1> QED  BY <1>2, <1>4, <1>5

\* The other thread changes no entry that is the caller's, and is noticed.
LEMMA DfOther ==
    ASSUME DfInv, DupEnvironment
    PROVE  DfInv'
<1>1. DfTypes /\ g.table \in DfTable /\ g.called \in DfTable /\ g.ret \in Int
  BY DEF DfInv, DfTypes, DfData
<1>2. PICK fd \in Fds, file \in {"t", "closed"} :
        /\ g.table[fd] \in {"t", "closed"}
        /\ g' = [g EXCEPT !.table[fd] = file, !.raced = TRUE]
  <2>1. CASE OtherOpen
    <3>1. Lowest(FreeFds(0)) \in FreeFds(0)
      BY <2>1, DfLowest DEF OtherOpen, FreeFds
    <3>2. Lowest(FreeFds(0)) \in Fds /\ g.table[Lowest(FreeFds(0))] = "closed"
      BY <3>1 DEF FreeFds, Closed
    <3> QED  BY <2>1, <3>2, ZenonT(30) DEF OtherOpen
  <2>2. CASE OtherClose
    BY <2>2, ZenonT(30) DEF OtherClose, Closed
  <2> QED  BY <2>1, <2>2, ZenonT(30) DEF DupEnvironment
<1> DEFINE T == [g.table EXCEPT ![fd] = file]
<1>3. T \in DfTable /\ \A k \in Fds : g.table[k] \in {"a", "b"} => T[k] = g.table[k]
  BY <1>1, <1>2 DEF DfTable
<1>4. g' = [table |-> T, called |-> g.called, fun |-> g.fun, old |-> g.old, new |-> g.new,
            ret |-> g.ret, errno |-> g.errno, raced |-> TRUE, calls |-> g.calls]
  BY <1>1, <1>2, ZenonT(30) DEF DfTypes, DfData
<1> HIDE DEF T
<1>5. /\ g' \in DfData /\ DfSameCall /\ g'.raced /\ g'.ret = g.ret /\ g'.table = T
  BY <1>1, <1>3, <1>4 DEF DfTypes, DfData, DfSameCall
<1>6. pc' = pc
  BY ZenonT(30) DEF DupEnvironment, OtherOpen, OtherClose
<1>7. DfTypes' /\ DfCall'
  BY <1>1, <1>3, <1>5, <1>6 DEF DfInv, DfTypes, DfCall, DfKept, DfSameCall
<1>8. DfReturned => DfReturned'
  BY <1>1, <1>3, <1>5 DEF DfReturned, DfSameCall
<1> QED  BY <1>5, <1>6, <1>7, <1>8 DEF DfInv, DfSameCall

\* Every step of dup.c and of the other thread.
LEMMA DfNext ==
    ASSUME DfInv, DupNext \/ DupEnvironment
    PROVE  DfInv'
  BY DfCalls, DfXdup, DfXdup2, DfClose, DfDupNew, DfOther DEF DupNext

-----------------------------------------------------------------------------
(* setenv.c.                                                               *)

EnName == UNION EnvNames
EnValue == EnvValues \cup {NoValue}
EnEntry == [name : EnName, value : EnvValues, own : BOOLEAN, is : {"set", "unset", "broken"}]
EnWant == UNION {[names -> EnValue] : names \in EnvNames}

EnData == [names : EnvNames, environ : Seq(EnEntry), EnvList : BOOLEAN, NextEnvVar : Nat,
           capacity : Nat, calls : Nat, want : EnWant, last : {<<>>} \cup (EnName \X EnvValues)]

\* No name of N begins with another one.
EnUnrelated(N) == \A m, n \in N : Begins(m, n) => m = n

\* What environ e holds when the calls so far have asked for w: no variable twice,
\* and if names are unrelated, none that has lost its '=' and exactly those of w.
EnMap(e, w, N) ==
    /\ e \in Seq(EnEntry) /\ w \in [N -> EnValue] /\ N \in EnvNames
    /\ \A k \in DOMAIN e : e[k].name \in N
    /\ \A j, k \in DOMAIN e :
          (e[j].is = "set" /\ e[k].is = "set" /\ e[j].name = e[k].name) => j = k
    /\ EnUnrelated(N) =>
          /\ \A k \in DOMAIN e : e[k].is # "broken"
          /\ \A k \in DOMAIN e : e[k].is = "set" => w[e[k].name] = e[k].value
          /\ \A n \in N : w[n] # NoValue => \E k \in DOMAIN e : e[k].is = "set" /\ e[k].name = n

EnInv ==
    /\ g \in EnData /\ pc \in [{0} -> {"run", "crashed"}]
    /\ EnMap(g.environ, g.want, g.names)
    /\ (EnUnrelated(g.names) /\ g.EnvList) => pc[0] = "run"
    /\ g.NextEnvVar < g.capacity

\* A name begins with itself, so strncmp() finds a variable by its own name.
LEMMA EnPrefix ==
    ASSUME NEW N \in EnvNames, NEW n \in N
    PROVE  Begins(n, n)
  BY EnvAssumption DEF Begins

\* An entry is added at the end for a name that environ does not hold.
LEMMA EnAppend ==
    ASSUME NEW e, NEW w, NEW N, EnMap(e, w, N), NEW name \in N, NEW value \in EnvValues,
           \A k \in DOMAIN e : ~(e[k].is = "set" /\ e[k].name = name)
    PROVE  EnMap(Append(e, Entry(name, value, TRUE)), [w EXCEPT ![name] = value], N)
<1> DEFINE x == Entry(name, value, TRUE)
           f == Append(e, x)
           v == [w EXCEPT ![name] = value]
<1>1. N \in EnvNames /\ name \in EnName /\ e \in Seq(EnEntry) /\ w \in [N -> EnValue]
  BY DEF EnMap, EnName
<1>2. x \in EnEntry /\ x.is = "set" /\ x.name = name /\ x.value = value
  BY <1>1 DEF Entry, EnEntry
<1> HIDE DEF x
<1>3. /\ f \in Seq(EnEntry) /\ DOMAIN e = 1..Len(e) /\ DOMAIN f = 1..Len(e) + 1 /\ Len(e) \in Nat
      /\ f[Len(e) + 1] = x /\ \A k \in DOMAIN e : f[k] = e[k]
  BY <1>1, <1>2
<1>4. \A k \in DOMAIN f : k = Len(e) + 1 \/ k \in DOMAIN e
  BY <1>3
<1>5. \A k \in DOMAIN e : k \in DOMAIN f /\ k # Len(e) + 1
  BY <1>3
<1>6. Len(e) + 1 \in DOMAIN f
  BY <1>3
<1>7. /\ v \in [N -> EnValue] /\ v[name] = value /\ \A n \in N \ {name} : v[n] = w[n]
  BY <1>1 DEF EnValue
<1> HIDE DEF f, v
<1>8. \A k \in DOMAIN f : f[k].name \in N
  BY <1>2, <1>3, <1>4 DEF EnMap
<1>9. \A j, k \in DOMAIN f :
         (f[j].is = "set" /\ f[k].is = "set" /\ f[j].name = f[k].name) => j = k
  BY <1>2, <1>3, <1>4 DEF EnMap
<1>10. ASSUME EnUnrelated(N)
       PROVE  /\ \A k \in DOMAIN f : f[k].is # "broken"
              /\ \A k \in DOMAIN f : f[k].is = "set" => v[f[k].name] = f[k].value
              /\ \A n \in N : v[n] # NoValue =>
                    \E k \in DOMAIN f : f[k].is = "set" /\ f[k].name = n
  <2>1. \A k \in DOMAIN f : f[k].is # "broken"
    BY <1>10, <1>2, <1>3, <1>4 DEF EnMap
  <2>2. \A k \in DOMAIN f : f[k].is = "set" => v[f[k].name] = f[k].value
    BY <1>10, <1>2, <1>3, <1>4, <1>7 DEF EnMap
  <2>3. ASSUME NEW n \in N, v[n] # NoValue
        PROVE  \E k \in DOMAIN f : f[k].is = "set" /\ f[k].name = n
    <3>1. CASE n = name
      BY <3>1, <1>2, <1>3, <1>6
    <3>2. CASE n # name
      <4>1. PICK k \in DOMAIN e : e[k].is = "set" /\ e[k].name = n
        BY <3>2, <2>3, <1>7, <1>10 DEF EnMap
      <4> QED  BY <4>1, <1>3, <1>5
    <3> QED  BY <3>1, <3>2
  <2> QED  BY <2>1, <2>2, <2>3
<1> QED  BY <1>1, <1>3, <1>7, <1>8, <1>9, <1>10, ZenonT(30) DEF EnMap, f, v, x

\* xunsetenv(name) leaves no variable of that name, and the others if names are unrelated.
LEMMA EnClear ==
    ASSUME EnMap(g.environ, g.want, g.names), NEW name \in g.names
    PROVE  /\ EnMap(Cleared(name), [g.want EXCEPT ![name] = NoValue], g.names)
           /\ \A k \in DOMAIN Cleared(name) :
                 ~(Cleared(name)[k].is = "set" /\ Cleared(name)[k].name = name)
<1> DEFINE e == g.environ
           f == Cleared(name)
           N == g.names
           w == g.want
           v == [w EXCEPT ![name] = NoValue]
<1>1. N \in EnvNames /\ e \in Seq(EnEntry) /\ w \in [N -> EnValue]
  BY DEF EnMap
<1>2. /\ DOMAIN f = DOMAIN e /\ DOMAIN e = 1..Len(e) /\ Len(e) \in Nat
      /\ \A k \in DOMAIN e : f[k] = IF Matches(k, name) THEN [e[k] EXCEPT !.is = "unset"] ELSE e[k]
  BY <1>1 DEF Cleared
<1>3. \A k \in DOMAIN e : /\ f[k] \in EnEntry /\ f[k].name = e[k].name /\ f[k].value = e[k].value
                          /\ f[k].is = IF Matches(k, name) THEN "unset" ELSE e[k].is
  <2> SUFFICES ASSUME NEW k \in DOMAIN e
               PROVE  /\ f[k] \in EnEntry /\ f[k].name = e[k].name /\ f[k].value = e[k].value
                      /\ f[k].is = IF Matches(k, name) THEN "unset" ELSE e[k].is
    OBVIOUS
  <2>1. e[k] \in EnEntry
    BY <1>1, <1>2
  <2>2. f[k] = IF Matches(k, name) THEN [e[k] EXCEPT !.is = "unset"] ELSE e[k]
    BY <1>2
  <2> HIDE DEF f, e
  <2> QED  BY <2>1, <2>2 DEF EnEntry
<1>4. f \in Seq(EnEntry)
  <2>1. \E n \in Nat : DOMAIN f = 1..n
    BY <1>2
  <2>2. f = [k \in DOMAIN f |-> f[k]]
    BY DEF Cleared
  <2>3. f \in [1..Len(e) -> EnEntry]
    BY <2>2, <1>2, <1>3
  <2> QED  BY <2>3, <1>2
<1>5. \A k \in DOMAIN e : (e[k].name = name /\ e[k].is = "set") => Matches(k, name)
  BY <1>1, EnPrefix DEF Matches
<1>6. \A k \in DOMAIN e : (EnUnrelated(N) /\ Matches(k, name)) => e[k].name = name
  BY DEF Matches, EnUnrelated, EnMap
<1>7. v \in [N -> EnValue] /\ v[name] = NoValue /\ \A n \in N \ {name} : v[n] = w[n]
  BY <1>1 DEF EnValue
<1>8. /\ \A k \in DOMAIN e : e[k].name \in N
      /\ \A j, k \in DOMAIN e :
            (e[j].is = "set" /\ e[k].is = "set" /\ e[j].name = e[k].name) => j = k
      /\ EnUnrelated(N) =>
            /\ \A k \in DOMAIN e : e[k].is # "broken"
            /\ \A k \in DOMAIN e : e[k].is = "set" => w[e[k].name] = e[k].value
            /\ \A n \in N : w[n] # NoValue => \E k \in DOMAIN e : e[k].is = "set" /\ e[k].name = n
  BY ZenonT(30) DEF EnMap
<1> HIDE DEF f, v, e, w, N
<1>9. /\ \A k \in DOMAIN f : f[k].name \in N
      /\ \A k \in DOMAIN f : ~(f[k].is = "set" /\ f[k].name = name)
      /\ \A j, k \in DOMAIN f :
            (f[j].is = "set" /\ f[k].is = "set" /\ f[j].name = f[k].name) => j = k
  BY <1>2, <1>3, <1>5, <1>8
<1>10. ASSUME EnUnrelated(N)
       PROVE  /\ \A k \in DOMAIN f : f[k].is # "broken"
              /\ \A k \in DOMAIN f : f[k].is = "set" => v[f[k].name] = f[k].value
              /\ \A n \in N : v[n] # NoValue =>
                    \E k \in DOMAIN f : f[k].is = "set" /\ f[k].name = n
  <2>1. \A k \in DOMAIN f : f[k].is # "broken"
    BY <1>10, <1>2, <1>3, <1>8
  <2>2. \A k \in DOMAIN f : f[k].is = "set" => v[f[k].name] = f[k].value
    BY <1>10, <1>2, <1>3, <1>7, <1>8, <1>9
  <2>3. ASSUME NEW n \in N, v[n] # NoValue
        PROVE  \E k \in DOMAIN f : f[k].is = "set" /\ f[k].name = n
    <3>1. n # name /\ w[n] # NoValue
      BY <2>3, <1>7
    <3>2. PICK k \in DOMAIN e : e[k].is = "set" /\ e[k].name = n
      BY <3>1, <1>10, <1>8
    <3>3. ~Matches(k, name)
      BY <3>1, <3>2, <1>6, <1>10
    <3> QED  BY <3>2, <3>3, <1>2, <1>3
  <2> QED  BY <2>1, <2>2, <2>3
<1>11. EnMap(f, v, N)
  BY <1>1, <1>4, <1>7, <1>9, <1>10 DEF EnMap
<1> QED  BY <1>9, <1>11 DEF f, v, w, N

\* A value is copied into the entry that matches, which loses its '=' if it has
\* another name.
LEMMA EnOverwrite ==
    ASSUME NEW e, NEW w, NEW N, EnMap(e, w, N), NEW name \in N, NEW value \in EnvValues,
           NEW k \in DOMAIN e, e[k].is = "set", Begins(name, e[k].name)
    PROVE  EnMap([e EXCEPT ![k] = Overwritten(@, name, value)], [w EXCEPT ![name] = value], N)
<1> DEFINE x == Overwritten(e[k], name, value)
           f == [e EXCEPT ![k] = x]
           v == [w EXCEPT ![name] = value]
<1>1. N \in EnvNames /\ e \in Seq(EnEntry) /\ w \in [N -> EnValue] /\ e[k] \in EnEntry
  BY DEF EnMap
<1>2. /\ x \in EnEntry /\ x.name = e[k].name
      /\ e[k].name = name => x.is = "set" /\ x.value = value
      /\ e[k].name # name => x.is = "broken"
  BY <1>1 DEF Overwritten, EnEntry
<1> HIDE DEF x
<1>3. /\ f \in Seq(EnEntry) /\ DOMAIN f = DOMAIN e /\ f[k] = x
      /\ \A j \in DOMAIN e : j # k => f[j] = e[j]
  BY <1>1, <1>2
<1>4. v \in [N -> EnValue] /\ v[name] = value /\ \A n \in N \ {name} : v[n] = w[n]
  BY <1>1 DEF EnValue
<1>5. /\ \A j \in DOMAIN e : e[j].name \in N
      /\ \A i, j \in DOMAIN e :
            (e[i].is = "set" /\ e[j].is = "set" /\ e[i].name = e[j].name) => i = j
      /\ EnUnrelated(N) =>
            /\ \A j \in DOMAIN e : e[j].is # "broken"
            /\ \A j \in DOMAIN e : e[j].is = "set" => w[e[j].name] = e[j].value
            /\ \A n \in N : w[n] # NoValue => \E j \in DOMAIN e : e[j].is = "set" /\ e[j].name = n
  BY ZenonT(30) DEF EnMap
<1>6. EnUnrelated(N) => e[k].name = name
  BY <1>5 DEF EnUnrelated
<1> HIDE DEF f, v
<1>7. \A j \in DOMAIN f : f[j].name = e[j].name /\ (f[j].is = "set" => e[j].is = "set")
  BY <1>2, <1>3
<1>8. /\ \A j \in DOMAIN f : f[j].name \in N
      /\ \A i, j \in DOMAIN f :
            (f[i].is = "set" /\ f[j].is = "set" /\ f[i].name = f[j].name) => i = j
  BY <1>3, <1>5, <1>7
<1>9. ASSUME EnUnrelated(N)
      PROVE  /\ \A j \in DOMAIN f : f[j].is # "broken"
             /\ \A j \in DOMAIN f : f[j].is = "set" => v[f[j].name] = f[j].value
             /\ \A n \in N : v[n] # NoValue =>
                   \E j \in DOMAIN f : f[j].is = "set" /\ f[j].name = n
  <2>1. e[k].name = name /\ x.is = "set" /\ x.value = value
    BY <1>2, <1>6, <1>9
  <2>2. \A j \in DOMAIN f : f[j].is # "broken"
    BY <2>1, <1>3, <1>5, <1>9
  <2>3. \A j \in DOMAIN f : f[j].is = "set" => v[f[j].name] = f[j].value
    BY <2>1, <1>2, <1>3, <1>4, <1>5, <1>7, <1>9
  <2>4. ASSUME NEW n \in N, v[n] # NoValue
        PROVE  \E j \in DOMAIN f : f[j].is = "set" /\ f[j].name = n
    <3>1. CASE n = name
      BY <3>1, <2>1, <1>2, <1>3
    <3>2. CASE n # name
      <4>1. PICK j \in DOMAIN e : e[j].is = "set" /\ e[j].name = n
        BY <3>2, <2>4, <1>4, <1>5, <1>9
      <4> QED  BY <4>1, <3>2, <2>1, <1>3
    <3> QED  BY <3>1, <3>2
  <2> QED  BY <2>2, <2>3, <2>4
<1> QED  BY <1>1, <1>3, <1>4, <1>8, <1>9 DEF EnMap, f, v, x

\* getenv() finds the value of the only variable of that name, or nothing.
LEMMA EnGetenv ==
    ASSUME EnMap(g.environ, g.want, g.names), NEW name
    PROVE  /\ \A k \in DOMAIN g.environ : Live(k, name) => Getenv(name) = g.environ[k].value
           /\ (\A k \in DOMAIN g.environ : ~Live(k, name)) <=> Getenv(name) = NoValue
<1> DEFINE found == {k \in DOMAIN g.environ : Live(k, name)}
<1>1. Getenv(name) = IF found = {} THEN NoValue
                     ELSE g.environ[CHOOSE k \in found : \A j \in found : k <= j].value
  BY ZenonT(30) DEF Getenv
<1>2. ASSUME NEW k \in found PROVE Getenv(name) = g.environ[k].value
  <2>1. found = {k}
    BY <1>2 DEF EnMap, Live
  <2>2. k \in Nat
    BY DEF EnMap
  <2>3. (CHOOSE i \in found : \A j \in found : i <= j) = k
    <3>1. k \in found /\ \A j \in found : k <= j
      BY <2>1, <2>2
    <3> HIDE DEF found
    <3> QED  BY <3>1, <2>1
  <2> QED  BY <1>1, <2>1, <2>3, ZenonT(30)
<1>3. \A k \in DOMAIN g.environ : g.environ[k].value # NoValue
  <2>1. \A k \in DOMAIN g.environ : g.environ[k] \in EnEntry
    BY DEF EnMap
  <2>2. \A k \in DOMAIN g.environ : g.environ[k].value \in EnvValues
    BY <2>1 DEF EnEntry
  <2> QED  BY <2>2, EnvAssumption DEF NoValue
<1>4. found = {} => Getenv(name) = NoValue
  BY <1>1
<1> QED  BY <1>2, <1>3, <1>4

\* The search of xsetenv() stops at an entry that matches.
LEMMA EnFirst ==
    ASSUME EnMap(g.environ, g.want, g.names), NEW name \in g.names, Getenv(name) # NoValue
    PROVE  FirstMatch(name) \in DOMAIN g.environ /\ Matches(FirstMatch(name), name)
<1> DEFINE found == {k \in DOMAIN g.environ : Matches(k, name)}
<1>1. PICK k \in DOMAIN g.environ : Live(k, name)
  BY EnGetenv
<1>2. g.names \in EnvNames
  BY DEF EnMap
<1>3. k \in found
  BY <1>1, <1>2, EnPrefix DEF Live, Matches
<1>4. found \in SUBSET Nat
  BY DEF EnMap
<1>5. FirstMatch(name) = CHOOSE i \in found : \A j \in found : i <= j
  BY ZenonT(30) DEF FirstMatch
<1>6. \E i \in found : \A j \in found : i <= j
  <2> HIDE DEF found
  <2> QED  BY <1>3, <1>4, LeastNatural
<1>7. FirstMatch(name) \in found
  <2> HIDE DEF found
  <2> QED  BY <1>5, <1>6, ZenonT(30)
<1> QED  BY <1>7

\* environ begins with variables of different names.
LEMMA EnStarts ==
    ASSUME EnvInit
    PROVE  EnInv
<1> DEFINE e(order, value) == [k \in DOMAIN order |-> Entry(order[k], value, FALSE)]
           w(names, order, value) == [n \in names |-> IF n \in Range(order) THEN value ELSE NoValue]
           St(names, value, order) ==
              /\ pc = [p \in {Main} |-> "run"]
              /\ g = [names |-> names, environ |-> e(order, value),
                      EnvList |-> FALSE, NextEnvVar |-> 0, capacity |-> EnvCapacity, calls |-> 0,
                      want |-> w(names, order, value), last |-> <<>>]
<1>1. \E names \in EnvNames, value \in EnvValues, m \in 0..2 : \E order \in Injection(1..m, names) :
         St(names, value, order)
  BY ZenonT(30) DEF EnvInit
<1> HIDE DEF St
<1>0. PICK names \in EnvNames, value \in EnvValues, m \in 0..2 : \E order \in Injection(1..m, names) :
         St(names, value, order)
  BY <1>1, ZenonT(30)
<1>2. PICK order \in Injection(1..m, names) : St(names, value, order)
  BY <1>0, ZenonT(30)
<1>3. order \in Seq(names)
  <2>1. order \in [1..m -> names]
    BY <1>2, ZenonT(30) DEF Injection
  <2> QED  BY <2>1
<1> DEFINE E == e(order, value)
           W == w(names, order, value)
<1>4. DOMAIN order = 1..Len(order) /\ Len(order) \in Nat /\ \A k \in DOMAIN order : order[k] \in names
  BY <1>3
<1>5. \A k \in DOMAIN order :
         LET x == Entry(order[k], value, FALSE)
         IN  x \in EnEntry /\ x.is = "set" /\ x.name = order[k] /\ x.value = value
  BY <1>4 DEF Entry, EnEntry, EnName
<1>16. \A k \in DOMAIN order : E[k].is = "set" /\ E[k].name = order[k] /\ E[k].value = value
  BY <1>5, ZenonT(30)
<1>6. E \in Seq(EnEntry) /\ DOMAIN E = DOMAIN order
  <2>1. E \in [DOMAIN order -> EnEntry]
    BY <1>5, ZenonT(30)
  <2> HIDE DEF E
  <2> QED  BY <2>1, <1>4
<1>7. W \in [names -> EnValue]
  BY DEF EnValue
<1>8. \A n \in names : W[n] # NoValue => \E k \in DOMAIN order : order[k] = n
  BY DEF Range
<1>9. \A k \in DOMAIN order : W[order[k]] = value
  BY <1>4 DEF Range
<1>10. \A j, k \in DOMAIN order : order[j] = order[k] => j = k
  BY <1>2, ZenonT(30) DEF Injection, IsInjective
<1>11. g = [names |-> names, environ |-> E, EnvList |-> FALSE, NextEnvVar |-> 0,
            capacity |-> EnvCapacity, calls |-> 0, want |-> W, last |-> <<>>]
  BY <1>2 DEF St
<1> HIDE DEF E, W
<1>12. EnMap(E, W, names)
  BY <1>4, <1>6, <1>7, <1>8, <1>9, <1>10, <1>16 DEF EnMap
<1>13. W \in EnWant
  BY <1>7 DEF EnWant
<1>14. g \in EnData /\ g.environ = E /\ g.want = W /\ g.names = names
  BY <1>6, <1>11, <1>13, EnvAssumption DEF EnData
<1>15. pc \in [{0} -> {"run", "crashed"}] /\ pc[0] = "run"
  BY <1>2 DEF St, Main
<1> QED  BY <1>11, <1>12, <1>14, <1>15, EnvAssumption DEF EnInv

EnLast == {<<>>} \cup (EnName \X EnvValues)

\* A call that leaves a right environ and a large enough EnvList keeps the invariant.
LEMMA EnKeeps ==
    ASSUME EnInv, NEW e, NEW b \in BOOLEAN, NEW n \in Nat, NEW c \in Nat, NEW w, NEW l \in EnLast,
           EnMap(e, w, g.names), n < c, pc[0] = "run", pc' = pc,
           g' = [names |-> g.names, environ |-> e, EnvList |-> b, NextEnvVar |-> n,
                 capacity |-> c, calls |-> g.calls + 1, want |-> w, last |-> l]
    PROVE  EnInv'
<1>1. g.names \in EnvNames /\ e \in Seq(EnEntry) /\ w \in [g.names -> EnValue]
  BY ZenonT(30) DEF EnMap
<1>2. w \in EnWant
  BY <1>1 DEF EnWant
<1>3. g.calls + 1 \in Nat
  BY DEF EnInv, EnData
<1>4. g' \in EnData
  BY <1>1, <1>2, <1>3, ZenonT(30) DEF EnData, EnLast
<1>5. pc' \in [{0} -> {"run", "crashed"}] /\ pc'[0] = "run"
  BY DEF EnInv
<1>6. /\ g'.environ = e /\ g'.want = w /\ g'.names = g.names /\ g'.NextEnvVar = n
      /\ g'.capacity = c
  OBVIOUS
<1> QED  BY <1>4, <1>5, <1>6 DEF EnInv

\* xunsetenv().
LEMMA EnXunsetenv ==
    ASSUME EnInv, NEW name \in g.names, Xunsetenv(name)
    PROVE  EnInv'
<1>1. EnMap(Cleared(name), [g.want EXCEPT ![name] = NoValue], g.names)
  BY EnClear DEF EnInv
<1>2. pc[0] = "run" /\ pc' = pc
  BY DEF Xunsetenv, At, Main
<1>3. g' = [names |-> g.names, environ |-> Cleared(name), EnvList |-> g.EnvList,
            NextEnvVar |-> g.NextEnvVar, capacity |-> g.capacity, calls |-> g.calls + 1,
            want |-> [g.want EXCEPT ![name] = NoValue], last |-> <<>>]
  BY ZenonT(30) DEF Xunsetenv, EnInv, EnData
<1>4. g.EnvList \in BOOLEAN /\ g.NextEnvVar \in Nat /\ g.capacity \in Nat /\ g.NextEnvVar < g.capacity
  BY DEF EnInv, EnData
<1>5. <<>> \in EnLast
  BY DEF EnLast
<1> QED  BY <1>1, <1>2, <1>3, <1>4, <1>5, EnKeeps, ZenonT(30)

\* A variable is added: EnvList is enlarged when it would have no room for the NULL.
LEMMA EnAdds ==
    ASSUME EnInv, NEW name \in g.names, NEW value \in EnvValues, NEW e, NEW w,
           EnMap(e, w, g.names), [w EXCEPT ![name] = value] = [g.want EXCEPT ![name] = value],
           \A k \in DOMAIN e : ~(e[k].is = "set" /\ e[k].name = name),
           pc[0] = "run", pc' = pc, g' = Added(e, name, value)
    PROVE  EnInv'
<1> DEFINE f == Append(e, Entry(name, value, TRUE))
           v == [g.want EXCEPT ![name] = value]
           c == IF g.NextEnvVar = g.capacity - 1 THEN 2 * g.capacity ELSE g.capacity
<1>1. EnMap(f, v, g.names)
  BY EnAppend, ZenonT(30)
<1>2. g' = [names |-> g.names, environ |-> f, EnvList |-> TRUE, NextEnvVar |-> g.NextEnvVar + 1,
            capacity |-> c, calls |-> g.calls + 1, want |-> v, last |-> <<name, value>>]
  BY ZenonT(30) DEF Added, Asked, EnInv, EnData
<1>3. g.NextEnvVar + 1 \in Nat /\ c \in Nat /\ g.NextEnvVar + 1 < c
  BY DEF EnInv, EnData
<1>4. <<name, value>> \in EnLast
  BY DEF EnLast, EnName, EnInv, EnMap
<1> HIDE DEF f, v, c
<1> QED  BY <1>1, <1>2, <1>3, <1>4, EnKeeps, ZenonT(30)

\* xsetenv(), whichever way it goes.
LEMMA EnXsetenv ==
    ASSUME EnInv, NEW name \in g.names, NEW value \in EnvValues, NEW overwrite \in BOOLEAN,
           Xsetenv(name, value, overwrite)
    PROVE  EnInv'
<1>1. pc[0] = "run" /\ EnMap(g.environ, g.want, g.names)
  BY DEF Xsetenv, EnInv, At, Main
<1>2. /\ g.EnvList \in BOOLEAN /\ g.NextEnvVar \in Nat /\ g.capacity \in Nat
      /\ g.NextEnvVar < g.capacity /\ g.want \in [g.names -> EnValue] /\ g.environ \in Seq(EnEntry)
  BY DEF EnInv, EnData, EnMap
<1>3. CASE g' = [g EXCEPT !.calls = @ + 1, !.last = <<>>] /\ UNCHANGED pc
  <2>1. g' = [names |-> g.names, environ |-> g.environ, EnvList |-> g.EnvList,
              NextEnvVar |-> g.NextEnvVar, capacity |-> g.capacity, calls |-> g.calls + 1,
              want |-> g.want, last |-> <<>>]
    BY <1>3, ZenonT(30) DEF EnInv, EnData
  <2>2. <<>> \in EnLast /\ pc' = pc
    BY <1>3 DEF EnLast
  <2> QED  BY <2>1, <2>2, <1>1, <1>2, EnKeeps, ZenonT(30)
<1>4. CASE /\ Getenv(name) # NoValue /\ ~Crashes(FirstMatch(name), value)
           /\ g' = Overwrite(FirstMatch(name), name, value) /\ UNCHANGED pc
  <2> DEFINE k == FirstMatch(name)
  <2>1. k \in DOMAIN g.environ /\ Matches(k, name)
    BY <1>1, <1>4, EnFirst
  <2>2. g.environ[k].is = "set" /\ Begins(name, g.environ[k].name)
    <3>1. g.environ[k] \in EnEntry
      BY <2>1, <1>2
    <3>2. g.environ[k].is \in {"set", "unset", "broken"}
      BY <3>1 DEF EnEntry
    <3> QED  BY <3>2, <2>1, <1>4 DEF Matches, Crashes
  <2> HIDE DEF k
  <2>3. CASE g' = [Asked(name, value) EXCEPT !.environ[k] = Overwritten(@, name, value)]
    <3> DEFINE f == [g.environ EXCEPT ![k] = Overwritten(@, name, value)]
               v == [g.want EXCEPT ![name] = value]
    <3>1. EnMap(f, v, g.names)
      BY <2>1, <2>2, <1>1, EnOverwrite
    <3>2. g' = [names |-> g.names, environ |-> f, EnvList |-> g.EnvList,
                NextEnvVar |-> g.NextEnvVar, capacity |-> g.capacity, calls |-> g.calls + 1,
                want |-> v, last |-> <<name, value>>]
      BY <2>3, ZenonT(30) DEF Asked, EnInv, EnData
    <3>3. <<name, value>> \in EnLast /\ pc' = pc
      BY <1>1, <1>4 DEF EnLast, EnName, EnMap
    <3> HIDE DEF f, v
    <3> QED  BY <3>1, <3>2, <3>3, <1>1, <1>2, EnKeeps, ZenonT(30)
  <2>4. CASE g' = Added(Cleared(name), name, value)
    <3> DEFINE w == [g.want EXCEPT ![name] = NoValue]
    <3>1. /\ EnMap(Cleared(name), w, g.names)
          /\ \A j \in DOMAIN Cleared(name) :
                ~(Cleared(name)[j].is = "set" /\ Cleared(name)[j].name = name)
      BY <1>1, EnClear
    <3>2. [w EXCEPT ![name] = value] = [g.want EXCEPT ![name] = value]
      BY <1>2
    <3>3. pc' = pc
      BY <1>4
    <3> HIDE DEF w
    <3> QED  BY <3>1, <3>2, <3>3, <2>4, <1>1, EnAdds, ZenonT(30)
  <2> QED  BY <2>3, <2>4, <1>4, ZenonT(30) DEF Overwrite, k
<1>5. CASE /\ Getenv(name) # NoValue /\ Crashes(FirstMatch(name), value)
           /\ Go(Main, "run", "crashed") /\ UNCHANGED g
  <2>1. FirstMatch(name) \in DOMAIN g.environ
    BY <1>1, <1>5, EnFirst
  <2>2. ~(EnUnrelated(g.names) /\ g.EnvList)
    BY <2>1, <1>1, <1>5 DEF EnMap, Crashes
  <2>3. pc' = [pc EXCEPT ![0] = "crashed"] /\ g' = g
    BY <1>5 DEF Go, Main
  <2>4. pc' \in [{0} -> {"run", "crashed"}]
    BY <2>3 DEF EnInv
  <2> QED  BY <2>2, <2>3, <2>4 DEF EnInv
<1>6. CASE Getenv(name) = NoValue /\ g' = Added(g.environ, name, value) /\ UNCHANGED pc
  <2>1. \A k \in DOMAIN g.environ : ~(g.environ[k].is = "set" /\ g.environ[k].name = name)
    BY <1>1, <1>6, EnGetenv DEF Live
  <2>2. pc' = pc
    BY <1>6
  <2> QED  BY <2>1, <2>2, <1>1, <1>6, EnAdds, ZenonT(30)
<1> QED  BY <1>3, <1>4, <1>5, <1>6, ZenonT(30) DEF Xsetenv

\* What holds of environ is what IsMap says of getenv().
LEMMA EnIsMap ==
    ASSUME EnInv
    PROVE  IsMap
<1>1. EnMap(g.environ, g.want, g.names)
  BY DEF EnInv
<1>2. ASSUME Unrelated, NEW n \in g.names PROVE Getenv(n) = g.want[n]
  <2>1. EnUnrelated(g.names)
    BY <1>2, ZenonT(30) DEF Unrelated, EnUnrelated
  <2>2. CASE \E k \in DOMAIN g.environ : Live(k, n)
    <3>1. PICK k \in DOMAIN g.environ : Live(k, n)
      BY <2>2
    <3>2. Getenv(n) = g.environ[k].value
      BY <3>1, <1>1, EnGetenv
    <3> QED  BY <3>1, <3>2, <2>1, <1>1 DEF EnMap, Live
  <2>3. CASE \A k \in DOMAIN g.environ : ~Live(k, n)
    <3>1. Getenv(n) = NoValue
      BY <2>3, <1>1, EnGetenv
    <3> QED  BY <3>1, <2>1, <2>3, <1>1 DEF EnMap, Live
  <2> QED  BY <2>2, <2>3
<1>3. (Unrelated /\ g.EnvList) => pc[Main] = "run"
  BY ZenonT(30) DEF EnInv, Unrelated, EnUnrelated, Main
<1>4. \A j, k \in DOMAIN g.environ :
         (g.environ[j].is = "set" /\ Live(k, g.environ[j].name)) => j = k
  BY <1>1 DEF EnMap, Live
<1>5. g.NextEnvVar < g.capacity
  BY DEF EnInv
<1> QED  BY <1>2, <1>3, <1>4, <1>5, ZenonT(30) DEF IsMap

-----------------------------------------------------------------------------
(* proctree.c and proclist.c.                                              *)

\* An entry of proctab.
PtEntry == [pid : Nat, ppid : Nat]

\* The processes there are have lower numbers than the next one, and a parent that is there
\* and has a lower number, or none.
PtAlive ==
    /\ g.next \in Nat /\ 1 \in DOMAIN g.ppid
    /\ \A p \in DOMAIN g.ppid : p \in Nat /\ p > 0 /\ p < g.next
    /\ \A p \in DOMAIN g.ppid :
          g.ppid[p] # 0 => g.ppid[p] \in DOMAIN g.ppid /\ g.ppid[p] < p
    /\ \A p \in DOMAIN g.ppid : g.ppid[p] \in Nat
    /\ g.stayed \subseteq DOMAIN g.ppid

PtTypes ==
    /\ g = [kind |-> g.kind, ppid |-> g.ppid, next |-> g.next, stayed |-> g.stayed,
            entry |-> g.entry, proctab |-> g.proctab, printed |-> g.printed, i |-> g.i,
            children |-> g.children, max_child |-> g.max_child]
    /\ pc \in [{0} -> {"readdir", "fopen", "getline", "build", "assert", "exit", "fatal"}]
    /\ g.kind \in {"proctree", "proclist"}
    /\ pc[0] \in {"build", "assert"} => g.kind = "proctree"
    /\ g.entry \in Nat /\ g.entry < g.next
    /\ g.proctab \in Seq(PtEntry)
    /\ g.kind = "proclist" => g.printed \in Seq(Nat)

\* What the scan has seen, and what it is asked for.
PtSeen ==
    IF g.kind = "proctree" THEN [k \in DOMAIN g.proctab |-> g.proctab[k].pid] ELSE g.printed
PtDue == IF g.kind = "proctree" THEN Nat ELSE Mine

\* Whether the scan is done with process p.
PtPassed(p) ==
    \/ pc[0] = "readdir" /\ p <= g.entry
    \/ pc[0] \in {"fopen", "getline"} /\ p < g.entry
    \/ pc[0] \in {"build", "exit"}

\* The numbers seen increase up to the entry, and a process that is there and was passed was seen.
PtScan ==
    /\ \A j, k \in DOMAIN PtSeen : j < k => PtSeen[j] < PtSeen[k]
    /\ \A k \in DOMAIN PtSeen :
          PtSeen[k] <= g.entry /\ (pc[0] \in {"fopen", "getline"} => PtSeen[k] < g.entry)
    /\ \A p \in DOMAIN g.ppid \cap PtDue : PtPassed(p) => \E k \in DOMAIN PtSeen : PtSeen[k] = p

PtInv == PtTypes /\ PtAlive /\ PtScan /\ ParentsRead

\* What a step does that leaves the scan where it is.
PtFields(next, stayed, ppid) ==
    g' = [kind |-> g.kind, ppid |-> ppid, next |-> next, stayed |-> stayed,
          entry |-> g.entry, proctab |-> g.proctab, printed |-> g.printed, i |-> g.i,
          children |-> g.children, max_child |-> g.max_child]

\* The scan is as far as before after the processes have changed.
LEMMA PtChanged ==
    ASSUME PtInv, NEW next, NEW stayed, NEW ppid, PtFields(next, stayed, ppid), UNCHANGED pc,
           PtAlive', g.next <= next, next \in Nat,
           \A p \in DOMAIN ppid : p \in DOMAIN g.ppid \/ p > g.entry,
           pc[0] \in {"readdir", "fopen", "getline"}
    PROVE  PtInv'
<1>1. /\ g'.kind = g.kind /\ g'.ppid = ppid /\ g'.next = next /\ g'.stayed = stayed
      /\ g'.entry = g.entry /\ g'.proctab = g.proctab /\ g'.printed = g.printed
      /\ g'.i = g.i /\ g'.children = g.children /\ g'.max_child = g.max_child
  BY DEF PtFields
<1>2. g' = [kind |-> g'.kind, ppid |-> g'.ppid, next |-> g'.next, stayed |-> g'.stayed,
            entry |-> g'.entry, proctab |-> g'.proctab, printed |-> g'.printed, i |-> g'.i,
            children |-> g'.children, max_child |-> g'.max_child]
  BY <1>1, ZenonT(30) DEF PtFields
<1>3. g.entry < next
  BY DEF PtInv, PtTypes, PtAlive
<1>4. PtTypes'
  BY <1>1, <1>2, <1>3, ZenonT(30) DEF PtInv, PtTypes
<1>5. PtSeen' = PtSeen /\ PtDue' = PtDue
  BY <1>1, ZenonT(30) DEF PtSeen, PtDue
<1>6. \A p \in DOMAIN ppid : PtPassed(p)' => p \in DOMAIN g.ppid /\ PtPassed(p)
  <2>1. \A p \in DOMAIN ppid : p \in Nat
    BY <1>1 DEF PtAlive
  <2> QED  BY <1>1, <2>1 DEF PtPassed, PtInv, PtTypes
<1>7. PtScan'
  <2>1. PtScan
    BY DEF PtInv
  <2> QED  BY <1>1, <1>5, <1>6, <2>1, ZenonT(30) DEF PtScan
<1>8. ParentsRead'
  BY <1>1, ZenonT(30) DEF PtInv, ParentsRead
<1> QED  BY <1>4, <1>7, <1>8 DEF PtInv

\* A process makes another one, which the kernel numbers higher than all.
LEMMA PtFork ==
    ASSUME PtInv, Fork
    PROVE  PtInv'
<1> DEFINE new(p) == [q \in DOMAIN g.ppid \cup {g.next} |-> IF q = g.next THEN p ELSE g.ppid[q]]
<1>1. PICK p \in DOMAIN g.ppid : g' = [g EXCEPT !.next = g.next + 1, !.ppid = new(p)]
  BY ZenonT(30) DEF Fork, Alive
<1>2. PtFields(g.next + 1, g.stayed, new(p))
  BY <1>1, ZenonT(30) DEF PtInv, PtTypes, PtFields
<1>3. UNCHANGED pc /\ pc[0] \in {"readdir", "fopen", "getline"}
  BY DEF Fork, Scanning, Main
<1>4. /\ DOMAIN new(p) = DOMAIN g.ppid \cup {g.next} /\ g.next \notin DOMAIN g.ppid
      /\ new(p)[g.next] = p /\ \A q \in DOMAIN g.ppid : new(p)[q] = g.ppid[q]
  BY DEF PtInv, PtAlive
<1> HIDE DEF new
<1>5. g'.next = g.next + 1 /\ g'.ppid = new(p) /\ g'.stayed = g.stayed
  BY <1>2 DEF PtFields
<1>6. PtAlive'
  <2>1. PtAlive
    BY DEF PtInv
  <2> QED  BY <1>4, <1>5, <2>1 DEF PtAlive
<1>7. /\ g.next <= g.next + 1 /\ g.next + 1 \in Nat /\ g.next > g.entry
  BY DEF PtInv, PtAlive, PtTypes
<1> QED  BY <1>2, <1>3, <1>4, <1>6, <1>7, PtChanged, ZenonT(30)

\* A process ends, and its children are given to process 1.
LEMMA PtExit ==
    ASSUME PtInv, Exit
    PROVE  PtInv'
<1> DEFINE new(p) == [q \in DOMAIN g.ppid \ {p} |-> IF g.ppid[q] = p THEN 1 ELSE g.ppid[q]]
<1>1. PICK p \in DOMAIN g.ppid \ (Kernel \cup {1}) :
        g' = [g EXCEPT !.stayed = g.stayed \ {p}, !.ppid = new(p)]
  BY ZenonT(30) DEF Exit, Alive
<1>2. PtFields(g.next, g.stayed \ {p}, new(p))
  BY <1>1, ZenonT(30) DEF PtInv, PtTypes, PtFields
<1>3. UNCHANGED pc /\ pc[0] \in {"readdir", "fopen", "getline"}
  BY DEF Exit, Scanning, Main
<1>4. /\ DOMAIN new(p) = DOMAIN g.ppid \ {p} /\ p # 1
      /\ \A q \in DOMAIN g.ppid \ {p} : new(p)[q] = IF g.ppid[q] = p THEN 1 ELSE g.ppid[q]
  BY <1>1
<1> HIDE DEF new
<1>5. g'.next = g.next /\ g'.ppid = new(p) /\ g'.stayed = g.stayed \ {p}
  BY <1>2 DEF PtFields
<1>6. PtAlive'
  <2>1. PtAlive
    BY DEF PtInv
  <2> QED  BY <1>1, <1>4, <1>5, <2>1 DEF PtAlive
<1>7. g.next <= g.next /\ g.next \in Nat
  BY DEF PtInv, PtAlive
<1> QED  BY <1>2, <1>3, <1>4, <1>6, <1>7, PtChanged, ZenonT(30)

\* Nothing has been read when the scan begins.
LEMMA PtStarts ==
    ASSUME ProcInit
    PROVE  PtInv
<1>1. PICK kind \in {"proctree", "proclist"}, t \in Trees :
        /\ pc = [p \in {0} |-> "readdir"]
        /\ g = [kind |-> kind, ppid |-> t, next |-> Initial + 1, stayed |-> 1..Initial,
                entry |-> 0, proctab |-> <<>>, printed |-> <<>>, i |-> 1,
                children |-> [p \in Pids |-> <<>>],
                max_child |-> [p \in Pids |-> CHILD_MAX]]
  BY ZenonT(30) DEF ProcInit, Main
<1>2. /\ g.kind \in {"proctree", "proclist"} /\ g.ppid = t /\ g.next = Initial + 1
      /\ g.stayed = 1..Initial /\ g.entry = 0 /\ g.proctab = <<>> /\ g.printed = <<>>
  BY <1>1
<1>3. g = [kind |-> g.kind, ppid |-> g.ppid, next |-> g.next, stayed |-> g.stayed,
           entry |-> g.entry, proctab |-> g.proctab, printed |-> g.printed, i |-> g.i,
           children |-> g.children, max_child |-> g.max_child]
  BY <1>1, ZenonT(30)
<1>4. /\ DOMAIN t = 1..Initial /\ \A p \in 1..Initial : t[p] \in 0..Initial
      /\ \A p \in 1..Initial : t[p] # 0 => t[p] \in 1..(p - 1)
  BY DEF Trees
<1>5. Initial \in Nat /\ Initial >= 1
  BY ProcAssumption
<1>6. PtAlive
  BY <1>2, <1>4, <1>5 DEF PtAlive
<1>7. pc \in [{0} -> {"readdir"}] /\ pc[0] = "readdir"
  BY <1>1
<1>8. PtTypes
  <2>1. g.entry \in Nat /\ g.entry < g.next /\ g.proctab \in Seq(PtEntry) /\ g.printed \in Seq(Nat)
    BY <1>2, <1>5
  <2> QED  BY <1>2, <1>3, <1>7, <2>1 DEF PtTypes
<1>9. DOMAIN PtSeen = {}
  BY <1>2 DEF PtSeen
<1>10. PtScan
  <2>1. \A p \in DOMAIN g.ppid : ~PtPassed(p)
    BY <1>2, <1>4, <1>7 DEF PtPassed
  <2> QED  BY <1>9, <2>1, ZenonT(30) DEF PtScan
<1>11. ParentsRead
  BY <1>2 DEF ParentsRead
<1> QED  BY <1>6, <1>8, <1>10, <1>11 DEF PtInv

\* What a step of the scan leaves as it is.
PtSame ==
    /\ g'.kind = g.kind /\ g'.ppid = g.ppid /\ g'.next = g.next /\ g'.stayed = g.stayed
    /\ g' = [kind |-> g'.kind, ppid |-> g'.ppid, next |-> g'.next, stayed |-> g'.stayed,
             entry |-> g'.entry, proctab |-> g'.proctab, printed |-> g'.printed, i |-> g'.i,
             children |-> g'.children, max_child |-> g'.max_child]

\* The processes do not change in such a step.
LEMMA PtSameAlive ==
    ASSUME PtInv, PtSame
    PROVE  PtAlive' /\ PtDue' = PtDue
  BY ZenonT(30) DEF PtInv, PtAlive, PtSame, PtDue

\* The next point of control.
LEMMA PtGo ==
    ASSUME PtInv, NEW from, NEW to, Go(0, from, to)
    PROVE  /\ pc[0] = from /\ pc'[0] = to /\ DOMAIN pc' = {0}
           /\ to \in {"readdir", "fopen", "getline", "build", "assert", "exit", "fatal"} =>
              pc' \in [{0} -> {"readdir", "fopen", "getline", "build", "assert", "exit", "fatal"}]
  BY DEF PtInv, PtTypes, Go, At

\* The entries of proctab hold process IDs.
LEMMA PtPids ==
    ASSUME NEW s \in Seq(PtEntry)
    PROVE  Len(s) \in Nat /\ DOMAIN s = 1..Len(s) /\ \A k \in DOMAIN s : s[k].pid \in Nat
<1>1. Len(s) \in Nat /\ DOMAIN s = 1..Len(s) /\ \A k \in DOMAIN s : s[k] \in PtEntry
  OBVIOUS
<1>2. \A x \in PtEntry : x.pid \in Nat
  BY DEF PtEntry
<1> QED  BY <1>1, <1>2, ZenonT(30)

\* What was seen are process IDs.
LEMMA PtSeenNumbers ==
    ASSUME PtInv
    PROVE  PtSeen \in Seq(Nat)
<1>1. PtTypes
  BY DEF PtInv
<1>2. CASE g.kind = "proctree"
  <2>1. PtSeen = [k \in 1..Len(g.proctab) |-> g.proctab[k].pid]
    BY <1>1, <1>2 DEF PtSeen, PtTypes
  <2>2. Len(g.proctab) \in Nat /\ \A k \in 1..Len(g.proctab) : g.proctab[k].pid \in Nat
    BY <1>1, PtPids DEF PtTypes
  <2> QED  BY <2>1, <2>2
<1>3. CASE g.kind # "proctree"
  BY <1>1, <1>3 DEF PtSeen, PtTypes
<1> QED  BY <1>2, <1>3

\* readdir() goes on to the next process, or finds none.
LEMMA PtReaddir ==
    ASSUME PtInv, Readdir
    PROVE  PtInv'
<1> DEFINE later == {p \in DOMAIN g.ppid : p > g.entry}
<1>0. PtTypes /\ PtAlive /\ PtScan /\ ParentsRead
  BY DEF PtInv
<1>1. CASE /\ later # {} /\ Go(0, "readdir", "fopen")
           /\ g' = [g EXCEPT !.entry = CHOOSE p \in later : \A q \in later : p <= q]
  <2>1. later \in SUBSET Nat
    BY <1>0 DEF PtAlive
  <2>2. \E p \in later : \A q \in later : p <= q
    <3> HIDE DEF later
    <3> QED  BY <1>1, <2>1, LeastNatural
  <2>3. PICK e \in later : (\A q \in later : e <= q) /\ g' = [g EXCEPT !.entry = e]
    <3> HIDE DEF later
    <3> QED  BY <1>1, <2>2, ZenonT(30)
  <2>4. g' = [kind |-> g.kind, ppid |-> g.ppid, next |-> g.next, stayed |-> g.stayed,
              entry |-> e, proctab |-> g.proctab, printed |-> g.printed, i |-> g.i,
              children |-> g.children, max_child |-> g.max_child]
    BY <1>0, <2>3, ZenonT(30) DEF PtTypes
  <2>5. PtSame /\ g'.entry = e /\ g'.proctab = g.proctab /\ g'.printed = g.printed
    BY <2>4 DEF PtSame
  <2>6. /\ pc[0] = "readdir" /\ pc'[0] = "fopen"
        /\ pc' \in [{0} -> {"readdir", "fopen", "getline", "build", "assert", "exit", "fatal"}]
    BY <1>1, PtGo
  <2>7. e \in Nat /\ e < g.next /\ e > g.entry /\ g.entry \in Nat
        /\ \A p \in DOMAIN g.ppid : p <= g.entry \/ e <= p
    BY <1>0, <2>3 DEF PtAlive, PtTypes
  <2>8. PtTypes'
    BY <1>0, <2>5, <2>6, <2>7 DEF PtTypes, PtSame
  <2>9. PtSeen' = PtSeen
    BY <2>5, ZenonT(30) DEF PtSeen, PtSame
  <2>10. PtScan'
    <3>1. \A p \in DOMAIN g.ppid : PtPassed(p)' => PtPassed(p)
      <4>1. \A p \in DOMAIN g.ppid : p \in Nat
        BY <1>0 DEF PtAlive
      <4> QED  BY <2>5, <2>6, <2>7, <4>1 DEF PtPassed
    <3>2. \A p \in DOMAIN g'.ppid \cap PtDue' : PtPassed(p)' =>
              \E k \in DOMAIN PtSeen : PtSeen[k] = p
      BY <1>0, <2>5, <3>1, PtSameAlive, ZenonT(30) DEF PtScan, PtSame
    <3>3. \A k \in DOMAIN PtSeen : PtSeen[k] \in Nat /\ PtSeen[k] <= g.entry
      BY <1>0, PtSeenNumbers DEF PtScan
    <3>4. \A k \in DOMAIN PtSeen : PtSeen[k] <= e /\ PtSeen[k] < e
      <4> HIDE DEF PtSeen
      <4> QED  BY <2>7, <3>3
    <3>5. \A j, k \in DOMAIN PtSeen : j < k => PtSeen[j] < PtSeen[k]
      BY <1>0, ZenonT(30) DEF PtScan
    <3> QED  BY <2>5, <2>9, <3>2, <3>4, <3>5, ZenonT(30) DEF PtScan
  <2>11. ParentsRead'
    BY <1>0, <2>5, ZenonT(30) DEF ParentsRead
  <2> QED  BY <2>5, <2>8, <2>10, <2>11, PtSameAlive DEF PtInv
<1>2. CASE later = {} /\ UNCHANGED g /\ Go(0, "readdir", EndOfScan)
  <2>1. /\ pc[0] = "readdir" /\ pc'[0] \in {"build", "exit"}
        /\ pc'[0] = "build" => g.kind = "proctree"
        /\ pc' \in [{0} -> {"readdir", "fopen", "getline", "build", "assert", "exit", "fatal"}]
    BY <1>2, PtGo DEF EndOfScan
  <2>2. PtTypes'
    BY <1>0, <1>2, <2>1 DEF PtTypes
  <2>3. PtAlive' /\ PtSeen' = PtSeen /\ PtDue' = PtDue
    BY <1>0, <1>2, ZenonT(30) DEF PtAlive, PtSeen, PtDue
  <2>4. \A p \in DOMAIN g.ppid : PtPassed(p)
    BY <1>0, <1>2, <2>1 DEF PtPassed, PtAlive, PtTypes
  <2>5. PtScan'
    BY <1>0, <1>2, <2>1, <2>3, <2>4, ZenonT(30) DEF PtScan
  <2>6. ParentsRead'
    BY <1>0, <1>2, ZenonT(30) DEF ParentsRead
  <2> QED  BY <2>2, <2>3, <2>5, <2>6 DEF PtInv
<1> QED
  BY <1>1, <1>2, ZenonT(30) DEF Readdir, Alive, Main

\* fopen() finds the process, or passes over it because it has ended.
LEMMA PtFopen ==
    ASSUME PtInv, Fopen
    PROVE  PtInv'
<1> DEFINE to == IF g.entry \in DOMAIN g.ppid THEN "getline" ELSE "readdir"
<1>0. PtTypes /\ PtAlive /\ PtScan /\ ParentsRead
  BY DEF PtInv
<1>1. Go(0, "fopen", to) /\ g' = g
  BY DEF Fopen, Alive, Main
<1>2. /\ pc[0] = "fopen" /\ pc'[0] = to /\ to \in {"getline", "readdir"}
      /\ pc' \in [{0} -> {"readdir", "fopen", "getline", "build", "assert", "exit", "fatal"}]
  BY <1>1, PtGo
<1>3. PtTypes'
  BY <1>0, <1>1, <1>2 DEF PtTypes
<1>4. PtAlive' /\ PtSeen' = PtSeen /\ PtDue' = PtDue
  BY <1>0, <1>1, ZenonT(30) DEF PtAlive, PtSeen, PtDue
<1>5. \A p \in DOMAIN g.ppid : PtPassed(p)' => PtPassed(p)
  <2>1. \A p \in DOMAIN g.ppid : p \in Nat
    BY <1>0 DEF PtAlive
  <2>2. g.entry \in Nat
    BY <1>0 DEF PtTypes
  <2> QED  BY <1>1, <1>2, <2>1, <2>2 DEF PtPassed
<1>6. PtScan'
  <2>1. \A k \in DOMAIN PtSeen : PtSeen[k] <= g.entry /\ PtSeen[k] < g.entry
    BY <1>0, <1>2, ZenonT(30) DEF PtScan
  <2> QED  BY <1>0, <1>1, <1>4, <1>5, <2>1, ZenonT(30) DEF PtScan
<1>7. ParentsRead'
  BY <1>0, <1>1, ZenonT(30) DEF ParentsRead
<1> QED  BY <1>3, <1>4, <1>6, <1>7 DEF PtInv

\* The sequence seen grows by the entry, which is larger than all before.
LEMMA PtGrows ==
    ASSUME PtInv, pc[0] = "getline", PtSeen' = Append(PtSeen, g.entry), g'.entry = g.entry,
           PtSame, pc'[0] = "readdir"
    PROVE  PtScan'
<1>0. PtTypes /\ PtAlive /\ PtScan
  BY DEF PtInv
<1>1. PtSeen \in Seq(Nat) /\ g.entry \in Nat
  BY <1>0, PtSeenNumbers DEF PtTypes
<1>2. \A k \in DOMAIN PtSeen : PtSeen[k] < g.entry
  BY <1>0, ZenonT(30) DEF PtScan
<1>3. \A j, k \in DOMAIN PtSeen : j < k => PtSeen[j] < PtSeen[k]
  BY <1>0, ZenonT(30) DEF PtScan
<1> DEFINE n == Len(PtSeen) + 1
<1>4. /\ DOMAIN PtSeen = 1..n - 1 /\ DOMAIN PtSeen' = 1..n /\ n \in Nat /\ PtSeen'[n] = g.entry
      /\ \A k \in 1..n - 1 : PtSeen'[k] = PtSeen[k] /\ PtSeen[k] \in Nat
  <2> HIDE DEF PtSeen
  <2> QED  BY <1>1
<1> HIDE DEF n
<1>5. \A j, k \in DOMAIN PtSeen' : j < k => PtSeen'[j] < PtSeen'[k]
  BY <1>1, <1>2, <1>3, <1>4
<1>6. \A k \in DOMAIN PtSeen' : PtSeen'[k] <= g.entry
  BY <1>1, <1>2, <1>4
<1>7. ASSUME NEW p \in DOMAIN g.ppid, p \in PtDue, PtPassed(p)'
      PROVE  \E k \in DOMAIN PtSeen' : PtSeen'[k] = p
  <2>1. p <= g.entry /\ p \in Nat
    BY <1>0, <1>7 DEF PtPassed, PtAlive
  <2>2. CASE p = g.entry
    BY <1>4, <2>2
  <2>3. CASE p < g.entry
    <3>1. PtPassed(p)
      BY <2>3 DEF PtPassed
    <3>2. PICK k \in DOMAIN PtSeen : PtSeen[k] = p
      BY <1>0, <1>7, <3>1, ZenonT(30) DEF PtScan
    <3> QED  BY <1>4, <3>2
  <2> QED  BY <1>1, <2>1, <2>2, <2>3
<1> QED  BY <1>5, <1>6, <1>7, PtSameAlive, ZenonT(30) DEF PtScan, PtSame

\* proctree reads the lines of the process, or gives up.
LEMMA PtGetline ==
    ASSUME PtInv, Getline
    PROVE  PtInv'
<1> DEFINE x == [pid |-> g.entry, ppid |-> g.ppid[g.entry]]
<1>0. PtTypes /\ PtAlive /\ PtScan /\ ParentsRead /\ g.kind = "proctree"
  BY DEF PtInv, Getline
<1>1. CASE /\ g.entry \in DOMAIN g.ppid /\ Go(0, "getline", "readdir")
           /\ g' = [g EXCEPT !.proctab = Append(g.proctab, x)]
  <2>1. g' = [kind |-> g.kind, ppid |-> g.ppid, next |-> g.next, stayed |-> g.stayed,
              entry |-> g.entry, proctab |-> Append(g.proctab, x), printed |-> g.printed,
              i |-> g.i, children |-> g.children, max_child |-> g.max_child]
    BY <1>0, <1>1, ZenonT(30) DEF PtTypes
  <2>2. PtSame /\ g'.entry = g.entry /\ g'.proctab = Append(g.proctab, x) /\ g'.printed = g.printed
    BY <2>1 DEF PtSame
  <2>3. /\ pc[0] = "getline" /\ pc'[0] = "readdir"
        /\ pc' \in [{0} -> {"readdir", "fopen", "getline", "build", "assert", "exit", "fatal"}]
    BY <1>1, PtGo
  <2>4. x \in PtEntry /\ x.pid = g.entry /\ x.ppid = g.ppid[g.entry]
    BY <1>0, <1>1 DEF PtEntry, PtAlive, PtTypes
  <2> HIDE DEF x
  <2>5. g.proctab \in Seq(PtEntry) /\ g'.proctab \in Seq(PtEntry)
    BY <1>0, <2>2, <2>4 DEF PtTypes
  <2>6. PtTypes'
    BY <1>0, <2>2, <2>3, <2>5 DEF PtTypes, PtSame
  <2> DEFINE n == Len(g.proctab) + 1
  <2>7. /\ n \in Nat /\ DOMAIN g.proctab = 1..n - 1 /\ DOMAIN g'.proctab = 1..n
        /\ g'.proctab[n] = x /\ \A k \in 1..n - 1 : g'.proctab[k] = g.proctab[k]
    BY <2>2, <2>4, <2>5
  <2>8. PtSeen' = Append(PtSeen, g.entry)
    <3>1. PtSeen = [k \in 1..n - 1 |-> g.proctab[k].pid]
      BY <1>0, <2>7 DEF PtSeen
    <3>2. PtSeen' = [k \in 1..n |-> g'.proctab[k].pid]
      BY <1>0, <2>2, <2>7 DEF PtSeen, PtSame
    <3>3. \A k \in 1..n - 1 : g.proctab[k].pid \in Nat
      BY <2>5, <2>7, PtPids
    <3>4. PtSeen \in Seq(Nat) /\ Len(PtSeen) = n - 1
      BY <2>7, <3>1, <3>3
    <3> HIDE DEF n
    <3>5. Append(PtSeen, g.entry) = [k \in 1..n |-> IF k = n THEN g.entry ELSE PtSeen[k]]
      BY <2>7, <3>4
    <3>6. \A k \in 1..n : g'.proctab[k].pid = IF k = n THEN g.entry ELSE PtSeen[k]
      BY <2>4, <2>7, <3>1
    <3> QED  BY <3>2, <3>5, <3>6, ZenonT(30)
  <2>9. PtScan'
    BY <2>2, <2>3, <2>8, PtGrows
  <2>10. ParentsRead'
    <3>1. ASSUME NEW k \in 1..n - 1, g'.proctab[k].ppid # 0
          PROVE  \E j \in 1..n : g'.proctab[j].pid = g'.proctab[k].ppid
      <4>1. PICK j \in 1..n - 1 : g.proctab[j].pid = g.proctab[k].ppid
        BY <1>0, <2>7, <3>1, ZenonT(30) DEF ParentsRead
      <4>2. j \in 1..n
        BY <2>7
      <4> QED  BY <2>7, <4>1, <4>2, ZenonT(30)
    <3>2. ASSUME x.ppid # 0
          PROVE  \E j \in 1..n : g'.proctab[j].pid = x.ppid
      <4>1. /\ x.ppid \in DOMAIN g.ppid /\ x.ppid \in Nat /\ x.ppid < g.entry
        BY <1>0, <1>1, <2>4, <3>2 DEF PtAlive
      <4>2. PtPassed(x.ppid) /\ x.ppid \in PtDue
        BY <1>0, <2>3, <4>1 DEF PtPassed, PtDue
      <4>3. PICK j \in DOMAIN PtSeen : PtSeen[j] = x.ppid
        BY <1>0, <4>1, <4>2, ZenonT(30) DEF PtScan
      <4>4. j \in 1..n - 1 /\ g.proctab[j].pid = x.ppid
        BY <1>0, <2>7, <4>3 DEF PtSeen
      <4>5. j \in 1..n
        BY <2>7, <4>4
      <4> QED  BY <2>7, <4>4, <4>5, ZenonT(30)
    <3>3. \A k \in 1..n : k \in 1..n - 1 \/ k = n
      BY <2>7
    <3> QED  BY <2>7, <3>1, <3>2, <3>3, ZenonT(30) DEF ParentsRead
  <2> QED  BY <2>2, <2>6, <2>9, <2>10, PtSameAlive DEF PtInv
<1>2. CASE Go(0, "getline", "fatal") /\ g' = g
  <2>1. /\ pc[0] = "getline" /\ pc'[0] = "fatal"
        /\ pc' \in [{0} -> {"readdir", "fopen", "getline", "build", "assert", "exit", "fatal"}]
    BY <1>2, PtGo
  <2>2. PtTypes'
    BY <1>0, <1>2, <2>1 DEF PtTypes
  <2>3. PtAlive' /\ PtSeen' = PtSeen /\ PtDue' = PtDue
    BY <1>0, <1>2, ZenonT(30) DEF PtAlive, PtSeen, PtDue
  <2>4. \A p \in DOMAIN g.ppid : ~PtPassed(p)'
    BY <2>1 DEF PtPassed
  <2>5. PtScan'
    BY <1>0, <1>2, <2>1, <2>3, <2>4, ZenonT(30) DEF PtScan
  <2>6. ParentsRead'
    BY <1>0, <1>2, ZenonT(30) DEF ParentsRead
  <2> QED  BY <2>2, <2>3, <2>5, <2>6 DEF PtInv
<1> QED
  BY <1>1, <1>2, ZenonT(30) DEF Getline, Alive, Main

\* proclist prints the process if it is there and the user's.
LEMMA PtGetlineUid ==
    ASSUME PtInv, GetlineUid
    PROVE  PtInv'
<1>0. /\ PtTypes /\ PtAlive /\ PtScan /\ ParentsRead /\ g.kind = "proclist"
      /\ g.printed \in Seq(Nat) /\ g.entry \in Nat
  BY DEF PtInv, GetlineUid, PtTypes
<1>1. /\ pc[0] = "getline" /\ pc'[0] = "readdir"
      /\ pc' \in [{0} -> {"readdir", "fopen", "getline", "build", "assert", "exit", "fatal"}]
  <2>1. Go(0, "getline", "readdir")
    BY DEF GetlineUid, Main
  <2> QED  BY <2>1, PtGo
<1>2. PtSeen = g.printed /\ PtDue = Mine
  BY <1>0 DEF PtSeen, PtDue
<1>3. CASE /\ g.entry \in DOMAIN g.ppid \cap Mine
           /\ g' = [g EXCEPT !.printed = Append(g.printed, g.entry)]
  <2>1. g' = [kind |-> g.kind, ppid |-> g.ppid, next |-> g.next, stayed |-> g.stayed,
              entry |-> g.entry, proctab |-> g.proctab,
              printed |-> Append(g.printed, g.entry), i |-> g.i,
              children |-> g.children, max_child |-> g.max_child]
    BY <1>0, <1>3, ZenonT(30) DEF PtTypes
  <2>2. PtSame /\ g'.entry = g.entry /\ g'.proctab = g.proctab
        /\ g'.printed = Append(g.printed, g.entry)
    BY <2>1 DEF PtSame
  <2>3. g'.printed \in Seq(Nat)
    BY <1>0, <2>2
  <2>4. PtTypes'
    BY <1>0, <1>1, <2>2, <2>3 DEF PtTypes, PtSame
  <2>5. PtSeen' = Append(PtSeen, g.entry)
    BY <1>0, <1>2, <2>2, ZenonT(30) DEF PtSeen, PtSame
  <2>6. PtScan'
    BY <1>1, <2>2, <2>5, PtGrows
  <2>7. ParentsRead'
    BY <1>0, <2>2, ZenonT(30) DEF ParentsRead
  <2> QED  BY <2>2, <2>4, <2>6, <2>7, PtSameAlive DEF PtInv
<1>4. CASE g.entry \notin DOMAIN g.ppid \cap Mine /\ g' = g
  <2>1. PtTypes'
    BY <1>0, <1>1, <1>4 DEF PtTypes
  <2>2. PtAlive' /\ PtSeen' = PtSeen /\ PtDue' = PtDue
    BY <1>0, <1>4, ZenonT(30) DEF PtAlive, PtSeen, PtDue
  <2>3. \A p \in DOMAIN g.ppid \cap PtDue : PtPassed(p)' => PtPassed(p)
    <3>1. \A p \in DOMAIN g.ppid \cap PtDue : p \in Nat /\ p # g.entry
      BY <1>0, <1>2, <1>4 DEF PtAlive
    <3> QED  BY <1>0, <1>1, <1>4, <3>1 DEF PtPassed
  <2>4. PtScan'
    <3>1. g'.entry = g.entry /\ g'.ppid = g.ppid /\ pc'[0] \notin {"fopen", "getline"}
      BY <1>1, <1>4
    <3>2. \A p \in DOMAIN g.ppid \cap PtDue : PtPassed(p)' => \E k \in DOMAIN PtSeen : PtSeen[k] = p
      BY <1>0, <2>3, ZenonT(30) DEF PtScan
    <3>3. /\ \A j, k \in DOMAIN PtSeen : j < k => PtSeen[j] < PtSeen[k]
          /\ \A k \in DOMAIN PtSeen : PtSeen[k] <= g.entry
      BY <1>0, ZenonT(30) DEF PtScan
    <3> QED  BY <2>2, <3>1, <3>2, <3>3, ZenonT(30) DEF PtScan
  <2>5. ParentsRead'
    BY <1>0, <1>4, ZenonT(30) DEF ParentsRead
  <2> QED  BY <2>1, <2>2, <2>4, <2>5 DEF PtInv
<1> QED
  BY <1>3, <1>4, ZenonT(30) DEF GetlineUid, Alive, Main

\* Building and printing the tree come after the scan and leave what it has read.
LEMMA PtAfter ==
    ASSUME PtInv, PtSame, g'.entry = g.entry, g'.proctab = g.proctab,
           g.kind = "proctree", pc[0] = "build", pc'[0] \in {"build", "assert", "exit"},
           pc' \in [{0} -> {"readdir", "fopen", "getline", "build", "assert", "exit", "fatal"}]
    PROVE  PtInv'
<1>0. PtTypes /\ PtAlive /\ PtScan /\ ParentsRead
  BY DEF PtInv
<1>1. PtTypes'
  BY <1>0 DEF PtTypes, PtSame
<1>2. PtSeen' = PtSeen
  BY <1>0, ZenonT(30) DEF PtSeen, PtSame
<1>3. \A p : PtPassed(p)
  BY DEF PtPassed
<1>4. pc'[0] \notin {"fopen", "getline"}
  OBVIOUS
<1>5. PtScan'
  <2>1. PtDue' = PtDue /\ g'.entry = g.entry /\ g'.ppid = g.ppid
    BY PtSameAlive DEF PtSame
  <2>2. /\ \A j, k \in DOMAIN PtSeen : j < k => PtSeen[j] < PtSeen[k]
        /\ \A k \in DOMAIN PtSeen : PtSeen[k] <= g.entry
        /\ \A p \in DOMAIN g.ppid \cap PtDue : \E k \in DOMAIN PtSeen : PtSeen[k] = p
    BY <1>0, <1>3, ZenonT(30) DEF PtScan
  <2> QED  BY <1>2, <1>4, <2>1, <2>2, ZenonT(30) DEF PtScan
<1>6. ParentsRead'
  BY <1>0, ZenonT(30) DEF ParentsRead
<1> QED  BY <1>1, <1>5, <1>6, PtSameAlive DEF PtInv

\* A round of proctree_build_tree().
LEMMA PtBuild ==
    ASSUME PtInv, Build
    PROVE  PtInv'
<1>0. PtTypes /\ pc[0] = "build" /\ g.kind = "proctree"
  BY DEF PtInv, PtTypes, Build, At, Main
<1>1. /\ pc'[0] \in {"build", "assert", "exit"}
      /\ pc' \in [{0} -> {"readdir", "fopen", "getline", "build", "assert", "exit", "fatal"}]
  <2>1. CASE pc' = pc
    BY <1>0, <2>1 DEF PtTypes
  <2>2. CASE \E to \in {"build", "assert"} : Go(0, "build", to)
    BY <2>2, PtGo
  <2> QED  BY <2>1, <2>2 DEF Build, Main
<1>2. \E k, c, m : g' = [kind |-> g.kind, ppid |-> g.ppid, next |-> g.next, stayed |-> g.stayed,
                         entry |-> g.entry, proctab |-> g.proctab, printed |-> g.printed,
                         i |-> k, children |-> c, max_child |-> m]
  <2>1. CASE g' = g
    BY <1>0, <2>1, ZenonT(30) DEF PtTypes
  <2>2. CASE g' = [g EXCEPT !.i = g.i + 1]
    BY <1>0, <2>2, ZenonT(30) DEF PtTypes
  <2>3. CASE \E parent, pid : g' = Link(parent, pid)
    <3>1. PICK parent, pid : g' = Link(parent, pid)
      BY <2>3
    <3>2. \E k, c, m : g' = [g EXCEPT !.i = k, !.children = c, !.max_child = m]
      BY <3>1, <1>0, ZenonT(30) DEF Link, PtTypes
    <3> QED  BY <1>0, <3>2, ZenonT(30) DEF PtTypes
  <2> QED  BY <2>1, <2>2, <2>3, ZenonT(30) DEF Build
<1>3. PtSame /\ g'.entry = g.entry /\ g'.proctab = g.proctab
  BY <1>2 DEF PtSame
<1> QED  BY <1>0, <1>1, <1>3, PtAfter

\* The tree is printed.
LEMMA PtShow ==
    ASSUME PtInv, Show
    PROVE  PtInv'
<1>0. PtTypes /\ Go(0, "build", "exit")
  BY DEF PtInv, Show, Main
<1>1. /\ pc[0] = "build" /\ pc'[0] = "exit"
      /\ pc' \in [{0} -> {"readdir", "fopen", "getline", "build", "assert", "exit", "fatal"}]
  BY <1>0, PtGo
<1>2. g.kind = "proctree"
  BY <1>0, <1>1 DEF PtTypes
<1>3. PICK x : g' = [g EXCEPT !.printed = x]
  BY ZenonT(30) DEF Show
<1>4. g' = [kind |-> g.kind, ppid |-> g.ppid, next |-> g.next, stayed |-> g.stayed,
            entry |-> g.entry, proctab |-> g.proctab, printed |-> x, i |-> g.i,
            children |-> g.children, max_child |-> g.max_child]
  BY <1>0, <1>3, ZenonT(30) DEF PtTypes
<1>5. PtSame /\ g'.entry = g.entry /\ g'.proctab = g.proctab
  BY <1>4 DEF PtSame
<1> QED  BY <1>1, <1>2, <1>5, PtAfter

\* What the run checks of the scan follows.
LEMMA PtFound ==
    ASSUME PtInv
    PROVE  NoneMissed /\ ParentsRead
<1>0. PtTypes /\ PtAlive /\ PtScan /\ ParentsRead
  BY DEF PtInv
<1>1. PtSeen \in Seq(Nat)
  BY PtSeenNumbers
<1>2. IsInjective(PtSeen)
  <2>1. \A j, k \in DOMAIN PtSeen : j \in Nat /\ k \in Nat /\ PtSeen[j] \in Nat /\ PtSeen[k] \in Nat
    <3> HIDE DEF PtSeen
    <3> QED  BY <1>1
  <2>2. \A j, k \in DOMAIN PtSeen : j < k => PtSeen[j] < PtSeen[k]
    BY <1>0, ZenonT(30) DEF PtScan
  <2> HIDE DEF PtSeen
  <2> QED  BY <2>1, <2>2 DEF IsInjective
<1>3. ASSUME pc[0] = "build" \/ (pc[0] = "exit" /\ g.kind = "proclist")
      PROVE  (IF g.kind = "proctree" THEN g.stayed ELSE g.stayed \cap Mine) \subseteq Range(PtSeen)
  <2>1. \A p \in g.stayed : p \in DOMAIN g.ppid /\ p \in Nat
    BY <1>0 DEF PtAlive
  <2>2. (IF g.kind = "proctree" THEN g.stayed ELSE g.stayed \cap Mine) = g.stayed \cap PtDue
    BY <2>1 DEF PtDue
  <2>3. \A p : PtPassed(p)
    BY <1>3 DEF PtPassed
  <2>4. \A p \in g.stayed \cap PtDue : \E k \in DOMAIN PtSeen : PtSeen[k] = p
    BY <1>0, <2>1, <2>3, ZenonT(30) DEF PtScan
  <2>5. \A p \in g.stayed \cap PtDue : p \in Range(PtSeen)
    BY <2>4, ZenonT(30) DEF Range
  <2> QED  BY <2>2, <2>5
<1>4. NoneMissed
  BY <1>2, <1>3, ZenonT(30) DEF NoneMissed, PtSeen, At, Main, IsInjective, Range
<1> QED  BY <1>0, <1>4

-----------------------------------------------------------------------------
(* The programs together.                                                  *)

\* The inductive invariant of the program that runs.
IInv ==
    /\ prog = "dup" => DfInv
    /\ prog = "setenv" => EnInv
    /\ prog = "proc" => PtInv

\* The invariant of the program that runs holds, and no step breaks it.
LEMMA TablesInvariant == TablesSpec => []IInv
<1>1. TablesInit => IInv
  BY DfStarts, EnStarts, PtStarts, ZenonT(30) DEF TablesInit, IInv
<1>2. IInv /\ [TablesNext]_allVars => IInv'
  <2> SUFFICES ASSUME IInv, [TablesNext]_allVars PROVE IInv'
    OBVIOUS
  <2>1. CASE prog = "dup" /\ prog' = prog /\ (DupNext \/ DupEnvironment)
    BY <2>1, DfNext DEF IInv
  <2>2. CASE prog = "setenv" /\ prog' = prog /\ EnvNext
    <3>1. EnInv
      BY <2>2 DEF IInv
    <3>2. EnInv'
      BY <2>2, <3>1, EnXunsetenv, EnXsetenv, ZenonT(30) DEF EnvNext
    <3> QED  BY <2>2, <3>2 DEF IInv
  <2>3. CASE prog = "proc" /\ prog' = prog /\ (ProcNext \/ ProcEnvironment)
    <3>1. PtInv
      BY <2>3 DEF IInv
    <3>2. CASE ProcNext
      BY <3>1, <3>2, PtReaddir, PtFopen, PtGetline, PtGetlineUid, PtBuild, PtShow, <2>3, ZenonT(30)
         DEF ProcNext, IInv
    <3>3. CASE ProcEnvironment
      BY <3>1, <3>3, PtFork, PtExit, <2>3, ZenonT(30) DEF ProcEnvironment, IInv
    <3> QED  BY <2>3, <3>2, <3>3
  <2>4. CASE UNCHANGED allVars
    <3>1. prog' = prog /\ pc' = pc /\ g' = g
      BY <2>4 DEF allVars, vars
    <3>2. DfInv => DfInv'
      BY <3>1, ZenonT(30) DEF DfInv, DfTypes, DfCall, DfKept, DfReturned
    <3>3. EnInv => EnInv'
      BY <3>1 DEF EnInv
    <3>4. PtInv => PtInv'
      BY <3>1, ZenonT(30) DEF PtInv, PtTypes, PtAlive, PtScan, PtSeen, PtDue, PtPassed, ParentsRead
    <3> QED  BY <3>1, <3>2, <3>3, <3>4, ZenonT(30) DEF IInv
  <2> QED  BY <2>1, <2>2, <2>3, <2>4, ZenonT(30) DEF TablesNext
<1> QED  BY <1>1, <1>2, PTL DEF TablesSpec

\* Whatever another thread does meanwhile, the descriptors that xdup() and xdup2() return
\* are right, and xsetenv() and xunsetenv() keep a map from names to values with an EnvList
\* that is large enough: for every size of the tables, set of names and number of calls.
THEOREM TablesStayRight == TablesSpec => []TablesRight
<1>1. IInv => TablesRight
  <2>1. DfInv => DupRight
    BY ZenonT(30) DEF DfInv, DfReturned, DupRight, At, Main
  <2> QED  BY <2>1, EnIsMap, ZenonT(30) DEF IInv, TablesRight
<1> QED  BY <1>1, TablesInvariant, PTL

\* Whatever processes are made and end while proctree and proclist read /proc, a process that
\* stays is not missed, none is seen twice, and the parent of every process that was read was
\* read too: for every number of processes, at the start and in all.
THEOREM ProcessesAllFound == TablesSpec => []ProcessesFound
<1>1. IInv => ProcessesFound
  BY PtFound, ZenonT(30) DEF IInv, ProcessesFound
<1> QED  BY <1>1, TablesInvariant, PTL

=============================================================================
