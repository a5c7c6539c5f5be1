----------------------------- MODULE Processes -----------------------------
(***************************************************************************)
(* The state that the programs of the interprocess communication chapters  *)
(* share: where each process (or thread) is, and one record with the       *)
(* kernel objects they communicate through and their own data.             *)
(***************************************************************************)
EXTENDS Integers, Sequences, FiniteSets

VARIABLES pc,       \* pc[p]: where process p is
          g         \* the program's data and its kernel objects, a record

vars == <<pc, g>>

At(p, point) == pc[p] = point

Go(p, from, to) == At(p, from) /\ pc' = [pc EXCEPT ![p] = to]
=============================================================================
