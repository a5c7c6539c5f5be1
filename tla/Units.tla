------------------------------- MODULE Units -------------------------------
(***************************************************************************)
(* What a producer-consumer program promises: units are produced one at a  *)
(* time, each is consumed once and after it was produced, and the program  *)
(* ends when all units that were asked for have been consumed.             *)
(***************************************************************************)
EXTENDS Naturals

CONSTANT Total                  \* units that all producers will produce

VARIABLES made, used, ended

Init == made = 0 /\ used = 0 /\ ended = FALSE

Produce ==
    /\ ~ended /\ made < Total
    /\ made' = made + 1
    /\ UNCHANGED <<used, ended>>

Consume ==
    /\ ~ended /\ used < made
    /\ used' = used + 1
    /\ UNCHANGED <<made, ended>>

End ==
    /\ ~ended /\ used = Total
    /\ ended' = TRUE
    /\ UNCHANGED <<made, used>>

uvars == <<made, used, ended>>

Next == Produce \/ Consume \/ End

Spec == Init /\ [][Next]_uvars
=============================================================================
