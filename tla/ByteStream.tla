----------------------------- MODULE ByteStream -----------------------------
(***************************************************************************)
(* What a program pair that copies a stream promises, whatever carries the *)
(* bytes: the receiver's output is at every moment a prefix of the input,  *)
(* and it reports the end of the stream only after the whole input.        *)
(* Byte k of the input is represented by its position k.                   *)
(***************************************************************************)
EXTENDS Naturals, Sequences

CONSTANT InputLen       \* length of the input stream

VARIABLES sent,         \* how many bytes of the input the sender has taken
          out,          \* the bytes the receiver has written, in order
          eof           \* the receiver has seen the end of the stream

streamVars == <<sent, out, eof>>

Prefix(n) == [k \in 1..n |-> k]

Init == sent = 0 /\ out = <<>> /\ eof = FALSE

Send ==
    /\ sent' \in sent + 1 .. InputLen
    /\ UNCHANGED <<out, eof>>

Deliver ==
    /\ ~eof
    /\ \E n \in Len(out) + 1 .. sent : out' = Prefix(n)
    /\ UNCHANGED <<sent, eof>>

End ==
    /\ ~eof
    /\ out = Prefix(InputLen)
    /\ eof' = TRUE
    /\ UNCHANGED <<sent, out>>

Next == Send \/ Deliver \/ End

Spec == Init /\ [][Next]_streamVars
=============================================================================
