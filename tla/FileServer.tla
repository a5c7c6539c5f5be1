----------------------------- MODULE FileServer -----------------------------
(***************************************************************************)
(* svmsg_file_server.c with some number of svmsg_file_client.c.            *)
(***************************************************************************)
EXTENDS Processes

CONSTANTS FileClients, Sizes, FileMaxQueue

\* A file has a size or is missing.
ASSUME FileAssumption ==
    FileClients \in Nat /\ Sizes \subseteq Nat \cup {-1} /\ FileMaxQueue \in Nat

MF == INSTANCE SvmsgFile WITH N <- FileClients, MaxQueue <- FileMaxQueue
=============================================================================
