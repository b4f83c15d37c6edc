------------------------------- MODULE MCNode -------------------------------
(* Instances of DsmNode for TLC. *)
EXTENDS DsmNode

DirectLink == [n \in Rank |-> [s \in Rank |-> s]]

\* Each process works on the pages allotted to the others.
Crossing == [n \in Rank |-> {p \in Page : p % DSM_NODE_NUM # n}]

\* The machines need not run the same sshd.
MixedInputs == [n \in Rank |-> IF n = 0 THEN "socket" ELSE "pipe"]
Sockets == [n \in Rank |-> "socket"]
=============================================================================
