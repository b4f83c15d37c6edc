---------------------------- MODULE MCTransfers ----------------------------
(* Instances of DsmTransfers for TLC. *)
EXTENDS DsmTransfers

DirectLink == [n \in Rank |-> [s \in Rank |-> s]]

\* Everybody works on page 0.
AllTouch0 == [n \in Rank |-> {0}]

\* Process 0 keeps the page the others work on.
Clients == [n \in Rank |-> IF n = 0 THEN {} ELSE {0}]

\* Process 0 serves each of the others a page of its own.
ApartClients ==
  [n \in Rank |-> IF n = 0 THEN {} ELSE {p \in Page : p = (n - 1) * DSM_NODE_NUM}]

\* Two processes, each at work on a page of the other.
Crossing == [n \in Rank |-> {1 - n}]

Sockets == [n \in Rank |-> "socket"]
=============================================================================
