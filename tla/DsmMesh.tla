------------------------------ MODULE DsmMesh ------------------------------
(***************************************************************************)
(* How the processes connect to each other at the end of dsm_init: each    *)
(* listens, accepts as many connections as it has lower ranks, and then    *)
(* connects to the higher ranks, trying again as long as it is refused.    *)
(* dsm_conn_array[i].fd_dsm of process n is slot[n][i]: the process at     *)
(* the other end, or n itself as long as the entry is zero.                *)
(***************************************************************************)
EXTENDS Integers, Sequences

CONSTANT DSM_NODE_NUM

ASSUME MeshAssumption == DSM_NODE_NUM \in Nat \ {0}

Rank == 0 .. DSM_NODE_NUM - 1

VARIABLES
  pc,       \* pc[n]: "start", "accept", "connect" or "ready"
  idx,      \* idx[n]: the loop index i of dsm_init
  queue,    \* queue[n]: the connections the kernel has completed for n
  slot      \* slot[n][i]: who is behind dsm_conn_array[i].fd_dsm

vars == <<pc, idx, queue, slot>>

Init ==
  /\ pc = [n \in Rank |-> "start"]
  /\ idx = [n \in Rank |-> 0]
  /\ queue = [n \in Rank |-> <<>>]
  /\ slot = [n \in Rank |-> [i \in Rank |-> n]]

\* Mutants: the loop over the lower ranks starts one too high, one too low.
ListenOneMore(n) ==
  /\ pc[n] = "start"
  /\ pc' = [pc EXCEPT ![n] = "accept"]
  /\ idx' = [idx EXCEPT ![n] = n]
  /\ UNCHANGED <<queue, slot>>

ListenOneLess(n) ==
  /\ pc[n] = "start"
  /\ pc' = [pc EXCEPT ![n] = "accept"]
  /\ idx' = [idx EXCEPT ![n] = n - 2]
  /\ UNCHANGED <<queue, slot>>

\* listen; the launcher has sent everything by then, at a different time to
\* each process.  A process is refused a connection before this step.  The
\* calls of dsm_init are supposed to succeed: a failure ends the process.
Listen(n) ==
  /\ pc[n] = "start"
  /\ pc' = [pc EXCEPT ![n] = "accept"]
  /\ idx' = [idx EXCEPT ![n] = n - 1]
  /\ UNCHANGED <<queue, slot>>

\* Mutant: the entry is one off the index of the loop.
AcceptNextEntry(n) ==
  /\ pc[n] = "accept" /\ idx[n] >= 0
  /\ queue[n] # <<>>
  /\ slot' = [slot EXCEPT ![n][idx[n] + 1] = Head(queue[n])]
  /\ queue' = [queue EXCEPT ![n] = Tail(@)]
  /\ idx' = [idx EXCEPT ![n] = @ - 1]
  /\ UNCHANGED pc

\* The descriptor goes to entry i, whoever the connection comes from.
Accept(n) ==
  /\ pc[n] = "accept" /\ idx[n] >= 0
  /\ queue[n] # <<>>
  /\ slot' = [slot EXCEPT ![n][idx[n]] = Head(queue[n])]
  /\ queue' = [queue EXCEPT ![n] = Tail(@)]
  /\ idx' = [idx EXCEPT ![n] = @ - 1]
  /\ UNCHANGED pc

\* Mutant: rank 0 is not waited for.
EndAcceptEarly(n) ==
  /\ pc[n] = "accept" /\ idx[n] <= 0
  /\ pc' = [pc EXCEPT ![n] = "connect"]
  /\ idx' = [idx EXCEPT ![n] = n + 1]
  /\ UNCHANGED <<queue, slot>>

EndAccept(n) ==
  /\ pc[n] = "accept" /\ idx[n] < 0
  /\ pc' = [pc EXCEPT ![n] = "connect"]
  /\ idx' = [idx EXCEPT ![n] = n + 1]
  /\ UNCHANGED <<queue, slot>>

\* connect, once the other process listens; its backlog is its rank, and the
\* kernel keeps one connection more than the backlog.
Connect(n) ==
  /\ pc[n] = "connect" /\ idx[n] < DSM_NODE_NUM
  /\ pc[idx[n]] # "start"
  /\ Len(queue[idx[n]]) <= idx[n]
  /\ queue' = [queue EXCEPT ![idx[n]] = Append(@, n)]
  /\ slot' = [slot EXCEPT ![n][idx[n]] = idx[n]]
  /\ idx' = [idx EXCEPT ![n] = @ + 1]
  /\ UNCHANGED pc

\* The pages are allotted and the daemon is started: DsmNode goes on.
Start(n) ==
  /\ pc[n] = "connect" /\ idx[n] = DSM_NODE_NUM
  /\ pc' = [pc EXCEPT ![n] = "ready"]
  /\ UNCHANGED <<idx, queue, slot>>

Step(n) == Listen(n) \/ Accept(n) \/ EndAccept(n) \/ Connect(n) \/ Start(n)

\* Every process has returned from dsm_init.
Complete == \A n \in Rank : pc[n] = "ready"

Next == \E n \in Rank : Step(n)

Spec == Init /\ [][Next]_vars

\* Every process runs.
FairSpec == Spec /\ \A n \in Rank : WF_vars(Step(n))

----------------------------------------------------------------------------
(* Properties                                                              *)

\* Every variable keeps its type; the loop index stays within an entry of the table.
TypeOK ==
  /\ pc \in [Rank -> {"start", "accept", "connect", "ready"}]
  /\ idx \in [Rank -> -1 .. DSM_NODE_NUM]
  /\ queue \in [Rank -> Seq(Rank)]
  /\ slot \in [Rank -> [Rank -> Rank]]

\* The lower ranks that have connected to n.
Calling(n) == {m \in Rank : /\ m < n
                            /\ \/ pc[m] = "connect" /\ n < idx[m]
                               \/ pc[m] = "ready"}

\* The entries of n that Accept has filled.
Filled(n) == {i \in Rank : /\ i < n
                           /\ \/ pc[n] = "accept" /\ idx[n] < i
                              \/ pc[n] \in {"connect", "ready"}}

\* The loops of dsm_init stay within their bounds.
LoopBounds(n) ==
  CASE pc[n] = "start"   -> queue[n] = <<>>
    [] pc[n] = "accept"  -> idx[n] \in -1 .. n - 1
    [] pc[n] = "connect" -> idx[n] \in n + 1 .. DSM_NODE_NUM
    [] OTHER             -> idx[n] = DSM_NODE_NUM

\* The entries that Accept does not fill lead where they should.
OtherEntries(n) ==
  \A i \in Rank \ Filled(n) : slot[n][i] = IF n \in Calling(i) THEN i ELSE n

\* Everyone whom n has accepted, or has still to accept, is a lower rank that
\* has called n; and nobody is there twice.
Callers(n) ==
  /\ \A i \in Filled(n) : slot[n][i] \in Calling(n)
  /\ \A k \in DOMAIN queue[n] : queue[n][k] \in Calling(n)
  /\ \A i, j \in Filled(n) : slot[n][i] = slot[n][j] => i = j
  /\ \A k, l \in DOMAIN queue[n] : queue[n][k] = queue[n][l] => k = l
  /\ \A i \in Filled(n), k \in DOMAIN queue[n] : slot[n][i] # queue[n][k]

\* Connections are neither lost nor counted twice, in whatever order the
\* processes reach their accept and connect loops.
ConnectionsAccounted == \A n \in Rank : LoopBounds(n) /\ OtherEntries(n) /\ Callers(n)

\* A process that has returned from dsm_init can reach every other one, each
\* by its own descriptor, and is reached by it.
MeshComplete ==
  \A n \in Rank : pc[n] = "ready" =>
    /\ {slot[n][i] : i \in Rank \ {n}} = Rank \ {n}
    /\ \A m \in Rank \ {n} : pc[m] = "ready" => \E i \in Rank : slot[m][i] = n

\* "Chaque processus est donc capable de dialoguer directement avec n'importe
\* quel autre processus par le biais de son numero de rang": once dsm_init has
\* returned, entry i of dsm_conn_array, which the handlers index with the rank
\* they read in the table, leads to process i.
SlotIsRank == \A n \in Rank : pc[n] = "ready" => \A i \in Rank : slot[n][i] = i

\* Nobody waits on a process that waits on it: every process gets through.
InitReturns == <>Complete

=============================================================================
