------------------------------ MODULE DsmStart ------------------------------
(***************************************************************************)
(* The whole of dsm_init, from the fork of dsmexec on: DsmLaunch tells     *)
(* each process at which port the others are, and DsmMesh, whose processes *)
(* reach each other by name, is done here with these ports.                *)
(***************************************************************************)
EXTENDS DsmLaunch

VARIABLES
  pc, idx, pending, slot    \* the variables of DsmMesh, pending for its queue

mesh == <<pc, idx, pending, slot>>

Mesh == INSTANCE DsmMesh WITH DSM_NODE_NUM <- num_procs, queue <- pending

StartInit == Init /\ Mesh!Init

\* A process that has all the contacts.
Listen(n) == /\ remote[n].pc = "listen" /\ Mesh!Listen(n)
             /\ UNCHANGED vars

Answer(n) == /\ Mesh!Accept(n) \/ Mesh!EndAccept(n) \/ Mesh!Start(n)
             /\ UNCHANGED vars

\* Mutant: the contacts are read one entry too far.
CallNextEntry(n) ==
  /\ pc[n] = "connect" /\ idx[n] < num_procs
  /\ \E m \in Rank :
       /\ remote[m].port = remote[n].conn[(idx[n] + 1) % num_procs].port
       /\ pc[m] # "start"
       /\ Len(pending[m]) <= m
       /\ pending' = [pending EXCEPT ![m] = Append(@, n)]
       /\ slot' = [slot EXCEPT ![n][idx[n]] = m]
  /\ idx' = [idx EXCEPT ![n] = @ + 1]
  /\ UNCHANGED pc /\ UNCHANGED vars

\* connect goes to the port in the entry, whoever listens there.
Call(n) ==
  /\ pc[n] = "connect" /\ idx[n] < num_procs
  /\ \E m \in Rank :
       /\ remote[m].port = remote[n].conn[idx[n]].port
       /\ pc[m] # "start"
       /\ Len(pending[m]) <= m
       /\ pending' = [pending EXCEPT ![m] = Append(@, n)]
       /\ slot' = [slot EXCEPT ![n][idx[n]] = m]
  /\ idx' = [idx EXCEPT ![n] = @ + 1]
  /\ UNCHANGED pc /\ UNCHANGED vars

MeshStep(n) == Listen(n) \/ Answer(n) \/ Call(n)

StartNext == \/ Next /\ UNCHANGED mesh
             \/ \E n \in Rank : MeshStep(n)

StartVars == <<vars, mesh>>

StartSpec == StartInit /\ [][StartNext]_StartVars

\* Every process is scheduled.
FairStart == /\ StartSpec
             /\ WF_StartVars(Launch /\ UNCHANGED mesh)
             /\ \A r \in Rank : /\ WF_StartVars(Remote(r) /\ UNCHANGED mesh)
                                /\ WF_StartVars(MeshStep(r))

----------------------------------------------------------------------------
(* Properties                                                              *)

\* The processes reach each other by the ports they have been told just as
\* those of DsmMesh do by name: each entry is connected to the process of its
\* rank.
ImplementsMesh == Mesh!Spec

\* dsm_init returns in every process, unless an increment is lost, a machine
\* fails or a program ends too early: no other order of the steps makes anybody
\* wait for ever, however short the backlogs.
AllStart == \/ <>(launcher.pc = "io" /\ Mesh!Complete)
            \/ <>(Lost \/ \E r \in Rank : Gone(r))

=============================================================================
