----------------------------- MODULE DsmLaunch -----------------------------
(***************************************************************************)
(* The start of a run: dsmexec forks one child per line of the machine     *)
(* file, each child counts itself and becomes ssh, ssh runs dsmwrap on the *)
(* other machine, and dsmexec collects rank, pid and port of each before   *)
(* it tells anybody to go on.  dsmwrap then becomes the program, whose     *)
(* dsm_init reads who the others are; DsmMesh goes on from there.          *)
(*                                                                         *)
(* Pids and ports are numbers that differ from the ranks and from each     *)
(* other; host names are left out.                                         *)
(***************************************************************************)
EXTENDS Naturals, Sequences, FiniteSets

CONSTANTS
  num_procs,    \* lines of the machine file
  Fragile,      \* the ranks whose ssh or dsmwrap may fail
  Plain         \* the ranks whose program may end without calling dsm_init

Rank == 0 .. num_procs - 1
None == num_procs

ASSUME LaunchAssumption ==
  /\ num_procs \in Nat \ {0}
  /\ Fragile \subseteq Rank /\ Plain \subseteq Rank

VARIABLES
  launcher,         \* the main loop of dsmexec
  num_procs_creat,  \* the counter dsmexec shares with its children
  backlog,          \* the backlog of sock_init
  child,            \* child[r]: the child of rank r, and what it read of the counter
  dsm_array,        \* dsm_array[r]: what dsmexec knows of rank r
  remote,           \* remote[r]: dsmwrap, then the program, of rank r
  queue,            \* connections the kernel has completed on sock_init
  up,               \* up[r]: words from r to dsmexec, not read yet
  down              \* down[r]: words from dsmexec to r, not read yet

vars == <<launcher, num_procs_creat, backlog, child, dsm_array, remote, queue, up, down>>

Pid(r)  == num_procs + r
Port(r) == 2 * num_procs + r    \* what bind gives to r; 0 is no port

Init ==
  /\ launcher = [pc |-> "fork", i |-> 0, j |-> 0, fd |-> None, rang |-> 0, out |-> <<>>]
  /\ num_procs_creat = 0
  /\ backlog = 0
  /\ child = [r \in Rank |-> [pc |-> "none", seen |-> 0]]
  /\ dsm_array = [r \in Rank |-> [rang |-> 0, fd_init |-> None, pid |-> 0, port |-> 0]]
  /\ remote = [r \in Rank |-> [pc |-> "absent", port |-> 0, id |-> 0, i |-> 0,
                               conn |-> [j \in Rank |-> [rang |-> 0, port |-> 0]]]]
  /\ queue = <<>>
  /\ up = [r \in Rank |-> <<>>]
  /\ down = [r \in Rank |-> <<>>]

----------------------------------------------------------------------------
(* dsmexec and its children                                                *)

\* Mutant: one fork too many.
ForkOneMore ==
  /\ launcher.pc = "fork"
  /\ backlog' = num_procs_creat
  /\ child' = [child EXCEPT ![launcher.i].pc = "started"]
  /\ launcher' = [launcher EXCEPT !.i = @ + 1,
                                  !.pc = IF launcher.i = num_procs THEN "barrier" ELSE "fork"]
  /\ UNCHANGED <<num_procs_creat, dsm_array, remote, queue, up, down>>

\* listen, with the number of children counted so far as backlog, and fork.
Fork ==
  /\ launcher.pc = "fork"
  /\ backlog' = num_procs_creat
  /\ child' = [child EXCEPT ![launcher.i].pc = "started"]
  /\ launcher' = [launcher EXCEPT !.i = @ + 1,
                                  !.pc = IF launcher.i + 1 = num_procs THEN "barrier" ELSE "fork"]
  /\ UNCHANGED <<num_procs_creat, dsm_array, remote, queue, up, down>>

\* Mutant: the child is counted before it is about to execute ssh.
LoadCounts(r) ==
  /\ child[r].pc = "started"
  /\ dsm_array' = [dsm_array EXCEPT ![r].rang = r]
  /\ num_procs_creat' = num_procs_creat + 1
  /\ child' = [child EXCEPT ![r] = [pc |-> "counting", seen |-> num_procs_creat]]
  /\ UNCHANGED <<launcher, backlog, remote, queue, up, down>>

\* The child writes its rank and reads the counter...
Load(r) ==
  /\ child[r].pc = "started"
  /\ dsm_array' = [dsm_array EXCEPT ![r].rang = r]
  /\ child' = [child EXCEPT ![r] = [pc |-> "counting", seen |-> num_procs_creat]]
  /\ UNCHANGED <<launcher, num_procs_creat, backlog, remote, queue, up, down>>

\* ... and stores it plus one, then executes ssh.
Store(r) ==
  /\ child[r].pc = "counting"
  /\ num_procs_creat' = child[r].seen + 1
  /\ child' = [child EXCEPT ![r].pc = "ssh"]
  /\ UNCHANGED <<launcher, backlog, dsm_array, remote, queue, up, down>>

\* Mutant: the last child is not waited for.
PassEarly ==
  /\ launcher.pc = "barrier" /\ num_procs_creat >= num_procs - 1
  /\ launcher' = [launcher EXCEPT !.pc = "accept", !.i = 0]
  /\ UNCHANGED <<num_procs_creat, backlog, child, dsm_array, remote, queue, up, down>>

\* The busy wait of dsmexec.
Pass ==
  /\ launcher.pc = "barrier" /\ num_procs_creat = num_procs
  /\ launcher' = [launcher EXCEPT !.pc = "accept", !.i = 0]
  /\ UNCHANGED <<num_procs_creat, backlog, child, dsm_array, remote, queue, up, down>>

Accept ==
  /\ launcher.pc = "accept" /\ queue # <<>>
  /\ launcher' = [launcher EXCEPT !.pc = "rang", !.fd = Head(queue)]
  /\ queue' = Tail(queue)
  /\ UNCHANGED <<num_procs_creat, backlog, child, dsm_array, remote, up, down>>

\* recv_int on the connection being served.  It loops at the end of the
\* stream; a connection that is reset is not considered.
Takes(at) ==
  /\ launcher.pc = at /\ up[launcher.fd] # <<>>
  /\ up' = [up EXCEPT ![launcher.fd] = Tail(@)]
  /\ UNCHANGED <<num_procs_creat, backlog, child, remote, queue, down>>

NextWord == Head(up[launcher.fd])

\* Mutant: the entry is chosen by order of arrival.
RecvRangByOrder ==
  /\ Takes("rang")
  /\ launcher' = [launcher EXCEPT !.pc = "pid", !.rang = launcher.i]
  /\ dsm_array' = [dsm_array EXCEPT ![launcher.i].fd_init = launcher.fd]

RecvRang ==
  /\ Takes("rang")
  /\ launcher' = [launcher EXCEPT !.pc = "pid", !.rang = NextWord]
  /\ dsm_array' = [dsm_array EXCEPT ![NextWord].fd_init = launcher.fd]

RecvPid ==
  /\ Takes("pid")
  /\ launcher' = [launcher EXCEPT !.pc = "port"]
  /\ dsm_array' = [dsm_array EXCEPT ![launcher.rang].pid = NextWord]

RecvPort ==
  /\ Takes("port")
  /\ dsm_array' = [dsm_array EXCEPT ![launcher.rang].port = NextWord]
  /\ launcher' = IF launcher.i + 1 < num_procs
                   THEN [launcher EXCEPT !.pc = "accept", !.i = @ + 1]
                   ELSE [launcher EXCEPT !.pc = "send", !.i = 0]

\* Mutant: the last process is not sent anything.
PrepareButLast ==
  /\ launcher.pc = "send" /\ launcher.out = <<>> /\ launcher.i < num_procs - 1
  /\ launcher' = [launcher EXCEPT !.pc = "infos", !.j = 0, !.fd = dsm_array[launcher.i].fd_init,
                                  !.out = <<0, num_procs, dsm_array[launcher.i].rang>>]
  /\ UNCHANGED <<num_procs_creat, backlog, child, dsm_array, remote, queue, up, down>>

\* The go-ahead, the number of processes and the rank of the reader...
Prepare ==
  /\ launcher.pc = "send" /\ launcher.out = <<>> /\ launcher.i < num_procs
  /\ launcher' = [launcher EXCEPT !.pc = "infos", !.j = 0, !.fd = dsm_array[launcher.i].fd_init,
                                  !.out = <<0, num_procs, dsm_array[launcher.i].rang>>]
  /\ UNCHANGED <<num_procs_creat, backlog, child, dsm_array, remote, queue, up, down>>

\* Mutant: the process is told about itself too.
AllInfos(i, j) == <<dsm_array[j].rang, dsm_array[j].port>>

\* What the process of entry i is told of entry j: nothing when it is its own.
Infos(i, j) ==
  IF dsm_array[j].rang = dsm_array[i].rang THEN <<>>
  ELSE <<dsm_array[j].rang, dsm_array[j].port>>

\* ... then one entry after the other.
PrepareInfos ==
  /\ launcher.pc = "infos" /\ launcher.out = <<>>
  /\ LET next == [launcher EXCEPT !.out = Infos(launcher.i, launcher.j), !.j = @ + 1]
     IN  launcher' = IF next.j < num_procs THEN next
                     ELSE [next EXCEPT !.pc = "send", !.i = @ + 1]
  /\ UNCHANGED <<num_procs_creat, backlog, child, dsm_array, remote, queue, up, down>>

\* A write to a process that is gone may be accepted, or raise SIGPIPE.
Gone(r) == remote[r].pc \in {"failed", "ended"}

Send ==
  /\ launcher.pc \in {"send", "infos"} /\ launcher.out # <<>>
  /\ \/ /\ launcher' = [launcher EXCEPT !.out = Tail(@)]
        /\ down' = IF Gone(launcher.fd) THEN down
                   ELSE [down EXCEPT ![launcher.fd] = Append(@, Head(launcher.out))]
     \/ /\ Gone(launcher.fd)
        /\ launcher' = [launcher EXCEPT !.pc = "killed"]
        /\ UNCHANGED down
  /\ UNCHANGED <<num_procs_creat, backlog, child, dsm_array, remote, queue, up>>

\* The sockets are closed; DsmExecIO goes on.
EndSend ==
  /\ launcher.pc = "send" /\ launcher.out = <<>> /\ launcher.i = num_procs
  /\ launcher' = [launcher EXCEPT !.pc = "io"]
  /\ UNCHANGED <<num_procs_creat, backlog, child, dsm_array, remote, queue, up, down>>

\* ssh ends and SIGCHLD reaches dsmexec.  do_accept waits again, but recv_int,
\* when it is blocked in read, goes on one byte off (see DsmWire): what dsmexec
\* makes of the words that it reads from there on is not followed.
Blocked == /\ launcher.pc \in {"rang", "pid", "port"}
           /\ up[launcher.fd] = <<>> /\ ~Gone(launcher.fd)
Sigchld(r) ==
  /\ Gone(r) /\ child[r].pc = "ssh"
  /\ child' = [child EXCEPT ![r].pc = "reaped"]
  /\ \/ UNCHANGED launcher
     \/ Blocked /\ launcher' = [launcher EXCEPT !.pc = "derailed"]
  /\ UNCHANGED <<num_procs_creat, backlog, dsm_array, remote, queue, up, down>>

----------------------------------------------------------------------------
(* dsmwrap, and dsm_init as far as the launcher is concerned               *)

\* Steps of the remote process r that concern nobody else.
Alone == UNCHANGED <<launcher, num_procs_creat, backlog, child, dsm_array>>

\* connect waits as long as the queue of sock_init is full.
Connect(r) ==
  /\ child[r].pc = "ssh" /\ remote[r].pc = "absent"
  /\ Len(queue) <= backlog
  /\ queue' = Append(queue, r)
  /\ remote' = [remote EXCEPT ![r].pc = "connected"]
  /\ UNCHANGED <<up, down>> /\ Alone

SendRangPid(r) ==
  /\ remote[r].pc = "connected"
  /\ up' = [up EXCEPT ![r] = @ \o <<r, Pid(r)>>]
  /\ remote' = [remote EXCEPT ![r].pc = "known"]
  /\ UNCHANGED <<queue, down>> /\ Alone

\* The socket for the other processes is bound before its port is sent.
SendPort(r) ==
  /\ remote[r].pc = "known"
  /\ up' = [up EXCEPT ![r] = Append(@, Port(r))]
  /\ remote' = [remote EXCEPT ![r].pc = "sync", ![r].port = Port(r)]
  /\ UNCHANGED <<queue, down>> /\ Alone

\* ssh is refused, dsmwrap stops, the machine stops...
Fail(r) ==
  /\ r \in Fragile
  /\ child[r].pc = "ssh" /\ remote[r].pc \in {"absent", "connected", "known", "sync"}
  /\ remote' = [remote EXCEPT ![r].pc = "failed"]
  /\ UNCHANGED <<queue, up, down>> /\ Alone

\* The process r, at the point at of its program, reads k words.
Reads(r, at, k) ==
  /\ remote[r].pc = at /\ Len(down[r]) >= k
  /\ down' = [down EXCEPT ![r] = SubSeq(@, k + 1, Len(@))]
  /\ UNCHANGED <<queue, up>> /\ Alone

\* Mutant: dsmwrap does not wait.
StartAtOnce(r) ==
  /\ remote[r].pc = "sync"
  /\ remote' = [remote EXCEPT ![r].pc = "program"]
  /\ UNCHANGED <<queue, up, down>> /\ Alone

\* dsmwrap waits for the go-ahead and becomes the program.
RecvSync(r) ==
  /\ Reads(r, "sync", 1)
  /\ remote' = [remote EXCEPT ![r].pc = "program"]

\* The program ends, or cannot be executed: nobody holds the socket any more.
EndPlain(r) ==
  /\ r \in Plain /\ remote[r].pc = "program"
  /\ remote' = [remote EXCEPT ![r].pc = "ended"]
  /\ UNCHANGED <<queue, up, down>> /\ Alone

\* dsm_init: DSM_NODE_NUM (that of every process, not kept) and DSM_NODE_ID.
RecvId(r) ==
  /\ Reads(r, "program", 2)
  /\ remote' = [remote EXCEPT ![r].pc = "infos", ![r].id = down[r][2]]

\* The infos go to the entries in the order of their arrival.
RecvInfos(r) ==
  LET i == remote[r].i
  IN  \/ /\ i < num_procs /\ i # remote[r].id
         /\ Reads(r, "infos", 2)
         /\ remote' = [remote EXCEPT ![r].i = i + 1,
              ![r].conn[i] = [rang |-> down[r][1], port |-> down[r][2]]]
      \/ /\ i < num_procs /\ i = remote[r].id
         /\ Reads(r, "infos", 0)
         /\ remote' = [remote EXCEPT ![r].i = i + 1]
      \/ /\ i = num_procs
         /\ Reads(r, "infos", 0)
         /\ remote' = [remote EXCEPT ![r].pc = "listen"]

----------------------------------------------------------------------------

Launch == \/ Fork \/ Pass \/ Accept \/ RecvRang \/ RecvPid \/ RecvPort
          \/ Prepare \/ PrepareInfos \/ Send \/ EndSend

Remote(r) == \/ Load(r) \/ Store(r) \/ Connect(r) \/ SendRangPid(r) \/ SendPort(r)
             \/ RecvSync(r) \/ RecvId(r) \/ RecvInfos(r)

Next == Launch \/ \E r \in Rank : Remote(r) \/ Fail(r) \/ EndPlain(r) \/ Sigchld(r)

Spec == Init /\ [][Next]_vars

\* Every process is scheduled.
FairSpec == Spec /\ WF_vars(Launch) /\ \A r \in Rank : WF_vars(Remote(r))

----------------------------------------------------------------------------
(* Properties                                                              *)

LauncherPc == {"fork", "barrier", "accept", "rang", "pid", "port", "send", "infos", "io",
               "killed", "derailed"}

\* Every variable keeps its type, and the loops their bounds.
TypeOK ==
  /\ launcher \in [pc : LauncherPc, i : 0 .. num_procs, j : 0 .. num_procs,
                   fd : Rank \cup {None}, rang : Rank, out : Seq(Nat)]
  /\ num_procs_creat \in Nat /\ backlog \in Nat
  /\ child \in [Rank -> [pc : {"none", "started", "counting", "ssh", "reaped"}, seen : Nat]]
  /\ dsm_array \in [Rank -> [rang : Rank, fd_init : Rank \cup {None}, pid : Nat, port : Nat]]
  /\ remote \in [Rank -> [pc : {"absent", "connected", "known", "sync", "program", "infos",
                                "listen", "failed", "ended"},
                          port : Nat, id : Rank, i : 0 .. num_procs,
                          conn : [Rank -> [rang : Rank, port : Nat]]]]
  /\ queue \in Seq(Rank)
  /\ up \in [Rank -> Seq(Nat)]
  /\ down \in [Rank -> Seq(Nat)]

\* The children that have counted themselves.
Counted == {r \in Rank : child[r].pc \in {"ssh", "reaped"}}

\* The counter never runs ahead of the children, nor does what any of them has
\* read of it: their increments may overwrite each other.
CounterBehind ==
  /\ num_procs_creat <= Cardinality(Counted)
  /\ \A r \in Rank : child[r].seen <= Cardinality(Counted)

\* The busy wait needs no lock to be safe: dsmexec passes it only when every
\* child has counted itself, and so has written its rank in dsm_array.
BarrierSound ==
  launcher.pc \notin {"fork", "barrier"} =>
    Counted = Rank /\ \A r \in Rank : dsm_array[r].rang = r

\* In whatever order the connections come in, entry r of dsm_array holds the
\* connection, the pid and the port of the process of rank r.
ConnectionsIdentified ==
  \A r \in Rank : /\ dsm_array[r].fd_init \in {r, None}
                  /\ dsm_array[r].pid \in {0, Pid(r)}
                  /\ dsm_array[r].port \in {0, Port(r)}

\* No program starts before every process has a port that the others will be
\* told: a process that fails on the way there keeps all programs from starting.
Started(r) == remote[r].pc \in {"program", "infos", "listen", "ended"}
StartTogether ==
  (\E r \in Rank : Started(r)) =>
    \A s \in Rank : remote[s].port # 0 /\ dsm_array[s].port = remote[s].port

\* dsm_init fills its table by order of arrival, without a look at the ranks
\* it is sent: all the same, entry j ends up with the rank and port of j.
ContactsRight ==
  \A r \in Rank : remote[r].pc = "listen" =>
    /\ remote[r].id = r
    /\ \A j \in Rank \ {r} : remote[r].conn[j] = [rang |-> j, port |-> remote[j].port]

\* An increment has been lost: the busy wait never ends.
Lost == Counted = Rank /\ num_procs_creat < num_procs

=============================================================================
