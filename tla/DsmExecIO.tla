----------------------------- MODULE DsmExecIO -----------------------------
(***************************************************************************)
(* dsmexec once the programs run: it polls two tubes per child (stdout and *)
(* stderr of an ssh), copies what they bring, and leaves when both tubes   *)
(* of every child have been closed.  Meanwhile the children end, and       *)
(* SIGCHLD, whose handler reaps them, interrupts dsmexec anywhere.         *)
(*                                                                         *)
(* Tube 2 * r is the stdout of child r, tube 2 * r + 1 its stderr; a tube  *)
(* holds chunks, each of which one read takes whole.                       *)
(***************************************************************************)
EXTENDS Naturals, FiniteSets

CONSTANTS
  num_procs,    \* number of children
  TubeChunks,   \* capacity of a tube
  MaxChunks     \* bound: chunks a child writes to each tube in a run

Child == 0 .. num_procs - 1
Tube  == 0 .. 2 * num_procs - 1

Owner(t) == t \div 2
\* Mutant: the other tube is taken to be the next one.
TwinNext(t) == t + 1

Twin(t) == IF t % 2 = 1 THEN t - 1 ELSE t + 1

ASSUME IOAssumption ==
  /\ num_procs \in Nat \ {0}
  /\ TubeChunks \in Nat \ {0} /\ MaxChunks \in Nat

VARIABLES
  pc,               \* where dsmexec is
  i,                \* the loop index over the tubes
  revents,          \* revents[t]: the flags the last poll set for tube t
  watched,          \* the tubes whose entry of poll_tubes is not -1
  num_procs_creat,  \* the counter, num_procs since the launch
  errno,            \* the value the test of errno will see
  sigchld,          \* SIGCHLD is pending
  process,          \* process[c]: "running", "zombie" or "reaped"
  writer,           \* the tubes whose writing end is open
  content,          \* content[t]: chunks in tube t
  written, shown    \* per tube: chunks written, chunks copied by dsmexec

vars == <<pc, i, revents, watched, num_procs_creat, errno, sigchld,
          process, writer, content, written, shown>>

Init ==
  /\ pc = "poll" /\ i = 0
  /\ revents = [t \in Tube |-> {}]
  /\ watched = Tube
  /\ num_procs_creat = num_procs
  /\ errno = "none" /\ sigchld = FALSE
  /\ process = [c \in Child |-> "running"]
  /\ writer = Tube
  /\ content = [t \in Tube |-> 0]
  /\ written = [t \in Tube |-> 0] /\ shown = [t \in Tube |-> 0]

----------------------------------------------------------------------------
(* The children                                                            *)

Dsmexec  == <<pc, i, revents, watched, num_procs_creat, shown>>

Write(t) ==
  /\ t \in writer
  /\ content[t] < TubeChunks /\ written[t] < MaxChunks
  /\ content' = [content EXCEPT ![t] = @ + 1]
  /\ written' = [written EXCEPT ![t] = @ + 1]
  /\ UNCHANGED <<errno, sigchld, process, writer>> /\ UNCHANGED Dsmexec

\* The end of a child: the kernel closes its tubes, one after the other...
Close(t) ==
  /\ t \in writer
  /\ writer' = writer \ {t}
  /\ UNCHANGED <<errno, sigchld, process, content, written>> /\ UNCHANGED Dsmexec

\* ... and then makes it a zombie and signals dsmexec.
Exit(c) ==
  /\ process[c] = "running" /\ \A t \in writer : Owner(t) # c
  /\ process' = [process EXCEPT ![c] = "zombie"]
  /\ sigchld' = TRUE
  /\ UNCHANGED <<errno, writer, content, written>> /\ UNCHANGED Dsmexec

----------------------------------------------------------------------------
(* dsmexec                                                                 *)

World == <<errno, sigchld, process, writer, written>>

Reap == [c \in Child |-> IF process[c] = "zombie" THEN "reaped" ELSE process[c]]

\* sigchld_handler, wherever dsmexec is.  Its last waitpid fails with ECHILD
\* if no child is left, and nobody restores errno.  It interrupts poll.
Handler ==
  /\ sigchld /\ pc \notin {"exited", "failed"}
  /\ sigchld' = FALSE
  /\ process' = Reap
  /\ IF pc = "poll"
       THEN pc' = "interrupted" /\ errno' = "EINTR"
       ELSE /\ errno' = IF \A c \in Child : process'[c] = "reaped" THEN "ECHILD" ELSE errno
            /\ pc' = pc
  /\ UNCHANGED <<i, revents, watched, num_procs_creat, writer, content, written, shown>>

Revents(t) ==
  {flag \in {"POLLIN", "POLLHUP"} :
     t \in watched /\ IF flag = "POLLIN" THEN content[t] > 0 ELSE t \notin writer}

\* poll returns; when its 100 ms have passed instead, it is called again.
Poll ==
  /\ pc = "poll" /\ num_procs_creat # 0
  /\ \E t \in Tube : Revents(t) # {}
  /\ revents' = [t \in Tube |-> Revents(t)]
  /\ pc' = "scan" /\ i' = 0
  /\ UNCHANGED <<watched, num_procs_creat, content, shown>> /\ UNCHANGED World

\* Mutant: a poll that is interrupted is taken for an error.
FailAtOnce ==
  /\ pc = "interrupted"
  /\ pc' = "failed"
  /\ UNCHANGED <<i, revents, watched, num_procs_creat, content, shown>> /\ UNCHANGED World

\* The test of errno after a poll that was interrupted.
TestErrno ==
  /\ pc = "interrupted"
  /\ pc' = IF errno = "EINTR" THEN "poll" ELSE "failed"
  /\ UNCHANGED <<i, revents, watched, num_procs_creat, content, shown>> /\ UNCHANGED World

\* Mutants: every tube counts; only the end of a stderr is counted; the end of
\* a tube is looked at before what the tube still holds.
ScanEveryTube ==
  /\ pc = "scan" /\ i < 2 * num_procs
  /\ i' = i + 1
  /\ \/ /\ revents[i] = {"POLLHUP"}
        /\ watched' = watched \ {i}
        /\ num_procs_creat' = num_procs_creat - 1
     \/ /\ revents[i] # {"POLLHUP"}
        /\ UNCHANGED <<watched, num_procs_creat>>
  /\ UNCHANGED <<pc, revents, content, shown>> /\ UNCHANGED World

ScanStderr ==
  /\ pc = "scan" /\ i < 2 * num_procs
  /\ i' = i + 1
  /\ \/ /\ "POLLIN" \in revents[i]
        /\ content' = [content EXCEPT ![i] = @ - 1]
        /\ shown' = [shown EXCEPT ![i] = @ + 1]
        /\ UNCHANGED <<watched, num_procs_creat>>
     \/ /\ revents[i] = {"POLLHUP"}
        /\ watched' = watched \ {i}
        /\ num_procs_creat' = IF i % 2 = 1 /\ Twin(i) \notin watched
                                THEN num_procs_creat - 1 ELSE num_procs_creat
        /\ UNCHANGED <<content, shown>>
     \/ /\ revents[i] = {}
        /\ UNCHANGED <<watched, num_procs_creat, content, shown>>
  /\ UNCHANGED <<pc, revents>> /\ UNCHANGED World

ScanHupFirst ==
  /\ pc = "scan" /\ i < 2 * num_procs
  /\ i' = i + 1
  /\ \/ /\ "POLLHUP" \in revents[i]
        /\ watched' = watched \ {i}
        /\ num_procs_creat' = IF Twin(i) \notin watched THEN num_procs_creat - 1
                                                        ELSE num_procs_creat
        /\ UNCHANGED <<content, shown>>
     \/ /\ revents[i] = {"POLLIN"}
        /\ content' = [content EXCEPT ![i] = @ - 1]
        /\ shown' = [shown EXCEPT ![i] = @ + 1]
        /\ UNCHANGED <<watched, num_procs_creat>>
     \/ /\ revents[i] = {}
        /\ UNCHANGED <<watched, num_procs_creat, content, shown>>
  /\ UNCHANGED <<pc, revents>> /\ UNCHANGED World

\* Text first, the end of a tube only when there is none.
Scan ==
  /\ pc = "scan" /\ i < 2 * num_procs
  /\ i' = i + 1
  /\ \/ /\ "POLLIN" \in revents[i]
        /\ content' = [content EXCEPT ![i] = @ - 1]
        /\ shown' = [shown EXCEPT ![i] = @ + 1]
        /\ UNCHANGED <<watched, num_procs_creat>>
     \/ /\ revents[i] = {"POLLHUP"}
        /\ watched' = watched \ {i}
        /\ num_procs_creat' = IF Twin(i) \notin watched THEN num_procs_creat - 1
                                                        ELSE num_procs_creat
        /\ UNCHANGED <<content, shown>>
     \/ /\ revents[i] = {}
        /\ UNCHANGED <<watched, num_procs_creat, content, shown>>
  /\ UNCHANGED <<pc, revents>> /\ UNCHANGED World

\* Mutant: dsmexec leaves when one child is left.
EndScanEarly ==
  /\ pc = "scan" /\ i = 2 * num_procs
  /\ pc' = IF num_procs_creat <= 1 THEN "wait" ELSE "poll"
  /\ UNCHANGED <<i, revents, watched, num_procs_creat, content, shown>> /\ UNCHANGED World

EndScan ==
  /\ pc = "scan" /\ i = 2 * num_procs
  /\ pc' = IF num_procs_creat = 0 THEN "wait" ELSE "poll"
  /\ UNCHANGED <<i, revents, watched, num_procs_creat, content, shown>> /\ UNCHANGED World

\* wait_all asks, without waiting, for the pids of the remote processes,
\* which are not children of dsmexec; then main returns.
WaitAll ==
  /\ pc = "wait" /\ pc' = "exited"
  /\ UNCHANGED <<i, revents, watched, num_procs_creat, content, shown>> /\ UNCHANGED World

----------------------------------------------------------------------------

Launcher == Poll \/ TestErrno \/ Scan \/ EndScan \/ WaitAll \/ Handler

\* A child that has begun to end goes on; none is obliged to begin.
Ends(c) == Exit(c) \/ \E t \in writer : Owner(t) = c /\ Close(t)

Next == \/ Launcher
        \/ \E t \in Tube : Write(t) \/ Close(t)
        \/ \E c \in Child : Exit(c)

Spec == Init /\ [][Next]_vars

\* dsmexec runs, and the programs end some day.
FairSpec == Spec /\ WF_vars(Launcher) /\ \A c \in Child : WF_vars(Ends(c))

----------------------------------------------------------------------------
(* Properties                                                              *)

\* Every variable keeps its type.
TypeOK ==
  /\ pc \in {"poll", "interrupted", "scan", "wait", "exited", "failed"}
  /\ i \in 0 .. 2 * num_procs
  /\ revents \in [Tube -> SUBSET {"POLLIN", "POLLHUP"}]
  /\ watched \subseteq Tube /\ writer \subseteq Tube
  /\ num_procs_creat \in 0 .. num_procs
  /\ errno \in {"none", "EINTR", "ECHILD"} /\ sigchld \in BOOLEAN
  /\ process \in [Child -> {"running", "zombie", "reaped"}]
  /\ content \in [Tube -> Nat] /\ written \in [Tube -> Nat] /\ shown \in [Tube -> Nat]

\* The children dsmexec still listens to.
Heard == {c \in Child : 2 * c \in watched \/ 2 * c + 1 \in watched}

\* In whatever order the tubes of the children close, the counter is the
\* number of children that have one left: it reaches 0, and not before the
\* last tube is dropped.
CounterExact == num_procs_creat = Cardinality(Heard)

\* A tube is dropped only when its writer is gone and dsmexec has copied all
\* that was written.
NothingDropped ==
  \A t \in Tube : /\ written[t] = shown[t] + content[t]
                  /\ t \notin watched => t \notin writer /\ content[t] = 0

\* When main returns, every program has ended and all it wrote has been copied.
MainShowsAll == pc \in {"wait", "exited"} => writer = {} /\ shown = written

\* dsmexec stops, by the end of main or by an error.
Stops == <>(pc \in {"exited", "failed"})

\* The handler may change errno between a poll it interrupted and the test of
\* EINTR.  dsmexec then stops with an error, but only once every child has been
\* reaped: what it leaves unread is in the tubes, and no program loses its reader.
FailsOnlyAtEnd ==
  pc = "failed" => writer = {} /\ \A c \in Child : process[c] = "reaped"

=============================================================================
