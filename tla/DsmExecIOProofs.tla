-------------------------- MODULE DsmExecIOProofs --------------------------
(***************************************************************************)
(* Theorems about DsmExecIO, for every number of children and whatever     *)
(* they write.                                                             *)
(***************************************************************************)
EXTENDS DsmExecIO, FiniteSetTheorems, TLAPS

\* The part of the types the argument needs.
IOType ==
  /\ i \in Nat
  /\ revents \in [Tube -> SUBSET {"POLLIN", "POLLHUP"}]
  /\ watched \subseteq Tube /\ writer \subseteq Tube
  /\ num_procs_creat \in Int
  /\ content \in [Tube -> Nat] /\ written \in [Tube -> Nat] /\ shown \in [Tube -> Nat]

\* What poll has said of a tube is still true when the loop gets to it.
PollStillTrue ==
  pc = "scan" => \A t \in Tube : i <= t =>
    /\ "POLLIN" \in revents[t] => t \in watched /\ content[t] > 0
    /\ revents[t] = {"POLLHUP"} => t \in watched /\ t \notin writer /\ content[t] = 0

LeftAtZero == pc \in {"wait", "exited"} => num_procs_creat = 0

IOInv == IOType /\ CounterExact /\ NothingDropped /\ PollStillTrue /\ LeftAtZero

\* A tube and its twin are the two tubes of their owner.
LEMMA Twins ==
  ASSUME NEW t \in Tube
  PROVE  /\ Owner(t) \in Child /\ Twin(t) \in Tube
         /\ \/ t = 2 * Owner(t) /\ Twin(t) = 2 * Owner(t) + 1
            \/ t = 2 * Owner(t) + 1 /\ Twin(t) = 2 * Owner(t)
<1>1. t \in Nat /\ t < 2 * num_procs /\ num_procs \in Nat
  BY IOAssumption DEF Tube
<1>2. t \div 2 \in Nat /\ t % 2 \in {0, 1} /\ t = 2 * (t \div 2) + (t % 2)
  BY <1>1
<1> QED BY <1>1, <1>2 DEF Owner, Twin, Child, Tube

LEMMA Owned == \A t \in Tube : Owner(t) \in Child
BY Twins

\* The children dsmexec still listens to can be counted.
LEMMA HeardFinite ==
  IsFiniteSet(Heard) /\ Cardinality(Heard) \in Nat /\ (Cardinality(Heard) = 0 => Heard = {})
<1>1. IsFiniteSet(Child)
  BY FS_Interval, IOAssumption DEF Child
<1>2. Heard \subseteq Child
  BY DEF Heard
<1> QED BY <1>1, <1>2, FS_Subset, FS_CardinalityType, FS_EmptySet

\* What the children do is seen by no part of the invariant but NothingDropped
\* and PollStillTrue.
LEMMA ChildStep ==
  ASSUME IOInv, NEW t \in Tube, Write(t) \/ Close(t)
  PROVE  IOInv'
<1>1. UNCHANGED <<pc, i, revents, watched, num_procs_creat, shown>>
  BY DEF Write, Close, Dsmexec
<1>2. CASE Write(t)
  <2>1. /\ t \in writer /\ writer' = writer
        /\ content' = [content EXCEPT ![t] = @ + 1]
        /\ written' = [written EXCEPT ![t] = @ + 1]
    BY <1>2 DEF Write
  <2>2. IOType'
    BY <1>1, <2>1 DEF IOInv, IOType
  <2>3. NothingDropped'
    BY <1>1, <2>1 DEF IOInv, IOType, NothingDropped
  <2>4. PollStillTrue'
    BY <1>1, <2>1 DEF IOInv, IOType, PollStillTrue
  <2> QED BY <1>1, <2>2, <2>3, <2>4 DEF IOInv, CounterExact, Heard, LeftAtZero
<1>3. CASE Close(t)
  <2>1. writer' = writer \ {t} /\ UNCHANGED <<content, written>>
    BY <1>3 DEF Close
  <2> QED BY <1>1, <2>1 DEF IOInv, IOType, CounterExact, Heard, NothingDropped, PollStillTrue,
                            LeftAtZero
<1> QED BY <1>2, <1>3

\* The loop drops a tube: the counter follows the last tube of a child.
LEMMA HangUpStep ==
  ASSUME IOInv, i \in Tube, i \in watched, watched' = watched \ {i},
         num_procs_creat' = IF Twin(i) \notin watched THEN num_procs_creat - 1
                                                      ELSE num_procs_creat
  PROVE  CounterExact'
<1>1. PICK c \in Child : /\ Twin(i) \in Tube
                         /\ \/ i = 2 * c /\ Twin(i) = 2 * c + 1
                            \/ i = 2 * c + 1 /\ Twin(i) = 2 * c
  BY Twins
<1>2. c \in Heard
  BY <1>1 DEF Heard
<1>3. ASSUME NEW d \in Child, d # c PROVE 2 * d # i /\ 2 * d + 1 # i
  BY <1>1, <1>3, IOAssumption DEF Child
<1>4. \A d \in Child \ {c} : d \in Heard' <=> d \in Heard
  BY <1>3 DEF Heard
<1>5. c \in Heard' <=> Twin(i) \in watched
  BY <1>1, IOAssumption DEF Heard, Child
<1>6. CASE Twin(i) \in watched
  <2>1. Heard' = Heard
    BY <1>2, <1>4, <1>5, <1>6 DEF Heard
  <2> QED BY <1>6, <2>1 DEF IOInv, CounterExact
<1>7. CASE Twin(i) \notin watched
  <2>1. Heard' = Heard \ {c}
    BY <1>2, <1>4, <1>5, <1>7 DEF Heard
  <2>2. Cardinality(Heard') = Cardinality(Heard) - 1
    BY <1>2, <2>1, HeardFinite, FS_RemoveElement
  <2> QED BY <1>7, <2>2 DEF IOInv, CounterExact
<1> QED BY <1>6, <1>7

\* One turn of the loop over the tubes: some text, the end of a tube, or nothing.
LEMMA ScanStep == ASSUME IOInv, Scan PROVE IOInv'
<1>0. /\ i \in Tube /\ i' = i + 1 /\ pc = "scan" /\ pc' = pc
      /\ UNCHANGED <<revents, writer, written>>
  BY IOAssumption DEF Scan, World, IOInv, IOType, Tube
<1>i. i \in Nat /\ i' \in Nat /\ \A t \in Tube : i' <= t => i <= t /\ t # i
  BY <1>0, IOAssumption DEF Tube
<1>1. CASE /\ "POLLIN" \in revents[i]
           /\ content' = [content EXCEPT ![i] = @ - 1]
           /\ shown' = [shown EXCEPT ![i] = @ + 1]
           /\ UNCHANGED <<watched, num_procs_creat>>
  <2>1. content[i] > 0 /\ i \in watched
    BY <1>0, <1>1, <1>i DEF IOInv, PollStillTrue
  <2>2. IOType'
    BY <1>0, <1>1, <1>i, <2>1 DEF IOInv, IOType
  <2>3. NothingDropped'
    BY <1>0, <1>1, <2>1 DEF IOInv, IOType, NothingDropped
  <2>4. PollStillTrue'
    BY <1>0, <1>1, <1>i DEF IOInv, IOType, PollStillTrue
  <2> QED BY <1>0, <1>1, <2>2, <2>3, <2>4 DEF IOInv, CounterExact, Heard, LeftAtZero
<1>2. CASE /\ revents[i] = {"POLLHUP"}
           /\ watched' = watched \ {i}
           /\ num_procs_creat' = IF Twin(i) \notin watched THEN num_procs_creat - 1
                                                           ELSE num_procs_creat
           /\ UNCHANGED <<content, shown>>
  <2>1. i \in watched /\ i \notin writer /\ content[i] = 0
    BY <1>0, <1>2, <1>i DEF IOInv, PollStillTrue
  <2>2. IOType'
    BY <1>0, <1>2, <1>i DEF IOInv, IOType
  <2>3. CounterExact'
    BY <1>0, <1>2, <2>1, HangUpStep
  <2>4. NothingDropped'
    BY <1>0, <1>2, <2>1 DEF IOInv, IOType, NothingDropped
  <2>5. PollStillTrue'
    BY <1>0, <1>2, <1>i DEF IOInv, IOType, PollStillTrue
  <2> QED BY <1>0, <2>2, <2>3, <2>4, <2>5 DEF IOInv, LeftAtZero
<1>3. CASE /\ revents[i] = {}
           /\ UNCHANGED <<watched, num_procs_creat, content, shown>>
  BY <1>0, <1>3, <1>i DEF IOInv, IOType, CounterExact, Heard, NothingDropped, PollStillTrue,
                          LeftAtZero
<1> QED BY <1>1, <1>2, <1>3 DEF Scan

\* What poll reports of a tube is true of it when the loop begins.
LEMMA PollStep == ASSUME IOInv, Poll PROVE IOInv'
<1>1. /\ pc' = "scan" /\ i' = 0 /\ revents' = [t \in Tube |-> Revents(t)]
      /\ UNCHANGED <<watched, num_procs_creat, content, shown, writer, written>>
  BY DEF Poll, World
<1>2. ASSUME NEW t \in Tube
      PROVE  /\ Revents(t) \in SUBSET {"POLLIN", "POLLHUP"}
             /\ "POLLIN" \in Revents(t) <=> t \in watched /\ content[t] > 0
             /\ "POLLHUP" \in Revents(t) <=> t \in watched /\ t \notin writer
  BY DEF Revents
<1>3. IOType'
  <2>1. revents' \in [Tube -> SUBSET {"POLLIN", "POLLHUP"}]
    BY <1>1, <1>2
  <2> QED BY <1>1, <2>1 DEF IOInv, IOType
<1>4. PollStillTrue'
  <2> SUFFICES ASSUME NEW t \in Tube
               PROVE  /\ "POLLIN" \in Revents(t) => t \in watched /\ content[t] > 0
                      /\ Revents(t) = {"POLLHUP"} => /\ t \in watched /\ t \notin writer
                                                    /\ content[t] = 0
    BY <1>1 DEF PollStillTrue
  <2>1. content[t] \in Nat
    BY DEF IOInv, IOType
  <2>2. Revents(t) = {"POLLHUP"} => "POLLHUP" \in Revents(t) /\ "POLLIN" \notin Revents(t)
    OBVIOUS
  <2> QED BY <1>2, <2>1, <2>2
<1> QED BY <1>1, <1>3, <1>4 DEF IOInv, CounterExact, Heard, NothingDropped, LeftAtZero

\* The invariant holds from the start and is kept by every step.
LEMMA IOHolds == Spec => []IOInv
<1>1. Init => IOInv
  <2> SUFFICES ASSUME Init PROVE IOInv
    OBVIOUS
  <2>1. Heard = Child
    BY IOAssumption DEF Init, Heard, Child, Tube
  <2>2. Cardinality(Child) = num_procs
    BY FS_Interval, IOAssumption DEF Child
  <2> QED BY <2>1, <2>2, IOAssumption
          DEF Init, IOInv, IOType, CounterExact, NothingDropped, PollStillTrue, LeftAtZero
<1>2. IOInv /\ [Next]_vars => IOInv'
  <2> SUFFICES ASSUME IOInv, [Next]_vars PROVE IOInv'
    OBVIOUS
  <2>1. CASE /\ UNCHANGED <<i, revents, watched, num_procs_creat, writer, content, written, shown>>
             /\ pc' = "scan" => pc = "scan"
             /\ pc' \in {"wait", "exited"} => pc \in {"wait", "exited"} \/ num_procs_creat = 0
    BY <2>1 DEF IOInv, IOType, CounterExact, Heard, NothingDropped, PollStillTrue, LeftAtZero
  <2>2. CASE Launcher
    BY <2>1, <2>2, PollStep, ScanStep DEF Launcher, Handler, TestErrno, EndScan, WaitAll, World
  <2>3. CASE \E c \in Child : Exit(c)
    BY <2>1, <2>3 DEF Exit, Dsmexec
  <2>4. CASE UNCHANGED vars
    BY <2>1, <2>4 DEF vars
  <2> QED BY <2>2, <2>3, <2>4, ChildStep DEF Next
<1> QED BY <1>1, <1>2, PTL DEF Spec

\* The counter is exact whatever the order in which tubes close.
THEOREM CounterIsExact == Spec => []CounterExact
<1>1. IOInv => CounterExact
  BY DEF IOInv
<1> QED BY <1>1, IOHolds, PTL

\* A tube that is no longer watched has ended, and all its text was copied.
THEOREM TextKept == Spec => []NothingDropped
<1>1. IOInv => NothingDropped
  BY DEF IOInv
<1> QED BY <1>1, IOHolds, PTL

\* main returns only when all the children have written has been shown.
THEOREM OutputComplete == Spec => []MainShowsAll
<1>1. IOInv => MainShowsAll
  <2> SUFFICES ASSUME IOInv, pc \in {"wait", "exited"} PROVE writer = {} /\ shown = written
    BY DEF MainShowsAll
  <2>1. Heard = {}
    BY HeardFinite DEF IOInv, LeftAtZero, CounterExact
  <2>2. \A t \in Tube : t \notin watched
    BY <2>1, Twins DEF Heard
  <2>3. writer = {} /\ \A t \in Tube : content[t] = 0 /\ written[t] = shown[t] + content[t]
    BY <2>2 DEF IOInv, IOType, NothingDropped
  <2>4. \A t \in Tube : written[t] = shown[t]
    BY <2>3 DEF IOInv, IOType
  <2> QED BY <2>3, <2>4 DEF IOInv, IOType
<1> QED BY <1>1, IOHolds, PTL

----------------------------------------------------------------------------
(* The end by an error                                                     *)

\* Only children that have closed their tubes end, and errno says ECHILD only
\* when nobody is left.
ErrnoInv ==
  /\ pc \in {"poll", "interrupted", "scan", "wait", "exited", "failed"}
  /\ errno \in {"none", "EINTR", "ECHILD"} /\ sigchld \in BOOLEAN
  /\ process \in [Child -> {"running", "zombie", "reaped"}]
  /\ writer \subseteq Tube /\ i \in 0 .. 2 * num_procs
  /\ \A c \in Child : process[c] # "running" => \A t \in writer : Owner(t) # c
  /\ errno = "ECHILD" => \A c \in Child : process[c] = "reaped"
  /\ pc = "interrupted" => errno # "none"
  /\ FailsOnlyAtEnd

\* The handler reaps those that have ended.
LEMMA HandlerStep == ASSUME ErrnoInv, Handler PROVE ErrnoInv'
<1>1. /\ process' = Reap /\ sigchld' = FALSE /\ writer' = writer /\ pc # "failed"
      /\ i' = i
      /\ \/ pc' = "interrupted" /\ errno' = "EINTR"
         \/ /\ pc' = pc
            /\ errno' = IF \A c \in Child : process'[c] = "reaped" THEN "ECHILD" ELSE errno
  BY DEF Handler
<1>2. /\ process' \in [Child -> {"running", "zombie", "reaped"}]
      /\ \A c \in Child : /\ process[c] = "running" => process'[c] = "running"
                          /\ process[c] = "reaped" => process'[c] = "reaped"
  BY <1>1 DEF ErrnoInv, Reap
<1>3. \A c \in Child : process'[c] # "running" => \A t \in writer' : Owner(t) # c
  <2> SUFFICES ASSUME NEW c \in Child, process'[c] # "running"
               PROVE  \A t \in writer : Owner(t) # c
    BY <1>1
  <2>1. process[c] # "running"
    BY <1>2
  <2> QED BY <2>1 DEF ErrnoInv
<1> QED BY <1>1, <1>2, <1>3 DEF ErrnoInv, FailsOnlyAtEnd

LEMMA ErrnoHolds == Spec => []ErrnoInv
<1>1. Init => ErrnoInv
  <2> SUFFICES ASSUME Init PROVE ErrnoInv
    OBVIOUS
  <2>1. process \in [Child -> {"running", "zombie", "reaped"}]
        /\ \A c \in Child : process[c] = "running"
    BY DEF Init
  <2>2. i \in 0 .. 2 * num_procs
    BY IOAssumption DEF Init
  <2> QED BY <2>1, <2>2 DEF Init, ErrnoInv, FailsOnlyAtEnd
<1>2. ErrnoInv /\ [Next]_vars => ErrnoInv'
  <2> SUFFICES ASSUME ErrnoInv, [Next]_vars PROVE ErrnoInv'
    OBVIOUS
  <2>1. CASE Handler
    BY <2>1, HandlerStep
  <2>2. CASE Poll \/ WaitAll
    BY <2>2, IOAssumption DEF Poll, WaitAll, World, ErrnoInv, FailsOnlyAtEnd
  <2>3. CASE TestErrno
    <3>1. /\ pc' = IF errno = "EINTR" THEN "poll" ELSE "failed"
          /\ UNCHANGED <<i, errno, sigchld, process, writer>>
      BY <2>3 DEF TestErrno, World
    <3>2. pc' = "failed" => errno = "ECHILD"
      BY <2>3, <3>1 DEF TestErrno, ErrnoInv
    <3>3. errno = "ECHILD" => writer = {} /\ \A c \in Child : process[c] = "reaped"
      <4> SUFFICES ASSUME errno = "ECHILD" PROVE \A t \in Tube : t \notin writer
        BY DEF ErrnoInv
      <4>1. \A c \in Child : process[c] # "running"
        BY DEF ErrnoInv
      <4> QED BY <4>1, Owned DEF ErrnoInv
    <3> QED BY <3>1, <3>2, <3>3 DEF ErrnoInv, FailsOnlyAtEnd
  <2>4. CASE Scan
    <3>1. /\ pc' = pc /\ i' = i + 1 /\ i < 2 * num_procs
          /\ UNCHANGED <<errno, sigchld, process, writer>>
      BY <2>4 DEF Scan, World
    <3> QED BY <3>1, IOAssumption DEF ErrnoInv, FailsOnlyAtEnd
  <2>5. CASE EndScan
    BY <2>5 DEF EndScan, World, ErrnoInv, FailsOnlyAtEnd
  <2>6. ASSUME NEW t \in Tube, Write(t) PROVE ErrnoInv'
    BY <2>6 DEF Write, Dsmexec, ErrnoInv, FailsOnlyAtEnd
  <2>7. ASSUME NEW t \in Tube, Close(t) PROVE ErrnoInv'
    BY <2>7 DEF Close, Dsmexec, ErrnoInv, FailsOnlyAtEnd
  <2>8. ASSUME NEW c \in Child, Exit(c) PROVE ErrnoInv'
    <3>1. /\ process' = [process EXCEPT ![c] = "zombie"] /\ sigchld' = TRUE
          /\ process[c] = "running" /\ \A t \in writer : Owner(t) # c
          /\ UNCHANGED <<pc, i, errno, writer>>
      BY <2>8 DEF Exit, Dsmexec
    <3>2. \A d \in Child : process'[d] # "running" => \A t \in writer' : Owner(t) # d
      BY <3>1 DEF ErrnoInv
    <3>3. errno # "ECHILD" /\ pc # "failed"
      BY <3>1 DEF ErrnoInv, FailsOnlyAtEnd
    <3> QED BY <3>1, <3>2, <3>3 DEF ErrnoInv, FailsOnlyAtEnd
  <2>9. CASE UNCHANGED vars
    BY <2>9 DEF vars, ErrnoInv, FailsOnlyAtEnd
  <2> QED BY <2>1, <2>2, <2>3, <2>4, <2>5, <2>6, <2>7, <2>8, <2>9 DEF Next, Launcher
<1> QED BY <1>1, <1>2, PTL DEF Spec

\* An error stops dsmexec only when every child has been reaped, for any number
\* of children and any amount of text.
THEOREM FailsLate == Spec => []FailsOnlyAtEnd
<1>1. ErrnoInv => FailsOnlyAtEnd
  BY DEF ErrnoInv
<1> QED BY <1>1, ErrnoHolds, PTL

\* Every variable keeps its type; the counter, in particular, never passes the
\* number of children and never goes below zero.
THEOREM IOTyped == Spec => []TypeOK
<1>1. IOInv /\ ErrnoInv => TypeOK
  <2> SUFFICES ASSUME IOInv, ErrnoInv PROVE TypeOK
    BY DEF ErrnoInv
  <2>1. Cardinality(Heard) \in 0 .. num_procs
    <3>1. IsFiniteSet(Child) /\ Cardinality(Child) = num_procs
      BY FS_Interval, IOAssumption DEF Child
    <3>2. Heard \subseteq Child
      BY DEF Heard
    <3> QED BY <3>1, <3>2, FS_Subset, HeardFinite, IOAssumption
  <2>2. num_procs_creat \in 0 .. num_procs
    BY <2>1 DEF IOInv, CounterExact
  <2> QED BY <2>2 DEF IOInv, IOType, ErrnoInv, TypeOK
<1> QED BY <1>1, IOHolds, ErrnoHolds, PTL

=============================================================================
