--------------------------- MODULE DsmStartProofs ---------------------------
(***************************************************************************)
(* Theorems about the start of a run, DsmLaunch and DsmStart, for every    *)
(* number of processes and whatever fails: first the fork, the counter of  *)
(* the children, the barrier and the identification of the connections,    *)
(* then what dsmexec distributes, and how the processes use it to reach    *)
(* each other.                                                             *)
(***************************************************************************)
EXTENDS DsmStart, FiniteSetTheorems, SequenceTheorems, TLAPS

\* The part of the types the barrier depends on.  What dsmexec reads from the
\* connections is left unconstrained: it belongs to some set.
ChildState == [pc : {"none", "started", "counting", "ssh", "reaped"}, seen : Nat]
Shape(S) ==
  /\ launcher \in [pc : LauncherPc, i : Nat, j : S, fd : S, rang : S, out : S]
  /\ dsm_array \in [Rank -> [rang : Rank, fd_init : S, pid : S, port : S]]
BarrierType ==
  /\ \E S : Shape(S)
  /\ child \in [Rank -> ChildState]
  /\ num_procs_creat \in Nat

\* The children not forked yet have done nothing.
NotForked ==
  launcher.pc = "fork" =>
    launcher.i \in Rank /\ \A r \in Rank : launcher.i <= r => child[r].pc = "none"

\* A child writes its rank before it counts itself.
RankWritten == \A r \in Rank : child[r].pc \in {"counting", "ssh", "reaped"} => dsm_array[r].rang = r

\* CounterBehind alone is not inductive, nor is BarrierSound: what a child
\* has read becomes the counter, and the counter opens the barrier.
BarrierInv == BarrierType /\ NotForked /\ RankWritten /\ CounterBehind /\ BarrierSound

\* The children that have counted themselves are finitely many, and are all
\* the children when there are num_procs of them.
LEMMA CountedFinite ==
  /\ IsFiniteSet(Rank) /\ Cardinality(Rank) = num_procs
  /\ IsFiniteSet(Counted) /\ Cardinality(Counted) \in Nat
  /\ Cardinality(Counted) = num_procs => Counted = Rank
<1>1. IsFiniteSet(Rank) /\ Cardinality(Rank) = num_procs
  BY FS_Interval, LaunchAssumption DEF Rank
<1>2. Counted \subseteq Rank
  BY DEF Counted
<1>3. IsFiniteSet(Counted) /\ Cardinality(Counted) \in Nat
  BY <1>1, <1>2, FS_Subset, FS_CardinalityType
<1>4. Cardinality(Counted) = num_procs => Counted = Rank
  BY <1>1, <1>2, FS_Subset
<1> QED BY <1>1, <1>3, <1>4

\* A step that neither touches the children and the counter nor a rank, and
\* does not open the barrier, keeps the invariant.
LEMMA BarrierKept ==
  ASSUME BarrierInv, UNCHANGED <<child, num_procs_creat>>, (\E S : Shape(S))',
         \A r \in Rank : dsm_array'[r].rang = dsm_array[r].rang,
         launcher'.pc \notin {"fork", "barrier"},
         launcher.pc \notin {"fork", "barrier"}
  PROVE  BarrierInv'
BY DEF BarrierInv, BarrierType, NotForked, RankWritten, CounterBehind, BarrierSound, Counted

\* The steps of dsmexec after the barrier.
LEMMA AfterBarrier ==
  ASSUME BarrierInv,
         Accept \/ RecvRang \/ RecvPid \/ RecvPort \/ Prepare \/ PrepareInfos \/ Send \/ EndSend
  PROVE  BarrierInv'
<1>0. PICK S : Shape(S)
  BY DEF BarrierInv, BarrierType
<1>1. launcher.pc \notin {"fork", "barrier"} /\ UNCHANGED <<child, num_procs_creat>>
  BY DEF Accept, RecvRang, RecvPid, RecvPort, Prepare, PrepareInfos, Send, EndSend,
         Takes
<1>2. CASE Accept \/ Prepare \/ PrepareInfos \/ Send \/ EndSend
  <2>1. dsm_array' = dsm_array
    BY <1>2 DEF Accept, Prepare, PrepareInfos, Send, EndSend
  <2>2. PICK T : T = S \cup {launcher'.fd, launcher'.out, launcher'.j}
    OBVIOUS
  <2>3. /\ launcher' \in [pc : LauncherPc, i : Nat, j : T, fd : T, rang : T, out : T]
        /\ launcher'.pc \notin {"fork", "barrier"}
    <3>1. CASE Accept
      BY <1>0, <2>2, <3>1 DEF Shape, LauncherPc, Accept
    <3>2. CASE Prepare
      <4>1. PICK fd, out : launcher' = [launcher EXCEPT !.pc = "infos", !.j = 0, !.fd = fd, !.out = out]
        BY <3>2 DEF Prepare
      <4> QED BY <1>0, <1>1, <2>2, <4>1 DEF Shape, LauncherPc
    <3>3. CASE Send
      <4>1. \/ \E out : launcher' = [launcher EXCEPT !.out = out]
            \/ launcher' = [launcher EXCEPT !.pc = "killed"]
        BY <3>3 DEF Send
      <4> QED BY <1>0, <1>1, <2>2, <4>1 DEF Shape, LauncherPc
    <3>4. CASE EndSend
      BY <1>0, <2>2, <3>4 DEF Shape, LauncherPc, EndSend
    <3>5. CASE PrepareInfos
      <4>0. PICK k \in Nat : k = launcher.i + 1
        BY <1>0 DEF Shape
      <4>1. PICK j, out : \/ launcher' = [launcher EXCEPT !.out = out, !.j = j]
                          \/ launcher' = [launcher EXCEPT !.out = out, !.j = j, !.pc = "send", !.i = k]
        <5>1. PICK next : next = [launcher EXCEPT !.out = Infos(launcher.i, launcher.j), !.j = @ + 1]
          OBVIOUS
        <5>2. next.i = launcher.i
          BY <1>0, <5>1 DEF Shape
        <5>3. \/ launcher' = next
              \/ launcher' = [next EXCEPT !.pc = "send", !.i = k]
          BY <3>5, <4>0, <5>1, <5>2 DEF PrepareInfos
        <5> QED BY <5>1, <5>3
      <4> QED BY <1>0, <1>1, <2>2, <4>1 DEF Shape, LauncherPc
    <3> QED BY <1>2, <3>1, <3>2, <3>3, <3>4, <3>5
  <2>4. Shape(T)'
    BY <1>0, <2>1, <2>2, <2>3 DEF Shape, LauncherPc
  <2> QED BY <1>1, <2>1, <2>3, <2>4, BarrierKept
<1>3. CASE RecvRang \/ RecvPid \/ RecvPort
  <2>1. PICK w, at : w = NextWord /\ at = launcher.fd
    OBVIOUS
  <2>2. PICK T : T = S \cup {w, at}
    OBVIOUS
  <2>3. /\ launcher' \in [pc : LauncherPc, i : Nat, j : T, fd : T, rang : T, out : T]
        /\ launcher'.pc \notin {"fork", "barrier"}
    <3>0. PICK k \in Nat : k = launcher.i + 1
      BY <1>0 DEF Shape
    <3>1. \/ launcher' = [launcher EXCEPT !.pc = "pid", !.rang = w]
          \/ launcher' = [launcher EXCEPT !.pc = "port"]
          \/ launcher' = [launcher EXCEPT !.pc = "accept", !.i = k]
          \/ launcher' = [launcher EXCEPT !.pc = "send", !.i = 0]
      BY <1>3, <2>1, <3>0 DEF RecvRang, RecvPid, RecvPort
    <3>2. launcher \in [pc : LauncherPc, i : Nat, j : T, fd : T, rang : T, out : T] /\ w \in T
      BY <1>0, <2>2 DEF Shape
    <3>3. CASE launcher' = [launcher EXCEPT !.pc = "pid", !.rang = w]
      BY <3>2, <3>3 DEF LauncherPc
    <3>4. CASE launcher' = [launcher EXCEPT !.pc = "port"]
      BY <3>2, <3>4 DEF LauncherPc
    <3>5. CASE launcher' = [launcher EXCEPT !.pc = "accept", !.i = k]
      BY <3>2, <3>5 DEF LauncherPc
    <3>6. CASE launcher' = [launcher EXCEPT !.pc = "send", !.i = 0]
      BY <3>2, <3>6 DEF LauncherPc
    <3> QED BY <3>1, <3>3, <3>4, <3>5, <3>6
  <2>4. \/ dsm_array' = [dsm_array EXCEPT ![w].fd_init = at]
        \/ \E r : dsm_array' = [dsm_array EXCEPT ![r].pid = w]
        \/ \E r : dsm_array' = [dsm_array EXCEPT ![r].port = w]
    BY <1>3, <2>1 DEF RecvRang, RecvPid, RecvPort
  <2>5. /\ dsm_array' \in [Rank -> [rang : Rank, fd_init : T, pid : T, port : T]]
        /\ \A r \in Rank : dsm_array'[r].rang = dsm_array[r].rang
    <3>1. dsm_array \in [Rank -> [rang : Rank, fd_init : T, pid : T, port : T]]
      BY <1>0, <2>2 DEF Shape, LauncherPc
    <3>2. w \in T /\ at \in T
      BY <2>2
    <3> QED BY <2>4, <3>1, <3>2
  <2>6. Shape(T)'
    BY <2>3, <2>5 DEF Shape, LauncherPc
  <2> QED BY <1>1, <2>3, <2>5, <2>6, BarrierKept
<1> QED BY <1>2, <1>3

\* The steps that fork and count.
LEMMA ForkStep == ASSUME BarrierInv, Fork PROVE BarrierInv'
<1>0. PICK S : Shape(S)
  BY DEF BarrierInv, BarrierType
<1>1. launcher.pc = "fork" /\ launcher.i \in Rank /\ child[launcher.i].pc = "none"
  BY DEF BarrierInv, NotForked, Fork, Rank
<1>2. child' \in [Rank -> ChildState]
  BY DEF Fork, BarrierInv, BarrierType, ChildState
<1>3. \A r \in Rank : child'[r].pc = IF r = launcher.i THEN "started" ELSE child[r].pc
  BY DEF Fork, BarrierInv, BarrierType, ChildState
<1>4. \A r \in Rank : child'[r].seen = child[r].seen
  BY DEF Fork, BarrierInv, BarrierType, ChildState
<1>5. Counted' = Counted
  BY <1>1, <1>3 DEF Counted
<1>9. PICK k \in Nat : k = launcher.i + 1
  BY <1>0 DEF Shape
<1>6. /\ launcher'.pc = IF launcher.i + 1 = num_procs THEN "barrier" ELSE "fork"
      /\ launcher'.i = launcher.i + 1
      /\ launcher' \in [pc : LauncherPc, i : Nat, j : S, fd : S, rang : S, out : S]
  BY <1>0, <1>9 DEF Fork, Shape, LauncherPc
<1>8. Shape(S)'
  BY <1>0, <1>6 DEF Fork, Shape, LauncherPc
<1>7. NotForked'
  BY <1>1, <1>3, <1>6, LaunchAssumption DEF NotForked, BarrierInv, Rank
<1> QED BY <1>1, <1>2, <1>3, <1>4, <1>5, <1>6, <1>7, <1>8
        DEF Fork, BarrierInv, BarrierType, RankWritten, CounterBehind, BarrierSound

\* A child reads the counter.
LEMMA LoadStep == ASSUME BarrierInv, NEW r \in Rank, Load(r) PROVE BarrierInv'
<1>0. PICK S : Shape(S)
  BY DEF BarrierInv, BarrierType
<1>1. child' \in [Rank -> ChildState]
  BY DEF Load, BarrierInv, BarrierType, ChildState
<1>2. \A s \in Rank : child'[s] = IF s = r THEN [pc |-> "counting", seen |-> num_procs_creat]
                                          ELSE child[s]
  BY DEF Load, BarrierInv, BarrierType
<1>3. child[r].pc = "started" /\ Counted' = Counted
  BY <1>2 DEF Load, Counted
<1>4. dsm_array'[r].rang = r /\ \A s \in Rank \ {r} : dsm_array'[s] = dsm_array[s]
  BY <1>0 DEF Load, Shape
<1>5. Shape(S)'
  BY <1>0 DEF Load, Shape
<1>6. launcher' = launcher /\ num_procs_creat' = num_procs_creat
  BY DEF Load
<1>7. NotForked' /\ RankWritten' /\ CounterBehind'
  BY <1>2, <1>3, <1>4, <1>6 DEF BarrierInv, NotForked, RankWritten, CounterBehind
<1>8. BarrierSound'
  BY <1>3, <1>4, <1>6 DEF BarrierInv, BarrierSound
<1> QED BY <1>1, <1>5, <1>6, <1>7, <1>8 DEF BarrierInv, BarrierType

\* A child stores the counter and becomes one of those that are counted.
LEMMA StoreStep == ASSUME BarrierInv, NEW r \in Rank, Store(r) PROVE BarrierInv'
<1>1. child' \in [Rank -> ChildState] /\ num_procs_creat' = child[r].seen + 1
  BY DEF Store, BarrierInv, BarrierType, ChildState
<1>2. /\ \A s \in Rank : child'[s].seen = child[s].seen
      /\ \A s \in Rank : child'[s].pc = IF s = r THEN "ssh" ELSE child[s].pc
  BY DEF Store, BarrierInv, BarrierType, ChildState
<1>3. child[r].pc = "counting"
  BY DEF Store
<1>4. Counted' = Counted \cup {r} /\ r \notin Counted
  BY <1>2, <1>3 DEF Counted
<1>5. Cardinality(Counted') = Cardinality(Counted) + 1
  BY <1>4, CountedFinite, FS_AddElement
<1>6. \A s \in Rank : child[s].seen \in Nat
  BY DEF BarrierInv, BarrierType, ChildState
<1>7. CounterBehind'
  BY <1>1, <1>2, <1>5, <1>6, CountedFinite DEF BarrierInv, CounterBehind
<1>8. UNCHANGED <<launcher, dsm_array>>
  BY DEF Store
<1>9. NotForked' /\ RankWritten' /\ BarrierSound'
  BY <1>2, <1>3, <1>4, <1>8 DEF BarrierInv, NotForked, RankWritten, BarrierSound, Counted
<1> QED BY <1>1, <1>6, <1>7, <1>8, <1>9 DEF BarrierInv, BarrierType, Shape

\* The end of an ssh uncounts nobody.
LEMMA SigchldStep == ASSUME BarrierInv, NEW r \in Rank, Sigchld(r) PROVE BarrierInv'
<1>0. PICK S : Shape(S)
  BY DEF BarrierInv, BarrierType
<1>1. child' \in [Rank -> ChildState] /\ UNCHANGED <<num_procs_creat, dsm_array>>
  BY DEF Sigchld, BarrierInv, BarrierType, ChildState
<1>2. /\ \A s \in Rank : child'[s].seen = child[s].seen
      /\ \A s \in Rank : child'[s].pc = IF s = r THEN "reaped" ELSE child[s].pc
  BY DEF Sigchld, BarrierInv, BarrierType, ChildState
<1>3. child[r].pc = "ssh"
  BY DEF Sigchld
<1>4. Counted' = Counted
  BY <1>2, <1>3 DEF Counted
<1>5. \/ launcher' = launcher
      \/ (Blocked /\ launcher' = [launcher EXCEPT !.pc = "derailed"])
  BY DEF Sigchld
<1>6. Shape(S)' /\ (launcher' = launcher \/ (Blocked /\ launcher'.pc = "derailed"))
  BY <1>0, <1>1, <1>5 DEF Shape, LauncherPc
<1>7. NotForked' /\ RankWritten' /\ CounterBehind'
  BY <1>1, <1>2, <1>3, <1>4, <1>6 DEF BarrierInv, NotForked, RankWritten, CounterBehind
<1>8. BarrierSound'
  BY <1>1, <1>4, <1>6 DEF BarrierInv, BarrierSound, Blocked
<1> QED BY <1>1, <1>6, <1>7, <1>8 DEF BarrierInv, BarrierType

\* The barrier opens: the counter cannot be ahead of the children.
LEMMA PassStep == ASSUME BarrierInv, Pass PROVE BarrierInv'
<1>0. PICK S : Shape(S)
  BY DEF BarrierInv, BarrierType
<1>1. Counted = Rank
  <2>1. Cardinality(Counted) <= num_procs
    BY CountedFinite, FS_Subset DEF Counted
  <2> QED BY <2>1, CountedFinite, LaunchAssumption DEF Pass, BarrierInv, CounterBehind
<1>2. \A r \in Rank : dsm_array[r].rang = r
  BY <1>1 DEF BarrierInv, RankWritten, Counted
<1>3. Shape(S)' /\ launcher'.pc = "accept"
  BY <1>0 DEF Pass, Shape, LauncherPc
<1>4. UNCHANGED <<child, num_procs_creat, dsm_array>>
  BY DEF Pass
<1> QED BY <1>1, <1>2, <1>3, <1>4
        DEF BarrierInv, BarrierType, NotForked, RankWritten, CounterBehind, BarrierSound, Counted

LEMMA BarrierInvHolds == Spec => []BarrierInv
<1>1. Init => BarrierInv
  <2> SUFFICES ASSUME Init PROVE BarrierInv
    OBVIOUS
  <2>1. 0 \in Rank
    BY LaunchAssumption DEF Rank
  <2>2. Shape(Nat \cup {<< >>})
    BY <2>1, LaunchAssumption DEF Init, Shape, LauncherPc, None
  <2>3. child \in [Rank -> ChildState] /\ \A r \in Rank : child[r].pc = "none" /\ child[r].seen = 0
    BY DEF Init, ChildState
  <2> QED BY <2>1, <2>2, <2>3, CountedFinite
          DEF Init, BarrierInv, BarrierType, NotForked, RankWritten, CounterBehind, BarrierSound
<1>2. BarrierInv /\ [Next]_vars => BarrierInv'
  <2> SUFFICES ASSUME BarrierInv, [Next]_vars PROVE BarrierInv'
    OBVIOUS
  <2>1. CASE UNCHANGED <<launcher, num_procs_creat, child, dsm_array>>
    BY <2>1 DEF BarrierInv, BarrierType, Shape, NotForked, RankWritten, CounterBehind,
                BarrierSound, Counted
  <2>2. CASE Launch
    BY <2>2, ForkStep, PassStep, AfterBarrier DEF Launch
  <2>3. ASSUME NEW r \in Rank, Remote(r) \/ Fail(r) \/ EndPlain(r) \/ Sigchld(r)
       PROVE BarrierInv'
    BY <2>1, <2>3, LoadStep, StoreStep, SigchldStep
       DEF Remote, Fail, EndPlain, Connect, SendRangPid, SendPort, RecvSync, RecvId, RecvInfos,
           Reads, Alone
  <2> QED BY <2>1, <2>2, <2>3 DEF Next, vars
<1> QED BY <1>1, <1>2, PTL DEF Spec

\* The increments of the children may be lost, never invented: the shared
\* counter is at most the number of children that have counted themselves.
THEOREM CounterHolds == Spec => []CounterBehind
<1>1. BarrierInv => CounterBehind
  BY DEF BarrierInv
<1> QED BY <1>1, BarrierInvHolds, PTL

\* dsmexec passes the busy wait only when all of them have counted themselves.
THEOREM BarrierHolds == Spec => []BarrierSound
<1>1. BarrierInv => BarrierSound
  BY DEF BarrierInv
<1> QED BY <1>1, BarrierInvHolds, PTL

----------------------------------------------------------------------------
(* What dsmexec collects from the other machines                           *)

\* The k-th word that r sends to dsmexec.
Word(r, k) == IF k = 1 THEN r ELSE IF k = 2 THEN Pid(r) ELSE Port(r)

\* dsmexec has read the first a words of r, and r has sent the first b.
Link(r, a, b) ==
  /\ a <= b
  /\ Len(up[r]) = b - a /\ \A k \in 1 .. b - a : up[r][k] = Word(r, a + k)
  /\ dsm_array[r].fd_init = IF a = 0 THEN None ELSE r
  /\ dsm_array[r].pid = IF a < 2 THEN 0 ELSE Pid(r)
  /\ dsm_array[r].port = IF a < 3 THEN 0 ELSE Port(r)
  /\ remote[r].pc \in {"absent", "connected"} => b = 0
  /\ remote[r].pc = "known" => b = 2
  /\ b = 3 => remote[r].port = Port(r)
Linked == \A r \in Rank : \E a \in 0 .. 3, b \in {0, 2, 3} : Link(r, a, b)

\* A connection is accepted once.
Queued ==
  /\ queue \in Seq(Rank)
  /\ \A j, k \in 1 .. Len(queue) : queue[j] = queue[k] => j = k
  /\ \A k \in 1 .. Len(queue) : /\ dsm_array[queue[k]].fd_init = None
                                /\ remote[queue[k]].pc # "absent"

\* dsmexec reads from the connection that it has accepted last, and nothing
\* twice.
Serving ==
  /\ launcher.pc \in {"rang", "pid", "port"} =>
       launcher.fd \in Rank /\ remote[launcher.fd].pc # "absent"
  /\ launcher.pc = "rang" => /\ dsm_array[launcher.fd].fd_init = None
                             /\ \A k \in 1 .. Len(queue) : queue[k] # launcher.fd
  /\ launcher.pc \in {"pid", "port"} => launcher.rang = launcher.fd
  /\ launcher.pc = "pid" => /\ dsm_array[launcher.fd].fd_init # None
                            /\ dsm_array[launcher.fd].pid = 0
  /\ launcher.pc = "port" => /\ dsm_array[launcher.fd].pid # 0
                             /\ dsm_array[launcher.fd].port = 0

\* It counts the processes whose port it knows, and sends the go-ahead when it
\* knows them all.
Known == {r \in Rank : dsm_array[r].port # 0}
Collected ==
  /\ launcher.pc \in {"fork", "barrier"} => Known = {}
  /\ launcher.pc \in {"accept", "rang", "pid", "port"} => launcher.i = Cardinality(Known)
  /\ launcher.pc \in {"send", "infos"} => Known = Rank
Gate == Known = Rank \/ \A r \in Rank : down[r] = << >> /\ ~Started(r)

LinkInv == Linked /\ Queued /\ Serving /\ Collected /\ Gate

\* The types this depends on; the rest belongs to some set.
RemoteShape(S) == remote \in [Rank -> [pc : S, port : S, id : S, i : S, conn : S]]
LinkType == up \in [Rank -> Seq(Nat)] /\ \E S : RemoteShape(S)

CollectInv == LinkType /\ LinkInv

\* No rank is None, no pid and no port is 0.
LEMMA Numbers ==
  /\ None \notin Rank /\ 0 \in Rank
  /\ \A r \in Rank : r \in Nat /\ Pid(r) \in Nat \ {0} /\ Port(r) \in Nat \ {0}
BY LaunchAssumption DEF Rank, None, Pid, Port

\* What a process does to its own entry.
LEMMA RemoteUpdate ==
  ASSUME LinkType, NEW r \in Rank, NEW x, remote' = [remote EXCEPT ![r] = x],
         x = [pc |-> x.pc, port |-> x.port, id |-> x.id, i |-> x.i, conn |-> x.conn]
  PROVE  /\ \E T : RemoteShape(T)'
         /\ remote'[r] = x /\ \A s \in Rank \ {r} : remote'[s] = remote[s]
<1>0. PICK S : RemoteShape(S)
  BY DEF LinkType
<1>1. PICK T : T = S \cup {x.pc, x.port, x.id, x.i, x.conn}
  OBVIOUS
<1>2. x \in [pc : T, port : T, id : T, i : T, conn : T]
  BY <1>1
<1>3. remote \in [Rank -> [pc : T, port : T, id : T, i : T, conn : T]]
  BY <1>0, <1>1 DEF RemoteShape
<1>4. RemoteShape(T)'
  BY <1>2, <1>3 DEF RemoteShape
<1> QED BY <1>2, <1>3, <1>4

LEMMA PcUpdate ==
  ASSUME LinkType, NEW r \in Rank, NEW at, remote' = [remote EXCEPT ![r].pc = at]
  PROVE  /\ \E T : RemoteShape(T)'
         /\ remote'[r].pc = at /\ remote'[r].port = remote[r].port
         /\ \A s \in Rank \ {r} : remote'[s] = remote[s]
<1>0. PICK S : RemoteShape(S)
  BY DEF LinkType
<1>1. PICK x : x = [remote[r] EXCEPT !.pc = at]
  OBVIOUS
<1>2. /\ x.pc = at /\ x.port = remote[r].port
      /\ x = [pc |-> x.pc, port |-> x.port, id |-> x.id, i |-> x.i, conn |-> x.conn]
  BY <1>0, <1>1 DEF RemoteShape
<1>3. remote' = [remote EXCEPT ![r] = x]
  BY <1>1
<1> QED BY <1>2, <1>3, RemoteUpdate

\* Words stay where they are when nobody sends or reads.
LEMMA LinkedKept ==
  ASSUME Linked, NEW Q \in SUBSET Rank,
         \A r \in Q :
           /\ up'[r] = up[r] /\ remote'[r].port = remote[r].port
           /\ dsm_array'[r].fd_init = dsm_array[r].fd_init
           /\ dsm_array'[r].pid = dsm_array[r].pid
           /\ dsm_array'[r].port = dsm_array[r].port
           /\ remote'[r].pc \in {"absent", "connected"} => remote[r].pc \in {"absent", "connected"}
           /\ remote'[r].pc = "known" => remote[r].pc = "known"
  PROVE  \A r \in Q : (\E a \in 0 .. 3, b \in {0, 2, 3} : Link(r, a, b))'
<1> SUFFICES ASSUME NEW r \in Q
             PROVE  (\E a \in 0 .. 3, b \in {0, 2, 3} : Link(r, a, b))'
  OBVIOUS
<1>1. PICK a \in 0 .. 3, b \in {0, 2, 3} : Link(r, a, b)
  BY DEF Linked
<1>2. Link(r, a, b)'
  BY <1>1 DEF Link
<1> QED BY <1>2

\* The next word from r is the one after those that dsmexec has read.
LEMMA WordRead ==
  ASSUME LinkType, NEW r \in Rank, NEW a \in 0 .. 3, NEW b \in {0, 2, 3}, Link(r, a, b),
         up[r] # << >>
  PROVE  /\ a + 1 \in 1 .. b /\ Head(up[r]) = Word(r, a + 1)
         /\ Len(Tail(up[r])) = b - (a + 1)
         /\ \A k \in 1 .. b - (a + 1) : Tail(up[r])[k] = Word(r, a + 1 + k)
<1>1. up[r] \in Seq(Nat) /\ Len(up[r]) \in Nat \ {0}
  BY DEF LinkType
<1>2. a + 1 \in 1 .. b /\ Len(Tail(up[r])) = b - (a + 1) /\ Head(up[r]) = up[r][1]
  <2>1. Len(up[r]) = b - a /\ a <= b
    BY DEF Link
  <2>2. PICK w \in Seq(Nat) : w = up[r] /\ w # << >>
    BY <1>1
  <2>3. Len(Tail(w)) = Len(w) - 1 /\ Head(w) = w[1] /\ Len(w) \in Nat
    BY <2>2
  <2> QED BY <1>1, <2>1, <2>2, <2>3
<1>3. Head(up[r]) = Word(r, a + 1)
  BY <1>2 DEF Link
<1>4. ASSUME NEW k \in 1 .. b - (a + 1)
     PROVE  Tail(up[r])[k] = Word(r, a + 1 + k)
  <2>1. Tail(up[r])[k] = up[r][k + 1] /\ k + 1 \in 1 .. b - a
    BY <1>1, <1>2
  <2> QED BY <2>1 DEF Link
<1> QED BY <1>2, <1>3, <1>4

\* The step of dsmexec that reads a word of r has its effect on entry r.
LEMMA ReadStep ==
  ASSUME CollectInv, NEW r \in Rank, up[r] # << >>, up' = [up EXCEPT ![r] = Tail(@)],
         NEW a \in 0 .. 3, NEW b \in {0, 2, 3}, Link(r, a, b), UNCHANGED remote,
         dsm_array'[r].fd_init = r,
         dsm_array'[r].pid = IF a + 1 < 2 THEN 0 ELSE Pid(r),
         dsm_array'[r].port = IF a + 1 < 3 THEN 0 ELSE Port(r),
         \A s \in Rank \ {r} : dsm_array'[s] = dsm_array[s]
  PROVE  LinkType' /\ Linked'
<1>1. up'[r] = Tail(up[r]) /\ \A s \in Rank \ {r} : up'[s] = up[s]
  BY DEF CollectInv, LinkType
<1>0. LinkType
  BY DEF CollectInv
<1>2. LinkType'
  <2>1. up[r] \in Seq(Nat)
    BY <1>0 DEF LinkType
  <2>2. Tail(up[r]) \in Seq(Nat)
    BY <2>1
  <2>3. up' \in [Rank -> Seq(Nat)]
    BY <1>0, <2>2 DEF LinkType
  <2> QED BY <1>0, <2>3 DEF LinkType, RemoteShape
<1>3. /\ a + 1 \in 1 .. b /\ Len(up'[r]) = b - (a + 1)
      /\ \A k \in 1 .. b - (a + 1) : up'[r][k] = Word(r, a + 1 + k)
  <2>1. /\ a + 1 \in 1 .. b /\ Len(Tail(up[r])) = b - (a + 1)
        /\ \A k \in 1 .. b - (a + 1) : Tail(up[r])[k] = Word(r, a + 1 + k)
    BY <1>0, WordRead
  <2> QED BY <1>1, <2>1
<1>4. Link(r, a + 1, b)'
  BY <1>3 DEF Link
<1>5. a + 1 \in 0 .. 3
  BY <1>3
<1>6. \A s \in Rank \ {r} : (\E i \in 0 .. 3, j \in {0, 2, 3} : Link(s, i, j))'
  BY <1>1, LinkedKept DEF CollectInv, LinkInv
<1> QED BY <1>2, <1>4, <1>5, <1>6 DEF Linked

\* The connections that wait are those of processes that nothing is known of.
LEMMA QueuedKept ==
  ASSUME Queued, UNCHANGED queue,
         \A k \in 1 .. Len(queue) : /\ dsm_array'[queue[k]].fd_init = dsm_array[queue[k]].fd_init
                                    /\ remote'[queue[k]].pc = "absent" => remote[queue[k]].pc = "absent"
  PROVE  Queued'
<1>1. \A k \in 1 .. Len(queue) : /\ dsm_array'[queue[k]].fd_init = None
                                 /\ remote'[queue[k]].pc # "absent"
  <2> SUFFICES ASSUME NEW k \in 1 .. Len(queue)
               PROVE  dsm_array'[queue[k]].fd_init = None /\ remote'[queue[k]].pc # "absent"
    OBVIOUS
  <2>1. dsm_array[queue[k]].fd_init = None /\ remote[queue[k]].pc # "absent"
    BY DEF Queued
  <2> QED BY <2>1
<1>2. queue \in Seq(Rank) /\ \A j, k \in 1 .. Len(queue) : queue[j] = queue[k] => j = k
  BY DEF Queued
<1>3. queue' = queue
  OBVIOUS
<1> QED BY <1>1, <1>2, <1>3 DEF Queued

\* The first word from a connection is the rank of the process behind it.
LEMMA RangHeard ==
  ASSUME CollectInv, RecvRang
  PROVE  launcher.fd \in Rank /\ NextWord = launcher.fd
<1>1. PICK r \in Rank : r = launcher.fd
  BY DEF CollectInv, LinkInv, Serving, RecvRang, Takes
<1>2. up[r] # << >> /\ launcher.pc = "rang"
  BY <1>1 DEF RecvRang, Takes
<1>3. dsm_array[r].fd_init = None
  BY <1>1, <1>2 DEF CollectInv, LinkInv, Serving
<1>4. PICK a \in 0 .. 3, b \in {0, 2, 3} : Link(r, a, b)
  BY DEF CollectInv, LinkInv, Linked
<1>5. a = 0
  BY <1>3, <1>4, Numbers DEF Link
<1> QED BY <1>1, <1>2, <1>4, <1>5, WordRead DEF NextWord, Word, CollectInv

LEMMA RecvRangStep == ASSUME BarrierInv, CollectInv, RecvRang PROVE CollectInv'
<1>0. PICK S : Shape(S)
  BY DEF BarrierInv, BarrierType
<1>1. PICK r \in Rank : r = launcher.fd
  BY DEF CollectInv, LinkInv, Serving, RecvRang, Takes
<1>2. /\ up[r] # << >> /\ up' = [up EXCEPT ![r] = Tail(@)]
      /\ UNCHANGED <<remote, queue, down>> /\ launcher.pc = "rang"
  BY <1>1 DEF RecvRang, Takes
<1>3. /\ dsm_array[r].fd_init = None /\ \A k \in 1 .. Len(queue) : queue[k] # r
      /\ remote[r].pc # "absent"
  BY <1>1, <1>2 DEF CollectInv, LinkInv, Serving
<1>4. PICK a \in 0 .. 3, b \in {0, 2, 3} : Link(r, a, b)
  BY DEF CollectInv, LinkInv, Linked
<1>5. a = 0
  BY <1>3, <1>4, Numbers DEF Link
<1>6. NextWord = r
  BY <1>1, RangHeard
<1>7. /\ dsm_array' = [dsm_array EXCEPT ![r].fd_init = r]
      /\ launcher' = [launcher EXCEPT !.pc = "pid", !.rang = r]
  BY <1>1, <1>6 DEF RecvRang
<1>8. /\ dsm_array'[r].fd_init = r /\ dsm_array'[r].pid = dsm_array[r].pid
      /\ \A s \in Rank : dsm_array'[s].port = dsm_array[s].port
      /\ \A s \in Rank \ {r} : dsm_array'[s] = dsm_array[s]
  BY <1>0, <1>7 DEF Shape
<1>9. launcher'.pc = "pid" /\ launcher'.rang = r /\ launcher'.fd = r /\ launcher'.i = launcher.i
  BY <1>0, <1>1, <1>7 DEF Shape
<1>10. dsm_array[r].pid = 0 /\ dsm_array[r].port = 0
  BY <1>4, <1>5 DEF Link
<1>11. LinkType' /\ Linked'
  <2>1. /\ dsm_array'[r].fd_init = r
        /\ dsm_array'[r].pid = IF a + 1 < 2 THEN 0 ELSE Pid(r)
        /\ dsm_array'[r].port = IF a + 1 < 3 THEN 0 ELSE Port(r)
    BY <1>5, <1>8, <1>10
  <2> QED BY <1>2, <1>4, <1>8, <2>1, ReadStep
<1>12. Queued'
  BY <1>2, <1>3, <1>8, QueuedKept DEF CollectInv, LinkInv, Queued
<1>13. Serving'
  BY <1>2, <1>3, <1>8, <1>9, <1>10, Numbers DEF Serving
<1>14. Known' = Known
  BY <1>8 DEF Known
<1>15. Collected' /\ Gate'
  <2>1. Collected'
    BY <1>2, <1>9, <1>14 DEF CollectInv, LinkInv, Collected
  <2>2. Gate'
    BY <1>2, <1>14 DEF CollectInv, LinkInv, Gate, Started
  <2> QED BY <2>1, <2>2
<1> QED BY <1>11, <1>12, <1>13, <1>15 DEF CollectInv, LinkInv

LEMMA RecvPidStep == ASSUME BarrierInv, CollectInv, RecvPid PROVE CollectInv'
<1>0. PICK S : Shape(S)
  BY DEF BarrierInv, BarrierType
<1>1. PICK r \in Rank : r = launcher.fd
  BY DEF CollectInv, LinkInv, Serving, RecvPid, Takes
<1>2. /\ up[r] # << >> /\ up' = [up EXCEPT ![r] = Tail(@)]
      /\ UNCHANGED <<remote, queue, down>> /\ launcher.pc = "pid"
  BY <1>1 DEF RecvPid, Takes
<1>3. /\ dsm_array[r].fd_init # None /\ dsm_array[r].pid = 0
      /\ remote[r].pc # "absent" /\ launcher.rang = r
  BY <1>1, <1>2 DEF CollectInv, LinkInv, Serving
<1>4. PICK a \in 0 .. 3, b \in {0, 2, 3} : Link(r, a, b)
  BY DEF CollectInv, LinkInv, Linked
<1>5. a = 1
  BY <1>3, <1>4, Numbers DEF Link
<1>6. NextWord = Pid(r)
  BY <1>1, <1>2, <1>4, <1>5, WordRead DEF NextWord, Word, CollectInv
<1>7. /\ dsm_array' = [dsm_array EXCEPT ![r].pid = Pid(r)]
      /\ launcher' = [launcher EXCEPT !.pc = "port"]
  BY <1>3, <1>6 DEF RecvPid
<1>8. /\ dsm_array'[r].pid = Pid(r)
      /\ \A s \in Rank : /\ dsm_array'[s].port = dsm_array[s].port
                         /\ dsm_array'[s].fd_init = dsm_array[s].fd_init
      /\ \A s \in Rank \ {r} : dsm_array'[s] = dsm_array[s]
  BY <1>0, <1>7 DEF Shape
<1>9. launcher'.pc = "port" /\ launcher'.rang = r /\ launcher'.fd = r /\ launcher'.i = launcher.i
  BY <1>0, <1>1, <1>3, <1>7 DEF Shape
<1>10. dsm_array[r].fd_init = r /\ dsm_array[r].port = 0
  BY <1>4, <1>5 DEF Link
<1>11. LinkType' /\ Linked'
  <2>1. /\ dsm_array'[r].fd_init = r
        /\ dsm_array'[r].pid = IF a + 1 < 2 THEN 0 ELSE Pid(r)
        /\ dsm_array'[r].port = IF a + 1 < 3 THEN 0 ELSE Port(r)
    BY <1>5, <1>8, <1>10
  <2> QED BY <1>2, <1>4, <1>8, <2>1, ReadStep
<1>12. Queued'
  BY <1>2, <1>8, QueuedKept DEF CollectInv, LinkInv, Queued
<1>13. Serving'
  BY <1>2, <1>3, <1>8, <1>9, <1>10, Numbers DEF Serving
<1>14. Known' = Known
  BY <1>8 DEF Known
<1>15. Collected' /\ Gate'
  <2>1. Collected'
    BY <1>2, <1>9, <1>14 DEF CollectInv, LinkInv, Collected
  <2>2. Gate'
    BY <1>2, <1>14 DEF CollectInv, LinkInv, Gate, Started
  <2> QED BY <2>1, <2>2
<1> QED BY <1>11, <1>12, <1>13, <1>15 DEF CollectInv, LinkInv

\* One more port is known; after num_procs ports, all are.
LEMMA OneMorePort ==
  ASSUME NEW r \in Rank \ Known, Known' = Known \cup {r}
  PROVE  /\ Cardinality(Known') = Cardinality(Known) + 1
         /\ Cardinality(Known) + 1 >= num_procs => Known' = Rank
<1>1. IsFiniteSet(Rank) /\ Cardinality(Rank) = num_procs /\ num_procs \in Nat
  BY CountedFinite, LaunchAssumption
<1>2. Known \subseteq Rank /\ Known' \subseteq Rank
  BY DEF Known
<1>3. IsFiniteSet(Known) /\ IsFiniteSet(Known') /\ Cardinality(Known') \in Nat
  BY <1>1, <1>2, FS_Subset, FS_CardinalityType
<1>4. Cardinality(Known') = Cardinality(Known) + 1
  BY <1>3, FS_AddElement
<1>5. Cardinality(Known') <= num_procs /\ (Cardinality(Known') = num_procs => Known' = Rank)
  BY <1>1, <1>2, FS_Subset
<1> QED BY <1>1, <1>3, <1>4, <1>5

LEMMA RecvPortStep == ASSUME BarrierInv, CollectInv, RecvPort PROVE CollectInv'
<1>0. PICK S : Shape(S)
  BY DEF BarrierInv, BarrierType
<1>1. PICK r \in Rank : r = launcher.fd
  BY DEF CollectInv, LinkInv, Serving, RecvPort, Takes
<1>2. /\ up[r] # << >> /\ up' = [up EXCEPT ![r] = Tail(@)]
      /\ UNCHANGED <<remote, queue, down>> /\ launcher.pc = "port"
  BY <1>1 DEF RecvPort, Takes
<1>3. dsm_array[r].pid # 0 /\ dsm_array[r].port = 0 /\ launcher.rang = r
  BY <1>1, <1>2 DEF CollectInv, LinkInv, Serving
<1>4. PICK a \in 0 .. 3, b \in {0, 2, 3} : Link(r, a, b)
  BY DEF CollectInv, LinkInv, Linked
<1>5. a = 2
  BY <1>3, <1>4, Numbers DEF Link
<1>6. NextWord = Port(r)
  BY <1>1, <1>2, <1>4, <1>5, WordRead DEF NextWord, Word, CollectInv
<1>7. dsm_array' = [dsm_array EXCEPT ![r].port = Port(r)]
  BY <1>3, <1>6 DEF RecvPort
<1>8. /\ dsm_array'[r].port = Port(r)
      /\ \A s \in Rank : /\ dsm_array'[s].pid = dsm_array[s].pid
                         /\ dsm_array'[s].fd_init = dsm_array[s].fd_init
      /\ \A s \in Rank \ {r} : dsm_array'[s] = dsm_array[s]
  BY <1>0, <1>7 DEF Shape
<1>9. /\ launcher.i + 1 < num_procs => launcher'.pc = "accept" /\ launcher'.i = launcher.i + 1
      /\ ~(launcher.i + 1 < num_procs) => launcher'.pc = "send"
  <2>1. PICK k : k = launcher.i + 1
    OBVIOUS
  <2>2. launcher' = IF k < num_procs THEN [launcher EXCEPT !.pc = "accept", !.i = k]
                                     ELSE [launcher EXCEPT !.pc = "send", !.i = 0]
    BY <2>1 DEF RecvPort
  <2> QED BY <1>0, <2>1, <2>2 DEF Shape
<1>10. dsm_array[r].fd_init = r /\ dsm_array[r].pid = Pid(r)
  BY <1>4, <1>5 DEF Link
<1>11. LinkType' /\ Linked'
  <2>1. /\ dsm_array'[r].fd_init = r
        /\ dsm_array'[r].pid = IF a + 1 < 2 THEN 0 ELSE Pid(r)
        /\ dsm_array'[r].port = IF a + 1 < 3 THEN 0 ELSE Port(r)
    BY <1>5, <1>8, <1>10
  <2> QED BY <1>2, <1>4, <1>8, <2>1, ReadStep
<1>12. Queued'
  BY <1>2, <1>8, QueuedKept DEF CollectInv, LinkInv, Queued
<1>13. Serving'
  BY <1>9 DEF Serving
<1>14. Known' = Known \cup {r} /\ r \notin Known
  BY <1>3, <1>8, Numbers DEF Known
<1>15. Collected'
  <2>1. launcher.i = Cardinality(Known)
    BY <1>2 DEF CollectInv, LinkInv, Collected
  <2>2. launcher.i \in Nat /\ num_procs \in Nat
    BY <1>0, LaunchAssumption DEF Shape
  <2>3. /\ Cardinality(Known') = launcher.i + 1
        /\ launcher.i + 1 >= num_procs => Known' = Rank
    BY <1>14, <2>1, OneMorePort
  <2> QED BY <1>9, <2>2, <2>3 DEF Collected
<1>16. Gate'
  <2>1. CASE Known = Rank
    BY <1>14, <2>1
  <2>2. CASE Known # Rank
    BY <1>2, <2>2 DEF CollectInv, LinkInv, Gate, Started
  <2> QED BY <2>1, <2>2
<1> QED BY <1>11, <1>12, <1>13, <1>15, <1>16 DEF CollectInv, LinkInv

\* accept takes the first of the queue.
LEMMA AcceptStep == ASSUME BarrierInv, CollectInv, Accept PROVE CollectInv'
<1>0. PICK S : Shape(S)
  BY DEF BarrierInv, BarrierType
<1>1. /\ queue \in Seq(Rank) /\ queue # << >> /\ queue' = Tail(queue)
      /\ UNCHANGED <<dsm_array, remote, up, down>> /\ launcher.pc = "accept"
  BY DEF Accept, CollectInv, LinkInv, Queued
<1>2. PICK r \in Rank : r = queue[1] /\ r = Head(queue) /\ 1 \in 1 .. Len(queue)
  BY <1>1
<1>3. launcher'.pc = "rang" /\ launcher'.fd = r /\ launcher'.i = launcher.i
  BY <1>0, <1>2 DEF Accept, Shape
<1>4. /\ queue' \in Seq(Rank) /\ Len(queue') = Len(queue) - 1
      /\ \A k \in 1 .. Len(queue') : queue'[k] = queue[k + 1] /\ k + 1 \in 1 .. Len(queue)
  BY <1>1
<1>5. Queued'
  <2>1. \A j, k \in 1 .. Len(queue) : queue[j] = queue[k] => j = k
    BY DEF CollectInv, LinkInv, Queued
  <2>2. ASSUME NEW j \in 1 .. Len(queue'), NEW k \in 1 .. Len(queue'), queue'[j] = queue'[k]
       PROVE  j = k
    <3>1. queue[j + 1] = queue[k + 1]
      BY <1>4, <2>2
    <3>2. j + 1 = k + 1
      BY <1>4, <2>1, <3>1
    <3> QED BY <3>2
  <2>3. ASSUME NEW k \in 1 .. Len(queue')
       PROVE  dsm_array'[queue'[k]].fd_init = None /\ remote'[queue'[k]].pc # "absent"
    <3>1. PICK j \in 1 .. Len(queue) : queue'[k] = queue[j]
      BY <1>4
    <3>2. dsm_array[queue[j]].fd_init = None /\ remote[queue[j]].pc # "absent"
      BY DEF CollectInv, LinkInv, Queued
    <3> QED BY <1>1, <3>1, <3>2
  <2> QED BY <1>4, <2>2, <2>3 DEF Queued, None
<1>6. \A k \in 1 .. Len(queue') : queue'[k] # r
  <2>1. \A j, k \in 1 .. Len(queue) : queue[j] = queue[k] => j = k
    BY DEF CollectInv, LinkInv, Queued
  <2>2. ASSUME NEW k \in 1 .. Len(queue'), queue'[k] = r PROVE FALSE
    <3>1. k + 1 = 1
      BY <1>2, <1>4, <2>1, <2>2
    <3> QED BY <3>1
  <2> QED BY <2>2
<1>7. dsm_array[r].fd_init = None /\ remote[r].pc # "absent"
  BY <1>2 DEF CollectInv, LinkInv, Queued
<1>8. Serving'
  BY <1>1, <1>3, <1>6, <1>7 DEF Serving
<1>9. Known' = Known
  BY <1>1 DEF Known
<1>10. Collected' /\ Gate'
  <2>1. Collected'
    BY <1>1, <1>3, <1>9 DEF CollectInv, LinkInv, Collected
  <2>2. Gate'
    BY <1>1, <1>9 DEF CollectInv, LinkInv, Gate, Started
  <2> QED BY <2>1, <2>2
<1>11. LinkType'
  BY <1>1 DEF CollectInv, LinkType, RemoteShape
<1>12. Linked'
  BY <1>1, LinkedKept DEF CollectInv, LinkInv, Linked
<1> QED BY <1>5, <1>8, <1>10, <1>11, <1>12 DEF CollectInv, LinkInv

\* What concerns neither the connections nor a process keeps the invariant if
\* dsmexec is where it should be.
LEMMA LauncherStep ==
  ASSUME CollectInv, UNCHANGED <<remote, queue, up>>, Serving', Collected', Gate',
         \A r \in Rank : /\ dsm_array'[r].fd_init = dsm_array[r].fd_init
                        /\ dsm_array'[r].pid = dsm_array[r].pid
                        /\ dsm_array'[r].port = dsm_array[r].port
  PROVE  CollectInv'
<1>1. LinkType'
  BY DEF CollectInv, LinkType, RemoteShape
<1>2. Linked'
  BY LinkedKept DEF CollectInv, LinkInv, Linked
<1>3. Queued'
  BY QueuedKept DEF CollectInv, LinkInv, Queued
<1> QED BY <1>1, <1>2, <1>3 DEF CollectInv, LinkInv

LEMMA DsmexecStep ==
  ASSUME BarrierInv, CollectInv, Fork \/ Pass \/ Prepare \/ PrepareInfos \/ Send \/ EndSend
  PROVE  CollectInv'
<1>0. PICK S : Shape(S)
  BY DEF BarrierInv, BarrierType
<1>1. UNCHANGED <<dsm_array, remote, queue, up>>
  BY DEF Fork, Pass, Prepare, PrepareInfos, Send, EndSend
<1>2. Known' = Known /\ \A r \in Rank : Started(r)' = Started(r)
  BY <1>1 DEF Known, Started
<1>3. CASE Fork
  <2>1. launcher.pc = "fork" /\ launcher'.pc \in {"fork", "barrier"} /\ UNCHANGED down
    BY <1>0, <1>3 DEF Fork, Shape
  <2>2. Serving' /\ Collected' /\ Gate'
    BY <1>2, <2>1 DEF CollectInv, LinkInv, Serving, Collected, Gate
  <2> QED BY <1>1, <2>2, LauncherStep
<1>4. CASE Pass
  <2>1. /\ launcher.pc = "barrier" /\ launcher'.pc = "accept" /\ launcher'.i = 0
        /\ UNCHANGED down
    BY <1>0, <1>4 DEF Pass, Shape
  <2>2. Serving' /\ Collected' /\ Gate'
    BY <1>2, <2>1, FS_EmptySet DEF CollectInv, LinkInv, Serving, Collected, Gate
  <2> QED BY <1>1, <2>2, LauncherStep
<1>5. CASE Prepare \/ PrepareInfos \/ Send \/ EndSend
  <2>1. launcher.pc \in {"send", "infos"} /\ launcher'.pc \in {"send", "infos", "killed", "io"}
    <3>1. PICK x : x = [launcher EXCEPT !.out = Infos(launcher.i, launcher.j), !.j = @ + 1]
      OBVIOUS
    <3>2. PrepareInfos => \/ launcher' = x
                          \/ launcher' = [x EXCEPT !.pc = "send", !.i = @ + 1]
      BY <3>1 DEF PrepareInfos
    <3> QED BY <1>0, <1>5, <3>1, <3>2 DEF Prepare, PrepareInfos, Send, EndSend, Shape
  <2>2. Known = Rank
    BY <2>1 DEF CollectInv, LinkInv, Collected
  <2>3. Serving' /\ Collected' /\ Gate'
    BY <1>2, <2>1, <2>2 DEF Serving, Collected, Gate
  <2> QED BY <1>1, <2>3, LauncherStep
<1> QED BY <1>3, <1>4, <1>5

\* The children write ranks and counters, and end.
LEMMA ChildStep ==
  ASSUME BarrierInv, CollectInv, NEW r \in Rank, Load(r) \/ Store(r) \/ Sigchld(r)
  PROVE  CollectInv'
<1>0. PICK S : Shape(S)
  BY DEF BarrierInv, BarrierType
<1>1. UNCHANGED <<remote, queue, up, down>>
  BY DEF Load, Store, Sigchld
<1>2. launcher' = launcher \/ (Blocked /\ launcher'.pc = "derailed")
  BY <1>0 DEF Load, Store, Sigchld, Shape
<1>3. \A s \in Rank : /\ dsm_array'[s].fd_init = dsm_array[s].fd_init
                     /\ dsm_array'[s].pid = dsm_array[s].pid
                     /\ dsm_array'[s].port = dsm_array[s].port
  BY <1>0 DEF Load, Store, Sigchld, Shape
<1>4. Known' = Known /\ \A s \in Rank : Started(s)' = Started(s)
  BY <1>1, <1>3 DEF Known, Started
<1>5. Collected' /\ Gate'
  BY <1>1, <1>2, <1>4 DEF CollectInv, LinkInv, Collected, Gate
<1>6. Serving'
  <2>1. CASE launcher' = launcher
    BY <1>1, <1>3, <2>1 DEF CollectInv, LinkInv, Serving
  <2>2. CASE launcher'.pc = "derailed"
    BY <2>2 DEF Serving
  <2> QED BY <1>2, <2>1, <2>2
<1> QED BY <1>1, <1>3, <1>5, <1>6, LauncherStep

\* A step of the process r, which takes it past "absent".
LEMMA ProcessStep ==
  ASSUME CollectInv, NEW r \in Rank, UNCHANGED <<launcher, dsm_array>>,
         up' \in [Rank -> Seq(Nat)], \E T : RemoteShape(T)',
         \A s \in Rank \ {r} : up'[s] = up[s] /\ remote'[s] = remote[s],
         (\E a \in 0 .. 3, b \in {0, 2, 3} : Link(r, a, b))',
         remote'[r].pc # "absent", Queued',
         launcher.pc = "rang" => \A k \in 1 .. Len(queue') : queue'[k] # launcher.fd,
         Known = Rank \/ (UNCHANGED down /\ ~Started(r)')
  PROVE  CollectInv'
<1>1. LinkType'
  BY DEF LinkType
<1>2. \A s \in Rank \ {r} : (\E i \in 0 .. 3, j \in {0, 2, 3} : Link(s, i, j))'
  BY LinkedKept DEF CollectInv, LinkInv
<1>3. Linked'
  BY <1>2 DEF Linked
<1>4. Known' = Known
  BY DEF Known
<1>5. Collected'
  BY <1>4 DEF CollectInv, LinkInv, Collected
<1>6. \A s \in Rank : remote[s].pc # "absent" => remote'[s].pc # "absent"
  OBVIOUS
<1>7. Serving'
  BY <1>6 DEF CollectInv, LinkInv, Serving, None
<1>8. Gate'
  BY <1>4 DEF CollectInv, LinkInv, Gate, Started
<1> QED BY <1>1, <1>3, <1>5, <1>7, <1>8 DEF CollectInv, LinkInv

LEMMA ConnectStep == ASSUME CollectInv, NEW r \in Rank, Connect(r) PROVE CollectInv'
<1>1. /\ remote[r].pc = "absent" /\ queue' = Append(queue, r)
      /\ UNCHANGED <<launcher, dsm_array, up, down>>
  BY DEF Connect, Alone
<1>2. /\ \E T : RemoteShape(T)'
      /\ remote'[r].pc = "connected" /\ remote'[r].port = remote[r].port
      /\ \A s \in Rank \ {r} : remote'[s] = remote[s]
  <2>1. LinkType /\ remote' = [remote EXCEPT ![r].pc = "connected"]
    BY DEF Connect, CollectInv
  <2> QED BY <2>1, PcUpdate
<1>3. dsm_array[r].fd_init = None
  BY <1>1 DEF CollectInv, LinkInv, Linked, Link
<1>4. \A s \in {r} : (\E a \in 0 .. 3, b \in {0, 2, 3} : Link(s, a, b))'
  BY <1>1, <1>2, LinkedKept DEF CollectInv, LinkInv
<1>5. /\ queue \in Seq(Rank) /\ queue' \in Seq(Rank) /\ Len(queue') = Len(queue) + 1
      /\ queue'[Len(queue) + 1] = r /\ \A k \in 1 .. Len(queue) : queue'[k] = queue[k]
  BY <1>1 DEF CollectInv, LinkInv, Queued
<1>6. \A k \in 1 .. Len(queue) : queue[k] \in Rank \ {r}
  BY <1>1, <1>5 DEF CollectInv, LinkInv, Queued
<1>7. \A k \in 1 .. Len(queue') : k \in 1 .. Len(queue) \/ k = Len(queue) + 1
  BY <1>5
<1>8. Queued'
  <2>1. ASSUME NEW j \in 1 .. Len(queue'), NEW k \in 1 .. Len(queue'), queue'[j] = queue'[k]
       PROVE  j = k
    <3>1. \A m, n \in 1 .. Len(queue) : queue[m] = queue[n] => m = n
      BY DEF CollectInv, LinkInv, Queued
    <3> QED BY <1>5, <1>6, <1>7, <2>1, <3>1
  <2>2. ASSUME NEW k \in 1 .. Len(queue')
       PROVE  dsm_array'[queue'[k]].fd_init = None /\ remote'[queue'[k]].pc # "absent"
    <3>1. CASE k \in 1 .. Len(queue)
      <4>1. dsm_array[queue[k]].fd_init = None /\ remote[queue[k]].pc # "absent"
        BY <3>1 DEF CollectInv, LinkInv, Queued
      <4> QED BY <1>1, <1>2, <1>5, <1>6, <3>1, <4>1
    <3>2. CASE k = Len(queue) + 1
      BY <1>1, <1>2, <1>3, <1>5, <3>2
    <3> QED BY <1>7, <3>1, <3>2
  <2> QED BY <1>5, <2>1, <2>2 DEF Queued, None
<1>9. launcher.pc = "rang" => \A k \in 1 .. Len(queue') : queue'[k] # launcher.fd
  BY <1>1, <1>5, <1>7 DEF CollectInv, LinkInv, Serving
<1>10. up' \in [Rank -> Seq(Nat)] /\ \A s \in Rank : up'[s] = up[s]
  BY <1>1 DEF CollectInv, LinkType
<1> QED BY <1>1, <1>2, <1>4, <1>8, <1>9, <1>10, ProcessStep DEF Started

\* The rank and the pid leave, then the port.
LEMMA SendRangPidStep ==
  ASSUME CollectInv, NEW r \in Rank, SendRangPid(r) PROVE CollectInv'
<1>1. /\ remote[r].pc = "connected" /\ up' = [up EXCEPT ![r] = @ \o <<r, Pid(r)>>]
      /\ UNCHANGED <<launcher, dsm_array, queue, down>>
  BY DEF SendRangPid, Alone
<1>2. /\ \E T : RemoteShape(T)'
      /\ remote'[r].pc = "known" /\ remote'[r].port = remote[r].port
      /\ \A s \in Rank \ {r} : remote'[s] = remote[s]
  <2>1. LinkType /\ remote' = [remote EXCEPT ![r].pc = "known"]
    BY DEF SendRangPid, CollectInv
  <2> QED BY <2>1, PcUpdate
<1>3. up[r] \in Seq(Nat) /\ up \in [Rank -> Seq(Nat)]
  BY DEF CollectInv, LinkType
<1>4. PICK new \in Seq(Nat) : new = up[r] \o <<r, Pid(r)>>
  <2>1. PICK pid \in Nat : pid = Pid(r) /\ r \in Nat
    BY Numbers
  <2>2. <<r, pid>> \in Seq(Nat)
    BY <2>1
  <2>3. up[r] \o <<r, pid>> \in Seq(Nat)
    BY <1>3, <2>2
  <2> QED BY <2>1, <2>3
<1>5. up' \in [Rank -> Seq(Nat)] /\ up'[r] = new /\ \A s \in Rank \ {r} : up'[s] = up[s]
  BY <1>1, <1>3, <1>4
<1>6. Link(r, 0, 0)
  BY <1>1 DEF CollectInv, LinkInv, Linked, Link
<1>7. Len(new) = 2 /\ new[1] = r /\ new[2] = Pid(r)
  BY <1>3, <1>4, <1>6 DEF Link
<1>8. Link(r, 0, 2)'
  BY <1>1, <1>2, <1>5, <1>6, <1>7 DEF Link, Word
<1>9. Queued'
  <2>1. Queued /\ queue \in Seq(Rank)
    BY DEF CollectInv, LinkInv, Queued
  <2>2. \A k \in 1 .. Len(queue) : queue[k] \in Rank
    BY <2>1
  <2> QED BY <1>1, <1>2, <2>1, <2>2, QueuedKept
<1>10. launcher.pc = "rang" => \A k \in 1 .. Len(queue') : queue'[k] # launcher.fd
  BY <1>1 DEF CollectInv, LinkInv, Serving
<1>11. (\E a \in 0 .. 3, b \in {0, 2, 3} : Link(r, a, b))'
  BY <1>8
<1>12. ~Started(r)'
  BY <1>2 DEF Started
<1> QED BY <1>1, <1>2, <1>5, <1>9, <1>10, <1>11, <1>12, ProcessStep

LEMMA SendPortStep ==
  ASSUME CollectInv, NEW r \in Rank, SendPort(r) PROVE CollectInv'
<1>1. /\ remote[r].pc = "known" /\ up' = [up EXCEPT ![r] = Append(@, Port(r))]
      /\ UNCHANGED <<launcher, dsm_array, queue, down>>
  BY DEF SendPort, Alone
<1>2. /\ \E T : RemoteShape(T)'
      /\ remote'[r].pc = "sync" /\ remote'[r].port = Port(r)
      /\ \A s \in Rank \ {r} : remote'[s] = remote[s]
  <2>0. PICK S : RemoteShape(S)
    BY DEF CollectInv, LinkType
  <2>1. PICK x : x = [remote[r] EXCEPT !.pc = "sync", !.port = Port(r)]
    OBVIOUS
  <2>2. /\ x.pc = "sync" /\ x.port = Port(r)
        /\ x = [pc |-> x.pc, port |-> x.port, id |-> x.id, i |-> x.i, conn |-> x.conn]
    BY <2>0, <2>1 DEF RemoteShape
  <2>3. LinkType /\ remote' = [remote EXCEPT ![r] = x]
    BY <2>1 DEF SendPort, CollectInv
  <2> QED BY <2>2, <2>3, RemoteUpdate
<1>3. up[r] \in Seq(Nat) /\ up \in [Rank -> Seq(Nat)]
  BY DEF CollectInv, LinkType
<1>4. PICK new \in Seq(Nat) : new = Append(up[r], Port(r))
  <2>1. PICK port \in Nat : port = Port(r)
    BY Numbers
  <2>2. Append(up[r], port) \in Seq(Nat)
    BY <1>3
  <2> QED BY <2>1, <2>2
<1>5. up' \in [Rank -> Seq(Nat)] /\ up'[r] = new /\ \A s \in Rank \ {r} : up'[s] = up[s]
  BY <1>1, <1>3, <1>4
<1>6. PICK a \in 0 .. 2 : Link(r, a, 2)
  BY <1>1 DEF CollectInv, LinkInv, Linked, Link
<1>7. /\ Len(new) = 3 - a /\ new[3 - a] = Port(r)
      /\ \A k \in 1 .. 2 - a : new[k] = Word(r, a + k)
  BY <1>3, <1>4, <1>6 DEF Link
<1>8. \A k \in 1 .. 3 - a : new[k] = Word(r, a + k)
  BY <1>7 DEF Word
<1>9. Link(r, a, 3)'
  BY <1>1, <1>2, <1>5, <1>6, <1>7, <1>8 DEF Link
<1>10. Queued'
  <2>1. Queued /\ queue \in Seq(Rank)
    BY DEF CollectInv, LinkInv, Queued
  <2>2. \A k \in 1 .. Len(queue) : queue[k] \in Rank
    BY <2>1
  <2> QED BY <1>1, <1>2, <2>1, <2>2, QueuedKept
<1>11. launcher.pc = "rang" => \A k \in 1 .. Len(queue') : queue'[k] # launcher.fd
  BY <1>1 DEF CollectInv, LinkInv, Serving
<1>12. (\E i \in 0 .. 3, j \in {0, 2, 3} : Link(r, i, j))'
  BY <1>9
<1>13. ~Started(r)'
  BY <1>2 DEF Started
<1> QED BY <1>1, <1>2, <1>5, <1>10, <1>11, <1>12, <1>13, ProcessStep

\* What a process reads, it can only read after the go-ahead.
LEMMA ReadsGate ==
  ASSUME CollectInv, NEW r \in Rank,
         RecvSync(r) \/ RecvId(r) \/ RecvInfos(r) \/ EndPlain(r)
  PROVE  Known = Rank
<1>1. CASE RecvSync(r) \/ RecvId(r)
  <2>1. Len(down[r]) >= 1 \/ Len(down[r]) >= 2
    BY <1>1 DEF RecvSync, RecvId, Reads
  <2>2. down[r] # << >>
    BY <2>1
  <2> QED BY <2>2 DEF CollectInv, LinkInv, Gate
<1>2. CASE RecvInfos(r) \/ EndPlain(r)
  <2>1. remote[r].pc \in {"infos", "program"}
    BY <1>2 DEF RecvInfos, EndPlain, Reads
  <2> QED BY <2>1 DEF CollectInv, LinkInv, Gate, Started
<1> QED BY <1>1, <1>2

\* How a process goes on, or fails, after its words have left.
LEMMA ProgramSteps ==
  ASSUME CollectInv, NEW r \in Rank,
         RecvSync(r) \/ RecvId(r) \/ RecvInfos(r) \/ EndPlain(r) \/ Fail(r)
  PROVE  /\ \E T : RemoteShape(T)'
         /\ remote'[r].pc \in {"program", "infos", "listen", "ended", "failed"}
         /\ remote'[r].port = remote[r].port
         /\ \A s \in Rank \ {r} : remote'[s] = remote[s]
<1>0. LinkType
  BY DEF CollectInv
<1>1. PICK S : RemoteShape(S)
  BY DEF CollectInv, LinkType
<1>2. CASE RecvSync(r) \/ EndPlain(r) \/ Fail(r)
  <2>1. PICK at \in {"program", "ended", "failed"} : remote' = [remote EXCEPT ![r].pc = at]
    BY <1>2 DEF RecvSync, EndPlain, Fail
  <2> QED BY <1>0, <2>1, PcUpdate
<1>3. CASE RecvId(r)
  <2>1. PICK x : x = [remote[r] EXCEPT !.pc = "infos", !.id = down[r][2]]
    OBVIOUS
  <2>2. /\ x.pc = "infos" /\ x.port = remote[r].port
        /\ x = [pc |-> x.pc, port |-> x.port, id |-> x.id, i |-> x.i, conn |-> x.conn]
    BY <1>1, <2>1 DEF RemoteShape
  <2>3. remote' = [remote EXCEPT ![r] = x]
    BY <1>3, <2>1 DEF RecvId
  <2> QED BY <1>0, <2>2, <2>3, RemoteUpdate
<1>4. CASE RecvInfos(r)
  <2>1. PICK k, conn :
          \/ remote' = [remote EXCEPT ![r].i = k, ![r].conn = conn]
          \/ remote' = [remote EXCEPT ![r].i = k]
          \/ remote' = [remote EXCEPT ![r].pc = "listen"]
    <3>1. PICK k, conn :
            /\ k = remote[r].i + 1
            /\ conn = [remote[r].conn EXCEPT ![remote[r].i] =
                         [rang |-> down[r][1], port |-> down[r][2]]]
      OBVIOUS
    <3> QED BY <1>4, <3>1 DEF RecvInfos
  <2>2. remote[r].pc = "infos"
    BY <1>4 DEF RecvInfos, Reads
  <2>3. PICK x : /\ remote' = [remote EXCEPT ![r] = x]
                 /\ \/ x = [remote[r] EXCEPT !.i = k, !.conn = conn]
                    \/ x = [remote[r] EXCEPT !.i = k]
                    \/ x = [remote[r] EXCEPT !.pc = "listen"]
    BY <2>1
  <2>4. /\ x.pc \in {"infos", "listen"} /\ x.port = remote[r].port
        /\ x = [pc |-> x.pc, port |-> x.port, id |-> x.id, i |-> x.i, conn |-> x.conn]
    BY <1>1, <2>2, <2>3 DEF RemoteShape
  <2> QED BY <1>0, <2>3, <2>4, RemoteUpdate
<1> QED BY <1>2, <1>3, <1>4

LEMMA LaterStep ==
  ASSUME CollectInv, NEW r \in Rank,
         RecvSync(r) \/ RecvId(r) \/ RecvInfos(r) \/ EndPlain(r) \/ Fail(r)
  PROVE  CollectInv'
<1>1. UNCHANGED <<launcher, dsm_array, queue, up>>
  BY DEF RecvSync, RecvId, RecvInfos, EndPlain, Fail, Reads, Alone
<1>2. /\ \E T : RemoteShape(T)'
      /\ remote'[r].pc \in {"program", "infos", "listen", "ended", "failed"}
      /\ remote'[r].port = remote[r].port
      /\ \A s \in Rank \ {r} : remote'[s] = remote[s]
  BY ProgramSteps
<1>3. up' \in [Rank -> Seq(Nat)] /\ \A s \in Rank : up'[s] = up[s]
  BY <1>1 DEF CollectInv, LinkType
<1>4. \A s \in {r} : (\E a \in 0 .. 3, b \in {0, 2, 3} : Link(s, a, b))'
  BY <1>1, <1>2, LinkedKept DEF CollectInv, LinkInv
<1>5. Queued'
  <2>1. Queued /\ queue \in Seq(Rank)
    BY DEF CollectInv, LinkInv, Queued
  <2>2. \A k \in 1 .. Len(queue) : queue[k] \in Rank
    BY <2>1
  <2> QED BY <1>1, <1>2, <2>1, <2>2, QueuedKept
<1>6. launcher.pc = "rang" => \A k \in 1 .. Len(queue') : queue'[k] # launcher.fd
  BY <1>1 DEF CollectInv, LinkInv, Serving
<1>7. Known = Rank \/ (UNCHANGED down /\ ~Started(r)')
  <2>1. CASE Fail(r)
    <3>1. LinkType /\ remote' = [remote EXCEPT ![r].pc = "failed"] /\ UNCHANGED down
      BY <2>1 DEF Fail, CollectInv
    <3>2. remote'[r].pc = "failed"
      BY <3>1, PcUpdate
    <3> QED BY <3>1, <3>2 DEF Started
  <2>2. CASE RecvSync(r) \/ RecvId(r) \/ RecvInfos(r) \/ EndPlain(r)
    <3>1. Known = Rank
      BY <2>2, ReadsGate
    <3> QED BY <3>1
  <2> QED BY <2>1, <2>2
<1> QED BY <1>1, <1>2, <1>3, <1>4, <1>5, <1>6, <1>7, ProcessStep

LEMMA CollectStarts == Init => CollectInv
<1> SUFFICES ASSUME Init PROVE CollectInv
  OBVIOUS
<1>1. LinkType
  <2>1. PICK none : none = [j \in Rank |-> [rang |-> 0, port |-> 0]]
    OBVIOUS
  <2>2. PICK T : T = {"absent", 0, none}
    OBVIOUS
  <2>3. [pc |-> "absent", port |-> 0, id |-> 0, i |-> 0, conn |-> none] \in
          [pc : T, port : T, id : T, i : T, conn : T]
    BY <2>2
  <2>4. RemoteShape(T)
    BY <2>1, <2>3 DEF Init, RemoteShape
  <2>5. up \in [Rank -> Seq(Nat)]
    BY DEF Init
  <2> QED BY <2>4, <2>5 DEF LinkType
<1>2. ASSUME NEW r \in Rank PROVE Link(r, 0, 0)
  BY DEF Init, Link
<1>3. Linked
  BY <1>2 DEF Linked
<1>4. Queued /\ Serving
  BY DEF Init, Queued, Serving
<1>5. Known = {}
  BY DEF Init, Known
<1>6. Collected /\ Gate
  BY <1>5 DEF Init, Collected, Gate, Started
<1> QED BY <1>1, <1>3, <1>4, <1>6 DEF CollectInv, LinkInv

LEMMA CollectHolds == Spec => []CollectInv
<1>1. BarrierInv /\ CollectInv /\ [Next]_vars => CollectInv'
  <2> SUFFICES ASSUME BarrierInv, CollectInv, [Next]_vars PROVE CollectInv'
    OBVIOUS
  <2>1. CASE UNCHANGED vars
    <3>1. UNCHANGED <<launcher, dsm_array, remote, queue, up, down>>
      BY <2>1 DEF vars
    <3>2. Serving' /\ Collected' /\ Gate'
      BY <3>1 DEF CollectInv, LinkInv, Serving, Collected, Gate, Known, Started
    <3> QED BY <3>1, <3>2, LauncherStep
  <2>2. CASE Launch
    BY <2>2, DsmexecStep, AcceptStep, RecvRangStep, RecvPidStep, RecvPortStep DEF Launch
  <2>3. ASSUME NEW r \in Rank, Remote(r) \/ Fail(r) \/ EndPlain(r) \/ Sigchld(r)
       PROVE  CollectInv'
    BY <2>3, ChildStep, ConnectStep, SendRangPidStep, SendPortStep, LaterStep DEF Remote
  <2> QED BY <2>1, <2>2, <2>3 DEF Next
<1> QED BY <1>1, CollectStarts, BarrierInvHolds, PTL DEF Spec

\* In whatever order the processes connect and whichever of them fail, entry r
\* of dsm_array never holds what another process has sent.  (Where the model does
\* not follow dsmexec, in "derailed", this says nothing.)
THEOREM IdentifiedRight == Spec => []ConnectionsIdentified
<1>1. CollectInv => ConnectionsIdentified
  BY Numbers DEF CollectInv, LinkInv, Linked, Link, ConnectionsIdentified
<1> QED BY <1>1, CollectHolds, PTL

\* A program runs only after dsmexec has read the port of every process, and
\* what it has read is the port that the process has.
THEOREM StartedTogether == Spec => []StartTogether
<1>1. CollectInv => StartTogether
  <2> SUFFICES ASSUME CollectInv, NEW r \in Rank, Started(r), NEW s \in Rank
               PROVE  remote[s].port # 0 /\ dsm_array[s].port = remote[s].port
    BY DEF StartTogether
  <2>1. dsm_array[s].port # 0
    BY DEF CollectInv, LinkInv, Gate, Known
  <2>2. PICK a \in 0 .. 3, b \in {0, 2, 3} : Link(s, a, b)
    BY DEF CollectInv, LinkInv, Linked
  <2>3. a = 3 /\ b = 3
    BY <2>1, <2>2 DEF Link
  <2> QED BY <2>1, <2>2, <2>3 DEF Link
<1> QED BY <1>1, CollectHolds, PTL

----------------------------------------------------------------------------
(* The contacts, from dsmexec to the connections between the processes     *)

\* TypeOK of DsmLaunch, variable by variable.
LauncherState == [pc : LauncherPc, i : 0 .. num_procs, j : 0 .. num_procs,
                  fd : Rank \cup {None}, rang : Rank, out : Seq(Nat)]
EntryState == [rang : Rank, fd_init : Rank \cup {None}, pid : Nat, port : Nat]
RemotePc == {"absent", "connected", "known", "sync", "program", "infos", "listen", "failed",
             "ended"}
Contact == [rang : Rank, port : Nat]
RemoteState == [pc : RemotePc, port : Nat, id : Rank, i : 0 .. num_procs,
                conn : [Rank -> Contact]]
AllTyped ==
  /\ launcher \in LauncherState
  /\ num_procs_creat \in Nat /\ backlog \in Nat
  /\ child \in [Rank -> ChildState]
  /\ dsm_array \in [Rank -> EntryState]
  /\ remote \in [Rank -> RemoteState]
  /\ queue \in Seq(Rank)
  /\ up \in [Rank -> Seq(Nat)]
  /\ down \in [Rank -> Seq(Nat)]

LEMMA TypedIs == TypeOK <=> AllTyped
BY DEF TypeOK, AllTyped, LauncherState, ChildState, EntryState, RemotePc, Contact, RemoteState

\* Of the first j entries, how many are not that of r.
Before(r, j) == IF j <= r THEN j ELSE j - 1

\* The k-th word that dsmexec sends to r is w.
Told(r, k, w) ==
  \/ k = 1 /\ w = 0
  \/ k = 2 /\ w = num_procs
  \/ k = 3 /\ w = r
  \/ \E j \in Rank \ {r} : \/ k = 4 + 2 * Before(r, j) /\ w = j
                           \/ k = 5 + 2 * Before(r, j) /\ w = Port(j)

\* How many words r has read.
Taken(r) ==
  IF remote[r].pc \in {"infos", "listen"} THEN 3 + 2 * Before(r, remote[r].i)
  ELSE IF remote[r].pc = "program" THEN 1 ELSE 0

\* The words that r has not read: those on the way, then those that dsmexec is
\* about to write.
Unread(r) == down[r] \o IF launcher.fd = r THEN launcher.out ELSE << >>

\* After c words, those that r has not read are the right ones.
Line(r, c) ==
  /\ Len(Unread(r)) = c - Taken(r)
  /\ \A k \in 1 .. Len(Unread(r)) : Told(r, Taken(r) + k, Unread(r)[k])

\* How many words for r dsmexec has come to.
All(r) == 3 + 2 * Before(r, num_procs)
Prepared(r, c) ==
  /\ launcher.pc \in {"fork", "barrier", "accept", "rang", "pid", "port"} => c = 0
  /\ launcher.pc = "send" => c = IF r < launcher.i THEN All(r) ELSE 0
  /\ launcher.pc = "infos" => c = IF r < launcher.i THEN All(r)
                                  ELSE IF r = launcher.i THEN 3 + 2 * Before(r, launcher.j)
                                  ELSE 0

\* What is written to a process that is gone may be lost: nothing is said of it.
Lines == \A r \in Rank : ~Gone(r) => \E c \in Nat : Prepared(r, c) /\ Line(r, c)

Sending ==
  /\ launcher.pc \notin {"send", "infos", "killed"} => launcher.out = << >>
  /\ launcher.pc = "infos" => /\ launcher.i \in Rank /\ launcher.j < num_procs
                              /\ launcher.fd = launcher.i

\* The table of r is right as far as it is filled.
FilledAt(r) ==
  /\ remote[r].pc \in {"infos", "listen"} =>
       /\ remote[r].id = r
       /\ \A j \in Rank \ {r} : j < remote[r].i =>
            remote[r].conn[j] = [rang |-> j, port |-> Port(j)]
  /\ remote[r].pc \in {"absent", "connected", "known", "sync", "program"} => remote[r].i = 0
  /\ remote[r].pc = "listen" => remote[r].i = num_procs
Filled == \A r \in Rank : FilledAt(r)

DownInv == Lines /\ Sending /\ Filled

----------------------------------------------------------------------------
(* Words that move                                                         *)

\* Writing the first word of t at the end of s.
LEMMA MoveWord ==
  ASSUME NEW s \in Seq(Nat), NEW t \in Seq(Nat), t # << >>
  PROVE  /\ Append(s, Head(t)) \in Seq(Nat) /\ Tail(t) \in Seq(Nat)
         /\ Append(s, Head(t)) \o Tail(t) = s \o t
<1>1. Head(t) \in Nat /\ Tail(t) \in Seq(Nat) /\ t = <<Head(t)>> \o Tail(t)
  BY HeadTailProperties, SubSeqFull, SubSeqRecursiveFirst, TailIsSubSeq
<1>2. Append(s, Head(t)) = s \o <<Head(t)>> /\ <<Head(t)>> \in Seq(Nat)
  BY <1>1, AppendIsConcat
<1>3. (s \o <<Head(t)>>) \o Tail(t) = s \o t
  BY <1>1, <1>2, ConcatAssociative
<1>4. Append(s, Head(t)) \in Seq(Nat)
  BY <1>1, AppendProperties
<1> QED BY <1>1, <1>2, <1>3, <1>4

\* Reading the first k words of s, when t comes after it.
LEMMA DropWords ==
  ASSUME NEW s \in Seq(Nat), NEW t \in Seq(Nat), NEW k \in Nat, k <= Len(s)
  PROVE  /\ SubSeq(s, k + 1, Len(s)) \in Seq(Nat)
         /\ Len(SubSeq(s, k + 1, Len(s)) \o t) = Len(s \o t) - k
         /\ \A m \in 1 .. Len(s \o t) - k : (SubSeq(s, k + 1, Len(s)) \o t)[m] = (s \o t)[k + m]
         /\ \A m \in 1 .. k : m \in 1 .. Len(s \o t) /\ s[m] = (s \o t)[m] /\ s[m] \in Nat
<1>0. Len(s) \in Nat /\ Len(t) \in Nat /\ \A m \in 1 .. Len(s) : s[m] \in Nat
  BY LenProperties
<1>1. PICK u : u = SubSeq(s, k + 1, Len(s))
  OBVIOUS
<1>2. u \in Seq(Nat) /\ Len(u) = Len(s) - k /\ \A m \in 1 .. Len(u) : u[m] = s[k + m]
  <2>1. k + 1 \in Int /\ Len(s) \in Int /\ \A m \in k + 1 .. Len(s) : s[m] \in Nat
    BY <1>0
  <2>2. /\ u \in Seq(Nat) /\ Len(u) = IF k + 1 <= Len(s) THEN Len(s) - (k + 1) + 1 ELSE 0
        /\ \A m \in 1 .. Len(s) - (k + 1) + 1 : u[m] = s[k + 1 + m - 1]
    BY <1>1, <2>1, SubSeqProperties
  <2> QED BY <1>0, <2>2
<1>3. /\ Len(s \o t) = Len(s) + Len(t)
      /\ \A m \in 1 .. Len(s) + Len(t) : (s \o t)[m] = IF m <= Len(s) THEN s[m] ELSE t[m - Len(s)]
  BY ConcatProperties
<1>4. /\ Len(u \o t) = Len(u) + Len(t)
      /\ \A m \in 1 .. Len(u) + Len(t) : (u \o t)[m] = IF m <= Len(u) THEN u[m] ELSE t[m - Len(u)]
  BY <1>2, ConcatProperties
<1>5. ASSUME NEW m \in 1 .. Len(s \o t) - k PROVE (u \o t)[m] = (s \o t)[k + m]
  <2>1. m \in 1 .. Len(u) + Len(t) /\ k + m \in 1 .. Len(s) + Len(t)
    BY <1>0, <1>2, <1>3
  <2>2. CASE m <= Len(u)
    BY <1>0, <1>2, <1>3, <1>4, <2>1, <2>2
  <2>3. CASE ~(m <= Len(u))
    <3>1. m - Len(u) = k + m - Len(s) /\ ~(k + m <= Len(s))
      BY <1>0, <1>2, <2>3
    <3> QED BY <1>3, <1>4, <2>1, <2>3, <3>1
  <2> QED BY <2>2, <2>3
<1>6. ASSUME NEW m \in 1 .. k
     PROVE  m \in 1 .. Len(s \o t) /\ s[m] = (s \o t)[m] /\ s[m] \in Nat
  BY <1>0, <1>3
<1>7. Len(u \o t) = Len(s \o t) - k
  BY <1>0, <1>2, <1>3, <1>4
<1> QED BY <1>1, <1>2, <1>5, <1>6, <1>7

----------------------------------------------------------------------------
(* Types                                                                   *)

\* Reading a word leaves a line of words.
LEMMA TakesTyped ==
  ASSUME AllTyped, NEW at, Takes(at), launcher.fd \in Rank
  PROVE  up' \in [Rank -> Seq(Nat)] /\ NextWord \in Nat
<1>1. PICK r \in Rank : r = launcher.fd
  OBVIOUS
<1>2. up[r] \in Seq(Nat) /\ up[r] # << >>
  BY <1>1 DEF AllTyped, Takes
<1>3. Tail(up[r]) \in Seq(Nat) /\ Head(up[r]) \in Nat
  BY <1>2, HeadTailProperties
<1>4. up' = [up EXCEPT ![r] = Tail(up[r])]
  BY <1>1 DEF Takes
<1> QED BY <1>1, <1>3, <1>4 DEF AllTyped, NextWord

\* What dsmexec reads.
LEMMA RecvTyped ==
  ASSUME CollectInv, AllTyped, RecvRang \/ RecvPid \/ RecvPort
  PROVE  AllTyped'
<1>1. PICK r \in Rank : r = launcher.fd
  BY DEF CollectInv, LinkInv, Serving, RecvRang, RecvPid, RecvPort, Takes
<1>2. up' \in [Rank -> Seq(Nat)] /\ NextWord \in Nat
  BY <1>1, TakesTyped DEF RecvRang, RecvPid, RecvPort
<1>3. UNCHANGED <<num_procs_creat, backlog, child, remote, queue, down>>
  BY DEF RecvRang, RecvPid, RecvPort, Takes
<1>4. launcher \in LauncherState /\ dsm_array \in [Rank -> EntryState]
  BY DEF AllTyped
<1>5. launcher.i \in 0 .. num_procs /\ launcher.rang \in Rank /\ num_procs \in Nat
  BY <1>4, LaunchAssumption DEF LauncherState
<1>9. 0 \in 0 .. num_procs
  BY LaunchAssumption
<1>6. CASE RecvRang
  <2>1. NextWord = r
    BY <1>1, <1>6, RangHeard
  <2>2. /\ launcher' = [launcher EXCEPT !.pc = "pid", !.rang = r]
        /\ dsm_array' = [dsm_array EXCEPT ![r].fd_init = r]
    BY <1>1, <1>6, <2>1 DEF RecvRang
  <2>3. launcher' \in LauncherState
    BY <1>4, <2>2 DEF LauncherState, LauncherPc
  <2>4. [dsm_array[r] EXCEPT !.fd_init = r] \in EntryState
    BY <1>4 DEF EntryState
  <2>5. dsm_array' \in [Rank -> EntryState]
    BY <1>4, <2>2, <2>4
  <2> QED BY <1>2, <1>3, <2>3, <2>5 DEF AllTyped
<1>7. CASE RecvPid
  <2>1. PICK w \in Nat : w = NextWord
    BY <1>2
  <2>2. PICK s \in Rank : s = launcher.rang
    BY <1>5
  <2>3. /\ launcher' = [launcher EXCEPT !.pc = "port"]
        /\ dsm_array' = [dsm_array EXCEPT ![s].pid = w]
    BY <1>7, <2>1, <2>2 DEF RecvPid
  <2>4. launcher' \in LauncherState
    BY <1>4, <2>3 DEF LauncherState, LauncherPc
  <2>5. [dsm_array[s] EXCEPT !.pid = w] \in EntryState
    BY <1>4 DEF EntryState
  <2>6. dsm_array' \in [Rank -> EntryState]
    BY <1>4, <2>3, <2>5
  <2> QED BY <1>2, <1>3, <2>4, <2>6 DEF AllTyped
<1>8. CASE RecvPort
  <2>1. PICK w \in Nat : w = NextWord
    BY <1>2
  <2>2. PICK s \in Rank : s = launcher.rang
    BY <1>5
  <2>3. PICK k : k = launcher.i + 1
    OBVIOUS
  <2>4. /\ \/ k \in 0 .. num_procs /\ launcher' = [launcher EXCEPT !.pc = "accept", !.i = k]
           \/ launcher' = [launcher EXCEPT !.pc = "send", !.i = 0]
        /\ dsm_array' = [dsm_array EXCEPT ![s].port = w]
    BY <1>5, <1>8, <2>1, <2>2, <2>3 DEF RecvPort
  <2>8. [launcher EXCEPT !.pc = "send", !.i = 0] \in LauncherState
    BY <1>4, <1>9 DEF LauncherState, LauncherPc
  <2>9. k \in 0 .. num_procs => [launcher EXCEPT !.pc = "accept", !.i = k] \in LauncherState
    BY <1>4 DEF LauncherState, LauncherPc
  <2>5. launcher' \in LauncherState
    BY <2>4, <2>8, <2>9
  <2>6. [dsm_array[s] EXCEPT !.port = w] \in EntryState
    BY <1>4 DEF EntryState
  <2>7. dsm_array' \in [Rank -> EntryState]
    BY <1>4, <2>4, <2>6
  <2> QED BY <1>2, <1>3, <2>5, <2>7 DEF AllTyped
<1> QED BY <1>6, <1>7, <1>8

\* The other steps of dsmexec.
LEMMA DsmexecTyped ==
  ASSUME BarrierInv, Sending, AllTyped,
         Fork \/ Pass \/ Accept \/ Prepare \/ PrepareInfos \/ Send \/ EndSend
  PROVE  AllTyped'
<1>0. /\ launcher \in LauncherState /\ num_procs \in Nat \ {0}
      /\ launcher.out \in Seq(Nat) /\ launcher.i \in 0 .. num_procs /\ launcher.j \in 0 .. num_procs
      /\ launcher.fd \in Rank \cup {None}
  BY LaunchAssumption DEF AllTyped, LauncherState
<1>8. 0 \in 0 .. num_procs
  BY <1>0
<1>9. Rank \subseteq Nat
  BY <1>0 DEF Rank
<1>1. CASE Fork
  <2>1. launcher.i \in Rank
    BY <1>1 DEF BarrierInv, NotForked, Fork
  <2>2. PICK k \in 0 .. num_procs : k = launcher.i + 1
    BY <1>0, <2>1 DEF Rank
  <2>3. \/ launcher' = [launcher EXCEPT !.i = k, !.pc = "barrier"]
        \/ launcher' = [launcher EXCEPT !.i = k, !.pc = "fork"]
    BY <1>1, <2>2 DEF Fork
  <2>4. launcher' \in LauncherState
    BY <1>0, <2>3 DEF LauncherState, LauncherPc
  <2>5. [child[launcher.i] EXCEPT !.pc = "started"] \in ChildState
    BY <2>1 DEF AllTyped, ChildState
  <2>6. child' \in [Rank -> ChildState]
    BY <1>1, <2>1, <2>5 DEF AllTyped, Fork
  <2> QED BY <1>1, <2>4, <2>6 DEF AllTyped, Fork
<1>2. CASE Pass \/ EndSend
  <2>2. [launcher EXCEPT !.pc = "accept", !.i = 0] \in LauncherState
    BY <1>0, <1>8 DEF LauncherState, LauncherPc
  <2>3. [launcher EXCEPT !.pc = "io"] \in LauncherState
    BY <1>0 DEF LauncherState, LauncherPc
  <2>1. launcher' \in LauncherState
    BY <1>2, <2>2, <2>3 DEF Pass, EndSend
  <2> QED BY <1>2, <2>1 DEF AllTyped, Pass, EndSend
<1>3. CASE Accept
  <2>1. queue \in Seq(Rank) /\ queue # << >>
    BY <1>3 DEF AllTyped, Accept
  <2>2. PICK fd \in Rank : fd = Head(queue)
    BY <2>1, HeadTailProperties
  <2>3. queue' \in Seq(Rank)
    BY <1>3, <2>1, HeadTailProperties DEF Accept
  <2>4. launcher' = [launcher EXCEPT !.pc = "rang", !.fd = fd]
    BY <1>3, <2>2 DEF Accept
  <2>5. launcher' \in LauncherState
    BY <1>0, <2>4 DEF LauncherState, LauncherPc
  <2> QED BY <1>3, <2>3, <2>5 DEF AllTyped, Accept
<1>4. CASE Prepare
  <2>1. launcher.i \in Rank
    BY <1>0, <1>4 DEF Prepare, Rank
  <2>2. dsm_array[launcher.i] \in EntryState
    BY <2>1 DEF AllTyped
  <2>3. PICK fd \in Rank \cup {None}, rang \in Rank :
          fd = dsm_array[launcher.i].fd_init /\ rang = dsm_array[launcher.i].rang
    BY <2>2 DEF EntryState
  <2>4. PICK out \in Seq(Nat) : out = <<0, num_procs, rang>>
    <3>1. PICK n \in Nat : n = num_procs
      BY <1>0
    <3>2. rang \in Nat
      BY <1>9
    <3>3. <<0, n, rang>> \in Seq(Nat)
      BY <3>2
    <3> QED BY <3>1, <3>3
  <2>5. launcher' = [launcher EXCEPT !.pc = "infos", !.j = 0, !.fd = fd, !.out = out]
    BY <1>4, <2>3, <2>4 DEF Prepare
  <2>6. launcher' \in LauncherState
    BY <1>0, <1>8, <2>5 DEF LauncherState, LauncherPc
  <2> QED BY <1>4, <2>6 DEF AllTyped, Prepare
<1>5. CASE PrepareInfos
  <2>1. launcher.i \in Rank /\ launcher.j \in Rank
    BY <1>0, <1>5 DEF PrepareInfos, Sending, Rank
  <2>2. dsm_array[launcher.j] \in EntryState
    BY <2>1 DEF AllTyped
  <2>3. PICK rang \in Nat, port \in Nat :
          rang = dsm_array[launcher.j].rang /\ port = dsm_array[launcher.j].port
    BY <1>9, <2>2 DEF EntryState
  <2>4. PICK out \in Seq(Nat) : out = Infos(launcher.i, launcher.j)
    <3>1. <<rang, port>> \in Seq(Nat) /\ << >> \in Seq(Nat)
      OBVIOUS
    <3> QED BY <2>3, <3>1 DEF Infos
  <2>5. PICK j \in 0 .. num_procs, k \in 0 .. num_procs : j = launcher.j + 1 /\ k = launcher.i + 1
    BY <1>0, <2>1 DEF Rank
  <2>6. PICK next : next = [launcher EXCEPT !.out = out, !.j = j]
    OBVIOUS
  <2>7. next \in LauncherState /\ next.i = launcher.i
    BY <1>0, <2>6 DEF LauncherState
  <2>8. launcher' = next \/ launcher' = [next EXCEPT !.pc = "send", !.i = k]
    BY <1>5, <2>4, <2>5, <2>6, <2>7 DEF PrepareInfos
  <2>9. launcher' \in LauncherState
    BY <2>7, <2>8 DEF LauncherState, LauncherPc
  <2> QED BY <1>5, <2>9 DEF AllTyped, PrepareInfos
<1>6. CASE Send
  <2>1. launcher.out # << >>
    BY <1>6 DEF Send
  <2>2. PICK w \in Nat, out \in Seq(Nat) : w = Head(launcher.out) /\ out = Tail(launcher.out)
    BY <1>0, <2>1, HeadTailProperties
  <2>3. \/ launcher' = [launcher EXCEPT !.out = out]
        \/ launcher' = [launcher EXCEPT !.pc = "killed"]
    BY <1>6, <2>2 DEF Send
  <2>4. launcher' \in LauncherState
    BY <1>0, <2>3 DEF LauncherState, LauncherPc
  <2>5. \/ down' = down
        \/ down' = [down EXCEPT ![launcher.fd] = Append(@, w)]
    BY <1>6, <2>2 DEF Send
  <2>6. down' \in [Rank -> Seq(Nat)]
    <3>1. ASSUME NEW r \in Rank PROVE Append(down[r], w) \in Seq(Nat)
      BY AppendProperties DEF AllTyped
    <3>2. PICK seq : seq = Append(down[launcher.fd], w)
      OBVIOUS
    <3>3. down' = down \/ down' = [down EXCEPT ![launcher.fd] = seq]
      BY <2>5, <3>2
    <3>4. launcher.fd \in Rank => seq \in Seq(Nat)
      BY <3>1, <3>2
    <3>5. down \in [Rank -> Seq(Nat)]
      BY DEF AllTyped
    <3> QED BY <3>3, <3>4, <3>5
  <2> QED BY <1>6, <2>4, <2>6 DEF AllTyped, Send
<1> QED BY <1>1, <1>2, <1>3, <1>4, <1>5, <1>6

----------------------------------------------------------------------------
(* What the processes read                                                 *)

\* The step of one process keeps the words of the others.
LEMMA LinesOthers ==
  ASSUME Lines, NEW r \in Rank, UNCHANGED launcher,
         \A s \in Rank \ {r} : down'[s] = down[s] /\ remote'[s] = remote[s],
         ~Gone(r)' => (\E c \in Nat : Prepared(r, c) /\ Line(r, c))'
  PROVE  Lines'
<1>1. ASSUME NEW s \in Rank, ~Gone(s)'
     PROVE  (\E c \in Nat : Prepared(s, c) /\ Line(s, c))'
  <2>1. CASE s = r
    BY <1>1, <2>1
  <2>2. CASE s # r
    <3>1. ~Gone(s)
      BY <1>1, <2>2 DEF Gone
    <3>2. PICK c \in Nat : Prepared(s, c) /\ Line(s, c)
      BY <3>1 DEF Lines
    <3>3. Unread(s)' = Unread(s) /\ Taken(s)' = Taken(s)
      BY <2>2 DEF Unread, Taken
    <3>4. Prepared(s, c)' /\ Line(s, c)'
      BY <3>2, <3>3 DEF Prepared, Line
    <3> QED BY <3>4
  <2> QED BY <2>1, <2>2
<1> QED BY <1>1 DEF Lines

\* A process that reads k words reads those that come next.
LEMMA WordsRead ==
  ASSUME AllTyped, Lines, NEW r \in Rank, ~Gone(r), NEW k \in Nat, k <= Len(down[r]),
         down' = [down EXCEPT ![r] = SubSeq(@, k + 1, Len(@))], UNCHANGED launcher,
         Taken(r) \in Nat, Taken(r)' = Taken(r) + k
  PROVE  /\ down' \in [Rank -> Seq(Nat)]
         /\ \A s \in Rank \ {r} : down'[s] = down[s]
         /\ (\E c \in Nat : Prepared(r, c) /\ Line(r, c))'
<1>1. PICK t : t = IF launcher.fd = r THEN launcher.out ELSE << >>
  OBVIOUS
<1>2. down[r] \in Seq(Nat) /\ t \in Seq(Nat)
  BY <1>1 DEF AllTyped, LauncherState
<1>3. PICK c \in Nat : Prepared(r, c) /\ Line(r, c)
  BY DEF Lines
<1>4. PICK new : new = SubSeq(down[r], k + 1, Len(down[r]))
  OBVIOUS
<1>5. /\ new \in Seq(Nat) /\ Len(new \o t) = Len(down[r] \o t) - k
      /\ \A m \in 1 .. Len(down[r] \o t) - k : (new \o t)[m] = (down[r] \o t)[k + m]
  <2>1. PICK old \in Seq(Nat) : old = down[r]
    BY <1>2
  <2>2. k <= Len(old) /\ new = SubSeq(old, k + 1, Len(old))
    BY <1>4, <2>1
  <2>3. /\ new \in Seq(Nat) /\ Len(new \o t) = Len(old \o t) - k
        /\ \A m \in 1 .. Len(old \o t) - k : (new \o t)[m] = (old \o t)[k + m]
    BY <1>2, <2>2, DropWords
  <2> QED BY Zenon, <2>1, <2>3
<1>6. /\ down' \in [Rank -> Seq(Nat)] /\ down'[r] = new
      /\ \A s \in Rank \ {r} : down'[s] = down[s]
  BY <1>4, <1>5 DEF AllTyped
<1>7. Unread(r) = down[r] \o t /\ Unread(r)' = new \o t
  BY <1>1, <1>6 DEF Unread
<1>8. Len(Unread(r)) = c - Taken(r) /\ \A m \in 1 .. Len(Unread(r)) : Told(r, Taken(r) + m, Unread(r)[m])
  BY <1>3 DEF Line
<1>9. Len(Unread(r)') = c - Taken(r)' /\ Len(Unread(r)') = Len(Unread(r)) - k
  BY <1>5, <1>7, <1>8
<1>10. ASSUME NEW m \in 1 .. Len(Unread(r)')
      PROVE  Told(r, Taken(r)' + m, Unread(r)'[m])
  <2>1. k + m \in 1 .. Len(Unread(r)) /\ Unread(r)'[m] = Unread(r)[k + m]
    <3>1. Len(down[r] \o t) \in Nat
      BY <1>2, ConcatProperties, LenProperties
    <3>2. m \in 1 .. Len(down[r] \o t) - k /\ k + m \in 1 .. Len(down[r] \o t)
      BY <1>7, <1>9, <3>1
    <3> QED BY <1>5, <1>7, <3>2
  <2>2. Told(r, Taken(r) + (k + m), Unread(r)[k + m])
    BY <1>8, <2>1
  <2>3. Taken(r) + (k + m) = Taken(r)' + m
    OBVIOUS
  <2> QED BY <2>1, <2>2, <2>3
<1>11. Line(r, c)'
  BY <1>9, <1>10 DEF Line, Told, Before
<1>12. Prepared(r, c)'
  BY <1>3 DEF Prepared
<1> QED BY <1>6, <1>11, <1>12

\* The words on the way to a process are the next ones.
LEMMA WordsWaiting ==
  ASSUME AllTyped, Lines, NEW r \in Rank, ~Gone(r), NEW k \in 1 .. Len(down[r])
  PROVE  Told(r, Taken(r) + k, down[r][k]) /\ down[r][k] \in Nat
<1>1. PICK t : t = IF launcher.fd = r THEN launcher.out ELSE << >>
  OBVIOUS
<1>2. down[r] \in Seq(Nat) /\ t \in Seq(Nat)
  BY <1>1 DEF AllTyped, LauncherState
<1>3. PICK c \in Nat : Line(r, c)
  BY DEF Lines
<1>4. k \in 1 .. Len(down[r] \o t) /\ down[r][k] = (down[r] \o t)[k] /\ down[r][k] \in Nat
  BY <1>2, DropWords
<1>5. Unread(r) = down[r] \o t
  BY <1>1 DEF Unread
<1> QED BY <1>3, <1>4, <1>5 DEF Line

\* Each word is told once: what it is follows from its place.
LEMMA ToldWhat ==
  ASSUME NEW r \in Rank, NEW k \in Nat, NEW w, Told(r, k, w)
  PROVE  /\ k = 3 => w = r
         /\ \A i \in Rank \ {r} : /\ k = 4 + 2 * Before(r, i) => w = i
                                  /\ k = 5 + 2 * Before(r, i) => w = Port(i)
<1>1. \A i \in Rank \ {r} : /\ Before(r, i) \in Nat
                            /\ \A j \in Rank \ {r} : Before(r, i) = Before(r, j) => i = j
  BY LaunchAssumption DEF Before, Rank
<1>2. CASE k \in {1, 2, 3}
  BY <1>1, <1>2 DEF Told
<1>3. ASSUME NEW j \in Rank \ {r},
             \/ k = 4 + 2 * Before(r, j) /\ w = j
             \/ k = 5 + 2 * Before(r, j) /\ w = Port(j),
             NEW i \in Rank \ {r}
     PROVE  /\ k # 3
            /\ k = 4 + 2 * Before(r, i) => w = i
            /\ k = 5 + 2 * Before(r, i) => w = Port(i)
  <2>1. PICK a \in Nat, b \in Nat : a = Before(r, i) /\ b = Before(r, j)
    BY <1>1
  <2>2. a = b => i = j
    BY <1>1, <2>1
  <2>3. 4 + 2 * a # 5 + 2 * b /\ 5 + 2 * a # 4 + 2 * b /\ 4 + 2 * b # 3 /\ 5 + 2 * b # 3
    OBVIOUS
  <2> QED BY <1>3, <2>1, <2>2, <2>3
<1>4. ~(k \in {1, 2, 3}) => \E j \in Rank \ {r} : \/ k = 4 + 2 * Before(r, j) /\ w = j
                                                  \/ k = 5 + 2 * Before(r, j) /\ w = Port(j)
  BY DEF Told
<1>5. k = 3 => k \in {1, 2, 3}
  OBVIOUS
<1>6. CASE k \notin {1, 2, 3}
  <2>1. PICK j \in Rank \ {r} : \/ k = 4 + 2 * Before(r, j) /\ w = j
                                \/ k = 5 + 2 * Before(r, j) /\ w = Port(j)
    BY <1>4, <1>6
  <2>2. \A i \in Rank \ {r} : /\ k = 4 + 2 * Before(r, i) => w = i
                              /\ k = 5 + 2 * Before(r, i) => w = Port(i)
    BY <1>3, <2>1
  <2> QED BY <1>5, <1>6, <2>2
<1> QED BY <1>2, <1>6

\* A step of the process r: its entry becomes x.
LEMMA ProcessTyped ==
  ASSUME AllTyped, NEW r \in Rank, NEW x \in RemoteState, remote' = [remote EXCEPT ![r] = x],
         UNCHANGED <<launcher, num_procs_creat, backlog, child, dsm_array>>,
         queue' \in Seq(Rank), up' \in [Rank -> Seq(Nat)], down' \in [Rank -> Seq(Nat)]
  PROVE  AllTyped' /\ remote'[r] = x /\ \A s \in Rank \ {r} : remote'[s] = remote[s]
BY DEF AllTyped

LEMMA ProcessLines ==
  ASSUME AllTyped, DownInv, NEW r \in Rank, NEW x \in RemoteState,
         remote' = [remote EXCEPT ![r] = x], UNCHANGED launcher,
         \A s \in Rank \ {r} : down'[s] = down[s],
         FilledAt(r)',
         ~Gone(r)' => (\E c \in Nat : Prepared(r, c) /\ Line(r, c))'
  PROVE  DownInv'
<1>1. remote'[r] = x /\ \A s \in Rank \ {r} : remote'[s] = remote[s]
  BY DEF AllTyped
<1>2. Lines'
  BY <1>1, LinesOthers DEF DownInv
<1>3. ASSUME NEW s \in Rank \ {r} PROVE FilledAt(s)'
  <2>1. FilledAt(s) /\ remote'[s] = remote[s]
    BY <1>1 DEF DownInv, Filled
  <2> QED BY <2>1 DEF FilledAt
<1>4. Filled'
  BY <1>3 DEF Filled
<1>5. Sending'
  BY DEF DownInv, Sending
<1> QED BY <1>2, <1>4, <1>5 DEF DownInv

\* The steps of dsmwrap and of dsm_init that read.
LEMMA RecvSyncStep ==
  ASSUME AllTyped, DownInv, NEW r \in Rank, RecvSync(r)
  PROVE  AllTyped' /\ DownInv'
<1>1. /\ remote[r].pc = "sync" /\ Len(down[r]) >= 1
      /\ down' = [down EXCEPT ![r] = SubSeq(@, 1 + 1, Len(@))]
      /\ UNCHANGED <<queue, up>> /\ Alone
  BY DEF RecvSync, Reads
<1>2. PICK x : x = [remote[r] EXCEPT !.pc = "program"]
  OBVIOUS
<1>3. /\ x \in RemoteState /\ x.pc = "program" /\ x.i = remote[r].i
      /\ remote' = [remote EXCEPT ![r] = x]
  <2>1. remote[r] \in RemoteState
    BY DEF AllTyped
  <2>2. x \in RemoteState /\ x.pc = "program" /\ x.i = remote[r].i
    BY <1>2, <2>1 DEF RemoteState, RemotePc
  <2> QED BY <1>2, <2>2 DEF RecvSync
<1>4. remote'[r] = x
  BY <1>3 DEF AllTyped
<1>5. ~Gone(r) /\ Taken(r) = 0 /\ Taken(r)' = 1
  BY <1>1, <1>3, <1>4 DEF Gone, Taken
<1>6. /\ down' \in [Rank -> Seq(Nat)]
      /\ \A s \in Rank \ {r} : down'[s] = down[s]
      /\ (\E c \in Nat : Prepared(r, c) /\ Line(r, c))'
  <2>1. 1 <= Len(down[r]) /\ UNCHANGED launcher
    BY <1>1, LenProperties DEF Alone, AllTyped
  <2>2. PICK k \in Nat : k = 1
    OBVIOUS
  <2>3. down' = [down EXCEPT ![r] = SubSeq(@, k + 1, Len(@))]
    BY <1>1, <2>2
  <2>4. k <= Len(down[r]) /\ Taken(r) \in Nat /\ Taken(r)' = Taken(r) + k
    BY <1>5, <2>1, <2>2
  <2> QED BY <1>5, <2>1, <2>2, <2>3, <2>4, WordsRead DEF DownInv
<1>7. FilledAt(r)'
  BY <1>1, <1>3, <1>4 DEF DownInv, Filled, FilledAt
<1>8. AllTyped'
  BY <1>1, <1>3, <1>6, ProcessTyped DEF Alone, AllTyped
<1> QED BY <1>1, <1>3, <1>6, <1>7, <1>8, ProcessLines DEF Alone

LEMMA RecvIdStep ==
  ASSUME AllTyped, DownInv, NEW r \in Rank, RecvId(r)
  PROVE  AllTyped' /\ DownInv'
<1>1. /\ remote[r].pc = "program" /\ Len(down[r]) >= 2
      /\ down' = [down EXCEPT ![r] = SubSeq(@, 2 + 1, Len(@))]
      /\ UNCHANGED <<queue, up>> /\ Alone
  BY DEF RecvId, Reads
<1>2. ~Gone(r) /\ Taken(r) = 1 /\ 2 <= Len(down[r]) /\ 2 \in 1 .. Len(down[r])
  BY <1>1, LenProperties DEF Gone, Taken, AllTyped
<1>3. down[r][2] = r
  <2>1. Told(r, 1 + 2, down[r][2])
    BY <1>2, WordsWaiting DEF DownInv
  <2> QED BY <2>1, ToldWhat
<1>4. PICK x : x = [remote[r] EXCEPT !.pc = "infos", !.id = r]
  OBVIOUS
<1>5. /\ x \in RemoteState /\ x.pc = "infos" /\ x.i = remote[r].i /\ x.id = r
      /\ remote' = [remote EXCEPT ![r] = x]
  <2>1. x \in RemoteState /\ x.pc = "infos" /\ x.i = remote[r].i /\ x.id = r
    <3>1. remote[r] \in RemoteState
      BY DEF AllTyped
    <3> QED BY <1>4, <3>1 DEF RemoteState, RemotePc
  <2>2. remote' = [remote EXCEPT ![r] = x]
    BY <1>3, <1>4 DEF RecvId
  <2> QED BY <2>1, <2>2
<1>6. remote'[r] = x
  BY <1>5 DEF AllTyped
<1>7. remote[r].i = 0
  BY <1>1 DEF DownInv, Filled, FilledAt
<1>8. Taken(r)' = 3
  BY <1>5, <1>6, <1>7, Numbers DEF Taken, Before
<1>9. /\ down' \in [Rank -> Seq(Nat)]
      /\ \A s \in Rank \ {r} : down'[s] = down[s]
      /\ (\E c \in Nat : Prepared(r, c) /\ Line(r, c))'
  <2>1. PICK k \in Nat : k = 2
    OBVIOUS
  <2>2. down' = [down EXCEPT ![r] = SubSeq(@, k + 1, Len(@))]
    BY <1>1, <2>1
  <2>3. Taken(r) \in Nat /\ Taken(r)' = Taken(r) + k /\ UNCHANGED launcher
    BY <1>1, <1>2, <1>8, <2>1 DEF Alone
  <2> QED BY <1>2, <2>1, <2>2, <2>3, WordsRead DEF DownInv
<1>10. FilledAt(r)'
  BY <1>5, <1>6, <1>7, LaunchAssumption DEF FilledAt, Rank
<1>11. AllTyped'
  BY <1>1, <1>5, <1>9, ProcessTyped DEF Alone, AllTyped
<1> QED BY <1>1, <1>5, <1>9, <1>10, <1>11, ProcessLines DEF Alone

\* dsm_init goes from one entry to the next: the two words that it reads are
\* about the process of that rank.
LEMMA RecvInfosStep ==
  ASSUME AllTyped, DownInv, NEW r \in Rank, RecvInfos(r)
  PROVE  AllTyped' /\ DownInv'
<1>0. remote[r] \in RemoteState /\ remote[r].pc = "infos" /\ remote[r].i \in 0 .. num_procs
  BY DEF AllTyped, RemoteState, RecvInfos, Reads
<1>1. /\ remote[r].id = r
      /\ \A j \in Rank \ {r} : j < remote[r].i => remote[r].conn[j] = [rang |-> j, port |-> Port(j)]
      /\ ~Gone(r)
  BY <1>0 DEF DownInv, Filled, FilledAt, Gone
<1>2. PICK i \in 0 .. num_procs : i = remote[r].i
  BY <1>0
<1>3. Taken(r) = 3 + 2 * Before(r, i) /\ Taken(r) \in Nat /\ Before(r, i) \in Nat
  BY <1>0, <1>2, LaunchAssumption DEF Taken, Before, Rank
<1>4. /\ UNCHANGED <<launcher, num_procs_creat, backlog, child, dsm_array, queue, up>>
      /\ queue' \in Seq(Rank) /\ up' \in [Rank -> Seq(Nat)]
  BY DEF RecvInfos, Reads, Alone, AllTyped
<1>5. ASSUME NEW x \in RemoteState, remote' = [remote EXCEPT ![r] = x], x.pc \in {"infos", "listen"},
             NEW k \in Nat, k <= Len(down[r]),
             down' = [down EXCEPT ![r] = SubSeq(@, k + 1, Len(@))],
             3 + 2 * Before(r, x.i) = Taken(r) + k, x.id = r,
             \A j \in Rank \ {r} : j < x.i => x.conn[j] = [rang |-> j, port |-> Port(j)],
             x.pc = "listen" => x.i = num_procs
     PROVE  AllTyped' /\ DownInv'
  <2>1. remote'[r] = x
    BY <1>5 DEF AllTyped
  <2>2. Taken(r)' = Taken(r) + k
    BY <1>5, <2>1 DEF Taken, Before
  <2>3. FilledAt(r)'
    BY <1>5, <2>1 DEF FilledAt, Port
  <2>4. /\ down' \in [Rank -> Seq(Nat)]
        /\ \A s \in Rank \ {r} : down'[s] = down[s]
        /\ (\E c \in Nat : Prepared(r, c) /\ Line(r, c))'
    BY <1>1, <1>3, <1>4, <1>5, <2>2, WordsRead DEF DownInv
  <2>5. AllTyped'
    BY <1>4, <1>5, <2>4, ProcessTyped
  <2> QED BY <1>4, <1>5, <2>3, <2>4, <2>5, ProcessLines
<1>6. CASE i < num_procs /\ i # r
  <2>1. i \in Rank \ {r} /\ i + 1 \in 0 .. num_procs
    BY <1>6, LaunchAssumption DEF Rank
  <2>2. /\ Len(down[r]) >= 2 /\ down' = [down EXCEPT ![r] = SubSeq(@, 2 + 1, Len(@))]
        /\ remote' = [remote EXCEPT ![r].i = i + 1,
                                    ![r].conn[i] = [rang |-> down[r][1], port |-> down[r][2]]]
    BY <1>1, <1>2, <1>6 DEF RecvInfos, Reads
  <2>3. Len(down[r]) \in Nat
    BY LenProperties DEF AllTyped
  <2>4. 1 \in 1 .. Len(down[r]) /\ 2 \in 1 .. Len(down[r])
    BY <2>2, <2>3
  <2>5. Told(r, Taken(r) + 1, down[r][1]) /\ Told(r, Taken(r) + 2, down[r][2])
    BY <1>1, <2>4, WordsWaiting DEF DownInv
  <2>6. down[r][1] = i /\ down[r][2] = Port(i)
    <3>1. PICK k \in Nat, l \in Nat : k = Taken(r) + 1 /\ l = Taken(r) + 2
      BY <1>3
    <3>2. k = 4 + 2 * Before(r, i) /\ l = 5 + 2 * Before(r, i)
      BY <1>3, <3>1
    <3> QED BY <2>1, <2>5, <3>1, <3>2, ToldWhat
  <2>7. PICK entry \in Contact : entry = [rang |-> i, port |-> Port(i)]
    BY <2>1, Numbers DEF Contact
  <2>8. PICK conn \in [Rank -> Contact] : conn = [remote[r].conn EXCEPT ![i] = entry]
    BY <1>0, <2>1 DEF RemoteState
  <2>9. PICK k \in 0 .. num_procs : k = i + 1
    BY <2>1
  <2>10. PICK x : x = [remote[r] EXCEPT !.i = k, !.conn = conn]
    OBVIOUS
  <2>11. /\ x \in RemoteState /\ x.pc = "infos" /\ x.i = i + 1 /\ x.id = r /\ x.conn = conn
    BY <1>0, <1>1, <2>9, <2>10 DEF RemoteState
  <2>12. remote' = [remote EXCEPT ![r] = x]
    <3>1. remote' = [remote EXCEPT ![r].i = k, ![r].conn[i] = entry]
      BY <2>2, <2>6, <2>7, <2>9
    <3>2. PICK y, first : y = [remote[r] EXCEPT !.i = k] /\ first = [remote EXCEPT ![r] = y]
      OBVIOUS
    <3>3. first[r] = y /\ y.conn = remote[r].conn
      BY <1>0, <3>2 DEF AllTyped, RemoteState
    <3>4. remote' = [first EXCEPT ![r].conn[i] = entry]
      BY <3>1, <3>2
    <3>5. remote' = [first EXCEPT ![r] = [y EXCEPT !.conn = conn]]
      BY <2>8, <3>3, <3>4
    <3>6. [y EXCEPT !.conn = conn] = x
      BY <2>10, <3>2
    <3> QED BY <3>2, <3>5, <3>6
  <2>13. ASSUME NEW j \in Rank \ {r}, j < i + 1
        PROVE  conn[j] = [rang |-> j, port |-> Port(j)]
    <3>1. CASE j = i
      BY <1>0, <2>1, <2>7, <2>8, <3>1 DEF RemoteState
    <3>2. CASE j # i
      <4>1. j < i
        BY <2>13, <3>2, Numbers
      <4>2. remote[r].conn[j] = [rang |-> j, port |-> Port(j)]
        BY <1>1, <1>2, <4>1
      <4> QED BY <1>0, <2>8, <3>2, <4>2 DEF RemoteState
    <3> QED BY <3>1, <3>2
  <2>14. 3 + 2 * Before(r, i + 1) = Taken(r) + 2
    BY <1>3, <1>6, <2>1, Numbers DEF Before
  <2>15. PICK n \in Nat : n = 2
    OBVIOUS
  <2>16. /\ n <= Len(down[r]) /\ down' = [down EXCEPT ![r] = SubSeq(@, n + 1, Len(@))]
         /\ 3 + 2 * Before(r, x.i) = Taken(r) + n
    BY <2>2, <2>3, <2>11, <2>14, <2>15
  <2>17. \A j \in Rank \ {r} : j < x.i => x.conn[j] = [rang |-> j, port |-> Port(j)]
    BY <2>11, <2>13
  <2> QED BY <1>5, <2>11, <2>12, <2>16, <2>17
<1>7. CASE i = num_procs \/ i = r
  <2>1. PICK n \in Nat : n = 0
    OBVIOUS
  <2>2. /\ n <= Len(down[r]) /\ down' = [down EXCEPT ![r] = SubSeq(@, n + 1, Len(@))]
        /\ \/ i = num_procs /\ remote' = [remote EXCEPT ![r].pc = "listen"]
           \/ i < num_procs /\ i = r /\ remote' = [remote EXCEPT ![r].i = i + 1]
    <3>1. Len(down[r]) \in Nat
      BY LenProperties DEF AllTyped
    <3> QED BY <1>1, <1>2, <1>7, <2>1, <3>1 DEF RecvInfos, Reads
  <2>3. CASE i = num_procs /\ remote' = [remote EXCEPT ![r].pc = "listen"]
    <3>1. PICK x : x = [remote[r] EXCEPT !.pc = "listen"]
      OBVIOUS
    <3>2. /\ x \in RemoteState /\ x.pc = "listen" /\ x.i = i /\ x.id = r /\ x.conn = remote[r].conn
      BY <1>0, <1>1, <1>2, <3>1 DEF RemoteState, RemotePc
    <3>3. remote' = [remote EXCEPT ![r] = x]
      BY <2>3, <3>1
    <3>4. 3 + 2 * Before(r, x.i) = Taken(r) + n
      BY <1>3, <2>1, <3>2
    <3>5. \A j \in Rank \ {r} : j < x.i => x.conn[j] = [rang |-> j, port |-> Port(j)]
      BY <1>1, <1>2, <3>2
    <3> QED BY <1>5, <2>2, <2>3, <3>2, <3>3, <3>4, <3>5
  <2>4. CASE i < num_procs /\ i = r /\ remote' = [remote EXCEPT ![r].i = i + 1]
    <3>1. PICK k \in 0 .. num_procs : k = i + 1
      BY <2>4, LaunchAssumption
    <3>2. PICK x : x = [remote[r] EXCEPT !.i = k]
      OBVIOUS
    <3>3. /\ x \in RemoteState /\ x.pc = "infos" /\ x.i = i + 1 /\ x.id = r
          /\ x.conn = remote[r].conn
      BY <1>0, <1>1, <3>1, <3>2 DEF RemoteState
    <3>4. remote' = [remote EXCEPT ![r] = x]
      BY <2>4, <3>1, <3>2
    <3>5. 3 + 2 * Before(r, x.i) = Taken(r) + n
      BY <1>3, <2>1, <2>4, <3>3, Numbers DEF Before
    <3>6. \A j \in Rank \ {r} : j < x.i => x.conn[j] = [rang |-> j, port |-> Port(j)]
      BY <1>1, <1>2, <2>4, <3>3, Numbers
    <3> QED BY <1>5, <2>2, <3>3, <3>4, <3>5, <3>6
  <2> QED BY <2>2, <2>3, <2>4
<1> QED BY <1>2, <1>6, <1>7, LaunchAssumption

\* A step of r that neither reads nor starts to read.
LEMMA QuietStep ==
  ASSUME AllTyped, DownInv, NEW r \in Rank, NEW x \in RemoteState,
         remote' = [remote EXCEPT ![r] = x], UNCHANGED <<launcher, down>>,
         x.i = remote[r].i,
         \/ /\ remote[r].pc \in {"absent", "connected", "known", "sync"}
            /\ x.pc \in {"absent", "connected", "known", "sync"}
         \/ x.pc \in {"failed", "ended"}
  PROVE  DownInv'
<1>1. remote'[r] = x
  BY DEF AllTyped
<1>2. FilledAt(r)'
  BY <1>1 DEF DownInv, Filled, FilledAt
<1>3. ASSUME ~Gone(r)' PROVE (\E c \in Nat : Prepared(r, c) /\ Line(r, c))'
  <2>1. ~Gone(r) /\ Taken(r) = 0 /\ Taken(r)' = 0
    BY <1>1, <1>3 DEF Gone, Taken
  <2>2. PICK c \in Nat : Prepared(r, c) /\ Line(r, c)
    BY <2>1 DEF DownInv, Lines
  <2>3. Unread(r)' = Unread(r)
    BY DEF Unread
  <2>4. Prepared(r, c)' /\ Line(r, c)'
    BY <2>1, <2>2, <2>3 DEF Prepared, Line
  <2> QED BY <2>4
<1> QED BY <1>1, <1>2, <1>3, ProcessLines

LEMMA QuietSteps ==
  ASSUME AllTyped, DownInv, NEW r \in Rank,
         Connect(r) \/ SendRangPid(r) \/ SendPort(r) \/ Fail(r) \/ EndPlain(r)
  PROVE  AllTyped' /\ DownInv'
<1>0. remote[r] \in RemoteState /\ queue \in Seq(Rank) /\ up[r] \in Seq(Nat)
  BY DEF AllTyped
<1>1. PICK port \in Nat \ {0}, pid \in Nat \ {0} : port = Port(r) /\ pid = Pid(r)
  BY Numbers
<1>2. r \in Nat
  BY Numbers
<1>3. /\ UNCHANGED <<launcher, num_procs_creat, backlog, child, dsm_array, down>>
      /\ down' \in [Rank -> Seq(Nat)]
  BY DEF Connect, SendRangPid, SendPort, Fail, EndPlain, Alone, AllTyped
<1>4. PICK x : /\ remote' = [remote EXCEPT ![r] = x]
               /\ x \in RemoteState /\ x.i = remote[r].i
               /\ \/ /\ remote[r].pc \in {"absent", "connected", "known", "sync"}
                     /\ x.pc \in {"absent", "connected", "known", "sync"}
                  \/ x.pc \in {"failed", "ended"}
  <2>1. CASE Connect(r) \/ SendRangPid(r) \/ Fail(r) \/ EndPlain(r)
    <3>1. PICK label \in {"connected", "known", "failed", "ended"} :
            /\ remote' = [remote EXCEPT ![r].pc = label]
            /\ \/ remote[r].pc \in {"absent", "connected", "known", "sync"}
               \/ label \in {"failed", "ended"}
      BY <2>1 DEF Connect, SendRangPid, Fail, EndPlain
    <3>2. PICK x : x = [remote[r] EXCEPT !.pc = label]
      OBVIOUS
    <3>3. x \in RemoteState /\ x.i = remote[r].i /\ x.pc = label
      BY <1>0, <3>2 DEF RemoteState, RemotePc
    <3> QED BY <3>1, <3>2, <3>3
  <2>2. CASE SendPort(r)
    <3>1. PICK x : x = [remote[r] EXCEPT !.pc = "sync", !.port = port]
      OBVIOUS
    <3>2. x \in RemoteState /\ x.i = remote[r].i /\ x.pc = "sync"
      BY <1>0, <3>1 DEF RemoteState, RemotePc
    <3>3. remote' = [remote EXCEPT ![r] = x] /\ remote[r].pc = "known"
      BY <1>1, <2>2, <3>1 DEF SendPort
    <3> QED BY <3>2, <3>3
  <2> QED BY <2>1, <2>2
<1>5. DownInv'
  <2>1. UNCHANGED <<launcher, down>>
    BY <1>3
  <2> QED BY <1>4, <2>1, QuietStep
<1>6. queue' \in Seq(Rank)
  BY <1>0, AppendProperties DEF Connect, SendRangPid, SendPort, Fail, EndPlain
<1>7. up' \in [Rank -> Seq(Nat)]
  <2>1. PICK two \in Seq(Nat), one \in Seq(Nat) : two = up[r] \o <<r, pid>> /\ one = Append(up[r], port)
    <3>1. <<r, pid>> \in Seq(Nat)
      BY <1>2
    <3>2. up[r] \o <<r, pid>> \in Seq(Nat)
      BY <1>0, <3>1, ConcatProperties
    <3>3. Append(up[r], port) \in Seq(Nat)
      BY <1>0, AppendProperties
    <3> QED BY <3>2, <3>3
  <2>2. \/ up' = up \/ up' = [up EXCEPT ![r] = two] \/ up' = [up EXCEPT ![r] = one]
    BY <1>1, <2>1 DEF Connect, SendRangPid, SendPort, Fail, EndPlain
  <2> QED BY <2>2 DEF AllTyped
<1>8. AllTyped'
  BY <1>3, <1>4, <1>6, <1>7, ProcessTyped
<1> QED BY <1>5, <1>8

----------------------------------------------------------------------------
(* What dsmexec writes                                                     *)

\* A step of dsmexec that prepares nothing, with nothing left to write.
LEMMA NothingPrepared ==
  ASSUME AllTyped, DownInv, UNCHANGED <<remote, down>>,
         launcher.out = << >>, launcher'.out = << >>,
         \A r \in Rank, c \in Nat : Prepared(r, c) => Prepared(r, c)',
         Sending'
  PROVE  DownInv'
<1>1. Filled'
  BY DEF DownInv, Filled, FilledAt
<1>2. ASSUME NEW r \in Rank, ~Gone(r)'
     PROVE  (\E c \in Nat : Prepared(r, c) /\ Line(r, c))'
  <2>1. ~Gone(r)
    BY <1>2 DEF Gone
  <2>2. PICK c \in Nat : Prepared(r, c) /\ Line(r, c)
    BY <2>1 DEF DownInv, Lines
  <2>3. Unread(r) = down[r] \o << >> /\ Unread(r)' = down[r] \o << >>
    BY DEF Unread
  <2>4. Taken(r)' = Taken(r)
    BY DEF Taken
  <2>5. Line(r, c)'
    BY <2>2, <2>3, <2>4 DEF Line
  <2> QED BY <2>2, <2>5
<1>3. Lines'
  BY <1>2 DEF Lines
<1> QED BY <1>1, <1>3 DEF DownInv

\* dsmexec before it sends, and when it has sent all.
LEMMA BeforeAndAfter ==
  ASSUME AllTyped, DownInv,
         Fork \/ Pass \/ Accept \/ RecvRang \/ RecvPid \/ RecvPort \/ EndSend
  PROVE  DownInv'
<1>1. UNCHANGED <<remote, down>>
  BY DEF Fork, Pass, Accept, RecvRang, RecvPid, RecvPort, EndSend, Takes
<1>2. launcher \in LauncherState
  BY DEF AllTyped
<1>3. /\ launcher.pc \in {"fork", "barrier", "accept", "rang", "pid", "port"} \/ EndSend
      /\ launcher.out = << >>
  BY DEF Fork, Pass, Accept, RecvRang, RecvPid, RecvPort, EndSend, Takes, DownInv, Sending
<1>4. /\ launcher'.out = << >>
      /\ \/ launcher'.pc \in {"fork", "barrier", "accept", "rang", "pid", "port"}
         \/ launcher'.pc = "send" /\ launcher'.i = 0
         \/ launcher'.pc = "io"
      /\ launcher'.pc \in {"fork", "barrier", "accept", "rang", "pid", "port", "send"} =>
           launcher.pc \in {"fork", "barrier", "accept", "rang", "pid", "port"}
  <2>1. PICK k, w, fd : k = launcher.i + 1 /\ w = NextWord /\ fd = Head(queue)
    OBVIOUS
  <2>2. \/ launcher' = [launcher EXCEPT !.i = k, !.pc = "barrier"] /\ launcher.pc = "fork"
        \/ launcher' = [launcher EXCEPT !.i = k, !.pc = "fork"] /\ launcher.pc = "fork"
        \/ launcher' = [launcher EXCEPT !.pc = "accept", !.i = 0] /\ launcher.pc = "barrier"
        \/ launcher' = [launcher EXCEPT !.pc = "rang", !.fd = fd] /\ launcher.pc = "accept"
        \/ launcher' = [launcher EXCEPT !.pc = "pid", !.rang = w] /\ launcher.pc = "rang"
        \/ launcher' = [launcher EXCEPT !.pc = "port"] /\ launcher.pc = "pid"
        \/ launcher' = [launcher EXCEPT !.pc = "accept", !.i = k] /\ launcher.pc = "port"
        \/ launcher' = [launcher EXCEPT !.pc = "send", !.i = 0] /\ launcher.pc = "port"
        \/ launcher' = [launcher EXCEPT !.pc = "io"]
    <3>1. CASE Fork
      BY <2>1, <3>1 DEF Fork
    <3>2. CASE RecvPort
      BY <2>1, <3>2 DEF RecvPort, Takes
    <3>3. CASE Pass \/ Accept \/ RecvRang \/ RecvPid \/ EndSend
      BY <2>1, <3>3 DEF Pass, Accept, RecvRang, RecvPid, EndSend, Takes
    <3> QED BY <3>1, <3>2, <3>3
  <2> QED BY <1>2, <1>3, <2>2 DEF LauncherState
<1>5. ASSUME NEW r \in Rank, NEW c \in Nat, Prepared(r, c)
     PROVE  Prepared(r, c)'
  BY <1>4, <1>5, Numbers DEF Prepared
<1>6. Sending'
  BY <1>4 DEF Sending
<1> QED BY <1>1, <1>3, <1>4, <1>5, <1>6, NothingPrepared

\* When dsmexec sends, entry r of its table is complete.
LEMMA EntryComplete ==
  ASSUME BarrierInv, CollectInv, launcher.pc \in {"send", "infos"}, NEW r \in Rank
  PROVE  dsm_array[r].rang = r /\ dsm_array[r].fd_init = r /\ dsm_array[r].port = Port(r)
<1>1. dsm_array[r].rang = r
  BY DEF BarrierInv, BarrierSound
<1>2. dsm_array[r].port # 0
  BY DEF CollectInv, LinkInv, Collected, Known
<1>3. PICK a \in 0 .. 3, b \in {0, 2, 3} : Link(r, a, b)
  BY DEF CollectInv, LinkInv, Linked
<1> QED BY <1>1, <1>2, <1>3 DEF Link

\* The words that r has not read are u.
LEMMA LineNext ==
  ASSUME NEW r \in Rank, NEW c \in Nat, NEW u, Unread(r)' = u, Taken(r)' = Taken(r),
         Len(u) = c - Taken(r), \A k \in 1 .. Len(u) : Told(r, Taken(r) + k, u[k])
  PROVE  Line(r, c)'
<1>1. Len(Unread(r)') = c - Taken(r)'
  OBVIOUS
<1>2. \A k \in 1 .. Len(Unread(r)') : Told(r, Taken(r)' + k, Unread(r)'[k])
  OBVIOUS
<1> QED BY <1>1, <1>2 DEF Line, Told, Before

LEMMA TakenInt == ASSUME AllTyped, NEW r \in Rank PROVE Taken(r) \in Int
<1>1. remote[r].i \in Int /\ r \in Int
  BY LaunchAssumption DEF AllTyped, RemoteState, Rank
<1>2. Before(r, remote[r].i) \in Int
  BY <1>1 DEF Before
<1> QED BY <1>2 DEF Taken

\* Words are prepared for the process i.
LEMMA WordsPrepared ==
  ASSUME AllTyped, DownInv, UNCHANGED <<remote, down>>, launcher.out = << >>,
         NEW i \in Rank, NEW out \in Seq(Nat), launcher'.fd = i, launcher'.out = out,
         \A r \in Rank \ {i}, c \in Nat : Prepared(r, c) => Prepared(r, c)',
         \A c \in Nat : Prepared(i, c) => /\ Prepared(i, c + Len(out))'
                                          /\ \A k \in 1 .. Len(out) : Told(i, c + k, out[k]),
         Sending'
  PROVE  DownInv'
<1>1. Filled'
  BY DEF DownInv, Filled, FilledAt
<1>2. ASSUME NEW r \in Rank, ~Gone(r)'
     PROVE  (\E c \in Nat : Prepared(r, c) /\ Line(r, c))'
  <2>1. ~Gone(r)
    BY <1>2 DEF Gone
  <2>2. PICK c \in Nat : Prepared(r, c) /\ Line(r, c)
    BY <2>1 DEF DownInv, Lines
  <2>3. down[r] \in Seq(Nat) /\ Taken(r)' = Taken(r)
    BY DEF AllTyped, Taken
  <2>4. Unread(r) = down[r]
    BY <2>3, ConcatEmptySeq DEF Unread
  <2>5. Len(down[r]) = c - Taken(r) /\ \A k \in 1 .. Len(down[r]) : Told(r, Taken(r) + k, down[r][k])
    BY <2>2, <2>4 DEF Line
  <2>6. Len(down[r]) \in Nat /\ Len(out) \in Nat /\ Taken(r) \in Int
    BY <2>3, LenProperties, TakenInt
  <2>7. CASE r # i
    <3>1. Unread(r)' = down[r]
      BY <2>3, <2>7, ConcatEmptySeq DEF Unread
    <3>2. Line(r, c)'
      BY <2>3, <2>5, <3>1, LineNext
    <3>3. Prepared(r, c)'
      BY <2>2, <2>7
    <3> QED BY <3>2, <3>3
  <2>8. CASE r = i
    <3>1. Unread(r)' = down[r] \o out
      BY <2>8 DEF Unread
    <3>2. /\ Len(down[r] \o out) = Len(down[r]) + Len(out)
          /\ \A k \in 1 .. Len(down[r]) + Len(out) :
               (down[r] \o out)[k] = IF k <= Len(down[r]) THEN down[r][k] ELSE out[k - Len(down[r])]
      BY <2>3, ConcatProperties
    <3>3. Prepared(r, c + Len(out))' /\ \A k \in 1 .. Len(out) : Told(r, c + k, out[k])
      BY <2>2, <2>8
    <3>4. ASSUME NEW k \in 1 .. Len(down[r]) + Len(out)
         PROVE  Told(r, Taken(r) + k, (down[r] \o out)[k])
      <4>1. CASE k <= Len(down[r])
        BY <2>5, <2>6, <3>2, <4>1
      <4>2. CASE ~(k <= Len(down[r]))
        <5>1. PICK l \in 1 .. Len(out) : l = k - Len(down[r])
          <6>1. k - Len(down[r]) \in 1 .. Len(out)
            BY <2>6, <4>2
          <6> QED BY <6>1
        <5>2. Told(r, c + l, out[l])
          BY <3>3
        <5>3. c + l = Taken(r) + k
          BY <2>5, <2>6, <5>1
        <5>4. (down[r] \o out)[k] = out[l]
          BY <3>2, <4>2, <5>1
        <5> QED BY <5>2, <5>3, <5>4
      <4> QED BY <4>1, <4>2
    <3>6. c + Len(out) \in Nat
      BY <2>6
    <3>5. Line(r, c + Len(out))'
      <4>1. Len(down[r] \o out) = (c + Len(out)) - Taken(r)
        BY <2>5, <2>6, <3>2
      <4>2. \A k \in 1 .. Len(down[r] \o out) : Told(r, Taken(r) + k, (down[r] \o out)[k])
        BY <3>2, <3>4
      <4> QED BY <2>3, <3>1, <3>6, <4>1, <4>2, LineNext
    <3> QED BY <3>3, <3>5, <3>6
  <2> QED BY <2>7, <2>8
<1>3. Lines'
  BY <1>2 DEF Lines
<1> QED BY <1>1, <1>3 DEF DownInv

LEMMA PrepareStep ==
  ASSUME BarrierInv, CollectInv, AllTyped, DownInv, Prepare
  PROVE  DownInv'
<1>1. PICK i \in Rank : i = launcher.i
  BY LaunchAssumption DEF Prepare, AllTyped, LauncherState, Rank
<1>2. dsm_array[i].rang = i /\ dsm_array[i].fd_init = i
  BY EntryComplete DEF Prepare
<1>3. PICK n \in Nat \ {0} : n = num_procs
  BY LaunchAssumption
<1>4. PICK out \in Seq(Nat) : out = <<0, n, i>>
  <2>1. i \in Nat
    BY Numbers
  <2>2. <<0, n, i>> \in Seq(Nat)
    BY <2>1
  <2> QED BY <2>2
<1>5. launcher' = [launcher EXCEPT !.pc = "infos", !.j = 0, !.fd = i, !.out = out]
  BY <1>1, <1>2, <1>3, <1>4 DEF Prepare
<1>6. /\ launcher'.pc = "infos" /\ launcher'.j = 0 /\ launcher'.fd = i /\ launcher'.out = out
      /\ launcher'.i = i
  BY <1>1, <1>5 DEF AllTyped, LauncherState
<1>7. launcher.pc = "send" /\ launcher.out = << >> /\ UNCHANGED <<remote, down>>
  BY DEF Prepare
<1>8. \A r \in Rank \ {i}, c \in Nat : Prepared(r, c) => Prepared(r, c)'
  BY <1>1, <1>6, <1>7 DEF Prepared, All, Before
<1>9. ASSUME NEW c \in Nat, Prepared(i, c)
     PROVE  /\ Prepared(i, c + Len(out))'
            /\ \A k \in 1 .. Len(out) : Told(i, c + k, out[k])
  <2>1. c = 0
    BY <1>1, <1>7, <1>9, Numbers DEF Prepared
  <2>2. Len(out) = 3 /\ out[1] = 0 /\ out[2] = n /\ out[3] = i
    BY <1>4
  <2>3. 3 + 2 * Before(i, 0) = 3
    BY Numbers DEF Before
  <2>4. Prepared(i, c + Len(out))'
    BY <1>6, <2>1, <2>2, <2>3, Numbers DEF Prepared, Before
  <2> QED BY <1>3, <2>1, <2>2, <2>4 DEF Told
<1>10. Sending'
  BY <1>3, <1>6 DEF Sending
<1> QED BY <1>6, <1>7, <1>8, <1>9, <1>10, WordsPrepared

LEMMA PrepareInfosStep ==
  ASSUME BarrierInv, CollectInv, AllTyped, DownInv, PrepareInfos
  PROVE  DownInv'
<1>1. /\ launcher.pc = "infos" /\ launcher.out = << >> /\ UNCHANGED <<remote, down>>
      /\ launcher \in LauncherState
  BY DEF PrepareInfos, AllTyped
<1>2. PICK i \in Rank, j \in Rank : i = launcher.i /\ j = launcher.j /\ launcher.fd = i
  BY <1>1, LaunchAssumption DEF DownInv, Sending, LauncherState, Rank
<1>3. /\ dsm_array[i].rang = i /\ dsm_array[j].rang = j /\ dsm_array[j].port = Port(j)
  BY <1>1, EntryComplete
<1>4. PICK out \in Seq(Nat) : out = IF j = i THEN << >> ELSE <<j, Port(j)>>
  <2>1. PICK port \in Nat : port = Port(j) /\ j \in Nat
    BY Numbers
  <2>2. <<j, port>> \in Seq(Nat)
    BY <2>1
  <2>3. << >> \in Seq(Nat) /\ <<j, Port(j)>> \in Seq(Nat)
    BY <2>1, <2>2
  <2>4. (IF j = i THEN << >> ELSE <<j, Port(j)>>) \in Seq(Nat)
    BY <2>3
  <2> QED BY <2>4
<1>5. PICK next : next = [launcher EXCEPT !.out = out, !.j = j + 1]
  OBVIOUS
<1>6. launcher' = IF next.j < num_procs THEN next ELSE [next EXCEPT !.pc = "send", !.i = @ + 1]
  BY <1>2, <1>3, <1>4, <1>5 DEF PrepareInfos, Infos
<1>7. /\ launcher'.fd = i /\ launcher'.out = out
      /\ j + 1 < num_procs => launcher'.pc = "infos" /\ launcher'.i = i /\ launcher'.j = j + 1
      /\ ~(j + 1 < num_procs) => launcher'.pc = "send" /\ launcher'.i = i + 1
  BY <1>1, <1>2, <1>5, <1>6 DEF LauncherState
<1>8. num_procs \in Nat /\ i \in 0 .. num_procs - 1 /\ j \in 0 .. num_procs - 1
  BY LaunchAssumption DEF Rank
<1>9. ~(j + 1 < num_procs) => j + 1 = num_procs
  BY <1>8
<1>10. ASSUME NEW r \in Rank \ {i}, NEW c \in Nat, Prepared(r, c) PROVE Prepared(r, c)'
  <2>1. r < i + 1 <=> r < i
    BY <1>8, Numbers
  <2>2. c = IF r < i THEN All(r) ELSE 0
    BY <1>1, <1>2, <1>10 DEF Prepared
  <2> QED BY <1>7, <2>1, <2>2 DEF Prepared, All, Before
<1>11. ASSUME NEW c \in Nat, Prepared(i, c)
     PROVE  /\ Prepared(i, c + Len(out))'
            /\ \A k \in 1 .. Len(out) : Told(i, c + k, out[k])
  <2>1. c = 3 + 2 * Before(i, j)
    BY <1>1, <1>2, <1>8, <1>11 DEF Prepared
  <2>2. c + Len(out) = 3 + 2 * Before(i, j + 1)
    BY <1>4, <1>8, <2>1 DEF Before
  <2>3. Prepared(i, c + Len(out))'
    <3>1. CASE j + 1 < num_procs
      <4>1. launcher'.pc = "infos" /\ launcher'.i = i /\ launcher'.j = j + 1
        BY <1>7, <3>1
      <4>2. ~(i < i)
        BY <1>8
      <4> QED BY <2>2, <4>1, <4>2 DEF Prepared, Before
    <3>2. CASE ~(j + 1 < num_procs)
      BY <1>7, <1>8, <1>9, <2>2, <3>2 DEF Prepared, All, Before
    <3> QED BY <3>1, <3>2
  <2>4. ASSUME NEW k \in 1 .. Len(out) PROVE Told(i, c + k, out[k])
    <3>1. j # i
      BY <1>4, <2>4
    <3>2. k \in {1, 2} /\ out[1] = j /\ out[2] = Port(j)
      BY <1>4, <2>4, <3>1
    <3>3. c + 1 = 4 + 2 * Before(i, j) /\ c + 2 = 5 + 2 * Before(i, j)
      BY <1>8, <2>1 DEF Before
    <3> QED BY <3>1, <3>2, <3>3 DEF Told
  <2> QED BY <2>3, <2>4
<1>12. Sending'
  BY <1>7, <1>2 DEF Sending
<1> QED BY <1>1, <1>7, <1>10, <1>11, <1>12, WordsPrepared

LEMMA SendStep == ASSUME AllTyped, DownInv, Send PROVE DownInv'
<1>0. /\ launcher \in LauncherState /\ launcher.out \in Seq(Nat) /\ launcher.out # << >>
      /\ UNCHANGED remote
  BY DEF Send, AllTyped, LauncherState
<1>1. PICK w \in Nat, rest \in Seq(Nat) : w = Head(launcher.out) /\ rest = Tail(launcher.out)
  BY <1>0, HeadTailProperties
<1>2. \/ /\ launcher' = [launcher EXCEPT !.out = rest]
         /\ down' = IF Gone(launcher.fd) THEN down ELSE [down EXCEPT ![launcher.fd] = Append(@, w)]
      \/ launcher' = [launcher EXCEPT !.pc = "killed"] /\ down' = down
  BY <1>1 DEF Send
<1>3. /\ launcher'.fd = launcher.fd /\ launcher'.i = launcher.i /\ launcher'.j = launcher.j
      /\ launcher'.pc = launcher.pc \/ launcher'.pc = "killed"
      /\ launcher.pc \in {"send", "infos"}
  BY <1>0, <1>2 DEF LauncherState, Send
<1>4. Filled'
  BY <1>0 DEF DownInv, Filled, FilledAt
<1>5. Sending'
  BY <1>3 DEF DownInv, Sending
<1>6. ASSUME NEW r \in Rank, ~Gone(r)'
     PROVE  (\E c \in Nat : Prepared(r, c) /\ Line(r, c))'
  <2>1. ~Gone(r) /\ Taken(r)' = Taken(r)
    BY <1>0, <1>6 DEF Gone, Taken
  <2>2. PICK c \in Nat : Prepared(r, c) /\ Line(r, c)
    BY <2>1 DEF DownInv, Lines
  <2>3. Unread(r)' = Unread(r)
    <3>1. CASE launcher.fd # r
      <4>1. down'[r] = down[r]
        BY <1>2, <3>1 DEF AllTyped
      <4> QED BY <1>3, <3>1, <4>1 DEF Unread
    <3>2. CASE launcher.fd = r /\ launcher' = [launcher EXCEPT !.pc = "killed"] /\ down' = down
      <4>1. launcher'.out = launcher.out
        BY <1>0, <3>2 DEF LauncherState
      <4> QED BY <1>3, <3>2, <4>1 DEF Unread
    <3>3. CASE /\ launcher.fd = r /\ launcher' = [launcher EXCEPT !.out = rest]
               /\ down' = [down EXCEPT ![r] = Append(@, w)]
      <4>1. launcher'.out = rest
        BY <1>0, <3>3 DEF LauncherState
      <4>2. down[r] \in Seq(Nat) /\ down'[r] = Append(down[r], w)
        BY <3>3 DEF AllTyped
      <4>3. Append(down[r], w) \o rest = down[r] \o launcher.out
        BY <1>0, <1>1, <4>2, MoveWord
      <4> QED BY <1>3, <3>3, <4>1, <4>2, <4>3 DEF Unread
    <3> QED BY <1>2, <2>1, <3>1, <3>2, <3>3
  <2>4. Prepared(r, c)' /\ Line(r, c)'
    BY <1>3, <2>1, <2>2, <2>3 DEF Prepared, Line, All, Told, Before
  <2> QED BY <2>4
<1>7. Lines'
  BY <1>6 DEF Lines
<1> QED BY <1>4, <1>5, <1>7 DEF DownInv

----------------------------------------------------------------------------
(* All together                                                            *)

\* Words stay when nobody writes or reads.
LEMMA LinesStay == ASSUME Lines, UNCHANGED <<launcher, remote, down>> PROVE Lines'
<1>1. ASSUME NEW r \in Rank, ~Gone(r)'
     PROVE  (\E c \in Nat : Prepared(r, c) /\ Line(r, c))'
  <2>1. ~Gone(r)
    BY <1>1 DEF Gone
  <2>2. PICK c \in Nat : Prepared(r, c) /\ Line(r, c)
    BY <2>1 DEF Lines
  <2>3. Unread(r)' = Unread(r) /\ Taken(r)' = Taken(r)
    BY DEF Unread, Taken
  <2>4. Prepared(r, c)' /\ Line(r, c)'
    BY <2>2, <2>3 DEF Prepared, Line
  <2> QED BY <2>4
<1> QED BY <1>1 DEF Lines

\* The children write ranks and counters, and end.
LEMMA ChildTyped ==
  ASSUME AllTyped, DownInv, NEW r \in Rank, Load(r) \/ Store(r) \/ Sigchld(r)
  PROVE  AllTyped' /\ DownInv'
<1>0. /\ launcher \in LauncherState /\ child[r] \in ChildState /\ dsm_array[r] \in EntryState
      /\ UNCHANGED <<backlog, remote, queue, up, down>> /\ num_procs_creat \in Nat
  BY DEF AllTyped, Load, Store, Sigchld
<1>1. dsm_array' \in [Rank -> EntryState]
  <2>1. [dsm_array[r] EXCEPT !.rang = r] \in EntryState
    BY <1>0 DEF EntryState
  <2> QED BY <2>1 DEF AllTyped, Load, Store, Sigchld
<1>2. child' \in [Rank -> ChildState]
  <2>1. /\ [pc |-> "counting", seen |-> num_procs_creat] \in ChildState
        /\ [child[r] EXCEPT !.pc = "ssh"] \in ChildState
        /\ [child[r] EXCEPT !.pc = "reaped"] \in ChildState
    BY <1>0 DEF ChildState
  <2>2. \/ child' = [child EXCEPT ![r] = [pc |-> "counting", seen |-> num_procs_creat]]
        \/ child' = [child EXCEPT ![r].pc = "ssh"]
        \/ child' = [child EXCEPT ![r].pc = "reaped"]
    BY DEF Load, Store, Sigchld
  <2> QED BY <2>1, <2>2 DEF AllTyped
<1>3. num_procs_creat' \in Nat
  BY <1>0 DEF Load, Store, Sigchld, ChildState
<1>4. \/ launcher' = launcher
      \/ /\ launcher.pc \in {"rang", "pid", "port"}
         /\ launcher' = [launcher EXCEPT !.pc = "derailed"]
  BY DEF Load, Store, Sigchld, Blocked
<1>5. launcher' \in LauncherState
  BY <1>0, <1>4 DEF LauncherState, LauncherPc
<1>6. AllTyped'
  BY <1>0, <1>1, <1>2, <1>3, <1>5 DEF AllTyped
<1>7. CASE launcher' = launcher
  <2>1. Lines'
    BY <1>0, <1>7, LinesStay DEF DownInv
  <2>2. Sending' /\ Filled'
    BY <1>0, <1>7 DEF DownInv, Sending, Filled, FilledAt
  <2> QED BY <1>6, <2>1, <2>2 DEF DownInv
<1>8. CASE /\ launcher.pc \in {"rang", "pid", "port"}
           /\ launcher' = [launcher EXCEPT !.pc = "derailed"]
  <2>1. launcher.out = << >> /\ launcher'.out = << >> /\ launcher'.pc = "derailed"
    BY <1>0, <1>8 DEF DownInv, Sending, LauncherState
  <2>2. \A s \in Rank, c \in Nat : Prepared(s, c) => Prepared(s, c)'
    BY <2>1 DEF Prepared
  <2>3. Sending'
    BY <2>1 DEF Sending
  <2> QED BY <1>0, <1>6, <2>1, <2>2, <2>3, NothingPrepared
<1> QED BY <1>4, <1>7, <1>8

LEMMA DownStarts == Init => AllTyped /\ DownInv
<1> SUFFICES ASSUME Init PROVE AllTyped /\ DownInv
  OBVIOUS
<1>1. 0 \in Rank /\ 0 \in 0 .. num_procs /\ << >> \in Seq(Nat) /\ << >> \in Seq(Rank)
  BY Numbers, LaunchAssumption
<1>2. [pc |-> "fork", i |-> 0, j |-> 0, fd |-> None, rang |-> 0, out |-> <<>>] \in LauncherState
  BY <1>1 DEF LauncherState, LauncherPc
<1>3. [rang |-> 0, fd_init |-> None, pid |-> 0, port |-> 0] \in EntryState
  BY <1>1 DEF EntryState
<1>4. PICK conn \in [Rank -> Contact] : conn = [j \in Rank |-> [rang |-> 0, port |-> 0]]
  <2>1. [rang |-> 0, port |-> 0] \in Contact
    BY <1>1 DEF Contact
  <2>2. [j \in Rank |-> [rang |-> 0, port |-> 0]] \in [Rank -> Contact]
    BY <2>1
  <2> QED BY <2>2
<1>5. PICK x : x = [pc |-> "absent", port |-> 0, id |-> 0, i |-> 0, conn |-> conn]
  OBVIOUS
<1>6. x \in RemoteState /\ x.pc = "absent" /\ x.i = 0
  BY <1>1, <1>5 DEF RemoteState, RemotePc
<1>7. remote = [r \in Rank |-> x]
  BY <1>4, <1>5 DEF Init
<1>8. AllTyped
  <2>1. /\ launcher \in LauncherState /\ num_procs_creat \in Nat /\ backlog \in Nat
        /\ child \in [Rank -> ChildState]
    BY <1>2 DEF Init, ChildState
  <2>2. dsm_array \in [Rank -> EntryState] /\ remote \in [Rank -> RemoteState]
    BY <1>3, <1>6, <1>7 DEF Init
  <2>3. queue \in Seq(Rank) /\ up \in [Rank -> Seq(Nat)] /\ down \in [Rank -> Seq(Nat)]
    BY <1>1 DEF Init
  <2> QED BY <2>1, <2>2, <2>3 DEF AllTyped
<1>9. ASSUME NEW r \in Rank PROVE FilledAt(r) /\ Prepared(r, 0) /\ Line(r, 0)
  <2>1. remote[r].pc = "absent" /\ remote[r].i = 0 /\ Taken(r) = 0
    BY <1>6, <1>7 DEF Taken
  <2>2. Unread(r) = << >>
    <3>1. down[r] = << >> /\ launcher.out = << >>
      BY DEF Init
    <3>2. << >> \o << >> = << >>
      BY <1>1, ConcatEmptySeq
    <3> QED BY <3>1, <3>2 DEF Unread
  <2>3. Line(r, 0)
    BY <2>1, <2>2 DEF Line
  <2>4. Prepared(r, 0)
    BY DEF Init, Prepared
  <2> QED BY <2>1, <2>3, <2>4 DEF FilledAt
<1>10. DownInv
  BY <1>9 DEF DownInv, Lines, Filled, Sending, Init
<1> QED BY <1>8, <1>10

\* The contents of the lines hold up to the steps of dsmexec, of its children
\* and of the remote processes.
LEMMA DownHolds == Spec => [](AllTyped /\ DownInv)
<1>1. BarrierInv /\ CollectInv /\ AllTyped /\ DownInv /\ [Next]_vars => (AllTyped /\ DownInv)'
  <2> SUFFICES ASSUME BarrierInv, CollectInv, AllTyped, DownInv, [Next]_vars
               PROVE  AllTyped' /\ DownInv'
    OBVIOUS
  <2>1. CASE UNCHANGED vars
    <3>1. UNCHANGED <<launcher, num_procs_creat, backlog, child, dsm_array, remote, queue, up, down>>
      BY <2>1 DEF vars
    <3>2. AllTyped'
      BY <3>1 DEF AllTyped
    <3>3. Lines'
      BY <3>1, LinesStay DEF DownInv
    <3>4. Sending' /\ Filled'
      BY <3>1 DEF DownInv, Sending, Filled, FilledAt
    <3> QED BY <3>2, <3>3, <3>4 DEF DownInv
  <2>2. CASE Launch
    <3>1. AllTyped'
      BY <2>2, RecvTyped, DsmexecTyped DEF Launch, DownInv
    <3>2. DownInv'
      BY <2>2, BeforeAndAfter, PrepareStep, PrepareInfosStep, SendStep DEF Launch
    <3> QED BY <3>1, <3>2
  <2>3. ASSUME NEW r \in Rank, Remote(r) \/ Fail(r) \/ EndPlain(r) \/ Sigchld(r)
       PROVE  AllTyped' /\ DownInv'
    BY <2>3, ChildTyped, QuietSteps, RecvSyncStep, RecvIdStep, RecvInfosStep DEF Remote
  <2> QED BY <2>1, <2>2, <2>3 DEF Next
<1> QED BY <1>1, DownStarts, BarrierInvHolds, CollectHolds, PTL DEF Spec

\* Every variable of the start keeps its type: dsmexec indexes its table with
\* nothing but ranks, and the processes are told nothing but ranks and ports.
THEOREM StartTyped == Spec => []TypeOK
<1>1. AllTyped => TypeOK
  BY TypedIs
<1> QED BY <1>1, DownHolds, PTL

\* dsm_init, which fills its table by order of arrival and does not look at the
\* ranks that come with the ports, has the port of process j in entry j.
THEOREM ContactsHold == Spec => []ContactsRight
<1>1. CollectInv /\ AllTyped /\ DownInv => ContactsRight
  <2> SUFFICES ASSUME CollectInv, AllTyped, DownInv, NEW r \in Rank, remote[r].pc = "listen"
               PROVE  /\ remote[r].id = r
                      /\ \A j \in Rank \ {r} :
                           remote[r].conn[j] = [rang |-> j, port |-> remote[j].port]
    BY DEF ContactsRight
  <2>1. remote[r].id = r /\ remote[r].i = num_procs
    BY DEF DownInv, Filled, FilledAt
  <2>2. ASSUME NEW j \in Rank \ {r} PROVE remote[r].conn[j] = [rang |-> j, port |-> remote[j].port]
    <3>1. j < num_procs
      BY LaunchAssumption DEF Rank
    <3>2. remote[r].conn[j] = [rang |-> j, port |-> Port(j)]
      BY <2>1, <3>1 DEF DownInv, Filled, FilledAt
    <3>3. Known = Rank
      BY DEF CollectInv, LinkInv, Gate, Started
    <3>4. PICK a \in 0 .. 3, b \in {0, 2, 3} : Link(j, a, b)
      BY DEF CollectInv, LinkInv, Linked
    <3>5. dsm_array[j].port # 0
      BY <3>3 DEF Known
    <3>6. remote[j].port = Port(j)
      BY <3>4, <3>5 DEF Link
    <3> QED BY <3>2, <3>6
  <2> QED BY <2>1, <2>2
<1> QED BY <1>1, CollectHolds, DownHolds, PTL

----------------------------------------------------------------------------
(* The processes reach each other                                          *)

\* Nobody listens before it has all the contacts, and the loop over the higher
\* ranks stays there.
MeshInv ==
  /\ pc \in [Rank -> {"start", "accept", "connect", "ready"}]
  /\ idx \in [Rank -> Int]
  /\ \A n \in Rank : /\ pc[n] # "start" => remote[n].pc = "listen"
                     /\ pc[n] = "connect" => idx[n] \in n + 1 .. num_procs

\* The start of DsmLaunch goes on in DsmStart as it is.
LEMMA StartIsLaunch == StartSpec => Spec
<1>1. StartInit => Init
  BY DEF StartInit
<1>2. [StartNext]_StartVars => [Next]_vars
  <2>1. ASSUME StartNext PROVE [Next]_vars
    BY <2>1 DEF StartNext, MeshStep, Listen, Answer, Call
  <2>2. UNCHANGED StartVars => UNCHANGED vars
    BY DEF StartVars
  <2> QED BY <2>1, <2>2
<1> QED BY <1>1, <1>2, PTL DEF StartSpec, Spec

\* A process that listens goes on listening.
LEMMA ListenStays ==
  ASSUME AllTyped, [Next]_vars, NEW n \in Rank, remote[n].pc = "listen"
  PROVE  remote'[n].pc = "listen"
<1>1. CASE UNCHANGED vars \/ Launch
  BY <1>1 DEF vars, Launch, Fork, Pass, Accept, RecvRang, RecvPid, RecvPort, Takes, Prepare,
              PrepareInfos, Send, EndSend
<1>2. ASSUME NEW r \in Rank, Remote(r) \/ Fail(r) \/ EndPlain(r) \/ Sigchld(r)
     PROVE  remote'[n].pc = "listen"
  <2>1. CASE Load(r) \/ Store(r) \/ Sigchld(r)
    BY <2>1 DEF Load, Store, Sigchld
  <2>2. CASE \/ Connect(r) \/ SendRangPid(r) \/ SendPort(r) \/ RecvSync(r) \/ RecvId(r)
             \/ RecvInfos(r) \/ Fail(r) \/ EndPlain(r)
    <3>1. r # n
      BY <2>2 DEF Connect, SendRangPid, SendPort, RecvSync, RecvId, RecvInfos, Reads, Fail, EndPlain
    <3>2. remote'[n] = remote[n]
      <4>1. CASE Connect(r) \/ SendRangPid(r) \/ SendPort(r) \/ Fail(r) \/ EndPlain(r)
        BY <3>1, <4>1 DEF Connect, SendRangPid, SendPort, Fail, EndPlain, AllTyped
      <4>2. CASE RecvSync(r)
        BY <3>1, <4>2 DEF RecvSync, AllTyped
      <4>3. CASE RecvId(r)
        BY <3>1, <4>3 DEF RecvId, AllTyped
      <4>4. CASE RecvInfos(r)
        <5>1. PICK k, conn : /\ k = remote[r].i + 1
                             /\ conn = [remote[r].conn EXCEPT ![remote[r].i] =
                                          [rang |-> down[r][1], port |-> down[r][2]]]
          OBVIOUS
        <5>2. \/ remote' = [remote EXCEPT ![r].i = k, ![r].conn = conn]
              \/ remote' = [remote EXCEPT ![r].i = k]
              \/ remote' = [remote EXCEPT ![r].pc = "listen"]
          BY <4>4, <5>1 DEF RecvInfos
        <5> QED BY <3>1, <5>2 DEF AllTyped
      <4> QED BY <2>2, <4>1, <4>2, <4>3, <4>4
    <3> QED BY <3>2
  <2> QED BY <1>2, <2>1, <2>2 DEF Remote
<1> QED BY <1>1, <1>2 DEF Next

LEMMA MeshInvHolds == StartSpec => []MeshInv
<1>1. StartInit => MeshInv
  <2> SUFFICES ASSUME Mesh!Init PROVE MeshInv
    BY DEF StartInit
  <2> QED BY DEF Mesh!Init, Mesh!Rank, MeshInv, Rank
<1>2. AllTyped /\ MeshInv /\ [StartNext]_StartVars => MeshInv'
  <2> SUFFICES ASSUME AllTyped, MeshInv, [StartNext]_StartVars PROVE MeshInv'
    OBVIOUS
  <2>0. \A n \in Rank : n \in Int /\ num_procs \in Int /\ n < num_procs
    BY LaunchAssumption DEF Rank
  <2>1. CASE UNCHANGED StartVars
    BY <2>1 DEF StartVars, vars, mesh, MeshInv
  <2>2. CASE Next /\ UNCHANGED mesh
    <3>1. \A n \in Rank : remote[n].pc = "listen" => remote'[n].pc = "listen"
      BY <2>2, ListenStays
    <3> QED BY <2>2, <3>1 DEF MeshInv, mesh
  <2>3. ASSUME NEW n \in Rank, MeshStep(n) PROVE MeshInv'
    <3>1. remote' = remote
      BY <2>3 DEF MeshStep, Listen, Answer, Call, vars
    <3>2. CASE Listen(n)
      BY <2>0, <3>1, <3>2 DEF Listen, Mesh!Listen, MeshInv
    <3>3. CASE Mesh!Accept(n)
      BY <3>1, <3>3 DEF Mesh!Accept, MeshInv
    <3>4. CASE Mesh!EndAccept(n)
      BY <2>0, <3>1, <3>4 DEF Mesh!EndAccept, MeshInv
    <3>5. CASE Mesh!Start(n)
      BY <3>1, <3>5 DEF Mesh!Start, MeshInv
    <3>6. CASE Call(n)
      BY <2>0, <3>1, <3>6 DEF Call, MeshInv
    <3> QED BY <2>3, <3>2, <3>3, <3>4, <3>5, <3>6 DEF MeshStep, Answer
  <2> QED BY <2>1, <2>2, <2>3 DEF StartNext
<1> QED BY <1>1, <1>2, StartIsLaunch, DownHolds, PTL DEF StartSpec

\* The port of a process that has the contacts leads to it and to no other.
LEMMA PortOfOne ==
  ASSUME CollectInv, AllTyped, DownInv, NEW n \in Rank, remote[n].pc = "listen",
         NEW j \in Rank \ {n}, NEW m \in Rank, remote[m].port = remote[n].conn[j].port
  PROVE  m = j
<1>1. Known = Rank
  BY DEF CollectInv, LinkInv, Gate, Started
<1>2. PICK a \in 0 .. 3, b \in {0, 2, 3} : Link(m, a, b)
  BY DEF CollectInv, LinkInv, Linked
<1>3. remote[m].port = Port(m)
  BY <1>1, <1>2 DEF Known, Link
<1>4. remote[n].i = num_procs /\ j < num_procs
  BY LaunchAssumption DEF DownInv, Filled, FilledAt, Rank
<1>5. remote[n].conn[j].port = Port(j)
  <2>1. remote[n].conn[j] = [rang |-> j, port |-> Port(j)]
    BY <1>4 DEF DownInv, Filled, FilledAt
  <2> QED BY <2>1
<1>6. Port(m) = Port(j) /\ m \in Int /\ j \in Int /\ num_procs \in Int
  <2>1. Port(m) = Port(j)
    BY <1>3, <1>5
  <2>2. m \in Int /\ j \in Int /\ num_procs \in Int
    BY LaunchAssumption DEF Rank
  <2> QED BY <2>1, <2>2
<1>7. PICK k \in Int : k = 2 * num_procs
  BY <1>6
<1>8. Port(m) = k + m /\ Port(j) = k + j
  BY <1>7 DEF Port
<1>9. k + m = k + j
  BY <1>6, <1>8
<1> QED BY <1>6, <1>9

\* The processes of dsm_init reach each other by the ports that dsmexec has told
\* them as those of DsmMesh do by name: the steps of the start that are not
\* theirs are stuttering steps.
THEOREM MeshImplemented == StartSpec => ImplementsMesh
<1>1. StartInit => Mesh!Init
  BY DEF StartInit
<1>2. CollectInv /\ AllTyped /\ DownInv /\ MeshInv /\ [StartNext]_StartVars => [Mesh!Next]_(Mesh!vars)
  <2> SUFFICES ASSUME CollectInv, AllTyped, DownInv, MeshInv, [StartNext]_StartVars
               PROVE  [Mesh!Next]_(Mesh!vars)
    OBVIOUS
  <2>1. CASE UNCHANGED StartVars \/ (Next /\ UNCHANGED mesh)
    BY <2>1 DEF StartVars, mesh, Mesh!vars
  <2>2. ASSUME NEW n \in Rank, MeshStep(n) PROVE Mesh!Next
    <3>1. n \in Mesh!Rank
      BY DEF Mesh!Rank, Rank
    <3>2. CASE Listen(n) \/ Answer(n)
      BY <3>1, <3>2 DEF Listen, Answer, Mesh!Step, Mesh!Next
    <3>3. CASE Call(n)
      <4>1. PICK m \in Rank : /\ remote[m].port = remote[n].conn[idx[n]].port
                              /\ pc[m] # "start"
                              /\ Len(pending[m]) <= m
                              /\ pending' = [pending EXCEPT ![m] = Append(@, n)]
                              /\ slot' = [slot EXCEPT ![n][idx[n]] = m]
        BY <3>3 DEF Call
      <4>2. /\ remote[n].pc = "listen" /\ pc[n] = "connect" /\ idx[n] < num_procs
            /\ idx[n] \in Rank \ {n} /\ pc' = pc /\ idx' = [idx EXCEPT ![n] = @ + 1]
        BY <3>3, LaunchAssumption DEF Call, MeshInv, Rank
      <4>3. m = idx[n]
        BY <4>1, <4>2, PortOfOne
      <4>4. Mesh!Connect(n)
        BY <4>1, <4>2, <4>3 DEF Mesh!Connect
      <4> QED BY <3>1, <4>4 DEF Mesh!Step, Mesh!Next
    <3> QED BY <2>2, <3>2, <3>3 DEF MeshStep
  <2> QED BY <2>1, <2>2 DEF StartNext
<1> QED BY <1>1, <1>2, StartIsLaunch, CollectHolds, DownHolds, MeshInvHolds, PTL
        DEF StartSpec, ImplementsMesh, Mesh!Spec

=============================================================================
