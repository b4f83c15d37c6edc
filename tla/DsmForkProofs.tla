--------------------------- MODULE DsmForkProofs ---------------------------
(***************************************************************************)
(* The descriptors of dsmexec and of its children, for every machine file  *)
(* and every limit of descriptors: the numbers of closed ends are used     *)
(* again, and no close by number hits the wrong tube.                      *)
(***************************************************************************)
EXTENDS DsmFork, FiniteSetTheorems, SequenceTheorems, WellFoundedInduction, TLAPS

Which == {"out", "err"}

\* What pipe has returned for tube w of child r.
Numbers(w, r) == IF w = "out" THEN tubes_stdout[r] ELSE tubes_stderr[r]

\* dsmexec has made tube w of child r.
Made(w, r) ==
  \/ r < launcher.i
  \/ r = launcher.i /\ w = "out" /\ launcher.pc \in {"err", "fork", "close"}
  \/ r = launcher.i /\ w = "err" /\ launcher.pc \in {"fork", "close"}

Forked(r) == r < launcher.i \/ (r = launcher.i /\ launcher.pc = "close")

\* dsmexec is not started with both its standard input and output closed: the
\* first tube would begin at 1, and child 1 would close 1 as an end of that tube.
StdOpen == \A c \in Closed : ~({0, 1} \subseteq c)

----------------------------------------------------------------------------
(* The inductive invariant                                                 *)

\* TypeOK, variable by variable.
LauncherPc == {"read", "out", "err", "fork", "close", "failed"}
ChildState == [pc : {"none", "out", "err", "exec", "ssh", "ended"},
               table : [Fd -> Entries], machine : Seq(STRING)]
ForkTyped ==
  /\ file \in Files /\ pos \in 0 .. Len(file)
  /\ machines \in Seq(Seq(STRING)) /\ Len(machines) <= num_procs
  /\ launcher \in [pc : LauncherPc, i : Nat] /\ launcher.i <= num_procs
  /\ launcher.pc \in {"err", "fork", "close"} => launcher.i < num_procs
  /\ launcher.pc # "read" => Len(machines) = num_procs
  /\ table \in [Fd -> Entries]
  /\ tubes_stdout \in [Rank -> Fd \X Fd] /\ tubes_stderr \in [Rank -> Fd \X Fd]
  /\ child \in [Rank -> ChildState]

\* dsmexec has opened nothing yet, or nothing is open any longer.
Bare ==
  /\ launcher.pc = "read" =>
       /\ launcher.i = 0
       /\ \E c \in Closed : table = [d \in Fd |-> IF d \in (0 .. 2) \ c THEN Terminal ELSE Free]
  /\ launcher.pc = "failed" => \A d \in Fd : table[d] = Free

\* sock_init takes the lowest number, so that no tube is at 0; the tube of the
\* errors of a child is above those of the output of this child and of all
\* the children before.
Ordered ==
  \A r \in Rank :
    /\ Made("out", r) => /\ 0 < tubes_stdout[r][1] /\ tubes_stdout[r][1] < tubes_stdout[r][2]
                         /\ StdOpen => 1 < tubes_stdout[r][1]
                         /\ \A k \in Rank : k < r => tubes_stdout[k][2] < tubes_stdout[r][2]
    /\ Made("err", r) => /\ tubes_stderr[r][1] < tubes_stderr[r][2]
                         /\ \A k \in Rank : k <= r => /\ tubes_stdout[k][1] < tubes_stderr[r][1]
                                                      /\ tubes_stdout[k][2] < tubes_stderr[r][1]

\* While dsmexec forks: its table has the reading ends of the tubes made so
\* far and the writing ends of those of this turn, each where pipe has put it.
\* A number that is free again is above those of the outputs before, but for
\* the one the writing end of the last output has left.
OwnTable ==
  launcher.pc \notin {"read", "failed"} =>
    /\ table[0] \in {Terminal, Socket}
    /\ StdOpen => table[1] \in {Terminal, Socket}
    /\ \A d \in Fd, w \in Which, r \in Rank :
         /\ table[d] = Tube(w, r, "read") => Made(w, r) /\ d = Numbers(w, r)[1]
         /\ table[d] = Tube(w, r, "write") =>
              Made(w, r) /\ r = launcher.i /\ d = Numbers(w, r)[2]
    /\ \A w \in Which, r \in Rank : Made(w, r) =>
         /\ table[Numbers(w, r)[1]] = Tube(w, r, "read")
         /\ r = launcher.i => table[Numbers(w, r)[2]] = Tube(w, r, "write")
    /\ \A d \in FreeFds(table), r \in Rank : Made("out", r) =>
         \/ tubes_stdout[r][1] < d /\ tubes_stdout[r][2] < d
         \/ launcher.pc = "out" /\ r = launcher.i - 1 /\ d = tubes_stdout[r][2]

\* The reading ends in t are those of the tubes in ws up to rank r, where pipe
\* has put them; the writing ends are those of r.
OfTubes(t, r, ws) ==
  \A d \in Fd, w \in Which, k \in Rank :
    /\ t[d] = Tube(w, k, "read") => w \in ws /\ k <= r /\ d = Numbers(w, k)[1]
    /\ t[d] = Tube(w, k, "write") => k = r

\* What child r has left of the table it has got from dsmexec.
ChildTable(r) ==
  LET t == child[r].table
  IN  /\ child[r].pc \in {"none", "ended"} => \A d \in Fd : t[d] = Free
      /\ child[r].pc # "none" => Forked(r)
      /\ child[r].pc = "out" => /\ OfTubes(t, r, Which)
                                /\ t[tubes_stdout[r][2]] = Tube("out", r, "write")
      /\ child[r].pc = "err" => /\ OfTubes(t, r, {"err"})
                                /\ StdOpen => t[1] = Tube("out", r, "write")
      /\ child[r].pc \in {"out", "err"} => /\ t[0] \in {Terminal, Socket}
                                           /\ t[tubes_stderr[r][2]] = Tube("err", r, "write")
      /\ child[r].pc \in {"exec", "ssh"} =>
           /\ OfTubes(t, r, {})
           /\ StdOpen => t[1] = Tube("out", r, "write") /\ t[2] = Tube("err", r, "write")

ForkInv == ForkTyped /\ Bare /\ Ordered /\ OwnTable /\ \A r \in Rank : ChildTable(r)

----------------------------------------------------------------------------
(* Numbers, tubes and tables                                               *)

LEMMA MinIs ==
  ASSUME NEW S \in SUBSET Nat, S # {}
  PROVE  Min(S) \in S /\ \A y \in S : Min(S) <= y
<1> DEFINE Less == {ss \in Nat \X Nat : ss[1] < ss[2]}
<1>1. IsWellFoundedOn(Less, Nat)
  BY NatLessThanWellFounded DEF OpToRel
<1>2. PICK x \in S : \A y \in S : ~(<<y, x>> \in Less)
  <2> HIDE DEF Less
  <2> QED BY <1>1, WFMin
<1>3. \A y \in S : x <= y
  <2> SUFFICES ASSUME NEW y \in S PROVE x <= y
    OBVIOUS
  <2>1. x \in Nat /\ y \in Nat /\ ~(<<y, x>> \in Less)
    BY <1>2
  <2>2. <<y, x>> \in Nat \X Nat
    BY <2>1
  <2>3. ~(y < x)
    BY <2>1, <2>2
  <2> QED BY <2>1, <2>3
<1> QED BY <1>3 DEF Min

LEMMA Procs == ASSUME file \in Files PROVE num_procs \in Nat
<1>1. file \in Seq(STRING)
  BY ForkAssumption
<1>2. IsFiniteSet(DOMAIN file)
  BY <1>1, FS_Interval, LenProperties
<1> QED BY <1>2, FS_Subset, FS_CardinalityType DEF num_procs

LEMMA Fds == Fd \subseteq Nat /\ {0, 1, 2, 3} \subseteq Fd
BY ForkAssumption DEF Fd

\* The entries of a table are told apart by what they are.
LEMMA Apart ==
  /\ Free # Terminal /\ Free # Socket
  /\ \A w \in Which : \A r, e : Tube(w, r, e) \notin {Free, Terminal, Socket}
  /\ \A w, v, r, k, e, f : Tube(w, r, e) = Tube(v, k, f) <=> w = v /\ r = k /\ e = f
<1>1. \A w, v, r, k, e, f : Tube(w, r, e) = Tube(v, k, f) <=> w = v /\ r = k /\ e = f
  <2> SUFFICES ASSUME NEW w, NEW v, NEW r, NEW k, NEW e, NEW f, Tube(w, r, e) = Tube(v, k, f)
               PROVE  w = v /\ r = k /\ e = f
    BY DEF Tube
  <2>1. /\ Tube(w, r, e).file = w /\ Tube(v, k, f).file = v
        /\ Tube(w, r, e).rang = r /\ Tube(v, k, f).rang = k
        /\ Tube(w, r, e).end = e /\ Tube(v, k, f).end = f
    BY DEF Tube
  <2> QED BY <2>1
<1>2. \A w \in Which : \A r, e : Tube(w, r, e) \notin {Free, Terminal, Socket}
  <2> SUFFICES ASSUME NEW w \in Which, NEW r, NEW e
               PROVE  Tube(w, r, e).file \notin {Free.file, Terminal.file, Socket.file}
    OBVIOUS
  <2> QED BY DEF Tube, Free, Terminal, Socket, Which
<1>3. Free # Terminal /\ Free # Socket
  <2>1. Free.file # Terminal.file /\ Free.file # Socket.file
    BY DEF Free, Terminal, Socket
  <2> QED BY <2>1
<1> QED BY <1>1, <1>2, <1>3

LEMMA AreEntries ==
  /\ Free \in Entries /\ Terminal \in Entries /\ Socket \in Entries
  /\ \A w \in Which, r \in Rank, e \in {"read", "write"} : Tube(w, r, e) \in Entries
BY DEF Entries, Which

\* A table gives out its lowest free number.
LEMMA LowestFree ==
  ASSUME NEW t, FreeFds(t) # {}
  PROVE  /\ Min(FreeFds(t)) \in Fd /\ t[Min(FreeFds(t))] = Free
         /\ \A d \in Fd : t[d] = Free => Min(FreeFds(t)) <= d
<1>1. FreeFds(t) \in SUBSET Nat
  BY Fds DEF FreeFds
<1>2. Min(FreeFds(t)) \in FreeFds(t) /\ \A d \in FreeFds(t) : Min(FreeFds(t)) <= d
  BY <1>1, MinIs
<1> QED BY <1>2 DEF FreeFds

\* pipe takes the two lowest numbers, and changes nothing else.
LEMMA PipeTakes ==
  ASSUME NEW t \in [Fd -> Entries], ~(Cardinality(FreeFds(t)) < 2), NEW w \in Which, NEW r \in Rank
  PROVE  /\ ReadEnd(t) \in Fd /\ WriteEnd(t) \in Fd /\ ReadEnd(t) < WriteEnd(t)
         /\ t[ReadEnd(t)] = Free /\ t[WriteEnd(t)] = Free
         /\ \A d \in Fd : t[d] = Free => d = ReadEnd(t) \/ d = WriteEnd(t) \/ WriteEnd(t) < d
         /\ Piped(t, w, r) \in [Fd -> Entries]
         /\ Piped(t, w, r)[ReadEnd(t)] = Tube(w, r, "read")
         /\ Piped(t, w, r)[WriteEnd(t)] = Tube(w, r, "write")
         /\ \A d \in Fd \ {ReadEnd(t), WriteEnd(t)} : Piped(t, w, r)[d] = t[d]
<1> DEFINE F == FreeFds(t)
           G == F \ {ReadEnd(t)}
<1>1. F \in SUBSET Nat /\ F \subseteq Fd /\ IsFiniteSet(F)
  <2>1. IsFiniteSet(Fd)
    BY FS_Interval, ForkAssumption DEF Fd
  <2> QED BY <2>1, Fds, FS_Subset DEF FreeFds
<1>2. Cardinality(F) \in Nat /\ Cardinality(F) >= 2
  BY <1>1, FS_CardinalityType
<1>3. F # {}
  BY <1>2, FS_EmptySet
<1>4. ReadEnd(t) \in F /\ \A d \in F : ReadEnd(t) <= d
  BY <1>1, <1>3, MinIs DEF ReadEnd
<1>5. IsFiniteSet(G) /\ Cardinality(G) = Cardinality(F) - 1
  BY <1>1, <1>4, FS_RemoveElement
<1>6. G # {}
  BY <1>2, <1>5, FS_EmptySet
<1>7. WriteEnd(t) \in G /\ \A d \in G : WriteEnd(t) <= d
  BY <1>1, <1>6, MinIs DEF WriteEnd
<1>8. ReadEnd(t) # WriteEnd(t) /\ ReadEnd(t) \in Nat /\ WriteEnd(t) \in Nat
  BY <1>1, <1>4, <1>7
<1>9. ReadEnd(t) < WriteEnd(t)
  BY <1>4, <1>7, <1>8
<1>10. \A d \in Fd : t[d] = Free => d = ReadEnd(t) \/ d = WriteEnd(t) \/ WriteEnd(t) < d
  <2> SUFFICES ASSUME NEW d \in Fd, t[d] = Free, d # ReadEnd(t), d # WriteEnd(t)
               PROVE  WriteEnd(t) < d
    OBVIOUS
  <2>1. d \in G /\ d \in Nat
    BY Fds DEF FreeFds
  <2> QED BY <1>7, <1>8, <2>1
<1>11. Tube(w, r, "read") \in Entries /\ Tube(w, r, "write") \in Entries
  BY AreEntries
<1> HIDE DEF F, G
<1>12. t[ReadEnd(t)] = Free /\ t[WriteEnd(t)] = Free /\ ReadEnd(t) \in Fd /\ WriteEnd(t) \in Fd
  BY <1>4, <1>7 DEF F, G, FreeFds
<1>13. \A d \in Fd : Piped(t, w, r)[d] = IF d = WriteEnd(t) THEN Tube(w, r, "write")
                                         ELSE IF d = ReadEnd(t) THEN Tube(w, r, "read")
                                         ELSE t[d]
  BY <1>12 DEF Piped
<1>14. Piped(t, w, r) \in [Fd -> Entries]
  <2>1. [t EXCEPT ![ReadEnd(t)] = Tube(w, r, "read")] \in [Fd -> Entries]
    BY <1>11
  <2> QED BY <1>11, <2>1 DEF Piped
<1> QED BY <1>8, <1>9, <1>10, <1>12, <1>13, <1>14

\* A table where some numbers are free again.
LEMMA WithoutIs ==
  ASSUME NEW t \in [Fd -> Entries], NEW ds
  PROVE  /\ Without(t, ds) \in [Fd -> Entries]
         /\ \A d \in Fd : Without(t, ds)[d] = IF d \in ds THEN Free ELSE t[d]
BY AreEntries DEF Without

LEMMA OthersAre ==
  ASSUME file \in Files, NEW tubes, NEW r \in Rank
  PROVE  \A d : d \in Others(tubes, r) <=>
           \E k \in Rank : k < r /\ (d = tubes[k][1] \/ d = tubes[k][2])
<1>1. \A k : k \in 0 .. r - 1 <=> k \in Rank /\ k < r
  BY Procs DEF Rank
<1> QED BY <1>1 DEF Others

\* What is left of a table after the copy of a writing end to fileno: it goes
\* to the lowest free number f.
LEMMA RedirectedIs ==
  ASSUME file \in Files, NEW t \in [Fd -> Entries], NEW fileno \in {1, 2},
         NEW tubes \in [Rank -> Fd \X Fd], NEW r \in Rank,
         tubes[r][2] \notin {fileno, tubes[r][1]}
  PROVE  /\ Redirected(t, fileno, tubes, r) \in [Fd -> Entries]
         /\ \E f \in Fd :
              /\ f <= fileno
              /\ t[f] = Free \/ f \in {fileno, tubes[r][1]}
              /\ \A e \in Fd : e < f => t[e] # Free /\ e \notin {fileno, tubes[r][1]}
              /\ \A d \in Fd : Redirected(t, fileno, tubes, r)[d] =
                   IF d \in Others(tubes, r) THEN Free
                   ELSE IF d = f THEN t[tubes[r][2]]
                   ELSE IF d \in {fileno, tubes[r][1]} THEN Free ELSE t[d]
<1> DEFINE ds == {fileno, tubes[r][1]}
           u == Without(t, ds)
           f == Min(FreeFds(u))
           v == [u EXCEPT ![f] = u[tubes[r][2]]]
<1>1. fileno \in Fd /\ tubes[r][1] \in Fd /\ tubes[r][2] \in Fd
  BY Fds
<1>2. u \in [Fd -> Entries] /\ \A d \in Fd : u[d] = IF d \in ds THEN Free ELSE t[d]
  <2> HIDE DEF ds
  <2> QED BY WithoutIs
<1>3. u[tubes[r][2]] = t[tubes[r][2]] /\ u[tubes[r][2]] \in Entries
  BY <1>1, <1>2
<1>4. u[fileno] = Free
  BY <1>1, <1>2
<1> HIDE DEF u
<1>5. f \in Fd /\ u[f] = Free /\ \A d \in Fd : u[d] = Free => f <= d
  <2>1. FreeFds(u) # {}
    BY <1>1, <1>4 DEF FreeFds
  <2> QED BY <2>1, LowestFree
<1> HIDE DEF f
<1>6. f <= fileno /\ (t[f] = Free \/ f \in ds)
  BY <1>1, <1>2, <1>4, <1>5
<1>7. \A e \in Fd : e < f => t[e] # Free /\ e \notin ds
  <2> SUFFICES ASSUME NEW e \in Fd, e < f PROVE u[e] # Free
    BY <1>2
  <2>1. e \in Nat /\ f \in Nat
    BY <1>5, Fds
  <2> QED BY <1>5, <2>1
<1>8. v \in [Fd -> Entries] /\ \A d \in Fd : v[d] = IF d = f THEN t[tubes[r][2]] ELSE u[d]
  BY <1>2, <1>3, <1>5
<1>9. Redirected(t, fileno, tubes, r) = Without(v, Others(tubes, r))
  BY DEF Redirected, Dup, Opened, u, f
<1> HIDE DEF v
<1>10. /\ Redirected(t, fileno, tubes, r) \in [Fd -> Entries]
       /\ \A d \in Fd : Redirected(t, fileno, tubes, r)[d] =
            IF d \in Others(tubes, r) THEN Free ELSE v[d]
  BY <1>8, <1>9, WithoutIs
<1>11. \A d \in Fd : Redirected(t, fileno, tubes, r)[d] =
         IF d \in Others(tubes, r) THEN Free
         ELSE IF d = f THEN t[tubes[r][2]] ELSE IF d \in ds THEN Free ELSE t[d]
  BY <1>2, <1>8, <1>10
<1> QED BY <1>5, <1>6, <1>7, <1>10, <1>11

----------------------------------------------------------------------------
(* The children                                                            *)

\* The descriptors of a child that has been forked: all its tubes, and those
\* of the children before it, are made and have their numbers in order.
LEMMA OwnNumbers ==
  ASSUME ForkTyped, Ordered, NEW r \in Rank, Forked(r)
  PROVE  /\ r \in Nat /\ tubes_stdout[r] \in Fd \X Fd /\ tubes_stderr[r] \in Fd \X Fd
         /\ tubes_stdout[r][1] \in Nat /\ tubes_stdout[r][2] \in Nat
         /\ tubes_stderr[r][1] \in Nat /\ tubes_stderr[r][2] \in Nat
         /\ 0 < tubes_stdout[r][1] /\ tubes_stdout[r][1] < tubes_stdout[r][2]
         /\ tubes_stderr[r][1] < tubes_stderr[r][2]
         /\ \A k \in Rank : k <= r => /\ tubes_stdout[k][1] < tubes_stderr[r][1]
                                      /\ tubes_stdout[k][2] < tubes_stderr[r][1]
<1>1. r \in Nat /\ launcher.i \in Nat
  BY Procs DEF Rank, ForkTyped
<1>2. Made("out", r) /\ Made("err", r)
  BY DEF Forked, Made
<1>3. tubes_stdout[r] \in Fd \X Fd /\ tubes_stderr[r] \in Fd \X Fd
  BY DEF ForkTyped
<1> QED BY <1>1, <1>2, <1>3, Fds DEF Ordered

LEMMA Before ==
  ASSUME ForkTyped, NEW r \in Rank, Forked(r), NEW k \in Rank, k <= r
  PROVE  Forked(k)
<1>1. r \in Nat /\ k \in Nat /\ launcher.i \in Nat
  BY Procs DEF Rank, ForkTyped
<1> QED BY <1>1 DEF Forked

\* The numbers that child r closes because of the outputs of the others.
LEMMA OtherNumbers ==
  ASSUME ForkTyped, Ordered, NEW r \in Rank, Forked(r)
  PROVE  /\ \A d \in Others(tubes_stdout, r) : /\ d \in Nat /\ 0 < d /\ d < tubes_stderr[r][1]
                                               /\ StdOpen => 1 < d
         /\ \A d \in Others(tubes_stderr, r) : d \in Nat /\ 2 < d
<1>0. file \in Files /\ \A k \in Rank : k \in Nat
  BY Procs DEF Rank, ForkTyped
<1>1. ASSUME NEW d \in Others(tubes_stdout, r)
      PROVE  d \in Nat /\ 0 < d /\ d < tubes_stderr[r][1] /\ (StdOpen => 1 < d)
  <2>1. PICK k \in Rank : k < r /\ (d = tubes_stdout[k][1] \/ d = tubes_stdout[k][2])
    BY <1>0, <1>1, OthersAre
  <2>2. k <= r
    BY <1>0, <2>1
  <2>3. Forked(k)
    BY <2>2, Before
  <2>4. StdOpen => 1 < tubes_stdout[k][1]
    BY <2>3 DEF Forked, Made, Ordered
  <2> QED BY <2>1, <2>2, <2>3, <2>4, OwnNumbers
<1>2. ASSUME NEW d \in Others(tubes_stderr, r)
      PROVE  d \in Nat /\ 2 < d
  <2>1. PICK k \in Rank : k < r /\ (d = tubes_stderr[k][1] \/ d = tubes_stderr[k][2])
    BY <1>0, <1>2, OthersAre
  <2>2. k <= r /\ k <= k
    BY <1>0, <2>1
  <2>3. Forked(k)
    BY <2>2, Before
  <2>4. tubes_stdout[k][2] < tubes_stderr[k][1]
    BY <2>2, <2>3, OwnNumbers
  <2> QED BY <2>1, <2>3, <2>4, OwnNumbers
<1> QED BY <1>1, <1>2

\* Descriptor 1 becomes the child's own tube, and no other output tube is left.
LEMMA OutTable ==
  ASSUME ForkTyped, Ordered, NEW r \in Rank, ChildTable(r), child[r].pc = "out",
         NEW u, u = Redirected(child[r].table, 1, tubes_stdout, r)
  PROVE  /\ u \in [Fd -> Entries]
         /\ OfTubes(u, r, {"err"})
         /\ StdOpen => u[1] = Tube("out", r, "write")
         /\ u[0] \in {Terminal, Socket}
         /\ u[tubes_stderr[r][2]] = Tube("err", r, "write")
<1> DEFINE t == child[r].table
           a == tubes_stdout[r][1]
           b == tubes_stdout[r][2]
           e == tubes_stderr[r][2]
<1>1. /\ t \in [Fd -> Entries] /\ Forked(r) /\ OfTubes(t, r, Which)
      /\ t[b] = Tube("out", r, "write") /\ t[e] = Tube("err", r, "write")
      /\ t[0] \in {Terminal, Socket}
  BY DEF ForkTyped, ChildState, ChildTable
<1>2. /\ a \in Fd /\ b \in Fd /\ e \in Fd /\ a \in Nat /\ b \in Nat /\ e \in Nat
      /\ 0 < a /\ a < b /\ b < e
  <2>1. r <= r
    BY <1>1, OwnNumbers
  <2> QED BY <1>1, <2>1, OwnNumbers
<1>3. file \in Files /\ tubes_stdout \in [Rank -> Fd \X Fd] /\ b \notin {1, a}
  BY <1>2 DEF ForkTyped
<1> HIDE DEF t, a, b, e
<1>4. /\ u \in [Fd -> Entries]
      /\ \E f \in Fd :
           /\ f <= 1
           /\ t[f] = Free \/ f \in {1, a}
           /\ \A d \in Fd : u[d] =
                IF d \in Others(tubes_stdout, r) THEN Free
                ELSE IF d = f THEN t[b] ELSE IF d \in {1, a} THEN Free ELSE t[d]
  <2>1. u = Redirected(t, 1, tubes_stdout, r)
    BY DEF t
  <2>2. tubes_stdout[r][1] = a /\ tubes_stdout[r][2] = b
    BY DEF a, b
  <2>3. tubes_stdout[r][2] \notin {1, tubes_stdout[r][1]}
    BY <1>3, <2>2
  <2>4. /\ Redirected(t, 1, tubes_stdout, r) \in [Fd -> Entries]
        /\ \E f \in Fd :
             /\ f <= 1
             /\ t[f] = Free \/ f \in {1, tubes_stdout[r][1]}
             /\ \A d \in Fd : Redirected(t, 1, tubes_stdout, r)[d] =
                  IF d \in Others(tubes_stdout, r) THEN Free
                  ELSE IF d = f THEN t[tubes_stdout[r][2]]
                  ELSE IF d \in {1, tubes_stdout[r][1]} THEN Free ELSE t[d]
    BY <1>1, <1>3, <2>3, RedirectedIs
  <2> QED BY <2>1, <2>2, <2>4
<1>5. \A d \in Fd : u[d] =
        IF d \in Others(tubes_stdout, r) THEN Free
        ELSE IF d = 1 THEN Tube("out", r, "write") ELSE IF d = a THEN Free ELSE t[d]
  <2>1. PICK f \in Fd :
           /\ f <= 1
           /\ t[f] = Free \/ f \in {1, a}
           /\ \A d \in Fd : u[d] =
                IF d \in Others(tubes_stdout, r) THEN Free
                ELSE IF d = f THEN t[b] ELSE IF d \in {1, a} THEN Free ELSE t[d]
    BY <1>4
  <2>2. f # 0
    BY <1>1, <1>2, <2>1, Apart
  <2>3. f = 1
    BY <2>1, <2>2, Fds
  <2> QED BY <1>1, <2>1, <2>3
<1>6. 0 \notin Others(tubes_stdout, r) /\ e \notin Others(tubes_stdout, r)
      /\ (StdOpen => 1 \notin Others(tubes_stdout, r))
  BY <1>1, <1>2, OtherNumbers, OwnNumbers DEF e
<1>7. u[0] = t[0] /\ u[e] = t[e] /\ (StdOpen => u[1] = Tube("out", r, "write"))
  BY <1>2, <1>5, <1>6, Fds
<1>8. OfTubes(u, r, {"err"})
  <2>1. ASSUME NEW d \in Fd, NEW w \in Which, NEW k \in Rank, u[d] = Tube(w, k, "read")
        PROVE  w = "err" /\ k <= r /\ d = Numbers(w, k)[1]
    <3>1. /\ d \notin Others(tubes_stdout, r) /\ d # 1 /\ d # a
          /\ t[d] = Tube(w, k, "read")
      BY <1>5, <2>1, Apart
    <3>2. k <= r /\ d = Numbers(w, k)[1]
      BY <1>1, <3>1 DEF OfTubes
    <3>3. ~(k < r /\ d = tubes_stdout[k][1])
      BY <1>3, <3>1, OthersAre
    <3>4. k \in Nat /\ r \in Nat
      BY <1>3, Procs DEF Rank
    <3>5. w # "out"
      BY <3>1, <3>2, <3>3, <3>4 DEF Numbers, a
    <3> QED BY <3>2, <3>5 DEF Which
  <2>2. ASSUME NEW d \in Fd, NEW w \in Which, NEW k \in Rank, u[d] = Tube(w, k, "write")
        PROVE  k = r
    <3>1. t[d] = Tube(w, k, "write") \/ Tube("out", r, "write") = Tube(w, k, "write")
      BY <1>5, <2>2, Apart
    <3> QED BY <1>1, <3>1, Apart DEF OfTubes
  <2> QED BY <2>1, <2>2 DEF OfTubes
<1> QED BY <1>1, <1>4, <1>7, <1>8 DEF e

\* Descriptor 2 becomes the child's own tube, and no reading end is left.
LEMMA ErrTable ==
  ASSUME ForkTyped, Ordered, NEW r \in Rank, ChildTable(r), child[r].pc = "err",
         NEW u, u = Redirected(child[r].table, 2, tubes_stderr, r)
  PROVE  /\ u \in [Fd -> Entries]
         /\ OfTubes(u, r, {})
         /\ StdOpen => u[1] = Tube("out", r, "write") /\ u[2] = Tube("err", r, "write")
<1> DEFINE t == child[r].table
           a == tubes_stderr[r][1]
           b == tubes_stderr[r][2]
<1>1. /\ t \in [Fd -> Entries] /\ Forked(r) /\ OfTubes(t, r, {"err"})
      /\ t[b] = Tube("err", r, "write") /\ t[0] \in {Terminal, Socket}
      /\ StdOpen => t[1] = Tube("out", r, "write")
  BY DEF ForkTyped, ChildState, ChildTable
<1>2. a \in Fd /\ b \in Fd /\ a \in Nat /\ b \in Nat /\ 2 < a /\ a < b
  <2>1. r <= r
    BY <1>1, OwnNumbers
  <2> QED BY <1>1, <2>1, OwnNumbers
<1>3. file \in Files /\ tubes_stderr \in [Rank -> Fd \X Fd] /\ b \notin {2, a}
  BY <1>2 DEF ForkTyped
<1> HIDE DEF t, a, b
<1>4. /\ u \in [Fd -> Entries]
      /\ \E f \in Fd :
           /\ f <= 2
           /\ t[f] = Free \/ f \in {2, a}
           /\ \A d \in Fd : u[d] =
                IF d \in Others(tubes_stderr, r) THEN Free
                ELSE IF d = f THEN t[b] ELSE IF d \in {2, a} THEN Free ELSE t[d]
  <2>1. u = Redirected(t, 2, tubes_stderr, r)
    BY DEF t
  <2>2. tubes_stderr[r][1] = a /\ tubes_stderr[r][2] = b
    BY DEF a, b
  <2>3. tubes_stderr[r][2] \notin {2, tubes_stderr[r][1]}
    BY <1>3, <2>2
  <2>4. /\ Redirected(t, 2, tubes_stderr, r) \in [Fd -> Entries]
        /\ \E f \in Fd :
             /\ f <= 2
             /\ t[f] = Free \/ f \in {2, tubes_stderr[r][1]}
             /\ \A d \in Fd : Redirected(t, 2, tubes_stderr, r)[d] =
                  IF d \in Others(tubes_stderr, r) THEN Free
                  ELSE IF d = f THEN t[tubes_stderr[r][2]]
                  ELSE IF d \in {2, tubes_stderr[r][1]} THEN Free ELSE t[d]
    BY <1>1, <1>3, <2>3, RedirectedIs
  <2> QED BY <2>1, <2>2, <2>4
<1>5. PICK f \in Fd :
           /\ f <= 2
           /\ t[f] = Free \/ f \in {2, a}
           /\ \A d \in Fd : u[d] =
                IF d \in Others(tubes_stderr, r) THEN Free
                ELSE IF d = f THEN Tube("err", r, "write")
                ELSE IF d \in {2, a} THEN Free ELSE t[d]
  BY <1>1, <1>4
<1>6. StdOpen => u[1] = Tube("out", r, "write") /\ u[2] = Tube("err", r, "write")
  <2> SUFFICES ASSUME StdOpen
               PROVE  u[1] = Tube("out", r, "write") /\ u[2] = Tube("err", r, "write")
    OBVIOUS
  <2>1. f # 0 /\ f # 1
    BY <1>1, <1>2, <1>5, Apart DEF Which
  <2>2. f = 2
    BY <1>5, <2>1, Fds
  <2>3. 1 \notin Others(tubes_stderr, r) /\ 2 \notin Others(tubes_stderr, r)
    BY <1>1, OtherNumbers
  <2> QED BY <1>1, <1>2, <1>5, <2>2, <2>3, Fds
<1>7. OfTubes(u, r, {})
  <2>1. ASSUME NEW d \in Fd, NEW w \in Which, NEW k \in Rank, u[d] = Tube(w, k, "read")
        PROVE  FALSE
    <3>1. /\ d \notin Others(tubes_stderr, r) /\ d # 2 /\ d # a
          /\ t[d] = Tube(w, k, "read")
      BY <1>5, <2>1, Apart
    <3>2. w = "err" /\ k <= r /\ d = Numbers(w, k)[1]
      BY <1>1, <3>1 DEF OfTubes
    <3>3. ~(k < r /\ d = tubes_stderr[k][1])
      BY <1>3, <3>1, OthersAre
    <3>4. k \in Nat /\ r \in Nat
      BY <1>3, Procs DEF Rank
    <3> QED BY <3>1, <3>2, <3>3, <3>4 DEF Numbers, a
  <2>2. ASSUME NEW d \in Fd, NEW w \in Which, NEW k \in Rank, u[d] = Tube(w, k, "write")
        PROVE  k = r
    <3>1. t[d] = Tube(w, k, "write") \/ Tube("err", r, "write") = Tube(w, k, "write")
      BY <1>5, <2>2, Apart
    <3> QED BY <1>1, <3>1, Apart DEF OfTubes
  <2> QED BY <2>1, <2>2 DEF OfTubes
<1> QED BY <1>4, <1>6, <1>7

----------------------------------------------------------------------------
(* The steps preserve the invariant                                        *)

\* The machine file does not change: nor does what is counted from it.
LEMMA SameFile ==
  ASSUME file' = file
  PROVE  num_procs' = num_procs /\ Rank' = Rank /\ Entries' = Entries /\ ChildState' = ChildState
<1>1. num_procs' = num_procs
  BY DEF num_procs
<1>2. Rank' = Rank
  BY <1>1 DEF Rank
<1>3. Entries' = Entries
  BY <1>2 DEF Entries
<1> QED BY <1>1, <1>2, <1>3 DEF ChildState

\* A child on its own moves neither the others nor dsmexec.
LEMMA ChildMoves ==
  ASSUME ForkInv, NEW r \in Rank, NEW c \in ChildState,
         child' = [child EXCEPT ![r] = c],
         UNCHANGED <<file, pos, machines, launcher, table, tubes_stdout, tubes_stderr>>,
         ChildTable(r)'
  PROVE  ForkInv'
<1>1. num_procs' = num_procs /\ Rank' = Rank /\ Entries' = Entries /\ ChildState' = ChildState
  BY SameFile
<1>2. ForkTyped'
  BY <1>1 DEF ForkInv, ForkTyped
<1>3. Bare'
  BY DEF ForkInv, Bare
<1>4. Ordered'
  BY <1>1 DEF ForkInv, Ordered, Made
<1>5. OwnTable'
  BY <1>1 DEF ForkInv, OwnTable, Made, Numbers, FreeFds
<1>6. ASSUME NEW s \in Rank, s # r PROVE ChildTable(s)'
  <2>1. child'[s] = child[s]
    BY <1>6
  <2>2. ChildTable(s)
    BY DEF ForkInv
  <2> QED BY <1>1, <2>1, <2>2 DEF ChildTable, OfTubes, Numbers, Forked
<1> QED BY <1>1, <1>2, <1>3, <1>4, <1>5, <1>6 DEF ForkInv

LEMMA RedirectOutStep == ASSUME ForkInv, NEW r \in Rank, RedirectOut(r) PROVE ForkInv'
<1> DEFINE u == Redirected(child[r].table, 1, tubes_stdout, r)
           c == [child[r] EXCEPT !.pc = "err", !.table = u]
<1>1. /\ child[r].pc = "out" /\ child' = [child EXCEPT ![r] = c]
      /\ UNCHANGED <<file, pos, machines, launcher, table, tubes_stdout, tubes_stderr>>
  BY DEF RedirectOut
<1>2. /\ u \in [Fd -> Entries] /\ OfTubes(u, r, {"err"})
      /\ StdOpen => u[1] = Tube("out", r, "write")
      /\ u[0] \in {Terminal, Socket} /\ u[tubes_stderr[r][2]] = Tube("err", r, "write")
  BY <1>1, OutTable DEF ForkInv
<1> HIDE DEF u
<1>3. child[r] \in ChildState /\ child \in [Rank -> ChildState]
  BY DEF ForkInv, ForkTyped
<1>4. c \in ChildState /\ c.pc = "err" /\ c.table = u
  BY <1>2, <1>3 DEF ChildState
<1>5. child'[r] = c
  BY <1>1, <1>3
<1>6. Forked(r)
  BY <1>1 DEF ForkInv, ChildTable
<1>7. ChildTable(r)'
  <2>1. child'[r].pc = "err" /\ child'[r].table = u
    BY <1>4, <1>5
  <2>2. Forked(r)' /\ OfTubes(child[r].table, r, {"err"})'
    BY <1>1, <1>2, <1>6, <2>1, SameFile DEF Forked, OfTubes, Numbers
  <2> QED BY <1>1, <1>2, <2>1, <2>2 DEF ChildTable
<1> QED BY <1>1, <1>4, <1>7, ChildMoves

LEMMA RedirectErrStep == ASSUME ForkInv, NEW r \in Rank, RedirectErr(r) PROVE ForkInv'
<1> DEFINE u == Redirected(child[r].table, 2, tubes_stderr, r)
           c == [child[r] EXCEPT !.pc = "exec", !.table = u]
<1>1. /\ child[r].pc = "err" /\ child' = [child EXCEPT ![r] = c]
      /\ UNCHANGED <<file, pos, machines, launcher, table, tubes_stdout, tubes_stderr>>
  BY DEF RedirectErr
<1>2. /\ u \in [Fd -> Entries] /\ OfTubes(u, r, {})
      /\ StdOpen => u[1] = Tube("out", r, "write") /\ u[2] = Tube("err", r, "write")
  BY <1>1, ErrTable DEF ForkInv
<1> HIDE DEF u
<1>3. child[r] \in ChildState /\ child \in [Rank -> ChildState]
  BY DEF ForkInv, ForkTyped
<1>4. c \in ChildState /\ c.pc = "exec" /\ c.table = u
  BY <1>2, <1>3 DEF ChildState
<1>5. child'[r] = c
  BY <1>1, <1>3
<1>6. Forked(r)
  BY <1>1 DEF ForkInv, ChildTable
<1>7. ChildTable(r)'
  <2>1. child'[r].pc = "exec" /\ child'[r].table = u
    BY <1>4, <1>5
  <2>2. Forked(r)' /\ OfTubes(child[r].table, r, {})'
    BY <1>1, <1>2, <1>6, <2>1, SameFile DEF Forked, OfTubes, Numbers
  <2> QED BY <1>1, <1>2, <2>1, <2>2 DEF ChildTable
<1> QED BY <1>1, <1>4, <1>7, ChildMoves

LEMMA ExecStep == ASSUME ForkInv, NEW r \in Rank, Exec(r) PROVE ForkInv'
<1> DEFINE t == child[r].table
           u == Without(t, {d \in Fd : t[d] = Socket})
           c == [pc |-> "ssh", machine |-> machines[r + 1], table |-> u]
<1>1. /\ child[r].pc = "exec" /\ child' = [child EXCEPT ![r] = c]
      /\ UNCHANGED <<file, pos, machines, launcher, table, tubes_stdout, tubes_stderr>>
  BY DEF Exec
<1>2. /\ t \in [Fd -> Entries] /\ OfTubes(t, r, {}) /\ Forked(r)
      /\ StdOpen => t[1] = Tube("out", r, "write") /\ t[2] = Tube("err", r, "write")
  BY <1>1 DEF ForkInv, ForkTyped, ChildState, ChildTable
<1> HIDE DEF t
<1>3. u \in [Fd -> Entries] /\ \A d \in Fd : u[d] = IF t[d] = Socket THEN Free ELSE t[d]
  BY <1>2, WithoutIs
<1> HIDE DEF u
<1>4. \A d \in Fd, w \in Which, k \in Rank : \A e : u[d] = Tube(w, k, e) => t[d] = Tube(w, k, e)
  BY <1>3, Apart
<1>5. StdOpen => u[1] = Tube("out", r, "write") /\ u[2] = Tube("err", r, "write")
  BY <1>2, <1>3, Fds, Apart DEF Which
<1>6. c \in ChildState
  <2>1. r \in Nat /\ r < num_procs /\ launcher.pc # "read" /\ num_procs \in Nat
    <3>1. num_procs \in Nat
      BY Procs DEF ForkInv, ForkTyped
    <3>2. launcher.pc = "read" => launcher.i = 0
      BY DEF ForkInv, Bare
    <3> QED BY <1>2, <3>1, <3>2 DEF Rank, Forked
  <2>2. machines \in Seq(Seq(STRING)) /\ Len(machines) = num_procs
    BY <2>1 DEF ForkInv, ForkTyped
  <2>3. machines[r + 1] \in Seq(STRING)
    BY <2>1, <2>2, ElementOfSeq
  <2> QED BY <1>3, <2>3 DEF ChildState
<1>7. child'[r].pc = "ssh" /\ child'[r].table = u
  BY <1>1 DEF ForkInv, ForkTyped
<1>8. Forked(r)' /\ OfTubes(child[r].table, r, {})'
  BY <1>1, <1>2, <1>4, <1>7, SameFile DEF Forked, OfTubes, Numbers
<1>9. ChildTable(r)'
  BY <1>1, <1>5, <1>7, <1>8 DEF ChildTable
<1> QED BY <1>1, <1>6, <1>9, ChildMoves

LEMMA EndStep == ASSUME ForkInv, NEW r \in Rank, End(r) PROVE ForkInv'
<1> DEFINE u == Without(child[r].table, Fd)
           c == [child[r] EXCEPT !.pc = "ended", !.table = u]
<1>1. /\ child[r].pc = "ssh" /\ child' = [child EXCEPT ![r] = c]
      /\ UNCHANGED <<file, pos, machines, launcher, table, tubes_stdout, tubes_stderr>>
  BY DEF End
<1>2. child[r] \in ChildState /\ child \in [Rank -> ChildState] /\ Forked(r)
  BY <1>1 DEF ForkInv, ForkTyped, ChildTable
<1>3. u \in [Fd -> Entries] /\ \A d \in Fd : u[d] = Free
  BY <1>2, WithoutIs DEF ChildState
<1> HIDE DEF u
<1>4. c \in ChildState /\ c.pc = "ended" /\ c.table = u
  BY <1>2, <1>3 DEF ChildState
<1>5. child'[r].pc = "ended" /\ child'[r].table = u
  BY <1>1, <1>2, <1>4
<1>6. ChildTable(r)'
  BY <1>1, <1>2, <1>3, <1>5 DEF ChildTable, Forked
<1> QED BY <1>1, <1>4, <1>6, ChildMoves

\* The children are not disturbed as long as no tube of theirs is numbered anew.
LEMMA ChildrenKeep ==
  ASSUME ForkInv, file' = file, child' = child,
         \A r \in Rank : Forked(r) => Forked(r)',
         \A r, k \in Rank, w \in Which : Forked(r) /\ k <= r => Numbers(w, k)' = Numbers(w, k)
  PROVE  \A r \in Rank : ChildTable(r)'
<1> SUFFICES ASSUME NEW r \in Rank PROVE ChildTable(r)'
  OBVIOUS
<1>1. ChildTable(r) /\ file \in Files
  BY DEF ForkInv, ForkTyped
<1>2. CASE child[r].pc = "none"
  BY <1>1, <1>2 DEF ChildTable
<1>3. CASE child[r].pc # "none"
  <2>1. Forked(r) /\ Forked(r)' /\ r <= r
    BY <1>1, <1>3, Procs DEF ChildTable, Rank
  <2>2. \A w \in Which, k \in Rank : k <= r => Numbers(w, k)' = Numbers(w, k)
    BY <2>1
  <2>3. tubes_stdout'[r] = tubes_stdout[r] /\ tubes_stderr'[r] = tubes_stderr[r]
    <3>1. Numbers("out", r)' = Numbers("out", r) /\ Numbers("err", r)' = Numbers("err", r)
      BY <2>1, <2>2 DEF Which
    <3> QED BY <3>1 DEF Numbers
  <2>4. \A ws \in SUBSET Which : OfTubes(child[r].table, r, ws) => OfTubes(child[r].table, r, ws)'
    BY <2>2, SameFile DEF OfTubes
  <2> QED BY <1>1, <1>3, <2>1, <2>3, <2>4 DEF ChildTable, Which
<1> QED BY <1>2, <1>3

\* What fgets returns is in the file, after what was read before.
LEMMA ChunkIs ==
  ASSUME file \in Files, pos \in 0 .. Len(file)
  PROVE  Chunk \in Seq(STRING) /\ Len(Chunk) \in 0 .. Len(file) - pos
<1> DEFINE ends == {i \in pos + 1 .. Len(file) : i = pos + LineMax - 1 \/ file[i] = NewLine}
           last == IF ends = {} THEN Len(file) ELSE Min(ends)
<1>1. file \in Seq(STRING) /\ Len(file) \in Nat /\ pos \in Nat
  BY ForkAssumption, LenProperties
<1>2. last \in pos .. Len(file)
  <2>1. CASE ends = {}
    BY <1>1, <2>1
  <2>2. CASE ends # {}
    <3>1. ends \in SUBSET Nat
      BY <1>1
    <3>2. Min(ends) \in ends
      BY <2>2, <3>1, MinIs
    <3> QED BY <1>1, <2>2, <3>2
  <2> QED BY <2>1, <2>2
<1>3. Chunk = SubSeq(file, pos + 1, last)
  BY DEF Chunk
<1> HIDE DEF last
<1>4. last \in Nat /\ pos <= last /\ last <= Len(file)
  BY <1>1, <1>2
<1>5. SubSeq(file, pos + 1, last) \in Seq(STRING)
      /\ Len(SubSeq(file, pos + 1, last)) = IF pos + 1 <= last THEN last - (pos + 1) + 1 ELSE 0
  BY <1>1, <1>4, SubSeqProperties
<1> QED BY <1>1, <1>3, <1>4, <1>5

LEMMA ReadLineStep == ASSUME ForkInv, ReadLine PROVE ForkInv'
<1>1. /\ launcher.pc = "read" /\ Len(machines) < num_procs
      /\ machines' = Append(machines, Front(Chunk)) /\ pos' = pos + Len(Chunk)
      /\ UNCHANGED <<file, launcher, table, tubes_stdout, tubes_stderr, child>>
  BY DEF ReadLine
<1>2. ForkTyped /\ file \in Files /\ pos \in 0 .. Len(file) /\ num_procs \in Nat
  BY Procs DEF ForkInv, ForkTyped
<1>3. Chunk \in Seq(STRING) /\ Len(Chunk) \in 0 .. Len(file) - pos
  BY <1>2, ChunkIs
<1>4. Front(Chunk) \in Seq(STRING)
  <2>1. Len(Chunk) \in Nat
    BY <1>3, LenProperties
  <2> QED BY <1>3, <2>1, SubSeqProperties DEF Front
<1>5. num_procs' = num_procs /\ Rank' = Rank /\ Entries' = Entries /\ ChildState' = ChildState
  BY <1>1, SameFile
<1>6. machines' \in Seq(Seq(STRING)) /\ Len(machines') = Len(machines) + 1
  BY <1>1, <1>2, <1>4, AppendProperties DEF ForkTyped
<1>7. pos' \in 0 .. Len(file)
  <2>1. Len(file) \in Nat
    BY <1>2, ForkAssumption, LenProperties
  <2> QED BY <1>1, <1>2, <1>3, <2>1
<1>8. Len(machines) \in Nat /\ Len(machines') <= num_procs
  BY <1>1, <1>2, <1>6, LenProperties DEF ForkTyped
<1>9. ForkTyped'
  BY <1>1, <1>2, <1>5, <1>6, <1>7, <1>8 DEF ForkTyped
<1>10. Bare' /\ Ordered' /\ OwnTable'
  BY <1>1, <1>5 DEF ForkInv, Bare, Ordered, OwnTable, Made, Numbers, FreeFds
<1>11. \A r \in Rank : ChildTable(r)'
  BY <1>1, <1>5, ChildrenKeep DEF Forked, Numbers
<1> QED BY <1>5, <1>9, <1>10, <1>11 DEF ForkInv

\* sock_init takes the lowest number: 0, unless standard input is there.
LEMMA ListenStep == ASSUME ForkInv, Listen PROVE ForkInv'
<1> DEFINE m == Min(FreeFds(table))
<1>1. /\ launcher.pc = "read" /\ Len(machines) = num_procs
      /\ table' = [table EXCEPT ![m] = Socket] /\ launcher' = [launcher EXCEPT !.pc = "out"]
      /\ UNCHANGED <<file, pos, machines, tubes_stdout, tubes_stderr, child>>
  BY DEF Listen, Opened
<1>2. num_procs' = num_procs /\ Rank' = Rank /\ Entries' = Entries /\ ChildState' = ChildState
  BY <1>1, SameFile
<1>3. PICK c \in Closed : table = [d \in Fd |-> IF d \in (0 .. 2) \ c THEN Terminal ELSE Free]
  BY <1>1 DEF ForkInv, Bare
<1>4. m \in Fd /\ table[m] = Free /\ \A d \in Fd : table[d] = Free => m <= d
  <2>1. 3 \in FreeFds(table)
    BY <1>3, Fds DEF FreeFds
  <2> QED BY <2>1, LowestFree
<1> HIDE DEF m
<1>5. launcher \in [pc : LauncherPc, i : Nat] /\ launcher.i = 0 /\ num_procs \in Nat
      /\ table \in [Fd -> Entries]
  BY <1>1, Procs DEF ForkInv, ForkTyped, Bare
<1>6. launcher' \in [pc : LauncherPc, i : Nat] /\ launcher'.i = 0 /\ launcher'.pc = "out"
  BY <1>1, <1>5 DEF LauncherPc
<1>7. table' \in [Fd -> Entries] /\ \A d \in Fd : table'[d] = IF d = m THEN Socket ELSE table[d]
  BY <1>1, <1>4, <1>5, AreEntries
<1>8. ForkTyped'
  BY <1>1, <1>2, <1>5, <1>6, <1>7 DEF ForkInv, ForkTyped
<1>9. \A w : \A r \in Rank : ~Made(w, r)' /\ ~Forked(r)
  BY <1>1, <1>2, <1>5, <1>6 DEF Made, Forked, Rank
<1>10. Bare' /\ Ordered'
  BY <1>2, <1>6, <1>9 DEF Bare, Ordered
<1>11. table'[0] \in {Terminal, Socket}
  <2>1. table[0] = Free => m = 0
    BY <1>4, Fds
  <2> QED BY <1>3, <1>7, <2>1, Fds
<1>12. StdOpen => table'[1] \in {Terminal, Socket}
  <2> SUFFICES ASSUME StdOpen, table[1] = Free PROVE m = 1
    BY <1>3, <1>7, Fds
  <2>1. 1 \in c
    BY <1>3, Fds, Apart
  <2>2. 0 \notin c
    BY <2>1 DEF StdOpen
  <2>3. table[0] = Terminal
    BY <1>3, <2>2, Fds
  <2> QED BY <1>4, <2>3, Fds, Apart
<1>13. \A d \in Fd, w \in Which : \A r, e : table'[d] # Tube(w, r, e)
  BY <1>3, <1>7, Apart
<1>14. OwnTable'
  BY <1>2, <1>9, <1>11, <1>12, <1>13 DEF OwnTable
<1>15. \A r \in Rank : ChildTable(r)'
  BY <1>1, <1>2, <1>9, ChildrenKeep
<1> QED BY <1>2, <1>8, <1>10, <1>14, <1>15 DEF ForkInv

\* pipe or fork has failed: dsmexec has ended, and the children keep their
\* descriptors.
LEMMA LauncherFails ==
  ASSUME ForkInv, launcher.pc \in {"out", "err", "fork"}, launcher.i < num_procs,
         launcher' = [launcher EXCEPT !.pc = "failed"], table' = Without(table, Fd),
         UNCHANGED <<file, pos, machines, child>>,
         tubes_stdout' \in [Rank -> Fd \X Fd], tubes_stderr' \in [Rank -> Fd \X Fd],
         \A r \in Rank \ {launcher.i} : /\ tubes_stdout'[r] = tubes_stdout[r]
                                        /\ tubes_stderr'[r] = tubes_stderr[r]
  PROVE  ForkInv'
<1>1. num_procs' = num_procs /\ Rank' = Rank /\ Entries' = Entries /\ ChildState' = ChildState
  BY SameFile
<1>2. /\ launcher \in [pc : LauncherPc, i : Nat] /\ num_procs \in Nat
      /\ table \in [Fd -> Entries] /\ \A r \in Rank : r \in Nat
  BY Procs DEF ForkInv, ForkTyped, Rank
<1>3. launcher' \in [pc : LauncherPc, i : Nat] /\ launcher'.i = launcher.i
      /\ launcher'.pc = "failed"
  BY <1>2 DEF LauncherPc
<1>4. table' \in [Fd -> Entries] /\ \A d \in Fd : table'[d] = Free
  BY <1>2, WithoutIs
<1>5. ForkTyped'
  BY <1>1, <1>2, <1>3, <1>4 DEF ForkInv, ForkTyped
<1>6. \A w \in Which, r \in Rank : Made(w, r)' => r < launcher.i /\ Made(w, r)
  BY <1>3 DEF Made
<1>7. \A r \in Rank : r < launcher.i =>
        \A w \in Which, k \in Rank : k <= r => Numbers(w, k)' = Numbers(w, k)
  BY <1>2 DEF Numbers
<1>8. Ordered'
  <2>1. ASSUME NEW r \in Rank, r < launcher.i
        PROVE  \A k \in Rank : k <= r => /\ tubes_stdout'[k] = tubes_stdout[k]
                                         /\ tubes_stderr'[k] = tubes_stderr[k]
    BY <1>2, <2>1
  <2>2. ASSUME NEW r \in Rank
        PROVE  /\ Made("out", r)' => r < launcher.i /\ Made("out", r)
               /\ Made("err", r)' => r < launcher.i /\ Made("err", r)
    BY <1>6 DEF Which
  <2>3. ASSUME NEW r \in Rank PROVE r <= r /\ \A k \in Rank : k < r => k <= r
    BY <1>2
  <2>4. Ordered
    BY DEF ForkInv
  <2>5. ASSUME NEW r \in Rank, Made("out", r)'
        PROVE  /\ 0 < tubes_stdout'[r][1] /\ tubes_stdout'[r][1] < tubes_stdout'[r][2]
               /\ StdOpen => 1 < tubes_stdout'[r][1]
               /\ \A k \in Rank : k < r => tubes_stdout'[k][2] < tubes_stdout'[r][2]
    <3>1. r < launcher.i /\ Made("out", r)
      BY <2>2, <2>5
    <3>2. /\ tubes_stdout'[r] = tubes_stdout[r]
          /\ \A k \in Rank : k < r => tubes_stdout'[k] = tubes_stdout[k]
      BY <2>1, <2>3, <3>1
    <3> QED BY <2>4, <3>1, <3>2 DEF Ordered
  <2>6. ASSUME NEW r \in Rank, Made("err", r)'
        PROVE  /\ tubes_stderr'[r][1] < tubes_stderr'[r][2]
               /\ \A k \in Rank : k <= r => /\ tubes_stdout'[k][1] < tubes_stderr'[r][1]
                                            /\ tubes_stdout'[k][2] < tubes_stderr'[r][1]
    <3>1. r < launcher.i /\ Made("err", r)
      BY <2>2, <2>6
    <3>2. /\ tubes_stderr'[r] = tubes_stderr[r]
          /\ \A k \in Rank : k <= r => tubes_stdout'[k] = tubes_stdout[k]
      BY <2>1, <2>3, <3>1
    <3> QED BY <2>4, <3>1, <3>2 DEF Ordered
  <2> QED BY <1>1, <2>5, <2>6 DEF Ordered
<1>9. Bare' /\ OwnTable'
  BY <1>3, <1>4 DEF Bare, OwnTable
<1>10. \A r \in Rank : ChildTable(r)'
  <2>1. \A r \in Rank : Forked(r) => Forked(r)' /\ r < launcher.i
    BY <1>3 DEF Forked
  <2>2. \A r, k \in Rank, w \in Which : Forked(r) /\ k <= r => Numbers(w, k)' = Numbers(w, k)
    BY <1>7, <2>1
  <2> QED BY <2>1, <2>2, ChildrenKeep
<1> QED BY <1>1, <1>5, <1>8, <1>9, <1>10 DEF ForkInv

\* The writing end of an output tube is above all those before it, and what is
\* still free is above both ends.
LEMMA PipeOutStep == ASSUME ForkInv, PipeOut PROVE ForkInv'
<1> DEFINE i == launcher.i
           a == ReadEnd(table)
           b == WriteEnd(table)
<1>1. /\ launcher.pc = "out" /\ i < num_procs /\ Pipe("out", "err")
      /\ tubes_stdout' = [tubes_stdout EXCEPT ![i] = Ends]
      /\ UNCHANGED <<file, pos, machines, tubes_stderr, child>>
  BY DEF PipeOut
<1>2. num_procs' = num_procs /\ Rank' = Rank /\ Entries' = Entries /\ ChildState' = ChildState
  BY <1>1, SameFile
<1>3. /\ launcher \in [pc : LauncherPc, i : Nat] /\ num_procs \in Nat
      /\ table \in [Fd -> Entries] /\ \A r \in Rank : r \in Nat
      /\ tubes_stdout \in [Rank -> Fd \X Fd] /\ tubes_stderr \in [Rank -> Fd \X Fd]
  BY Procs DEF ForkInv, ForkTyped, Rank
<1>4. i \in Rank /\ i \in Nat
  BY <1>1, <1>3 DEF Rank
<1> HIDE DEF i
<1>5. CASE Cardinality(FreeFds(table)) < 2
  <2>1. launcher' = [launcher EXCEPT !.pc = "failed"] /\ table' = Without(table, Fd)
    BY <1>1, <1>5 DEF Pipe
  <2>2. Ends = <<0, 0>>
    BY <1>5 DEF Ends
  <2>3. tubes_stdout' \in [Rank -> Fd \X Fd]
        /\ \A r \in Rank \ {i} : tubes_stdout'[r] = tubes_stdout[r]
    BY <1>1, <1>3, <1>4, <2>2, Fds
  <2> QED BY <1>1, <1>3, <2>1, <2>3, LauncherFails DEF i
<1>6. CASE ~(Cardinality(FreeFds(table)) < 2)
  <2>1. /\ launcher' = [launcher EXCEPT !.pc = "err"] /\ table' = Piped(table, "out", i)
        /\ Ends = <<a, b>>
    BY <1>1, <1>6 DEF Pipe, Ends, i
  <2>2. /\ a \in Fd /\ b \in Fd /\ a < b /\ table[a] = Free /\ table[b] = Free
        /\ \A d \in Fd : table[d] = Free => d = a \/ d = b \/ b < d
        /\ table' \in [Fd -> Entries]
        /\ table'[a] = Tube("out", i, "read") /\ table'[b] = Tube("out", i, "write")
        /\ \A d \in Fd \ {a, b} : table'[d] = table[d]
    BY <1>3, <1>4, <1>6, <2>1, PipeTakes DEF Which
  <2> HIDE DEF a, b
  <2>3. a \in Nat /\ b \in Nat
    BY <2>2, Fds
  <2>4. launcher' \in [pc : LauncherPc, i : Nat] /\ launcher'.i = i /\ launcher'.pc = "err"
    BY <1>3, <2>1 DEF LauncherPc, i
  <2>5. /\ tubes_stdout' \in [Rank -> Fd \X Fd]
        /\ tubes_stdout'[i][1] = a /\ tubes_stdout'[i][2] = b
        /\ \A r \in Rank \ {i} : tubes_stdout'[r] = tubes_stdout[r]
    BY <1>1, <1>3, <1>4, <2>1, <2>2
  <2>6. ForkTyped'
    BY <1>1, <1>2, <1>3, <1>4, <2>2, <2>4, <2>5 DEF ForkInv, ForkTyped, i
  <2>7. \A w \in Which, r \in Rank : /\ Made(w, r) <=> r < i
                                     /\ Made(w, r)' <=> r < i \/ (r = i /\ w = "out")
    BY <1>1, <2>4 DEF Made, i
  <2>8. \A w \in Which, r \in Rank : w = "err" \/ r # i => Numbers(w, r)' = Numbers(w, r)
    BY <1>1, <2>5 DEF Numbers
  <2>9. /\ 0 < a /\ (StdOpen => 1 < a)
        /\ \A r \in Rank : r < i => tubes_stdout[r][2] < b
    <3>1. a # 0 /\ (StdOpen => a # 1)
      BY <1>1, <2>2, Apart DEF ForkInv, OwnTable
    <3>2. ASSUME NEW r \in Rank, r < i PROVE tubes_stdout[r][2] < b
      <4>1. a \in FreeFds(table) /\ b \in FreeFds(table) /\ Made("out", r)
        BY <2>2, <2>7, <3>2 DEF FreeFds, Which
      <4>2. tubes_stdout[r][2] < a \/ a = tubes_stdout[r][2]
        BY <1>1, <4>1 DEF ForkInv, OwnTable
      <4>3. tubes_stdout[r][2] \in Nat
        BY <1>3, Fds
      <4> QED BY <2>2, <2>3, <4>2, <4>3
    <3> QED BY <2>3, <3>1, <3>2
  <2>10. Ordered'
    <3> SUFFICES ASSUME NEW r \in Rank
                 PROVE  /\ Made("out", r)' => /\ 0 < tubes_stdout'[r][1]
                                              /\ tubes_stdout'[r][1] < tubes_stdout'[r][2]
                                              /\ StdOpen => 1 < tubes_stdout'[r][1]
                                              /\ \A k \in Rank : k < r =>
                                                   tubes_stdout'[k][2] < tubes_stdout'[r][2]
                        /\ Made("err", r)' =>
                             /\ tubes_stderr'[r][1] < tubes_stderr'[r][2]
                             /\ \A k \in Rank : k <= r =>
                                  /\ tubes_stdout'[k][1] < tubes_stderr'[r][1]
                                  /\ tubes_stdout'[k][2] < tubes_stderr'[r][1]
      BY <1>2 DEF Ordered
    <3>1. CASE r = i
      <4>1. \A k \in Rank : k < r => tubes_stdout'[k][2] < tubes_stdout'[r][2]
        BY <1>3, <1>4, <2>5, <2>9, <3>1
      <4> QED BY <1>3, <1>4, <2>2, <2>5, <2>7, <2>9, <3>1, <4>1 DEF Which
    <3>2. CASE r # i
      <4>1. Made("out", r)' \/ Made("err", r)' => r < i /\ Made("out", r) /\ Made("err", r)
        BY <2>7, <3>2 DEF Which
      <4>2. r < i => \A k \in Rank : k <= r \/ k < r => tubes_stdout'[k] = tubes_stdout[k]
        BY <1>3, <1>4, <2>5
      <4>3. tubes_stdout'[r] = tubes_stdout[r] /\ tubes_stderr'[r] = tubes_stderr[r]
        BY <1>1, <2>5, <3>2
      <4> QED BY <4>1, <4>2, <4>3 DEF ForkInv, Ordered
    <3> QED BY <3>1, <3>2
  <2>11. /\ table'[0] \in {Terminal, Socket} /\ (StdOpen => table'[1] \in {Terminal, Socket})
    <3>1. table[0] \in {Terminal, Socket} /\ (StdOpen => table[1] \in {Terminal, Socket})
      BY <1>1 DEF ForkInv, OwnTable
    <3> QED BY <2>2, <3>1, Apart, Fds
  <2>12. ASSUME NEW d \in Fd, NEW w \in Which, NEW r \in Rank
         PROVE  /\ table'[d] = Tube(w, r, "read") => Made(w, r)' /\ d = Numbers(w, r)'[1]
                /\ table'[d] = Tube(w, r, "write") =>
                     Made(w, r)' /\ r = i /\ d = Numbers(w, r)'[2]
    <3>1. CASE d \in {a, b}
      BY <2>2, <2>5, <2>7, <3>1, Apart DEF Numbers, Which
    <3>2. CASE d \notin {a, b}
      <4>1. /\ table[d] = Tube(w, r, "read") => Made(w, r) /\ d = Numbers(w, r)[1]
            /\ table[d] = Tube(w, r, "write") => Made(w, r) /\ r = i
        BY <1>1 DEF ForkInv, OwnTable, i
      <4>2. Made(w, r) => Made(w, r)' /\ r # i
        BY <1>3, <1>4, <2>7
      <4> QED BY <2>2, <2>8, <3>2, <4>1, <4>2
    <3> QED BY <3>1, <3>2
  <2>13. ASSUME NEW w \in Which, NEW r \in Rank, Made(w, r)'
         PROVE  /\ table'[Numbers(w, r)'[1]] = Tube(w, r, "read")
                /\ r = i => table'[Numbers(w, r)'[2]] = Tube(w, r, "write")
    <3>1. CASE r = i
      BY <2>2, <2>5, <2>7, <2>13, <3>1, <1>4 DEF Numbers
    <3>2. CASE r # i
      <4>1. Made(w, r) /\ Numbers(w, r)' = Numbers(w, r)
        BY <2>7, <2>8, <2>13, <3>2
      <4>2. table[Numbers(w, r)[1]] = Tube(w, r, "read") /\ Numbers(w, r)[1] \in Fd
        BY <1>1, <1>3, <4>1 DEF ForkInv, OwnTable, Numbers
      <4>3. Numbers(w, r)[1] \notin {a, b}
        BY <2>2, <4>2, Apart
      <4> QED BY <2>2, <3>2, <4>1, <4>2, <4>3
    <3> QED BY <3>1, <3>2
  <2>14. ASSUME NEW d \in FreeFds(table'), NEW r \in Rank, Made("out", r)'
         PROVE  tubes_stdout'[r][1] < d /\ tubes_stdout'[r][2] < d
    <3>1. d \in Fd /\ d \in Nat /\ d \notin {a, b} /\ d \in FreeFds(table) /\ b < d
      BY <2>2, Apart, Fds DEF FreeFds, Which
    <3>2. CASE r = i
      BY <2>2, <2>3, <2>5, <3>1, <3>2
    <3>3. CASE r # i
      <4>1. r < i /\ tubes_stdout'[r] = tubes_stdout[r] /\ Made("out", r)
        BY <2>5, <2>7, <2>14, <3>3 DEF Which
      <4>2. tubes_stdout[r][2] < b /\ tubes_stdout[r][1] < tubes_stdout[r][2]
        BY <2>9, <4>1 DEF ForkInv, Ordered
      <4>3. tubes_stdout[r][1] \in Nat /\ tubes_stdout[r][2] \in Nat
        BY <1>3, Fds
      <4> QED BY <2>3, <3>1, <4>1, <4>2, <4>3
    <3> QED BY <3>2, <3>3
  <2>15. OwnTable'
    BY <1>2, <2>4, <2>11, <2>12, <2>13, <2>14 DEF OwnTable
  <2>16. \A r \in Rank : ChildTable(r)'
    <3>1. \A r \in Rank : Forked(r) => Forked(r)' /\ r < i
      BY <1>1, <2>4 DEF Forked, i
    <3>2. \A r, k \in Rank, w \in Which : Forked(r) /\ k <= r => Numbers(w, k)' = Numbers(w, k)
      BY <1>3, <1>4, <2>8, <3>1
    <3> QED BY <1>1, <3>1, <3>2, ChildrenKeep
  <2> QED BY <1>2, <2>4, <2>6, <2>10, <2>15, <2>16 DEF ForkInv, Bare
<1> QED BY <1>5, <1>6

\* The error tube is above all the output tubes, those before and this one.
LEMMA PipeErrStep == ASSUME ForkInv, PipeErr PROVE ForkInv'
<1> DEFINE i == launcher.i
           a == ReadEnd(table)
           b == WriteEnd(table)
<1>1. /\ launcher.pc = "err" /\ i < num_procs /\ Pipe("err", "fork")
      /\ tubes_stderr' = [tubes_stderr EXCEPT ![i] = Ends]
      /\ UNCHANGED <<file, pos, machines, tubes_stdout, child>>
  BY DEF PipeErr, ForkInv, ForkTyped
<1>2. num_procs' = num_procs /\ Rank' = Rank /\ Entries' = Entries /\ ChildState' = ChildState
  BY <1>1, SameFile
<1>3. /\ launcher \in [pc : LauncherPc, i : Nat] /\ num_procs \in Nat
      /\ table \in [Fd -> Entries] /\ \A r \in Rank : r \in Nat
      /\ tubes_stdout \in [Rank -> Fd \X Fd] /\ tubes_stderr \in [Rank -> Fd \X Fd]
  BY Procs DEF ForkInv, ForkTyped, Rank
<1>4. i \in Rank /\ i \in Nat
  BY <1>1, <1>3 DEF Rank
<1> HIDE DEF i
<1>5. CASE Cardinality(FreeFds(table)) < 2
  <2>1. launcher' = [launcher EXCEPT !.pc = "failed"] /\ table' = Without(table, Fd)
    BY <1>1, <1>5 DEF Pipe
  <2>2. Ends = <<0, 0>>
    BY <1>5 DEF Ends
  <2>3. tubes_stderr' \in [Rank -> Fd \X Fd]
        /\ \A r \in Rank \ {i} : tubes_stderr'[r] = tubes_stderr[r]
    BY <1>1, <1>3, <1>4, <2>2, Fds
  <2> QED BY <1>1, <1>3, <2>1, <2>3, LauncherFails DEF i
<1>6. CASE ~(Cardinality(FreeFds(table)) < 2)
  <2>1. /\ launcher' = [launcher EXCEPT !.pc = "fork"] /\ table' = Piped(table, "err", i)
        /\ Ends = <<a, b>>
    BY <1>1, <1>6 DEF Pipe, Ends, i
  <2>2. /\ a \in Fd /\ b \in Fd /\ a < b /\ table[a] = Free /\ table[b] = Free
        /\ table' \in [Fd -> Entries]
        /\ table'[a] = Tube("err", i, "read") /\ table'[b] = Tube("err", i, "write")
        /\ \A d \in Fd \ {a, b} : table'[d] = table[d]
    BY <1>3, <1>4, <1>6, <2>1, PipeTakes DEF Which
  <2> HIDE DEF a, b
  <2>3. a \in Nat /\ b \in Nat
    BY <2>2, Fds
  <2>4. launcher' \in [pc : LauncherPc, i : Nat] /\ launcher'.i = i /\ launcher'.pc = "fork"
    BY <1>3, <2>1 DEF LauncherPc, i
  <2>5. /\ tubes_stderr' \in [Rank -> Fd \X Fd]
        /\ tubes_stderr'[i][1] = a /\ tubes_stderr'[i][2] = b
        /\ \A r \in Rank \ {i} : tubes_stderr'[r] = tubes_stderr[r]
    BY <1>1, <1>3, <1>4, <2>1, <2>2
  <2>6. ForkTyped'
    BY <1>1, <1>2, <1>3, <1>4, <2>2, <2>4, <2>5 DEF ForkInv, ForkTyped, i
  <2>7. \A w \in Which, r \in Rank : /\ Made(w, r) <=> r < i \/ (r = i /\ w = "out")
                                     /\ Made(w, r)' <=> r < i \/ r = i
    BY <1>1, <2>4 DEF Made, i, Which
  <2>8. \A w \in Which, r \in Rank : w = "out" \/ r # i => Numbers(w, r)' = Numbers(w, r)
    BY <1>1, <2>5 DEF Numbers, Which
  <2>9. \A r \in Rank : r <= i => tubes_stdout[r][1] < a /\ tubes_stdout[r][2] < a
    <3> SUFFICES ASSUME NEW r \in Rank, r <= i
                 PROVE  tubes_stdout[r][1] < a /\ tubes_stdout[r][2] < a
      OBVIOUS
    <3>1. a \in FreeFds(table) /\ Made("out", r)
      BY <1>3, <1>4, <2>2, <2>7 DEF FreeFds, Which
    <3> QED BY <1>1, <3>1 DEF ForkInv, OwnTable
  <2>10. Ordered'
    <3> SUFFICES ASSUME NEW r \in Rank
                 PROVE  /\ Made("out", r)' => /\ 0 < tubes_stdout[r][1]
                                              /\ tubes_stdout[r][1] < tubes_stdout[r][2]
                                              /\ StdOpen => 1 < tubes_stdout[r][1]
                                              /\ \A k \in Rank : k < r =>
                                                   tubes_stdout[k][2] < tubes_stdout[r][2]
                        /\ Made("err", r)' =>
                             /\ tubes_stderr'[r][1] < tubes_stderr'[r][2]
                             /\ \A k \in Rank : k <= r =>
                                  /\ tubes_stdout[k][1] < tubes_stderr'[r][1]
                                  /\ tubes_stdout[k][2] < tubes_stderr'[r][1]
      BY <1>1, <1>2 DEF Ordered
    <3>1. Made("out", r)' => Made("out", r)
      BY <2>7 DEF Which
    <3>2. CASE r = i
      BY <2>2, <2>5, <2>9, <3>1, <3>2 DEF ForkInv, Ordered
    <3>3. CASE r # i
      <4>1. (Made("err", r)' => Made("err", r)) /\ tubes_stderr'[r] = tubes_stderr[r]
        BY <2>5, <2>7, <3>3 DEF Which
      <4> QED BY <3>1, <4>1 DEF ForkInv, Ordered
    <3> QED BY <3>2, <3>3
  <2>11. /\ table'[0] \in {Terminal, Socket} /\ (StdOpen => table'[1] \in {Terminal, Socket})
    <3>1. table[0] \in {Terminal, Socket} /\ (StdOpen => table[1] \in {Terminal, Socket})
      BY <1>1 DEF ForkInv, OwnTable
    <3> QED BY <2>2, <3>1, Apart, Fds
  <2>12. ASSUME NEW d \in Fd, NEW w \in Which, NEW r \in Rank
         PROVE  /\ table'[d] = Tube(w, r, "read") => Made(w, r)' /\ d = Numbers(w, r)'[1]
                /\ table'[d] = Tube(w, r, "write") =>
                     Made(w, r)' /\ r = i /\ d = Numbers(w, r)'[2]
    <3>1. CASE d \in {a, b}
      BY <2>2, <2>5, <2>7, <3>1, Apart DEF Numbers, Which
    <3>2. CASE d \notin {a, b}
      <4>1. /\ table[d] = Tube(w, r, "read") => Made(w, r) /\ d = Numbers(w, r)[1]
            /\ table[d] = Tube(w, r, "write") =>
                 Made(w, r) /\ r = i /\ d = Numbers(w, r)[2]
        BY <1>1 DEF ForkInv, OwnTable, i
      <4>2. Made(w, r) => Made(w, r)' /\ Numbers(w, r)' = Numbers(w, r)
        BY <1>3, <1>4, <2>7, <2>8
      <4> QED BY <2>2, <3>2, <4>1, <4>2
    <3> QED BY <3>1, <3>2
  <2>13. ASSUME NEW w \in Which, NEW r \in Rank, Made(w, r)'
         PROVE  /\ table'[Numbers(w, r)'[1]] = Tube(w, r, "read")
                /\ r = i => table'[Numbers(w, r)'[2]] = Tube(w, r, "write")
    <3>1. CASE r = i /\ w = "err"
      BY <2>2, <2>5, <3>1, <1>4 DEF Numbers
    <3>2. CASE ~(r = i /\ w = "err")
      <4>1. Made(w, r) /\ Numbers(w, r)' = Numbers(w, r)
        BY <2>7, <2>8, <2>13, <3>2 DEF Which
      <4>2. /\ table[Numbers(w, r)[1]] = Tube(w, r, "read")
            /\ r = i => table[Numbers(w, r)[2]] = Tube(w, r, "write")
            /\ Numbers(w, r)[1] \in Fd /\ Numbers(w, r)[2] \in Fd
        BY <1>1, <1>3, <4>1 DEF ForkInv, OwnTable, Numbers, i
      <4>3. Numbers(w, r)[1] \notin {a, b} /\ (r = i => Numbers(w, r)[2] \notin {a, b})
        BY <2>2, <4>2, Apart
      <4> QED BY <2>2, <4>1, <4>2, <4>3
    <3> QED BY <3>1, <3>2
  <2>14. ASSUME NEW d \in FreeFds(table'), NEW r \in Rank, Made("out", r)'
         PROVE  tubes_stdout'[r][1] < d /\ tubes_stdout'[r][2] < d
    <3>1. d \in FreeFds(table)
      BY <2>2, <2>14, Apart DEF FreeFds, Which
    <3>2. Made("out", r)
      BY <2>7, <2>14 DEF Which
    <3> QED BY <1>1, <3>1, <3>2 DEF ForkInv, OwnTable
  <2>15. OwnTable'
    BY <1>2, <2>4, <2>11, <2>12, <2>13, <2>14 DEF OwnTable
  <2>16. \A r \in Rank : ChildTable(r)'
    <3>1. \A r \in Rank : Forked(r) => Forked(r)' /\ r < i
      BY <1>1, <2>4 DEF Forked, i
    <3>2. \A r, k \in Rank, w \in Which : Forked(r) /\ k <= r => Numbers(w, k)' = Numbers(w, k)
      BY <1>3, <1>4, <2>8, <3>1
    <3> QED BY <1>1, <3>1, <3>2, ChildrenKeep
  <2> QED BY <1>2, <2>4, <2>6, <2>10, <2>15, <2>16 DEF ForkInv, Bare
<1> QED BY <1>5, <1>6

\* The fork that succeeds.
Forks ==
  /\ launcher.pc = "fork"
  /\ child' = [child EXCEPT ![launcher.i].pc = "out", ![launcher.i].table = table]
  /\ launcher' = [launcher EXCEPT !.pc = "close"]
  /\ UNCHANGED <<file, pos, machines, table, tubes_stdout, tubes_stderr>>

LEMMA ForkedStep == ASSUME ForkInv, Forks PROVE ForkInv'
<1> DEFINE i == launcher.i
           c == [child[i] EXCEPT !.pc = "out", !.table = table]
<1>1. /\ launcher.pc = "fork" /\ i < num_procs /\ launcher' = [launcher EXCEPT !.pc = "close"]
      /\ child' = [child EXCEPT ![i] = c]
      /\ UNCHANGED <<file, pos, machines, table, tubes_stdout, tubes_stderr>>
  BY DEF Forks, ForkInv, ForkTyped
<1>2. num_procs' = num_procs /\ Rank' = Rank /\ Entries' = Entries /\ ChildState' = ChildState
  BY <1>1, SameFile
<1>3. /\ launcher \in [pc : LauncherPc, i : Nat] /\ num_procs \in Nat
      /\ table \in [Fd -> Entries] /\ \A r \in Rank : r \in Nat
      /\ child \in [Rank -> ChildState]
  BY Procs DEF ForkInv, ForkTyped, Rank
<1>4. i \in Rank /\ i \in Nat
  BY <1>1, <1>3 DEF Rank
<1>5. c \in ChildState /\ c.pc = "out" /\ c.table = table
  BY <1>3, <1>4 DEF ChildState
<1>6. /\ child' \in [Rank -> ChildState] /\ child'[i] = c
      /\ \A r \in Rank \ {i} : child'[r] = child[r]
  BY <1>1, <1>3, <1>4, <1>5
<1> HIDE DEF c
<1>7. launcher' \in [pc : LauncherPc, i : Nat] /\ launcher'.i = i /\ launcher'.pc = "close"
  BY <1>1, <1>3 DEF LauncherPc
<1> HIDE DEF i
<1>8. ForkTyped'
  BY <1>1, <1>2, <1>6, <1>7 DEF ForkInv, ForkTyped, i
<1>9. /\ \A w \in Which, r \in Rank : Made(w, r)' <=> Made(w, r)
      /\ \A w, r : Numbers(w, r)' = Numbers(w, r)
      /\ \A r \in Rank : Forked(r)' <=> r < i \/ r = i
  BY <1>1, <1>7 DEF Made, Numbers, Forked, i
<1>10. Ordered'
  BY <1>1, <1>2, <1>9 DEF ForkInv, Ordered, Which
<1>11. OwnTable'
  BY <1>1, <1>2, <1>7, <1>9 DEF ForkInv, OwnTable, FreeFds, Which, i
<1>12. ASSUME NEW r \in Rank PROVE ChildTable(r)'
  <2>1. CASE r = i
    <3>1. child'[r].pc = "out" /\ child'[r].table = table /\ Forked(r)'
      BY <1>5, <1>6, <1>9, <2>1
    <3>2. OfTubes(child[r].table, r, Which)'
      <4> SUFFICES ASSUME NEW d \in Fd, NEW w \in Which, NEW k \in Rank
                   PROVE  /\ table[d] = Tube(w, k, "read") => k <= r /\ d = Numbers(w, k)[1]
                          /\ table[d] = Tube(w, k, "write") => k = r
        BY <1>2, <1>9, <3>1 DEF OfTubes
      <4>1. Made(w, k) => k <= r
        BY <1>3, <1>4, <2>1 DEF Made, i
      <4> QED BY <1>1, <2>1, <4>1 DEF ForkInv, OwnTable, i
    <3>3. /\ table[tubes_stdout[r][2]] = Tube("out", r, "write")
          /\ table[tubes_stderr[r][2]] = Tube("err", r, "write")
          /\ table[0] \in {Terminal, Socket}
      <4>1. Made("out", r) /\ Made("err", r) /\ r = launcher.i
        BY <1>1, <2>1 DEF Made, i
      <4>2. Numbers("out", r) = tubes_stdout[r] /\ Numbers("err", r) = tubes_stderr[r]
        BY DEF Numbers
      <4> QED BY <1>1, <4>1, <4>2 DEF ForkInv, OwnTable, Which
    <3> QED BY <1>1, <3>1, <3>2, <3>3 DEF ChildTable
  <2>2. CASE r # i
    <3>1. child'[r] = child[r] /\ ChildTable(r)
      BY <1>6, <2>2 DEF ForkInv
    <3>2. Forked(r) => Forked(r)'
      BY <1>9 DEF Forked, i
    <3> QED BY <1>1, <1>2, <1>9, <3>1, <3>2 DEF ChildTable, OfTubes
  <2> QED BY <2>1, <2>2
<1> QED BY <1>2, <1>7, <1>8, <1>10, <1>11, <1>12 DEF ForkInv, Bare

LEMMA ForkStep == ASSUME ForkInv, Fork PROVE ForkInv'
<1>1. CASE child' = child
  <2>1. /\ launcher.pc = "fork" /\ launcher.i < num_procs
        /\ tubes_stdout \in [Rank -> Fd \X Fd] /\ tubes_stderr \in [Rank -> Fd \X Fd]
        /\ UNCHANGED <<file, pos, machines, tubes_stdout, tubes_stderr>>
    BY DEF Fork, ForkInv, ForkTyped
  <2>2. CASE launcher' = [launcher EXCEPT !.pc = "failed"] /\ table' = Without(table, Fd)
    BY <1>1, <2>1, <2>2, LauncherFails
  <2> QED BY <2>2, ForkedStep DEF Fork, Forks
<1> QED BY <1>1, ForkedStep DEF Fork, Forks

\* The two numbers that become free were writing ends; that of the output is
\* the one that may be below numbers in use.
LEMMA CloseWritersStep == ASSUME ForkInv, CloseWriters PROVE ForkInv'
<1> DEFINE i == launcher.i
           o == tubes_stdout[i][2]
           e == tubes_stderr[i][2]
<1>1. /\ launcher.pc = "close" /\ i < num_procs /\ launcher' = [pc |-> "out", i |-> i + 1]
      /\ table' = Without(table, {o, e})
      /\ UNCHANGED <<file, pos, machines, tubes_stdout, tubes_stderr, child>>
  BY DEF CloseWriters, ForkInv, ForkTyped
<1>2. num_procs' = num_procs /\ Rank' = Rank /\ Entries' = Entries /\ ChildState' = ChildState
  BY <1>1, SameFile
<1>3. /\ launcher.i \in Nat /\ num_procs \in Nat
      /\ table \in [Fd -> Entries] /\ \A r \in Rank : r \in Nat
      /\ tubes_stdout \in [Rank -> Fd \X Fd] /\ tubes_stderr \in [Rank -> Fd \X Fd]
  BY Procs DEF ForkInv, ForkTyped, Rank
<1>4. i \in Rank /\ i \in Nat /\ launcher'.i = i + 1 /\ launcher'.pc = "out"
  BY <1>1, <1>3 DEF Rank
<1>5. /\ table' \in [Fd -> Entries]
      /\ \A d \in Fd : table'[d] = IF d \in {o, e} THEN Free ELSE table[d]
  BY <1>1, <1>3, WithoutIs
<1>6. /\ Made("out", i) /\ Made("err", i)
      /\ table[o] = Tube("out", i, "write") /\ table[e] = Tube("err", i, "write")
  <2>1. Made("out", i) /\ Made("err", i)
    BY <1>1 DEF Made
  <2>2. Numbers("out", i) = tubes_stdout[i] /\ Numbers("err", i) = tubes_stderr[i]
    BY DEF Numbers
  <2> QED BY <1>1, <1>4, <2>1, <2>2 DEF ForkInv, OwnTable, Which
<1> HIDE DEF i, o, e
<1>7. o \in Fd /\ e \in Fd /\ o \in Nat /\ e \in Nat
  BY <1>3, <1>4, Fds DEF o, e
<1>8. /\ \A w \in Which, r \in Rank : /\ Made(w, r) <=> r <= i
                                      /\ Made(w, r)' <=> r <= i
      /\ \A w, r : Numbers(w, r)' = Numbers(w, r)
      /\ \A r \in Rank : /\ Forked(r) <=> r <= i
                         /\ Forked(r)' <=> r <= i
  <2>1. \A r \in Rank : /\ r < launcher.i \/ r = launcher.i <=> r <= i
                        /\ r < launcher'.i <=> r <= i
    <3>1. launcher.i = i
      BY DEF i
    <3>2. ASSUME NEW r \in Rank
          PROVE  (r < i \/ r = i <=> r <= i) /\ (r < i + 1 <=> r <= i)
      BY <1>3, <1>4
    <3> QED BY <1>4, <3>1, <3>2
  <2>2. \A w, r : Numbers(w, r)' = Numbers(w, r)
    BY <1>1 DEF Numbers
  <2> QED BY <1>1, <1>4, <2>1, <2>2 DEF Made, Forked, Which
<1>9. ForkTyped'
  <2>1. launcher' \in [pc : LauncherPc, i : Nat] /\ launcher'.i <= num_procs
    BY <1>1, <1>3, <1>4 DEF LauncherPc
  <2> QED BY <1>1, <1>2, <1>4, <1>5, <2>1 DEF ForkInv, ForkTyped
<1>10. Ordered'
  BY <1>1, <1>2, <1>8 DEF ForkInv, Ordered, Which
<1>11. /\ table'[0] \in {Terminal, Socket} /\ (StdOpen => table'[1] \in {Terminal, Socket})
  <2>1. table[0] \in {Terminal, Socket} /\ (StdOpen => table[1] \in {Terminal, Socket})
    BY <1>1 DEF ForkInv, OwnTable
  <2>2. o # 0 /\ e # 0 /\ (StdOpen => o # 1 /\ e # 1)
    BY <1>6, <2>1, Apart DEF Which
  <2> QED BY <1>5, <2>1, <2>2, Fds
<1>12. ASSUME NEW d \in Fd, NEW w \in Which, NEW r \in Rank
       PROVE  /\ table'[d] = Tube(w, r, "read") => Made(w, r)' /\ d = Numbers(w, r)'[1]
              /\ table'[d] # Tube(w, r, "write")
  <2>1. CASE d \in {o, e}
    BY <1>5, <2>1, Apart
  <2>2. CASE d \notin {o, e}
    <3>1. /\ table[d] = Tube(w, r, "read") => Made(w, r) /\ d = Numbers(w, r)[1]
          /\ table[d] = Tube(w, r, "write") => r = i /\ d = Numbers(w, r)[2]
      BY <1>1 DEF ForkInv, OwnTable, i
    <3>2. r = i => Numbers(w, r)[2] \in {o, e}
      BY DEF Numbers, o, e
    <3> QED BY <1>5, <1>8, <2>2, <3>1, <3>2
  <2> QED BY <2>1, <2>2
<1>13. ASSUME NEW w \in Which, NEW r \in Rank, Made(w, r)'
       PROVE  table'[Numbers(w, r)'[1]] = Tube(w, r, "read") /\ r # launcher'.i
  <2>1. Made(w, r) /\ Numbers(w, r)' = Numbers(w, r) /\ r # launcher'.i
    BY <1>3, <1>4, <1>8, <1>13
  <2>2. table[Numbers(w, r)[1]] = Tube(w, r, "read") /\ Numbers(w, r)[1] \in Fd
    BY <1>1, <1>3, <2>1 DEF ForkInv, OwnTable, Numbers
  <2>3. Numbers(w, r)[1] \notin {o, e}
    BY <1>6, <2>2, Apart
  <2> QED BY <1>5, <2>1, <2>2, <2>3
<1>14. ASSUME NEW d \in FreeFds(table'), NEW r \in Rank, Made("out", r)'
       PROVE  \/ tubes_stdout'[r][1] < d /\ tubes_stdout'[r][2] < d
              \/ r = launcher'.i - 1 /\ d = tubes_stdout'[r][2]
  <2>1. d \in Fd /\ Made("out", r) /\ r <= i
    BY <1>8, <1>14 DEF FreeFds, Which
  <2>2. /\ tubes_stdout[r][1] \in Nat /\ tubes_stdout[r][2] \in Nat
        /\ tubes_stdout[r][1] < tubes_stdout[r][2]
    BY <1>3, <2>1, Fds DEF ForkInv, Ordered
  <2>3. CASE d = o
    <3>1. r # i => tubes_stdout[r][2] < o
      BY <1>3, <1>4, <1>6, <2>1 DEF ForkInv, Ordered, o
    <3>2. r = i => r = launcher'.i - 1 /\ d = tubes_stdout'[r][2]
      BY <1>1, <1>4, <2>3 DEF o
    <3> QED BY <1>1, <1>7, <2>2, <2>3, <3>1, <3>2
  <2>4. CASE d = e
    <3>1. /\ tubes_stderr[i][1] \in Nat /\ tubes_stderr[i][1] < e
          /\ tubes_stdout[r][1] < tubes_stderr[i][1] /\ tubes_stdout[r][2] < tubes_stderr[i][1]
      BY <1>3, <1>4, <1>6, <2>1, Fds DEF ForkInv, Ordered, e
    <3> QED BY <1>1, <1>7, <2>2, <2>4, <3>1
  <2>5. CASE d \notin {o, e}
    <3>1. d \in FreeFds(table)
      BY <1>5, <1>14, <2>1, <2>5 DEF FreeFds
    <3> QED BY <1>1, <2>1, <3>1 DEF ForkInv, OwnTable
  <2> QED BY <2>3, <2>4, <2>5
<1>15. OwnTable'
  BY <1>2, <1>4, <1>11, <1>12, <1>13, <1>14 DEF OwnTable
<1>16. \A r \in Rank : ChildTable(r)'
  BY <1>1, <1>8, ChildrenKeep
<1> QED BY <1>2, <1>4, <1>9, <1>10, <1>15, <1>16 DEF ForkInv, Bare

----------------------------------------------------------------------------
(* What the invariant gives                                                *)

LEMMA ForkHolds == Spec => []ForkInv
<1>1. Init => ForkInv
  <2> SUFFICES ASSUME Init PROVE ForkInv
    OBVIOUS
  <2>1. /\ file \in Files /\ file \in Seq(STRING) /\ Len(file) \in Nat /\ num_procs \in Nat
        /\ \A r \in Rank : r \in Nat
    BY ForkAssumption, Procs, LenProperties DEF Init, Rank
  <2>2. launcher = [pc |-> "read", i |-> 0] /\ pos = 0 /\ machines = <<>>
    BY DEF Init
  <2>3. table \in [Fd -> Entries]
    BY AreEntries DEF Init
  <2>4. child \in [Rank -> ChildState] /\ \A r \in Rank : child[r].pc = "none"
    <3>1. [pc |-> "none", table |-> [d \in Fd |-> Free], machine |-> <<>>] \in ChildState
      BY AreEntries DEF ChildState
    <3> QED BY <3>1 DEF Init
  <2>5. ForkTyped
    <3>1. machines \in Seq(Seq(STRING)) /\ Len(machines) = 0
      BY <2>2
    <3>2. tubes_stdout \in [Rank -> Fd \X Fd] /\ tubes_stderr \in [Rank -> Fd \X Fd]
      BY Fds DEF Init
    <3> QED BY <2>1, <2>2, <2>3, <2>4, <3>1, <3>2 DEF ForkTyped, LauncherPc
  <2>6. Bare
    BY DEF Init, Bare
  <2>7. Ordered /\ OwnTable
    BY <2>1, <2>2 DEF Ordered, OwnTable, Made
  <2>8. \A r \in Rank : ChildTable(r)
    BY <2>4 DEF Init, ChildTable
  <2> QED BY <2>5, <2>6, <2>7, <2>8 DEF ForkInv
<1>2. ForkInv /\ [Next]_vars => ForkInv'
  <2> SUFFICES ASSUME ForkInv, [Next]_vars PROVE ForkInv'
    OBVIOUS
  <2>1. CASE Launcher
    BY <2>1, ReadLineStep, ListenStep, PipeOutStep, PipeErrStep, ForkStep, CloseWritersStep
       DEF Launcher
  <2>2. CASE \E r \in Rank : Child(r)
    BY <2>2, RedirectOutStep, RedirectErrStep, ExecStep, EndStep DEF Child
  <2>3. CASE UNCHANGED vars
    <3>1. num_procs' = num_procs /\ Rank' = Rank /\ Entries' = Entries /\ ChildState' = ChildState
      BY <2>3, SameFile DEF vars
    <3>2. ForkTyped' /\ Bare' /\ Ordered' /\ OwnTable'
      BY <2>3, <3>1 DEF vars, ForkInv, ForkTyped, Bare, Ordered, OwnTable, Made, Numbers, FreeFds
    <3>3. \A r \in Rank : ChildTable(r)'
      BY <2>3, ChildrenKeep DEF vars, Forked, Numbers
    <3> QED BY <3>1, <3>2, <3>3 DEF ForkInv
  <2> QED BY <2>1, <2>2, <2>3 DEF Next
<1> QED BY <1>1, <1>2, PTL DEF Spec

\* Every variable keeps its type, for every machine file: no line is read past
\* the end, and no number is used that pipe has not returned.
THEOREM ForkTypes == Spec => []TypeOK
<1>1. ForkInv => TypeOK
  BY Procs DEF ForkInv, ForkTyped, TypeOK, LauncherPc, ChildState
<1> QED BY <1>1, ForkHolds, PTL

\* With standard input or output open from the start, every child becomes ssh
\* with its own two tubes at 1 and 2, whatever closed numbers pipe has used
\* again.
THEOREM OutputsHold == ASSUME StdOpen PROVE Spec => []OutputsRedirected
<1>1. ForkInv => OutputsRedirected
  BY DEF ForkInv, ChildTable, OutputsRedirected
<1> QED BY <1>1, ForkHolds, PTL

\* The writing end of a tube is only ever open in its own child and, until the
\* end of the turn, in dsmexec; and ssh inherits no reading end.
THEOREM TubesHoldApart == Spec => []TubesApart
<1>1. ForkInv => TubesApart
  <2> SUFFICES ASSUME ForkInv, NEW r \in Rank, NEW w \in Which
               PROVE  /\ \A s \in Rank \ {r} : ~Holds(child[s].table, Tube(w, r, "write"))
                      /\ r < launcher.i => ~Holds(table, Tube(w, r, "write"))
                      /\ \A s \in Rank : child[s].pc = "ssh" =>
                           ~Holds(child[s].table, Tube(w, r, "read"))
    BY DEF TubesApart, Which
  <2>1. ASSUME NEW s \in Rank, NEW d \in Fd, NEW e
        PROVE  /\ child[s].table[d] = Tube(w, r, "write") => r = s
               /\ child[s].pc = "ssh" => child[s].table[d] # Tube(w, r, "read")
    <3>1. child[s].pc \in {"none", "out", "err", "exec", "ssh", "ended"}
      BY DEF ForkInv, ForkTyped, ChildState
    <3> QED BY <3>1, Apart DEF ForkInv, ChildTable, OfTubes
  <2>2. ASSUME NEW d \in Fd, r < launcher.i PROVE table[d] # Tube(w, r, "write")
    <3>1. r \in Nat /\ launcher.i \in Nat /\ table \in [Fd -> Entries]
      BY Procs DEF ForkInv, ForkTyped, Rank
    <3>2. CASE launcher.pc \notin {"read", "failed"}
      BY <2>2, <3>1, <3>2 DEF ForkInv, OwnTable
    <3>3. CASE launcher.pc = "read"
      BY <2>2, <3>1, <3>3 DEF ForkInv, Bare
    <3>4. CASE launcher.pc = "failed"
      BY <3>4, Apart DEF ForkInv, Bare
    <3> QED BY <3>2, <3>3, <3>4
  <2> QED BY <2>1, <2>2 DEF Holds
<1> QED BY <1>1, ForkHolds, PTL

\* As long as it runs, dsmexec has the reading end of every tube it has made,
\* at the number it will poll.
THEOREM TubesHoldReadable == Spec => []TubesReadable
<1>1. ForkInv => TubesReadable
  <2> SUFFICES ASSUME ForkInv, launcher.pc # "failed", NEW r \in Rank, r < launcher.i
               PROVE  /\ table[tubes_stdout[r][1]] = Tube("out", r, "read")
                      /\ table[tubes_stderr[r][1]] = Tube("err", r, "read")
    BY DEF TubesReadable
  <2>1. launcher.pc # "read"
    BY Procs DEF ForkInv, ForkTyped, Bare, Rank
  <2>2. Made("out", r) /\ Made("err", r)
    BY DEF Made
  <2>3. Numbers("out", r) = tubes_stdout[r] /\ Numbers("err", r) = tubes_stderr[r]
    BY DEF Numbers
  <2> QED BY <2>1, <2>2, <2>3 DEF ForkInv, OwnTable, Which
<1> QED BY <1>1, ForkHolds, PTL

----------------------------------------------------------------------------
(* The names of the machines                                               *)

\* No line is too long for fgets.
Short == \A r \in Rank : Len(Line(r)) <= LineMax - 2

\* The ends of lines among the first n characters.
LinesTo(n) == {j \in 1 .. n : file[j] = NewLine}

\* dsmexec has read whole lines, each is a name, and a child keeps its own.
NamesInv ==
  /\ Short => /\ Cardinality(LinesTo(pos)) = Len(machines)
              /\ pos = IF Len(machines) = 0 THEN 0 ELSE LineEnd(Len(machines))
              /\ \A r \in Rank : r < Len(machines) => machines[r + 1] = Line(r)
  /\ \A r \in Rank : child[r].pc = "ssh" =>
       launcher.pc # "read" /\ child[r].machine = machines[r + 1]

LEMMA LinesFinite ==
  ASSUME NEW n \in Nat
  PROVE  IsFiniteSet(LinesTo(n)) /\ Cardinality(LinesTo(n)) \in Nat
<1>1. IsFiniteSet(1 .. n)
  BY FS_Interval
<1>2. LinesTo(n) \subseteq 1 .. n
  BY DEF LinesTo
<1> QED BY <1>1, <1>2, FS_Subset, FS_CardinalityType

\* Ends of lines are told apart by how many there are up to them.
LEMMA LineEndIs ==
  ASSUME file \in Files, NEW i \in DOMAIN file, file[i] = NewLine
  PROVE  LineEnd(Cardinality(LinesTo(i))) = i
<1>1. DOMAIN file = 1 .. Len(file) /\ Len(file) \in Nat
  BY ForkAssumption, LenProperties
<1>2. ASSUME NEW a \in DOMAIN file, NEW b \in DOMAIN file, a < b, file[b] = NewLine
      PROVE  Cardinality(LinesTo(a)) # Cardinality(LinesTo(b))
  <2>1. a \in Nat /\ b \in Nat /\ 1 <= b
    BY <1>1
  <2>2. LinesTo(a) \subseteq LinesTo(b) /\ b \in LinesTo(b) /\ b \notin LinesTo(a)
    BY <1>2, <2>1 DEF LinesTo
  <2> QED BY <2>1, <2>2, LinesFinite, FS_Subset
<1>3. \A a, b \in DOMAIN file : a < b \/ b < a \/ a = b
  BY <1>1
<1>4. \A a \in DOMAIN file :
        file[a] = NewLine /\ Cardinality(LinesTo(a)) = Cardinality(LinesTo(i)) => a = i
  BY <1>2, <1>3
<1> QED BY <1>4 DEF LineEnd, LinesTo

\* A turn of read_machine_file reads the next line, if it is short.
LEMMA NextLine ==
  ASSUME ForkInv, NamesInv, Short, Len(machines) < num_procs
  PROVE  /\ pos + Len(Chunk) = LineEnd(Len(machines) + 1)
         /\ Cardinality(LinesTo(pos + Len(Chunk))) = Len(machines) + 1
         /\ Front(Chunk) = Line(Len(machines))
<1> DEFINE m == Len(machines)
           n == Len(file)
           rest == {i \in pos + 1 .. n : file[i] = NewLine}
           e == Min(rest)
           ends == {i \in pos + 1 .. n : i = pos + LineMax - 1 \/ file[i] = NewLine}
<1>1. /\ file \in Files /\ file \in Seq(STRING) /\ n \in Nat /\ DOMAIN file = 1 .. n
      /\ pos \in Nat /\ pos <= n /\ m \in Nat /\ num_procs \in Nat /\ LineMax \in Nat
      /\ Cardinality(LinesTo(pos)) = m
  BY ForkAssumption, Procs, LenProperties DEF ForkInv, ForkTyped, NamesInv
<1>2. num_procs = Cardinality(LinesTo(n))
  BY <1>1 DEF num_procs, LinesTo
<1>3. rest # {}
  <2> SUFFICES ASSUME rest = {} PROVE FALSE
    OBVIOUS
  <2>1. LinesTo(n) = LinesTo(pos)
    BY <1>1 DEF LinesTo
  <2> QED BY <1>1, <1>2, <2>1
<1>4. e \in rest /\ \A i \in rest : e <= i
  <2>1. rest \in SUBSET Nat
    BY <1>1
  <2> HIDE DEF rest
  <2> QED BY <1>3, <2>1, MinIs
<1> HIDE DEF e
<1>5. e \in Nat /\ pos < e /\ e <= n /\ e \in DOMAIN file /\ file[e] = NewLine
  BY <1>1, <1>4
<1>6. Cardinality(LinesTo(e)) = m + 1
  <2>1. LinesTo(e) = LinesTo(pos) \cup {e}
    <3>1. \A j \in pos + 1 .. n : file[j] = NewLine => e <= j
      BY <1>4
    <3> QED BY <1>1, <1>5, <3>1 DEF LinesTo
  <2>2. e \notin LinesTo(pos)
    BY <1>1, <1>5 DEF LinesTo
  <2> QED BY <1>1, <2>1, <2>2, LinesFinite, FS_AddElement
<1>7. LineEnd(m + 1) = e
  BY <1>1, <1>5, <1>6, LineEndIs
<1>8. Line(m) = SubSeq(file, pos + 1, e - 1)
  <2>1. pos = IF m = 0 THEN 0 ELSE LineEnd(m)
    BY DEF NamesInv
  <2>2. pos + 1 = IF m = 0 THEN 1 ELSE LineEnd(m) + 1
    BY <1>1, <2>1
  <2> QED BY <1>7, <2>2 DEF Line
<1>9. e - pos - 1 <= LineMax - 2
  <2>1. m \in Rank
    BY <1>1 DEF Rank
  <2>2. Len(Line(m)) <= LineMax - 2
    BY <2>1 DEF Short
  <2>3. Len(SubSeq(file, pos + 1, e - 1)) = IF pos + 1 <= e - 1 THEN (e - 1) - (pos + 1) + 1 ELSE 0
    BY <1>1, <1>5, SubSeqProperties
  <2> QED BY <1>1, <1>5, <1>8, <2>2, <2>3, ForkAssumption
<1>10. ends # {} /\ Min(ends) = e
  <2>1. e \in ends /\ ends \in SUBSET Nat
    BY <1>1, <1>5
  <2>2. \A y \in ends : e <= y
    BY <1>1, <1>4, <1>5, <1>9
  <2> HIDE DEF ends
  <2>3. Min(ends) \in ends /\ Min(ends) <= e
    BY <2>1, MinIs
  <2>4. Min(ends) \in Nat
    BY <2>1, <2>3
  <2> QED BY <1>5, <2>1, <2>2, <2>3, <2>4
<1>11. Chunk = SubSeq(file, pos + 1, e)
  BY <1>10 DEF Chunk
<1>12. /\ Chunk \in Seq(STRING) /\ Len(Chunk) = e - pos
       /\ \A i \in 1 .. e - pos : Chunk[i] = file[pos + i]
  BY <1>1, <1>5, <1>11, SubSeqProperties
<1>13. pos + Len(Chunk) = e
  BY <1>1, <1>5, <1>12
<1>14. Front(Chunk) = SubSeq(file, pos + 1, e - 1)
  <2> DEFINE f == SubSeq(Chunk, 1, e - pos - 1)
             g == SubSeq(file, pos + 1, e - 1)
  <2>1. /\ f \in Seq(STRING) /\ Len(f) = e - pos - 1
        /\ \A i \in 1 .. e - pos - 1 : f[i] = Chunk[i]
    BY <1>1, <1>5, <1>12, SubSeqProperties
  <2>2. /\ g \in Seq(STRING) /\ Len(g) = e - pos - 1
        /\ \A i \in 1 .. e - pos - 1 : g[i] = file[pos + i]
    BY <1>1, <1>5, SubSeqProperties
  <2>3. Front(Chunk) = f
    BY <1>12 DEF Front
  <2>4. \A i \in 1 .. Len(f) : f[i] = g[i]
    BY <1>1, <1>5, <1>12, <2>1, <2>2
  <2> HIDE DEF f, g
  <2>5. f = g
    BY <2>1, <2>2, <2>4, SeqEqual
  <2> QED BY <2>3, <2>5 DEF g
<1> QED BY <1>6, <1>7, <1>8, <1>13, <1>14

LEMMA NamesHold == Spec => []NamesInv
<1>1. Init => NamesInv
  <2> SUFFICES ASSUME Init PROVE NamesInv
    OBVIOUS
  <2>1. pos = 0 /\ machines = <<>> /\ Len(machines) = 0
    BY DEF Init
  <2>2. Cardinality(LinesTo(pos)) = 0
    BY <2>1, FS_EmptySet DEF LinesTo
  <2>3. \A r \in Rank : ~(r < Len(machines)) /\ child[r].pc # "ssh"
    BY <2>1, Procs DEF Init, Rank
  <2> QED BY <2>1, <2>2, <2>3 DEF NamesInv
<1>2. ForkInv /\ NamesInv /\ [Next]_vars => NamesInv'
  <2> SUFFICES ASSUME ForkInv, NamesInv, [Next]_vars PROVE NamesInv'
    OBVIOUS
  <2>1. file' = file
    BY DEF Next, Launcher, Child, ReadLine, Listen, PipeOut, PipeErr, Fork, CloseWriters,
           RedirectOut, RedirectErr, Exec, End, vars
  <2>2. /\ num_procs' = num_procs /\ Rank' = Rank
        /\ \A r : Line(r)' = Line(r) /\ LineEnd(r)' = LineEnd(r) /\ LinesTo(r)' = LinesTo(r)
        /\ Short' <=> Short
    <3>1. \A r : Line(r)' = Line(r) /\ LineEnd(r)' = LineEnd(r) /\ LinesTo(r)' = LinesTo(r)
      BY <2>1 DEF Line, LineEnd, LinesTo
    <3> QED BY <2>1, <3>1, SameFile DEF Short
  <2>3. /\ child \in [Rank -> ChildState] /\ launcher \in [pc : LauncherPc, i : Nat]
        /\ machines \in Seq(Seq(STRING)) /\ \A r \in Rank : r \in Nat
    BY Procs DEF ForkInv, ForkTyped, Rank
  <2>4. ASSUME UNCHANGED <<pos, machines, launcher>>, NEW r \in Rank,
               \A s \in Rank \ {r} : child'[s] = child[s],
               child'[r].pc = "ssh" =>
                 launcher.pc # "read" /\ child'[r].machine = machines[r + 1]
        PROVE  NamesInv'
    <3>1. LinesTo(pos)' = LinesTo(pos) /\ LineEnd(Len(machines))' = LineEnd(Len(machines))
      BY <2>1, <2>4 DEF LinesTo, LineEnd
    <3>2. \A s \in Rank : child'[s].pc = "ssh" =>
            launcher.pc # "read" /\ child'[s].machine = machines[s + 1]
      BY <2>4 DEF NamesInv
    <3> QED BY <2>2, <2>4, <3>1, <3>2 DEF NamesInv
  <2>5. ASSUME UNCHANGED <<pos, machines>>, launcher'.pc # "read",
               \A s \in Rank : child'[s].pc = "ssh" => child'[s] = child[s]
        PROVE  NamesInv'
    <3>1. LinesTo(pos)' = LinesTo(pos) /\ LineEnd(Len(machines))' = LineEnd(Len(machines))
      BY <2>1, <2>5 DEF LinesTo, LineEnd
    <3> QED BY <2>2, <2>5, <3>1 DEF NamesInv
  <2>6. CASE ReadLine
    <3>1. /\ launcher.pc = "read" /\ Len(machines) < num_procs
          /\ machines' = Append(machines, Front(Chunk)) /\ pos' = pos + Len(Chunk)
          /\ launcher' = launcher /\ child' = child
      BY <2>6 DEF ReadLine
    <3>2. \A r \in Rank : child[r].pc # "ssh"
      BY <3>1 DEF NamesInv
    <3>3. Short => /\ Cardinality(LinesTo(pos)') = Len(machines')
                   /\ pos' = IF Len(machines') = 0 THEN 0 ELSE LineEnd(Len(machines'))
                   /\ \A r \in Rank : r < Len(machines') => machines'[r + 1] = Line(r)
      <4> SUFFICES ASSUME Short
                   PROVE  /\ Cardinality(LinesTo(pos)') = Len(machines')
                          /\ pos' = IF Len(machines') = 0 THEN 0 ELSE LineEnd(Len(machines'))
                          /\ \A r \in Rank : r < Len(machines') => machines'[r + 1] = Line(r)
        OBVIOUS
      <4>1. /\ pos + Len(Chunk) = LineEnd(Len(machines) + 1)
            /\ Cardinality(LinesTo(pos + Len(Chunk))) = Len(machines) + 1
            /\ Front(Chunk) = Line(Len(machines))
        BY <3>1, NextLine
      <4>2. Chunk \in Seq(STRING) /\ Len(Chunk) \in Nat
        BY ChunkIs, LenProperties DEF ForkInv, ForkTyped
      <4>3. Front(Chunk) \in Seq(STRING) /\ Len(machines) \in Nat
        BY <2>3, <4>2, SubSeqProperties, LenProperties DEF Front
      <4>4. /\ Len(machines') = Len(machines) + 1
            /\ \A i \in 1 .. Len(machines) : machines'[i] = machines[i]
            /\ machines'[Len(machines) + 1] = Front(Chunk)
        BY <2>3, <3>1, <4>3, AppendProperties
      <4>5. LinesTo(pos)' = LinesTo(pos + Len(Chunk))
        BY <2>1, <3>1 DEF LinesTo
      <4>6. ASSUME NEW r \in Rank, r < Len(machines') PROVE machines'[r + 1] = Line(r)
        <5>1. r \in Nat
          BY <2>3
        <5>2. CASE r = Len(machines)
          BY <4>1, <4>4, <5>2
        <5>3. CASE r # Len(machines)
          <6>1. r < Len(machines) /\ r + 1 \in 1 .. Len(machines)
            BY <4>3, <4>4, <4>6, <5>1, <5>3
          <6> QED BY <4>4, <6>1 DEF NamesInv
        <5> QED BY <5>2, <5>3
      <4>7. Cardinality(LinesTo(pos)') = Len(machines')
        BY <4>1, <4>4, <4>5
      <4>8. Len(machines') # 0 /\ pos' = LineEnd(Len(machines'))
        BY <3>1, <4>1, <4>3, <4>4
      <4> QED BY <4>6, <4>7, <4>8
    <3>4. LineEnd(Len(machines))' = LineEnd(Len(machines'))
      BY <2>1 DEF LineEnd
    <3> QED BY <2>2, <3>1, <3>2, <3>3, <3>4 DEF NamesInv
  <2>7. CASE Listen \/ CloseWriters
    <3>1. UNCHANGED <<pos, machines, child>> /\ launcher'.pc = "out"
      BY <2>3, <2>7 DEF Listen, CloseWriters
    <3> QED BY <2>5, <3>1
  <2>8. CASE PipeOut \/ PipeErr
    <3>1. UNCHANGED <<pos, machines, child>> /\ launcher'.pc # "read"
      BY <2>3, <2>8 DEF PipeOut, PipeErr, Pipe
    <3> QED BY <2>5, <3>1
  <2>9. CASE Fork
    <3>1. /\ UNCHANGED <<pos, machines>> /\ launcher'.pc # "read"
          /\ \/ child' = [child EXCEPT ![launcher.i].pc = "out", ![launcher.i].table = table]
             \/ child' = child
      BY <2>3, <2>9 DEF Fork
    <3>2. \A s \in Rank : child'[s].pc = "ssh" => child'[s] = child[s]
      BY <2>3, <3>1 DEF ChildState
    <3> QED BY <2>5, <3>1, <3>2
  <2>10. ASSUME NEW r \in Rank, RedirectOut(r) \/ RedirectErr(r) \/ End(r) PROVE NamesInv'
    <3>1. /\ UNCHANGED <<pos, machines, launcher>> /\ \A s \in Rank \ {r} : child'[s] = child[s]
          /\ child'[r].pc # "ssh"
      BY <2>3, <2>10 DEF RedirectOut, RedirectErr, End, ChildState
    <3> QED BY <2>4, <3>1
  <2>11. ASSUME NEW r \in Rank, Exec(r) PROVE NamesInv'
    <3>1. /\ child[r].pc = "exec"
          /\ UNCHANGED <<pos, machines, launcher>> /\ \A s \in Rank \ {r} : child'[s] = child[s]
          /\ child'[r].machine = machines[r + 1]
      BY <2>3, <2>11 DEF Exec
    <3>2. launcher.pc # "read"
      <4>1. Forked(r)
        BY <3>1 DEF ForkInv, ChildTable
      <4> QED BY <2>3, <4>1 DEF ForkInv, Bare, Forked
    <3> QED BY <2>4, <3>1, <3>2
  <2>12. CASE UNCHANGED vars
    <3>1. UNCHANGED <<pos, machines, launcher, child>>
      BY <2>12 DEF vars
    <3>2. LinesTo(pos)' = LinesTo(pos) /\ LineEnd(Len(machines))' = LineEnd(Len(machines))
      BY <2>1, <3>1 DEF LinesTo, LineEnd
    <3> QED BY <2>2, <3>1, <3>2 DEF NamesInv
  <2> QED BY <2>6, <2>7, <2>8, <2>9, <2>10, <2>11, <2>12 DEF Next, Launcher, Child
<1> QED BY <1>1, <1>2, ForkHolds, PTL DEF Spec

\* A child runs on the machine its line names, for every file whose lines fit
\* the buffer of fgets.
THEOREM MachinesHold == Spec => []OwnMachine
<1>1. ForkInv /\ NamesInv => OwnMachine
  <2> SUFFICES ASSUME ForkInv, NamesInv, Short, NEW r \in Rank, child[r].pc = "ssh"
               PROVE  child[r].machine = Line(r)
    BY DEF OwnMachine, Short
  <2>1. child[r].machine = machines[r + 1] /\ Len(machines) = num_procs
    BY DEF ForkInv, ForkTyped, NamesInv
  <2>2. r < Len(machines)
    BY <2>1, Procs DEF ForkInv, ForkTyped, Rank
  <2> QED BY <2>1, <2>2 DEF NamesInv
<1> QED BY <1>1, ForkHolds, NamesHold, PTL

=============================================================================
