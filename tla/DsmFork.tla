------------------------------ MODULE DsmFork ------------------------------
(***************************************************************************)
(* How dsmexec goes from the machine file to its children: it counts and   *)
(* reads the lines, then makes two tubes for each of them and forks; the   *)
(* child puts its ends of the tubes at descriptors 1 and 2, closes those   *)
(* of the others and becomes ssh.  DsmLaunch has what the children do to   *)
(* the shared memory meanwhile, DsmExecIO what comes through the tubes.    *)
(***************************************************************************)
EXTENDS Integers, Sequences, SequencesExt, FiniteSetsExt

CONSTANTS
  Files,        \* the machine files, as sequences of characters
  LineMax,      \* HOSTNAME_MAX_LENGTH
  FdLimit,      \* descriptors a process may have
  Closed        \* which of descriptors 0 to 2 may be closed from the start

NewLine == "\n"

ASSUME ForkAssumption ==
  /\ \A f \in Files : f \in Seq(STRING)
  /\ LineMax \in Nat \ {0, 1, 2} /\ FdLimit \in Nat \ (0 .. 3)
  /\ Closed \subseteq SUBSET (0 .. 2)

VARIABLES
  file, pos,        \* the machine file, and how much of it is read
  machines,         \* the names read so far
  launcher,         \* the loop of dsmexec
  table,            \* the descriptor table of dsmexec
  tubes_stdout, tubes_stderr,   \* the descriptors pipe has returned
  child             \* child[r]: where it is, its descriptors, its machine

vars == <<file, pos, machines, launcher, table, tubes_stdout, tubes_stderr, child>>

----------------------------------------------------------------------------
(* Descriptor tables                                                       *)

Fd == 0 .. FdLimit - 1
Free == [file |-> "none"]
Terminal == [file |-> "terminal"]
Socket == [file |-> "sock_init"]
Tube(which, r, end) == [file |-> which, rang |-> r, end |-> end]

FreeFds(t) == {d \in Fd : t[d] = Free}
Opened(t, what) == [t EXCEPT ![Min(FreeFds(t))] = what]
Without(t, ds) == [d \in Fd |-> IF d \in ds THEN Free ELSE t[d]]

\* dup, of a descriptor that is open.
Dup(t, d) == Opened(t, t[d])

\* pipe: the tube takes the two lowest descriptors.
ReadEnd(t) == Min(FreeFds(t))
WriteEnd(t) == Min(FreeFds(t) \ {ReadEnd(t)})
Piped(t, which, r) == [t EXCEPT ![ReadEnd(t)] = Tube(which, r, "read"),
                                ![WriteEnd(t)] = Tube(which, r, "write")]

----------------------------------------------------------------------------

\* count_lines
num_procs == Cardinality({i \in DOMAIN file : file[i] = NewLine})
Rank == 0 .. num_procs - 1

Init ==
  /\ file \in Files
  /\ pos = 0
  /\ machines = <<>>
  /\ launcher = [pc |-> "read", i |-> 0]
  /\ \E c \in Closed : table = [d \in Fd |-> IF d \in (0 .. 2) \ c THEN Terminal ELSE Free]
  /\ tubes_stdout = [r \in Rank |-> <<0, 0>>]
  /\ tubes_stderr = [r \in Rank |-> <<0, 0>>]
  /\ child = [r \in Rank |-> [pc |-> "none", table |-> [d \in Fd |-> Free], machine |-> <<>>]]

\* fgets: up to the end of the line, or to the end of the buffer.
Chunk ==
  LET ends == {i \in pos + 1 .. Len(file) : i = pos + LineMax - 1 \/ file[i] = NewLine}
  IN  SubSeq(file, pos + 1, IF ends = {} THEN Len(file) ELSE Min(ends))

\* Mutants: a line is read once too often; the end of the line stays in the name.
ReadOneMore ==
  /\ launcher.pc = "read" /\ Len(machines) <= num_procs
  /\ machines' = Append(machines, IF Chunk = <<>> THEN <<>> ELSE Front(Chunk))
  /\ pos' = pos + Len(Chunk)
  /\ UNCHANGED <<file, launcher, table, tubes_stdout, tubes_stderr, child>>

ReadWholeLine ==
  /\ launcher.pc = "read" /\ Len(machines) < num_procs
  /\ machines' = Append(machines, Chunk)
  /\ pos' = pos + Len(Chunk)
  /\ UNCHANGED <<file, launcher, table, tubes_stdout, tubes_stderr, child>>

\* One turn of read_machine_file: the last character read is dropped.
ReadLine ==
  /\ launcher.pc = "read" /\ Len(machines) < num_procs
  /\ machines' = Append(machines, Front(Chunk))
  /\ pos' = pos + Len(Chunk)
  /\ UNCHANGED <<file, launcher, table, tubes_stdout, tubes_stderr, child>>

\* creer_socket: the machine file is closed by then, and its descriptor free.
Listen ==
  /\ launcher.pc = "read" /\ Len(machines) = num_procs
  /\ table' = Opened(table, Socket)
  /\ launcher' = [launcher EXCEPT !.pc = "out"]
  /\ UNCHANGED <<file, pos, machines, tubes_stdout, tubes_stderr, child>>

\* pipe fails when there are no two descriptors left, and dsmexec ends.
Pipe(which, next) ==
  IF Cardinality(FreeFds(table)) < 2
    THEN /\ launcher' = [launcher EXCEPT !.pc = "failed"]
         /\ table' = Without(table, Fd)
    ELSE /\ launcher' = [launcher EXCEPT !.pc = next]
         /\ table' = Piped(table, which, launcher.i)
Ends == IF Cardinality(FreeFds(table)) < 2 THEN <<0, 0>> ELSE <<ReadEnd(table), WriteEnd(table)>>

PipeOut ==
  /\ launcher.pc = "out" /\ launcher.i < num_procs
  /\ Pipe("out", "err")
  /\ tubes_stdout' = [tubes_stdout EXCEPT ![launcher.i] = Ends]
  /\ UNCHANGED <<file, pos, machines, tubes_stderr, child>>

PipeErr ==
  /\ launcher.pc = "err"
  /\ Pipe("err", "fork")
  /\ tubes_stderr' = [tubes_stderr EXCEPT ![launcher.i] = Ends]
  /\ UNCHANGED <<file, pos, machines, tubes_stdout, child>>

\* The child has a copy of everything.  Without a new process dsmexec ends.
Fork ==
  /\ launcher.pc = "fork"
  /\ \/ /\ child' = [child EXCEPT ![launcher.i].pc = "out", ![launcher.i].table = table]
        /\ launcher' = [launcher EXCEPT !.pc = "close"]
        /\ UNCHANGED table
     \/ /\ launcher' = [launcher EXCEPT !.pc = "failed"]
        /\ table' = Without(table, Fd)
        /\ UNCHANGED child
  /\ UNCHANGED <<file, pos, machines, tubes_stdout, tubes_stderr>>

\* Mutants: dsmexec keeps the writing end of stderr; it closes the wrong end.
CloseOneWriter ==
  /\ launcher.pc = "close"
  /\ table' = Without(table, {tubes_stdout[launcher.i][2]})
  /\ launcher' = [pc |-> "out", i |-> launcher.i + 1]
  /\ UNCHANGED <<file, pos, machines, tubes_stdout, tubes_stderr, child>>

CloseReaders ==
  /\ launcher.pc = "close"
  /\ table' = Without(table, {tubes_stdout[launcher.i][1], tubes_stderr[launcher.i][1]})
  /\ launcher' = [pc |-> "out", i |-> launcher.i + 1]
  /\ UNCHANGED <<file, pos, machines, tubes_stdout, tubes_stderr, child>>

\* The end of the turn, in dsmexec.
CloseWriters ==
  /\ launcher.pc = "close"
  /\ table' = Without(table, {tubes_stdout[launcher.i][2], tubes_stderr[launcher.i][2]})
  /\ launcher' = [pc |-> "out", i |-> launcher.i + 1]
  /\ UNCHANGED <<file, pos, machines, tubes_stdout, tubes_stderr, child>>

\* close_tubes_autres_process: both numbers of each tube made before, whatever
\* they stand for by now.
Others(tubes, r) == UNION {{tubes[k][1], tubes[k][2]} : k \in 0 .. r - 1}

\* Mutant: the descriptor is closed after the copy is made.
DupFirst(t, fileno, tubes, r) ==
  Without(Dup(t, tubes[r][2]), {fileno, tubes[r][1]} \cup Others(tubes, r))

\* close, close, dup, then those of the others.
Redirected(t, fileno, tubes, r) ==
  Without(Dup(Without(t, {fileno, tubes[r][1]}), tubes[r][2]), Others(tubes, r))

RedirectOut(r) ==
  /\ child[r].pc = "out"
  /\ child' = [child EXCEPT ![r].pc = "err",
                            ![r].table = Redirected(@, 1, tubes_stdout, r)]
  /\ UNCHANGED <<file, pos, machines, launcher, table, tubes_stdout, tubes_stderr>>

RedirectErr(r) ==
  /\ child[r].pc = "err"
  /\ child' = [child EXCEPT ![r].pc = "exec",
                            ![r].table = Redirected(@, 2, tubes_stderr, r)]
  /\ UNCHANGED <<file, pos, machines, launcher, table, tubes_stdout, tubes_stderr>>

\* ssh starts, without sock_init.
Exec(r) ==
  /\ child[r].pc = "exec"
  /\ child' = [child EXCEPT ![r] =
       [pc |-> "ssh", machine |-> machines[r + 1],
        table |-> Without(@.table, {d \in Fd : @.table[d] = Socket})]]
  /\ UNCHANGED <<file, pos, machines, launcher, table, tubes_stdout, tubes_stderr>>

End(r) ==
  /\ child[r].pc = "ssh"
  /\ child' = [child EXCEPT ![r].pc = "ended", ![r].table = Without(@, Fd)]
  /\ UNCHANGED <<file, pos, machines, launcher, table, tubes_stdout, tubes_stderr>>

----------------------------------------------------------------------------

Launcher == ReadLine \/ Listen \/ PipeOut \/ PipeErr \/ Fork \/ CloseWriters
Child(r) == RedirectOut(r) \/ RedirectErr(r) \/ Exec(r) \/ End(r)

Next == Launcher \/ \E r \in Rank : Child(r)

Spec == Init /\ [][Next]_vars

----------------------------------------------------------------------------
(* Properties                                                              *)

\* Every variable keeps its type.
Entries == {Free, Terminal, Socket} \cup
           {Tube(w, r, e) : w \in {"out", "err"}, r \in Rank, e \in {"read", "write"}}
TypeOK ==
  /\ file \in Files /\ pos \in 0 .. Len(file)
  /\ Len(machines) <= num_procs
  /\ launcher.pc \in {"read", "out", "err", "fork", "close", "failed"}
  /\ launcher.i \in 0 .. num_procs
  /\ table \in [Fd -> Entries]
  /\ \A r \in Rank : tubes_stdout[r] \in Fd \X Fd /\ tubes_stderr[r] \in Fd \X Fd
  /\ \A r \in Rank : /\ child[r].pc \in {"none", "out", "err", "exec", "ssh", "ended"}
                     /\ child[r].table \in [Fd -> Entries]

Holds(t, what) == \E d \in Fd : t[d] = what

\* The numbers of closed ends are used again, and the children close by
\* number: all the same, ssh starts with its own two tubes at 1 and 2.
OutputsRedirected ==
  \A r \in Rank : child[r].pc = "ssh" =>
    /\ child[r].table[1] = Tube("out", r, "write")
    /\ child[r].table[2] = Tube("err", r, "write")

\* A tube hangs up when its child ends, and not because of, or in spite of,
\* another process: none has its writing end, and after the turn of the loop
\* dsmexec has not either.  Nor does a child keep an end that is read.
TubesApart ==
  \A r \in Rank, w \in {"out", "err"} :
    /\ \A s \in Rank \ {r} : ~Holds(child[s].table, Tube(w, r, "write"))
    /\ r < launcher.i => ~Holds(table, Tube(w, r, "write"))
    /\ \A s \in Rank : child[s].pc = "ssh" => ~Holds(child[s].table, Tube(w, r, "read"))

\* dsmexec can read every tube it has made, as long as it runs.
TubesReadable ==
  launcher.pc # "failed" =>
    \A r \in Rank : r < launcher.i =>
      /\ table[tubes_stdout[r][1]] = Tube("out", r, "read")
      /\ table[tubes_stderr[r][1]] = Tube("err", r, "read")

\* The lines of the file, those without an end left out: the k-th line ends
\* where the k-th end of line is.
LineEnd(k) ==
  CHOOSE i \in DOMAIN file :
    file[i] = NewLine /\ Cardinality({j \in 1 .. i : file[j] = NewLine}) = k
Line(r) == SubSeq(file, IF r = 0 THEN 1 ELSE LineEnd(r) + 1, LineEnd(r + 1) - 1)

\* Child r runs on the machine of line r, if no line is too long for fgets.
OwnMachine ==
  (\A r \in Rank : Len(Line(r)) <= LineMax - 2) =>
    \A r \in Rank : child[r].pc = "ssh" => child[r].machine = Line(r)

=============================================================================
