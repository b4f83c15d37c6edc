# C-DSM: the verification project

C-DSM runs one program on several machines and gives its processes a shared
memory of pages that move on demand. This directory holds TLA+ modules that
model its code, the TLC runs that check them on small instances, and theorems
that TLAPS proves for every size. Paths such as `dsm.c:209` are those of `src/`.

## 1. The system

| Part | State it keeps | Operations | Speaks with |
|---|---|---|---|
| Launcher, before and at the fork (`dsmexec.c:47-70`, `215-352`) | the machine names, its descriptor table | read the machine file, pipe, fork, redirect, close | children (descriptors) |
| Launcher, start (`dsmexec.c:285-418`) | `dsm_array` and `num_procs_creat` in memory shared with its children, the initialisation socket | fork, busy wait, accept, collect rank/pid/port, send the contacts | children (shared memory), dsmwrap (TCP) |
| Launcher, output (`dsmexec.c:425-506`) | `poll_tubes`, the counter, `errno` | poll, copy, drop a tube, reap in the SIGCHLD handler, `wait_all` | the children's stdout and stderr (pipes), signals |
| `dsmwrap.c` | two sockets, 3 and 4, kept across exec | connect, send rank, pid, port, wait, exec | launcher |
| `dsm_init` (`dsm.c:253-365`) | `dsm_conn_array`, `DSM_NODE_ID` | read the contacts, listen, accept lower ranks, connect to higher ranks, allot the pages, start the daemon | launcher, the other processes |
| User thread (`dsm.c:203-249`, `367-390`) | the address space, `table_page` | fault, request, wait, retry, finalize | its own daemon (shared memory, no lock), other daemons (TCP) |
| Daemon (`dsm.c:138-201` and handlers) | the poll set, the same table and sockets | receive a page, give a page, receive information, hang-up | all other processes |
| `common.c` (`82-165`) | the locals of its loops | one int or one line on a socket | everybody |

What is hard in it, and what would make each part right:

* **Fork.** Descriptor numbers are used again as soon as they are closed, and
  the children close by number. Right when each child writes to its own tubes,
  when a tube ends with its child, and when each child runs on its machine.
* **Start.** Children count themselves in shared memory without atomic
  operations; the launcher listens with a backlog read from that counter, and
  serves connections in the order in which machines answer. Right when the
  launcher goes on only after all children have counted themselves, takes
  nobody for somebody else, and every program is told the true contacts before
  any program needs them.
* **Mesh.** Each process accepts, then connects; nobody says who it is on the
  wire. Right when nobody waits in a circle and everybody ends up with one
  descriptor to everybody else.
* **Pages.** Two unsynchronised threads per process, no acknowledgement, tables
  updated by messages on other connections than the page, a fixed sleep instead
  of a wait. Right when a page is neither lost nor doubled, moves only to one
  who asks, gets there, and the access that faulted goes on.
* **Bytes.** Reads and writes may be cut anywhere and interrupted; a page travels
  as a string and is written to while it travels. Right when what was written to
  a page is what is read of it, and when words arrive whole.
* **Output.** Two tubes per child that close separately, a signal handler that
  may run anywhere. Right when nothing written is lost and the launcher stops
  when, and only when, all is shown.

`PROJECT.json` lists every place in the code where this is hard to test
(`hazards`) with the properties aimed at it.

## 2. The modules

    DsmFork --> DsmLaunch --> DsmExecIO
                    |
                    | EXTENDS                 DsmMesh (INSTANCE: refinement)
                    v                           ^
                 DsmStart ----------------------+

    DsmMesh --> DsmNode <-- DsmTransfers ------> PageOwnership (INSTANCE: refinement)
                   |        (EXTENDS)
                   |-- its words are those of  WordChannel <---- DsmWire (refinement)
                   +-- its pages have the bytes of  PageContent

An arrow `-->` between models means that the second starts in the states the
first one ends in (`Exec` of `DsmFork`, `"ssh"` of `DsmLaunch`; `Complete` of
`DsmMesh`; `"io"` of the launcher). `DsmStart` composes the two halves of
`dsm_init` in one state space.

**`DsmNode`**: `dsm.c` after `dsm_init`. `mapped[n]` is the set of shared pages
in the address space of n, `table[n]` is `table_page`, `chan[n][m]` the words
written by n to m and not read, `open[n]` the slots whose socket n has not
closed, `main[n]` and `daemon[n]` the two threads with their program counters,
their locals and the words each has still to write. Every call that may block
or be overtaken is a step: each `send_int` is one step (so the two threads may
interleave between the words of a message), each `recv_int` is one step. One
action per handler or part of a handler between two such points: `Fault`, `Ask`,
`EndWait`, `Retry` (`segv_handler`, `dsm_handler`), `Finalize`, `CloseNext`
(`dsm_finalize`), `Poll`, `Scan`, `HangUp`, `EndScan` (the loop of the daemon),
`RecvPageNumber` to `Install` (`dsm_recv_page`), `RecvInfoPage`, `RecvInfoOwner`
(`dsm_recv_info`), `RecvPageRequest`, `CopyPage`, `EndFault`, `UnmapPage`,
`Inform` (`dsm_send_page`), `Misframed` and `ReadEnds` (what `recv_int` and
`recv_line` do with what they did not expect). Details of the code that the
model keeps:

* the giver of a page does not change its own table entry (`dsm.c:111`);
* the entry of a process for itself in `dsm_conn_array` is all zeros: writing to
  it writes to descriptor 0, and all processes but 0 poll descriptor 0. What
  that is depends on ssh, hence `StdinKind`;
* `Inform` runs over pages and uses the page index as connection index; an index
  beyond the array reads the heap: `WildFds` gives what may be found there;
* `EndScan` reads one entry beyond `poll_sockets`;
* a request for a page that has left makes the daemon itself fault (`"fault"`);
* end of stream is POLLIN for TCP, and `recv_int` loops on it (`"eof"`);
* slot s of n leads to `Link[n][s]`, which need not be s (see `DsmMesh`).

The initial state has every process just out of `dsm_init`. A process that is
still inside is one whose threads have not moved yet: its peers may already
write to it, as in the code, since the connections exist.
After `dsm_finalize` has freed `dsm_conn_array`, the daemon may still index it;
all sockets are closed by then, so each outcome is EBADF, which is an exit.

**`DsmTransfers`** reads off a state of `DsmNode` where each page is: `Keepers`
and `Receivers`. During a transfer the page is mapped at both ends (the receiver
maps it before its content comes, `dsm.c:66`), and the tables do not tell. The
page changes hands when its last word is written; `Underway` decodes what is in
a socket the way the daemon would. A process that has mapped a page whose content
nobody is sending is not waiting for a transfer but `Stranded`: the giver has
written the head of the message and faulted on the copy (`dsm.c:104-106`), and the
program of the receiver runs on an empty page. `PageConserved` and `OneOwner` count
these processes; for `PageOwnership` they are processes that ask for ever. The module states the properties of transfers and
the refinement to **`PageOwnership`**: a page is with one process or on its way
to one, leaves only for a process that has asked and not got it yet, arrives.

**`PageContent`**: the bytes of one page. `memory[n]` is what n has mapped at
its address, `daemon[n]` the copy it sends, `wire[n]` what is on its way to n.
`Serve`, `Copy`, `SendLine`, `Unmap` are the steps of `dsm_send_page`, `Map` and
`Fill` those of `dsm_recv_page`; `Write` is any program that has the page mapped,
at any time. `Strlen` stops at the first zero byte and may run past the end of
the copy when there is none; `Fill` copies the whole buffer, of which only the
line was written. Two history variables say what one may hope for: `written`,
the last value written to each byte, and `kept`, the bytes whose last write was
outside a transfer and which have stood before the first zero in each copy.
Everything else may be lost, and is: that is the code as it stands.

**`DsmWire`**: one direction of a connection. `writer.out` is what is left of a
`send_int` or `send_line`, `wire` the bytes in the kernel, `reader` the loop of
`recv_int` or `recv_line` with its data and how often it was interrupted. The
bytes of a word are those of its memory representation, `Bytes`, the same at both
ends and different for different words; nothing else is assumed of them.
`recv_int` adds the -1 of an interrupted read to its pointer and takes it from its
length (`common.c:111`), so that the last byte stored is overwritten or, before the
first, the word is stored off its place, and the next one is cut (`"wild"` when
something else than the word is overwritten). It
implements **`WordChannel`**, the channel of whole words that the other modules
take a connection for, until the reader is interrupted. Only `dsmexec` handles a
signal, so that only its words are concerned: `DsmLaunch` has the step where that
happens (`Sigchld`, `"derailed"`).

**`DsmFork`**: machine file, tubes and descriptor tables. A table maps numbers to
what they stand for; `Opened` takes the lowest free number, as the kernel does.
`Others` closes what `close_tubes_autres_process` closes: both numbers of each
earlier tube, whatever they stand for by then. `LineEnd(k)` is where line k of the
machine file ends, `Line(r)` what stands on it. dsmexec may start with standard
descriptors closed (`Closed`), except 0 and 1 together: the initialisation socket
then takes 0 and the reading end of the first tube takes 1, so that child 1, which
closes the ends of that tube after its own redirection, closes its own output.
Pipe and fork may fail; dsmexec then ends, and its children go on.

**`DsmMesh`**: the connect phase of `dsm_init`. `slot[n][i]` is the process
behind `dsm_conn_array[i].fd_dsm`, `queue[n]` the kernel's queue with its
backlog (the rank, plus one). Processes reach each other by name.

**`DsmStart`**: `DsmLaunch` and the connect phase together. A process listens
once it has read its contacts, and connects to the port that stands in the entry
(`Call`), whoever listens there; `ImplementsMesh` is that this is `DsmMesh`.

**`DsmLaunch`**: the launcher's main loop (`launcher`), its children (`child`,
with the value each has read of the counter), what they share, the remote
processes (`remote`) up to the `listen` of `dsm_init`, and the words between
them. The contacts leave as in the code, one process at a time (`Prepare`, the
counter `i`) and one entry of `dsm_array` at a time (`PrepareInfos`, the counter `j`),
each word a step. Any rank in `Fragile` may fail; the program of a rank in `Plain` may end
without calling `dsm_init`; a write to a process that is gone may be accepted or
kill the launcher by SIGPIPE; the SIGCHLD of an ssh that ends may interrupt a
`recv_int` that waits (`"derailed"`: what is read from there on is not followed).

**`DsmExecIO`**: one poll loop with its index, `revents` as poll left them, the
two tubes of each child, and the SIGCHLD handler as a step that may come
anywhere and changes `errno`.

**`MCNode`, `MCTransfers`, `MCWire`, `MCFork`** give TLC the workloads;
definitions marked "Mutant" in a module are wrong variants of the next
definition, used to see that the properties notice. Each **`*Proofs`** module holds
the theorems about the module it is named after; `DsmStartProofs` is about `DsmStart` and
all of `DsmLaunch`, `DsmNodeProofs` also shows where the pages of `DsmTransfers` are,
and `DsmTransfersProofs` goes on from there.

## 3. The runs

| Run | Instance | What it shows |
|---|---|---|
| `crossing` | 2 processes, 2 pages, each works on the other's; they may finish, one input is a tube that may end | `TypeOK`; `ServeFaultIsFatal`: a process asked for a page it gave away never serves again; `HangUpHitsOwnPages`: the POLLHUP branch blocks nobody's pages but one's own |
| `contended_page` | 3 processes on page 0, 3 pages | `PageConserved`, `StreamsFramed`, `TablesAgreeButForGivers`, `LostUntilTold`, and `ImplementsOwnership`: the messages implement `PageOwnership` |
| `server` | 3 processes, 4 pages, clients with a page each | `NobodyTrapped`: every request finds the page at home; `PageArrives` under fairness |
| `mesh` | 5 processes | `ConnectionsAccounted`, `MeshComplete`; `InitReturns` under fairness |
| `start` | 3 children, one machine may fail and its program may be plain | `BarrierSound`, `CounterBehind`, `ConnectionsIdentified`, `StartTogether`, `ContactsRight`, `ImplementsMesh`; `AllStart` under fairness |
| `io` | 2 children, 4 tubes, one chunk each | `CounterExact`, `NothingDropped`, `MainShowsAll`, `FailsOnlyAtEnd`; `Stops` under fairness |
| `content` | 3 processes, a page of 2 bytes, 4 writes | `OneSettled`, `KeptIsRead` |
| `wire` | 4 bytes to a word, 2-bit bytes, words, a line, an empty line | `ImplementsChannel`; `Arrives` under fairness |
| `fork` | every machine file of up to 4 characters, one with a long line, one with 5 machines for 14 descriptors | `OutputsRedirected`, `TubesApart`, `TubesReadable`, `OwnMachine` |
| `two_writers` | 2 processes, each on a page of the other | violated: a request lands inside a page message, and two processes have the same page |
| `resume` | 2 processes | violated: the thread that faulted may wait for ever |
| `slot_rank` | 3 processes | violated: an entry of `dsm_conn_array` leads to another rank |

The three violated properties state what the assignment says of the program
(on the owner of a page, on the resumption of an access, on reaching a process by
its rank); `findings` in `PROJECT.json` quotes each and says what the code does. More
places where code and text part are in the models, with no run of their own:

* the giver of a page keeps itself as owner (`dsm.c:111`), so that two tables claim
  the page; `LostUntilTold` and `TablesAgreeButForGivers` say what follows;
* each giver of a page tells the others on connections of its own (`dsm.c:114`): with
  four processes, an old message may arrive after a newer one from another giver
  and overwrite it for good, although "tous" should have "des informations
  cohérentes"; `TablesAgreeButForGivers` is what remains true for three, where a third
  party takes part in one of any two moves;
* an increment of the counter may be lost (`dsmexec.c:338`), and the busy wait then
  never ends: it is the `Lost` of `AllStart`;
* the handler changes `errno` between an interrupted `poll` and its test
  (`dsmexec.c:441`), and the launcher stops with text unread although
  `dsmexec.c:436` promises otherwise; `FailsOnlyAtEnd` is what remains true;
* the bytes of a page behind its first zero are lost on the way (`dsm.c:108`), and so
  are those written between copy and `munmap` or between `mmap` and copy;
  `KeptIsRead` is what remains true;
* a giver that no longer has the page writes the head of its message before its copy
  faults (`dsm.c:104-106`). The process that asked has then mapped the page, and its
  program runs on it beside the owner although "seul un processus sera le
  propriétaire". `contended_page` reaches this with three processes in 37 steps (0
  gives the page to 1 and then serves the late request of 2); `PageConserved` counts
  it, one such page for each trapped daemon at most;
* `dsm_finalize` waits for a daemon that never reads `dsm_state` (`dsm.c:382-386`);
* the comment "on bloque ses pages" (`dsm.c:189`) describes a branch that
  `HangUpHitsOwnPages` shows to hit no peer;
* a program without the library that ends during the send loop kills the launcher
  (the `"killed"` of `DsmLaunch`).

### Bounds, and why they are enough

* The runs of `DsmNode` and `DsmTransfers` have `Link` in the order of the ranks,
  which `slot_rank` shows not to be the only one. They have to: with the entries
  of process 2 exchanged, its first request goes to a process without the page,
  whose daemon writes the head of the message before it faults and then asks for
  the page itself on a connection its user thread may be using, so that
  `StreamsFramed` and `PageConserved` are false within some twenty steps, and
  `PageArrives` is false too. What these runs show holds for the other order only.
  The theorems about `DsmNode` hold for every `Link`.
* `contended_page` is true of the instance it checks, three processes with one page
  in use, and not of every size, because nothing keeps the two threads of a process
  from writing on one socket. `two_writers` shows it with two processes and two
  pages, in eighteen states: the daemon of 0 has written SEND_PAGE, the program of 0
  writes PAGE_REQUEST, the daemon writes its page number 0, and 1 has read that page
  2 comes, empty. With one page it takes four processes: 0 gives the page to 1 while
  the request of 2 to 0 is still on its way; 3, told by 0, asks 1, which gives the
  page to 3 and tells 0; the program of 0 now asks 3 for it, and the old request of 2
  reaches the daemon of 0, whose copy faults and asks 3 as well (68 states; too
  large an instance for a run). So `contended_page` shows that three processes on
  one page, with prompt answers and direct connections, keep their messages whole,
  that the content of the page is then in one place, and that the exchange
  implements `PageOwnership`. It does not show that they are safe: a late request
  does trap a daemon and leave an empty page with the process that sent it. The theorems about transfers therefore have a hypothesis: either
  that the messages of the run have stayed whole, or that the program is one for
  which they do (`Apart`, section 4). The constants of `server` satisfy `Apart`.
* Two processes suffice for everything between one asker and one giver, and three
  for third parties (information messages, requests on old information).
* `PAGE_NUMBER` is at least `DSM_NODE_NUM`, as in the code (100 pages); `server`
  has one page more, so that the loop of `Inform` leaves the array.
* `Lengths`: 0 in `contended_page` and `two_writers` (a page that begins with a zero,
  as all do at first; no text follows), 5 in `server` (a text follows, and its length
  is no rank and no message type), 2 in `crossing` (a length that could also be a
  message type).
* `SocketWords` bounds a connection; it is small in the two-process run, so that
  writers do block, and large enough for a whole message plus a request in the
  others.
* `PromptReplies = TRUE` (transfers) says that an answer comes within the five
  seconds of `dsm.c:239`. Without it, the user thread may send a second request
  while the daemon is in the middle of a message, and `StreamsFramed` is false:
  the mutant `RetryAtOnce` shows the trace. `crossing` does without the assumption.
* `content`: two bytes have a first zero before, at and behind each; three
  processes let a page come back; four writes are two before and two during a
  transfer. The theorem lifts all three bounds.
* `wire`: 4 bytes to a word as in the code, but of 4 values each, the least
  significant first. The kernel keeps 7 bytes, less than two words, so that a writer
  blocks inside a word; 3 signals are enough to move the pointer by almost a word.
  The theorems lift these bounds.
* `fork`: the buffer of a line has 5 characters instead of 255, a process 14
  descriptors instead of 1024: enough for four children and not for the fifth.
  The theorems lift these bounds.
* The mesh has 5 processes: the shortest backlog, the longest accept loop and
  two in between that do both.
* `TubeChunks` and `MaxChunks` are 1: order between text, end of one tube, end
  of the other and SIGCHLD is what matters; the theorem lifts the bound.
* Ranks are numbers because the code computes with them (`%`, order of the
  slots), so no symmetry is declared.
* `CHECK_DEADLOCK FALSE`: programs stop, exit, or wait for ever (that is what
  some properties are about), and the start-up protocols end.

### Fairness

Weak fairness of each thread (`MainStep`, `DaemonStep`), of each process of the
start-up (`Step`, `Launch`, `Remote`, `MeshStep`), of the two ends of a connection
(`Write`, `Read`) and of the launcher's output loop: they are
scheduled by the kernel and block only where the model blocks. Nothing obliges
a program to fault or finish, a machine to fail, a child to write, a writer to
end, a signal to come. `Stops` also
assumes that the children end, since the launcher waits for them.

## 4. The proofs

Every theorem is for all values of the constants that the ASSUMEs of the modules
allow. Some have a hypothesis or a limit of their own: `OutputsHold` assumes `StdOpen`
(above), what the theorems say of the launcher ends where a SIGCHLD hits a
blocked `recv_int`, since the model does not follow it from there (`"derailed"`), and
the theorems about transfers say which runs or which programs they are about.

**Pages, in each process** (`DsmNodeProofs`)

* `Typed`: `TypeOK` is inductive as it stands. The care is in the words: any word may
  be read at any point, so page numbers and owners in the daemon's locals and in
  the table are only naturals, and the guards `\in Page` are what keeps `mapped` and
  the domain of `table` right.
* `TrapIsFatal`: `ServeFaultIsFatal`, a step property, from `Typed`, a lemma for the
  steps of the trapped process (only writing is enabled, and the end of the wait if
  the table names somebody else, which leads to the same copy) and one for the
  steps of the others (they change nothing of it but its channels).
* `HangUpIsLocal`: `HangUpHitsOwnPages` is not inductive: that a slot found without
  POLLIN is one's own needs to know which slots are ready. `StdinOf(n)` adds that: n
  has no socket to itself, 0 does not poll itself, the others find themselves ready
  only at the end of the input.

**Transfers** (`DsmNodeProofs`, `DsmTransfersProofs`)

The tables and the mappings do not say where a page is, so the invariant is about a
*view* `st` of the connections, which exists in every state: `st[x][y][i]` is what the
reader of y expects behind the first i words from x. `Framed` says that the view begins
where the daemon of y is (`Begins`), that each word is one a reader may meet there
(`Legal`), and that it ends where the threads of x are (`Ends`: which word of a message
x still owes). `Once` says that, in this view, a page is in one place: with one process,
in one reader about to install it, or behind one word that completes it. A view is
not a function of the state that a step could update; each step is shown to have one
view before and one after, which is longer or shorter by a word (`Extended`, `Shifted`).

* `PagesConserved`: `PageConserved`, with three hypotheses on the run: messages have
  stayed whole (`StreamsFramed`), nobody has left (`Together`) and nobody has been asked
  for a page it no longer has (`NobodyTrapped`). They are safety properties, so that the
  theorem says something of every run up to the first state where one of them fails.
  Under `NobodyTrapped` the second part of `PageConserved` says that nobody runs on an
  empty page. `FillingFed` is why: the view tells whose words a process that has mapped
  a page waits for; the one who still owes them has the page or is trapped.
* `PagesConservedWhenPrompt`: without `NobodyTrapped` if answers are not late
  (`PromptReplies`). It then bounds the empty pages by the daemons that are trapped
  (`FewStranded`: a trapped daemon answers one process) and does not exclude them. `Tracked` follows the one request that a process may have out,
  through writing, connection, daemon and answer, so that the page number that a process
  reads and maps is that of the page it waits for and does not have.
* `GivenAwayIsLost`: `LostUntilTold`, when moreover descriptors lead to the rank they are
  named after and no standard input is a pipe (`Direct`). `Told` says that whoever is
  told a new owner is told the process the page went to.
* `OwnershipImplemented`: `ImplementsOwnership`, with the hypotheses of `PagesConserved`
  and `PromptReplies`. `Located` relates the place of `PageOwnership` to the view; then
  one lemma for each kind of step (`MainOwnership`, `WriteOwnership`, `SilentOwnership`,
  `ReadOwnership`) shows the step of `PageOwnership` it is, or that it is none.
* `WholeWhenApart`, `ServedWhenApart`, `ApartIsSafe`: programs for which these hypotheses
  hold of all runs. `Apart` asks that no two programs access the same page, that a process
  from which pages are borrowed borrows none, and that no program ends (with
  `PromptReplies`, `Direct`, and no wild descriptor that kills). A server with a page for
  each client is one; there is one for every number of processes. `Sheltered` says why
  it works: the user thread of a process writes only to borrow, its daemon only to
  lend (`Borrowing`, `Lending`), so that the two never have something to write on the
  same socket, and a page that is borrowed is at home until it is on its way
  (`Homeward`), so that every request finds it. With two borrowers to a page it no
  longer holds (see the bounds).
* `TablesAgreeWhenApart`: `TablesAgreeButForGivers` for these programs when
  `PAGE_NUMBER >= DSM_NODE_NUM`. That condition is needed, and is the reason to
  prove this: the loop of `dsm_send_page` that informs the others runs over pages and uses
  them as processes. `Known` says that when a page has left, each third party knows its
  new owner, or the loop has not come by it yet (`Informing`), or the news is on the
  connection, or has been half read (`Spread`); and that the word behind the page
  number of such a message names the borrower (`Paired`).

**Content of a page** (`PageContentProofs`)

* `ContentTyped`, `SettledOnce` and `ContentSurvives`: one invariant for all. The page
  is in one place at most (settled in one process, in a copy about to be sent, or
  in a line on its way; lost otherwise), and the kept bytes have their last value in
  that place, before the length that strlen found.

**Bytes of a connection** (`DsmWireProofs`)

* `WireTypes`: `WireInv` adds to the types where each end is in the list of calls, and
  that a loop never runs with nothing left to read or write.
* `ChannelImplemented`: the byte loops implement `WordChannel`, step by step, until a
  signal interrupts the reader. The whole traffic is fixed by the list of calls, so
  it is a constant: `Stream`, all its bytes, and `At[i]`, where those of call i begin
  (that they exist is the only induction). `FrameInv` then says that what is left to
  write, what the kernel has and what the reader has are the bytes of the stream at
  the place given by two counts, and that the reader's loop begins where a call
  does. A read that completes a loop has therefore exactly the bytes of the
  reader's next call, and these determine the word (`Decode`).

**Fork** (`DsmForkProofs`)

* `ForkTypes`, `OutputsHold`, `TubesHoldApart`, `TubesHoldReadable`: one invariant,
  `ForkInv`. A close by number is right when the number still stands for what it was
  made for, so it says what each table has at which numbers: the ends of a tube are
  above those of the tubes before (`Ordered`: pipe takes the lowest free numbers, and
  no writing end of the launcher survives its turn), the launcher has open its
  terminal, its socket and the ends of its tubes only (`OwnTable`), and so has each
  child at each point between fork and exec (`ChildTable`).
* `MachinesHold`: that the k-th read starts at line k needs that each line before has
  fitted the buffer (`Short`, the condition of `OwnMachine`, which the code does not
  check); `NamesInv` says it.

**Start** (`DsmMeshProofs`, `DsmStartProofs`)

* `CounterHolds`, `BarrierHolds`: `CounterBehind` alone is not inductive, since what a
  child has read becomes the counter; with `NotForked` and `RankWritten` the invariant
  `BarrierInv` says that increments may get lost and are never invented, so that
  `num_procs_creat = num_procs` means that all have counted themselves.
* `IdentifiedRight` and `StartedTogether`: the invariant `LinkInv` says of each process
  that what dsmexec has read of its three words, followed by what is still under way,
  is the beginning of rank, pid, port (`Link`); that waiting connections are distinct
  and nothing is known of their processes (`Queued`); which of the three words the
  connection being served is at (`Serving`); that the loop counter is the number of
  ports known (`Collected`), so that the sending begins when all are; and that nothing
  has been sent to anybody before (`Gate`). The entry that a rank selects is then
  that of the connection it came by.
* `StartTyped` and `ContactsHold`: the same for the way down, where the words are as
  many as there are processes. `Told(r, k, w)` says what the k-th word for r must be,
  as a relation on k, so that no list is built; `DownInv` says that what r has not
  read are the words from its place on, and that its table is right as far as it has
  been filled. A process that is gone may miss words; nothing is said of it.
* `MeshTyped`, `Accounted`: `TypeOK` and `ConnectionsAccounted` of `DsmMesh`. Each process's
  loop bounds say which entries are filled, and filled entries and queue together
  are distinct callers of lower rank. `Reachable`, by the pigeonhole principle: n
  entries filled with distinct callers among n ranks are all of them.
* `MeshImplemented`: `DsmStart` implements `DsmMesh`. A call goes to whoever listens on
  the port in the entry; by `ContactsHold` this is the port of the rank meant, and no
  other process has it, so that each step is a step of `DsmMesh` or none.

**Output** (`DsmExecIOProofs`)

* `CounterIsExact`, `TextKept`, `OutputComplete`: `IOInv` adds `PollStillTrue`: what poll
  said of a tube is still true when the loop reaches it, because only the launcher
  empties a tube, and a closed tube stays closed. From it, dropping a tube loses
  nothing, and the counter follows the number of children still heard.
* `FailsLate`, `IOTyped`: `ErrnoInv` says that nobody has ended whose tubes are open and
  that `errno` is ECHILD only when everybody has been reaped; with `IOInv` for the
  counter it gives `FailsOnlyAtEnd` and `TypeOK`.

Where a proof needs induction over data, it takes the least counterexample of a
set of naturals (`WFMin` of `WellFoundedInduction`), since the library's induction
theorems have an operator as a parameter.

Only model-checked: the liveness properties (`PageArrives`, `InitReturns`, `AllStart`,
`Stops`, `Arrives`), which are out of the prover's reach. What is neither proved nor true of
every size: `StreamsFramed`, and with it the other properties of transfers, for programs
that are not `Apart`; `TablesAgreeButForGivers` for four processes that pass a page on.
`contended_page` checks them for three processes on one page.

## 5. What is not modelled

* What may come in on a descriptor 0 that is a socket: it is quiet or at its end
  (`StdinEnd`), and no data is read from it as a message type (`dsm.c:162-163`).
* What stands behind `poll_sockets` (`dsm.c:161`): a file that is not ready or a bad
  descriptor (`EndScan`), never one on which `recv_int` would block.
* Calls of `dsm_init` that fail (the `ERROR_EXIT` of `dsm.c:305`, `321`, `336`): `InitReturns`
  supposes that none does. A process that dies there leaves its peers in `accept`.
* A `recv_int` of the start that ends in an error such as ECONNRESET
  (`common.c:109`): in `DsmLaunch` a peer that is gone is an end of stream, on which
  `recv_int` loops.
* In `PageContent`, requests for a page that has left: they are in `DsmNode`, and
  change no bytes.
* The 512-byte buffer of the launcher and what is printed behind its end
  (`dsmexec.c:453`); host names that are too long for their fields.
* What a process does after it has read bytes out of frame (`"desync"` is final).
* The command line, the paths, the names of hosts, the release of memory, debug
  output. `dsmexec.c:216` opens the literal `machine_file` whatever its first
  argument is; the model starts with the file that was opened.
* `Archives/` and `Sujet/`: earlier phases and the assignment.

## 6. Plan

Done: pages (`DsmNode`, `DsmTransfers`, `PageContent`), start (`DsmFork`, `DsmLaunch`,
`DsmMesh`, `DsmStart`), output (`DsmExecIO`), bytes (`DsmWire`), with a theorem for every
safety property and every refinement that a passing run checks; those about transfers
are for the programs or the runs described in section 4. What is left:

1. Larger classes of programs for which messages stay whole: two borrowers to a page as
   long as only one has it at a time (a barrier between them, say).
2. What stays true of the transfers when `Link` is not in the order of the ranks.
3. Step properties of `DsmNode` that hold of every size, misplaced words included: what
   can make a page enter or leave an address space, and what can change the table of
   the process that has it.

## 7. Running

    tlc -workers 2 -config crossing.cfg MCNode.tla     # one line per run of PROJECT.json
    tlapm DsmNodeProofs.tla                            # and the other *Proofs modules
