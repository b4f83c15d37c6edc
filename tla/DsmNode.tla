------------------------------ MODULE DsmNode ------------------------------
(***************************************************************************)
(* The shared-memory library of one run: dsm.c after every process has     *)
(* returned from dsm_init.  Each process has two threads, the user program *)
(* ("main", which enters the library through SIGSEGV and dsm_finalize) and *)
(* the communication daemon, and they share, without any lock, the page    *)
(* table, the address space and the sockets.                               *)
(*                                                                         *)
(* A socket is a queue of words.  A word is one int written by send_int or *)
(* the whole text written by send_line, so the writes of the two threads   *)
(* of a process may interleave between the words of a message, as in the   *)
(* code.  What the bytes of a page are worth is not modelled here.         *)
(***************************************************************************)
EXTENDS Naturals, Sequences, FiniteSets

CONSTANTS
  DSM_NODE_NUM,   \* number of processes
  PAGE_NUMBER,    \* number of shared pages
  Link,           \* Link[n][s]: the process at the other end of slot s of n
  Touches,        \* Touches[n]: the pages the program of process n accesses
  Lengths,        \* values strlen may return on the copy of a page
  StdinKind,      \* StdinKind[n]: what sshd gave process n as fd 0, "socket" or "pipe"
  WildFds,        \* what an fd read beyond the end of an array may designate
  SocketWords,    \* capacity of a connection, in words
  PromptReplies,  \* TRUE: an answer always arrives within the sleep(5)
  Finalizers,     \* the processes whose program calls dsm_finalize
  StdinEnds       \* TRUE: the launcher's input may reach its end

Rank == 0 .. DSM_NODE_NUM - 1
Page == 0 .. PAGE_NUMBER - 1

\* Descriptors: the sockets, named by their slots, and two others.
Stdin == DSM_NODE_NUM
BadFd == DSM_NODE_NUM + 1           \* a descriptor that is not open
Fd    == 0 .. DSM_NODE_NUM + 1

ASSUME NodeAssumption ==
  /\ DSM_NODE_NUM \in Nat \ {0}
  /\ PAGE_NUMBER \in Nat \ {0}
  /\ Link \in [Rank -> [Rank -> Rank]]
  /\ \A n \in Rank : /\ Link[n][n] = n
                     /\ \A r, s \in Rank : Link[n][r] = Link[n][s] => r = s
  /\ Touches \in [Rank -> SUBSET Page]
  /\ Lengths \subseteq Nat /\ Lengths # {}
  /\ StdinKind \in [Rank -> {"socket", "pipe"}]
  /\ WildFds \subseteq Fd /\ WildFds # {}
  /\ SocketWords \in Nat \ {0}
  /\ PromptReplies \in BOOLEAN
  /\ Finalizers \subseteq Rank
  /\ StdinEnds \in BOOLEAN

VARIABLES
  mapped,   \* mapped[n]: shared pages present in the address space of n
  table,    \* table[n]: table_page of n
  chan,     \* chan[n][m]: words written by n to m and not yet read by m
  open,     \* open[n]: slots of n whose socket n has not closed
  stdin,    \* stdin[n]: "quiet", or "eof" when input has ended
  main,     \* main[n]: the user thread
  daemon    \* daemon[n]: the communication thread

vars == <<mapped, table, chan, open, stdin, main, daemon>>

----------------------------------------------------------------------------
(* Words, messages and sockets                                             *)

SEND_PAGE    == 0
SEND_INFO    == 1
PAGE_REQUEST == 2

Num(v)  == [kind |-> "int", val |-> v]
Text(l) == [kind |-> "text", val |-> l]

\* A write still to be done by a thread: a word and the slot it goes to.
To(fd, w) == [fd |-> fd, word |-> w]

Word   == [kind : {"int", "text"}, val : Nat]
Output == [fd : Fd, word : Word]

\* What dsm_conn_array[i].fd_dsm may be in process n.  The entry of n for
\* itself is all zeros, and 0 is the standard input; an index beyond the
\* array reads whatever the heap holds there.
FdOf(n, i) == IF i = n THEN {Stdin} ELSE IF i \in Rank THEN {i} ELSE WildFds

\* The process connected to slot s of n still has its end open.
Connected(n, s) == \E r \in open[Link[n][s]] : Link[Link[n][s]][r] = n

\* What slot s of n has received and n has not read.
Incoming(n, s) == chan[Link[n][s]][n]

Request(fd, p) == <<To(fd, Num(PAGE_REQUEST)), To(fd, Num(p))>>

----------------------------------------------------------------------------
(* Initial states: dsm_init has allocated the pages in turn                *)

MainAt(at) == [pc |-> at, page |-> 0, asked |-> 0, out |-> <<>>]

\* The entry of n for itself also has rang 0: only process 0 recognises its
\* own slot and leaves it out of the poll, the others poll descriptor 0.
DaemonAt(n, at) ==
  [pc |-> at, slot |-> 0, page |-> 0, len |-> 0, index |-> 0,
   ready |-> {}, polled |-> IF n = 0 THEN Rank \ {0} ELSE Rank, out |-> <<>>]

Init ==
  /\ mapped = [n \in Rank |-> {p \in Page : p % DSM_NODE_NUM = n}]
  /\ table = [n \in Rank |->
                [p \in Page |-> [status |-> "WRITE", owner |-> p % DSM_NODE_NUM]]]
  /\ chan = [n \in Rank |-> [m \in Rank |-> <<>>]]
  /\ open = [n \in Rank |-> Rank \ {n}]
  /\ stdin = [n \in Rank |-> "quiet"]
  /\ main = [n \in Rank |-> MainAt("run")]
  /\ daemon = [n \in Rank |-> DaemonAt(n, "poll")]

----------------------------------------------------------------------------
(* Process exit: ERROR_EXIT, a deadly signal                               *)

Exit(n) ==
  /\ mapped' = [mapped EXCEPT ![n] = {}]
  /\ chan' = [m \in Rank |-> [chan[m] EXCEPT ![n] = <<>>]]
  /\ open' = [open EXCEPT ![n] = {}]
  /\ main' = [main EXCEPT ![n] = MainAt("exited")]
  /\ daemon' = [daemon EXCEPT ![n] = DaemonAt(n, "exited")]
  /\ UNCHANGED <<table, stdin>>

----------------------------------------------------------------------------
(* Writing one word                                                        *)

\* If the standard input is a socket, the bytes go back to the launcher and
\* are lost to the DSM.  A write to a peer that is gone may be accepted
\* before the reset comes back.
Delivers(n, fd, w) ==
  \/ fd = Stdin /\ StdinKind[n] = "socket" /\ UNCHANGED chan
  \/ /\ fd \in open[n] /\ Connected(n, fd)
     /\ Len(chan[n][Link[n][fd]]) < SocketWords
     /\ chan' = [chan EXCEPT ![n][Link[n][fd]] = Append(@, w)]
  \/ fd \in open[n] /\ ~Connected(n, fd) /\ UNCHANGED chan

\* EBADF (the read end of a pipe, a closed or a meaningless descriptor) and
\* EPIPE both end the process.
WriteKills(n, fd) ==
  \/ fd = Stdin /\ StdinKind[n] = "pipe"
  \/ fd # Stdin /\ fd \notin open[n]
  \/ fd \in open[n] /\ ~Connected(n, fd)

MainWrite(n) ==
  /\ main[n].out # <<>>
  /\ \/ /\ Delivers(n, Head(main[n].out).fd, Head(main[n].out).word)
        /\ main' = [main EXCEPT ![n].out = Tail(@)]
        /\ UNCHANGED <<mapped, table, open, stdin, daemon>>
     \/ WriteKills(n, Head(main[n].out).fd) /\ Exit(n)

DaemonWrite(n) ==
  /\ daemon[n].out # <<>>
  /\ \/ /\ Delivers(n, Head(daemon[n].out).fd, Head(daemon[n].out).word)
        /\ daemon' = [daemon EXCEPT ![n].out = Tail(@)]
        /\ UNCHANGED <<mapped, table, open, stdin, main>>
     \/ WriteKills(n, Head(daemon[n].out).fd) /\ Exit(n)

----------------------------------------------------------------------------
(* The user thread                                                         *)

\* Mutant: the process enters itself in its table before the page has come.
AskAsOwner(n, p) ==
  /\ \E fd \in FdOf(n, table[n][p].owner) :
       main' = [main EXCEPT ![n] = [pc |-> "wait", page |-> p, asked |-> fd,
                                    out |-> Request(fd, p)]]
  /\ table' = [table EXCEPT ![n][p].owner = n]
  /\ UNCHANGED <<mapped, chan, open, stdin, daemon>>

\* Sends the request for page p to the process the table names now.
Ask(n, p) ==
  /\ \E fd \in FdOf(n, table[n][p].owner) :
       main' = [main EXCEPT ![n] = [pc |-> "wait", page |-> p, asked |-> fd,
                                    out |-> Request(fd, p)]]
  /\ UNCHANGED <<mapped, table, chan, open, stdin, daemon>>

\* An access to a page that is not mapped enters segv_handler.
Fault(n) ==
  /\ main[n].pc = "run"
  /\ \E p \in Touches[n] \ mapped[n] : Ask(n, p)

\* The loop of dsm_handler: it ends when the table names another process.
EndWait(n) ==
  /\ main[n].pc = "wait" /\ main[n].out = <<>>
  /\ table[n][main[n].page].owner # n
  /\ main' = [main EXCEPT ![n].pc = "sleep"]
  /\ UNCHANGED <<mapped, table, chan, open, stdin, daemon>>

\* Mutant: dsm_handler returns at once, without the sleep.
RetryAtOnce(n) ==
  /\ main[n].pc = "sleep"
  /\ \/ /\ main[n].page \in mapped[n]
        /\ main' = [main EXCEPT ![n] = MainAt("run")]
        /\ UNCHANGED <<mapped, table, chan, open, stdin, daemon>>
     \/ main[n].page \notin mapped[n] /\ Ask(n, main[n].page)

\* After sleep(5) the handler returns and the access is executed again.
Retry(n) ==
  /\ main[n].pc = "sleep"
  /\ \/ /\ main[n].page \in mapped[n]
        /\ main' = [main EXCEPT ![n] = MainAt("run")]
        /\ UNCHANGED <<mapped, table, chan, open, stdin, daemon>>
     \/ /\ main[n].page \notin mapped[n]
        /\ PromptReplies => main[n].asked = Stdin
        /\ Ask(n, main[n].page)

\* dsm_finalize closes the sockets in increasing order, then waits for a
\* daemon that never tests dsm_state.
Finalize(n) ==
  /\ main[n].pc = "run" /\ n \in Finalizers
  /\ main' = [main EXCEPT ![n].pc = "closing"]
  /\ UNCHANGED <<mapped, table, chan, open, stdin, daemon>>

CloseNext(n) ==
  /\ main[n].pc = "closing"
  /\ \/ /\ open[n] = {}
        /\ main' = [main EXCEPT ![n].pc = "joining"]
        /\ UNCHANGED open
     \/ /\ \E s \in open[n] : /\ \A r \in open[n] : s <= r
                              /\ open' = [open EXCEPT ![n] = @ \ {s}]
        /\ UNCHANGED main
  /\ UNCHANGED <<mapped, table, chan, stdin, daemon>>

----------------------------------------------------------------------------
(* The daemon: polling                                                     *)

Readable(n) ==
  {s \in daemon[n].polled :
     \/ s \in open[n] /\ (Incoming(n, s) # <<>> \/ ~Connected(n, s))
     \/ s = n /\ stdin[n] = "eof"}

Poll(n) ==
  /\ daemon[n].pc = "poll" /\ Readable(n) # {}
  /\ daemon' = [daemon EXCEPT ![n].pc = "scan", ![n].ready = Readable(n)]
  /\ UNCHANGED <<mapped, table, chan, open, stdin, main>>

\* Back to the loop over the slots; the locals of the handlers go out of scope.
Resume(n) ==
  [daemon[n] EXCEPT !.pc = "scan", !.slot = 0, !.page = 0, !.len = 0, !.index = 0]

\* Mutant: the pages that become INVALID are those the slot owns now.
HangUpByOwner(n, s) ==
  /\ table' = [table EXCEPT ![n] =
       [p \in Page |-> IF @[p].owner = s THEN [status |-> "INVALID", owner |-> s]
                                         ELSE @[p]]]
  /\ daemon' = [daemon EXCEPT ![n].ready = @ \ {s}, ![n].polled = @ \ {s}]

\* POLLHUP without POLLIN: the pages allotted to slot s become INVALID and
\* the slot is no longer polled.  TCP reports a closed peer as POLLIN, so
\* only a standard input that is a pipe gets here.
HangUp(n, s) ==
  /\ table' = [table EXCEPT ![n] =
       [p \in Page |-> IF p % DSM_NODE_NUM = s
                        THEN [status |-> "INVALID", owner |-> s]
                        ELSE @[p]]]
  /\ daemon' = [daemon EXCEPT ![n].ready = @ \ {s}, ![n].polled = @ \ {s}]

\* The slots found ready by one poll are served in increasing order.
Scan(n) ==
  /\ daemon[n].pc = "scan" /\ daemon[n].out = <<>>
  /\ \E s \in daemon[n].ready :
       /\ \A r \in daemon[n].ready : s <= r
       /\ \/ s = n /\ StdinKind[n] = "pipe" /\ HangUp(n, s)
          \/ /\ s # n \/ StdinKind[n] = "socket"
             /\ daemon' = [daemon EXCEPT ![n].pc = "type", ![n].slot = s,
                                         ![n].ready = @ \ {s}]
             /\ table' = table
  /\ UNCHANGED <<mapped, chan, open, stdin, main>>

\* The loop runs one entry too far: what it finds there is not POLLIN, or
\* makes it read a meaningless descriptor.  (One that would block it is not
\* considered.)
EndScan(n) ==
  /\ daemon[n].pc = "scan" /\ daemon[n].out = <<>> /\ daemon[n].ready = {}
  /\ \/ /\ daemon' = [daemon EXCEPT ![n].pc = "poll"]
        /\ UNCHANGED <<mapped, table, chan, open, stdin, main>>
     \/ BadFd \in WildFds /\ Exit(n)

----------------------------------------------------------------------------
(* The daemon: reading                                                     *)

ReadingInt == {"type", "page", "len", "infoPage", "infoOwner", "wanted"}
Reading    == ReadingInt \cup {"text"}

\* The daemon, waiting for data at the point at of its program, takes the
\* next word of its slot, of the given kind.
Takes(n, at, kind) ==
  /\ daemon[n].pc = at
  /\ daemon[n].slot \in open[n]
  /\ Incoming(n, daemon[n].slot) # <<>>
  /\ Head(Incoming(n, daemon[n].slot)).kind = kind
  /\ chan' = [chan EXCEPT ![Link[n][daemon[n].slot]][n] = Tail(@)]

NextWord(n) == Head(Incoming(n, daemon[n].slot)).val

RecvType(n) ==
  /\ Takes(n, "type", "int")
  /\ daemon' = [daemon EXCEPT ![n] =
       CASE NextWord(n) = SEND_PAGE    -> [@ EXCEPT !.pc = "page"]
         [] NextWord(n) = SEND_INFO    -> [@ EXCEPT !.pc = "infoPage"]
         [] NextWord(n) = PAGE_REQUEST -> [@ EXCEPT !.pc = "wanted"]
         [] OTHER -> Resume(n)]
  /\ UNCHANGED <<mapped, table, open, stdin, main>>

\* dsm_recv_page maps the page as soon as it knows its number.
RecvPageNumber(n) ==
  /\ Takes(n, "page", "int")
  /\ mapped' = [mapped EXCEPT ![n] = @ \cup ({NextWord(n)} \cap Page)]
  /\ daemon' = [daemon EXCEPT ![n].pc = "len", ![n].page = NextWord(n)]
  /\ UNCHANGED <<table, open, stdin, main>>

RecvLength(n) ==
  /\ Takes(n, "len", "int")
  /\ daemon' = [daemon EXCEPT ![n].pc = IF NextWord(n) = 0 THEN "install" ELSE "text",
                             ![n].len = NextWord(n)]
  /\ UNCHANGED <<mapped, table, open, stdin, main>>

RecvText(n) ==
  /\ Takes(n, "text", "text")
  /\ NextWord(n) = daemon[n].len
  /\ daemon' = [daemon EXCEPT ![n].pc = "install"]
  /\ UNCHANGED <<mapped, table, open, stdin, main>>

\* The copy into the page and the change of owner.  num2address has no
\* address for a page number beyond the last page: the copy is fatal.
Install(n) ==
  /\ daemon[n].pc = "install"
  /\ \/ /\ daemon[n].page \in Page
        /\ table' = [table EXCEPT ![n][daemon[n].page] =
                       [status |-> "WRITE", owner |-> n]]
        /\ daemon' = [daemon EXCEPT ![n] = Resume(n)]
        /\ UNCHANGED <<mapped, chan, open, stdin, main>>
     \/ daemon[n].page \notin Page /\ Exit(n)

RecvInfoPage(n) ==
  /\ Takes(n, "infoPage", "int")
  /\ daemon' = [daemon EXCEPT ![n].pc = "infoOwner", ![n].page = NextWord(n)]
  /\ UNCHANGED <<mapped, table, open, stdin, main>>

\* Mutant: the sender of the message is taken for the new owner.
RecvInfoFromOwner(n) ==
  /\ Takes(n, "infoOwner", "int")
  /\ table' = IF daemon[n].page \in Page
                THEN [table EXCEPT ![n][daemon[n].page] =
                        [status |-> "WRITE", owner |-> daemon[n].slot]]
                ELSE table
  /\ daemon' = [daemon EXCEPT ![n] = Resume(n)]
  /\ UNCHANGED <<mapped, open, stdin, main>>

\* dsm_change_info refuses a page number beyond the last page.
RecvInfoOwner(n) ==
  /\ Takes(n, "infoOwner", "int")
  /\ table' = IF daemon[n].page \in Page
                THEN [table EXCEPT ![n][daemon[n].page] =
                        [status |-> "WRITE", owner |-> NextWord(n)]]
                ELSE table
  /\ daemon' = [daemon EXCEPT ![n] = Resume(n)]
  /\ UNCHANGED <<mapped, open, stdin, main>>

\* A request is answered at once, whoever has the page.
RecvPageRequest(n) ==
  /\ Takes(n, "wanted", "int")
  /\ daemon' = [daemon EXCEPT ![n].pc = "copy", ![n].page = NextWord(n),
       ![n].out = <<To(daemon[n].slot, Num(SEND_PAGE)),
                    To(daemon[n].slot, Num(NextWord(n)))>>]
  /\ UNCHANGED <<mapped, table, open, stdin, main>>

\* The next bytes are not what the reader expects: a text read as an int or
\* the reverse.  What such a process does next is not followed.
Misframed(n) ==
  /\ \/ \E at \in ReadingInt : Takes(n, at, "text")
     \/ Takes(n, "text", "int")
     \/ Takes(n, "text", "text") /\ NextWord(n) # daemon[n].len
  /\ daemon' = [daemon EXCEPT ![n].pc = "desync"]
  /\ UNCHANGED <<mapped, table, open, stdin, main>>

\* read returns 0 at the end of a stream, which recv_int takes for no
\* progress: it loops.  It gets ECONNRESET instead if the peer left data
\* unread, and EBADF if dsm_finalize has closed the socket.
ReadEnds(n) ==
  /\ daemon[n].pc \in Reading \cup {"eof"}
  /\ LET s == daemon[n].slot
     IN  \/ /\ s # n => s \in open[n] /\ ~Connected(n, s) /\ Incoming(n, s) = <<>>
            /\ daemon' = [daemon EXCEPT ![n].pc = "eof"]
            /\ UNCHANGED <<mapped, table, chan, open, stdin, main>>
         \/ /\ s # n
            /\ s \in open[n] => (daemon[n].pc # "eof" /\ ~Connected(n, s))
            /\ Exit(n)

----------------------------------------------------------------------------
(* The daemon: answering a request                                         *)

\* Mutant: a page that has left can still be read.
CopyAnyPage(n) ==
  /\ daemon[n].pc = "copy" /\ daemon[n].out = <<>>
  /\ LET s == daemon[n].slot
     IN  \/ /\ daemon[n].page \in Page
            /\ \E l \in Lengths :
                 daemon' = [daemon EXCEPT ![n].pc = "unmap",
                   ![n].out = <<To(s, Num(l))>> \o (IF l = 0 THEN <<>> ELSE <<To(s, Text(l))>>)]
            /\ UNCHANGED <<mapped, table, chan, open, stdin, main>>
         \/ daemon[n].page \notin Page /\ Exit(n)

\* The copy of the page before it is sent.  If the process no longer has
\* it, the daemon itself enters segv_handler and asks for the page.
CopyPage(n) ==
  /\ daemon[n].pc = "copy" /\ daemon[n].out = <<>>
  /\ LET p == daemon[n].page
         s == daemon[n].slot
     IN  \/ /\ p \in mapped[n]
            /\ \E l \in Lengths :
                 daemon' = [daemon EXCEPT ![n].pc = "unmap",
                   ![n].out = <<To(s, Num(l))>> \o (IF l = 0 THEN <<>> ELSE <<To(s, Text(l))>>)]
            /\ UNCHANGED <<mapped, table, chan, open, stdin, main>>
         \/ /\ p \in Page \ mapped[n]
            /\ \E fd \in FdOf(n, table[n][p].owner) :
                 daemon' = [daemon EXCEPT ![n].pc = "fault", ![n].out = Request(fd, p)]
            /\ UNCHANGED <<mapped, table, chan, open, stdin, main>>
         \/ p \notin Page /\ Exit(n)

\* dsm_handler in the daemon: the loop ends if the table names another
\* process; the copy is then executed again.
EndFault(n) ==
  /\ daemon[n].pc = "fault" /\ daemon[n].out = <<>>
  /\ table[n][daemon[n].page].owner # n
  /\ daemon' = [daemon EXCEPT ![n].pc = "copy"]
  /\ UNCHANGED <<mapped, table, chan, open, stdin, main>>

\* Mutant: the page stays in the address space.
KeepPage(n) ==
  /\ daemon[n].pc = "unmap" /\ daemon[n].out = <<>>
  /\ daemon' = [daemon EXCEPT ![n].pc = "inform"]
  /\ UNCHANGED <<mapped, table, chan, open, stdin, main>>

\* The page leaves the address space; its entry in the table is not changed.
UnmapPage(n) ==
  /\ daemon[n].pc = "unmap" /\ daemon[n].out = <<>>
  /\ mapped' = [mapped EXCEPT ![n] = @ \ {daemon[n].page}]
  /\ daemon' = [daemon EXCEPT ![n].pc = "inform"]
  /\ UNCHANGED <<table, chan, open, stdin, main>>

\* Mutants: the loop runs one page too far; it ends without leaving the handler.
InformTooFar(n) ==
  /\ daemon[n].pc = "inform" /\ daemon[n].out = <<>>
  /\ \/ /\ daemon[n].index <= PAGE_NUMBER
        /\ daemon' = [daemon EXCEPT ![n].index = @ + 1]
     \/ /\ daemon[n].index = PAGE_NUMBER + 1
        /\ daemon' = [daemon EXCEPT ![n] = Resume(n)]
  /\ UNCHANGED <<mapped, table, chan, open, stdin, main>>

InformForEver(n) ==
  /\ daemon[n].pc = "inform" /\ daemon[n].out = <<>>
  /\ daemon[n].index < PAGE_NUMBER
  /\ daemon' = [daemon EXCEPT ![n].index = @ + 1]
  /\ UNCHANGED <<mapped, table, chan, open, stdin, main>>

\* One turn of the loop that tells the others: it runs over the pages, and
\* uses the page index as an index into the connections.
Inform(n) ==
  /\ daemon[n].pc = "inform" /\ daemon[n].out = <<>>
  /\ LET i == daemon[n].index
         next == [daemon[n] EXCEPT !.index = i + 1]
     IN  \/ /\ i < PAGE_NUMBER /\ i % DSM_NODE_NUM \notin {n, daemon[n].slot}
            /\ \E fd \in FdOf(n, i) :
                 daemon' = [daemon EXCEPT ![n] = [next EXCEPT !.out =
                   <<To(fd, Num(SEND_INFO)), To(fd, Num(daemon[n].page)),
                     To(fd, Num(daemon[n].slot))>>]]
         \/ /\ i < PAGE_NUMBER /\ i % DSM_NODE_NUM \in {n, daemon[n].slot}
            /\ daemon' = [daemon EXCEPT ![n] = next]
         \/ /\ i = PAGE_NUMBER
            /\ daemon' = [daemon EXCEPT ![n] = Resume(n)]
  /\ UNCHANGED <<mapped, table, chan, open, stdin, main>>

----------------------------------------------------------------------------
(* The environment and the specification                                   *)

\* The launcher's input ends; nothing is read from it before.
StdinEnd(n) ==
  /\ StdinEnds /\ stdin[n] = "quiet" /\ main[n].pc # "exited"
  /\ stdin' = [stdin EXCEPT ![n] = "eof"]
  /\ UNCHANGED <<mapped, table, chan, open, main, daemon>>

\* The steps a started thread takes on its own.
MainStep(n) == MainWrite(n) \/ EndWait(n) \/ Retry(n) \/ CloseNext(n)

DaemonStep(n) ==
  \/ DaemonWrite(n) \/ Poll(n) \/ Scan(n) \/ EndScan(n)
  \/ RecvType(n) \/ RecvPageNumber(n) \/ RecvLength(n) \/ RecvText(n) \/ Install(n)
  \/ RecvInfoPage(n) \/ RecvInfoOwner(n) \/ RecvPageRequest(n)
  \/ Misframed(n) \/ ReadEnds(n)
  \/ CopyPage(n) \/ EndFault(n) \/ UnmapPage(n) \/ Inform(n)

\* What the program or the launcher decides.
Choice(n) == Fault(n) \/ Finalize(n) \/ StdinEnd(n)

Next == \E n \in Rank : MainStep(n) \/ DaemonStep(n) \/ Choice(n)

Spec == Init /\ [][Next]_vars

\* The two threads of a process are scheduled; nothing obliges the program
\* to access a page or to finish.
Fairness == \A n \in Rank : WF_vars(MainStep(n)) /\ WF_vars(DaemonStep(n))

FairSpec == Spec /\ Fairness

----------------------------------------------------------------------------
(* Properties                                                              *)

MainPc   == {"run", "wait", "sleep", "closing", "joining", "exited"}
DaemonPc == Reading \cup {"poll", "scan", "install", "copy", "unmap", "inform",
                          "fault", "eof", "desync", "exited"}

\* The values of the index of the loop over the pages.
Index == 0 .. PAGE_NUMBER

\* Every variable of the two threads keeps its type, also when a process has
\* read words that were not meant for it.
TypeOK ==
  /\ mapped \in [Rank -> SUBSET Page]
  /\ table \in [Rank -> [Page -> [status : {"WRITE", "INVALID"}, owner : Nat]]]
  /\ chan \in [Rank -> [Rank -> Seq(Word)]]
  /\ open \in [Rank -> SUBSET Rank]
  /\ stdin \in [Rank -> {"quiet", "eof"}]
  /\ main \in [Rank -> [pc : MainPc, page : Page, asked : Fd, out : Seq(Output)]]
  /\ daemon \in [Rank -> [pc : DaemonPc, slot : Rank, page : Nat, len : Nat,
                          index : Index, ready : SUBSET Rank, polled : SUBSET Rank,
                          out : Seq(Output)]]

\* The daemon of n has been asked for a page that n no longer has: the copy
\* in dsm_send_page faults, in the only thread that could ever map the page.
Trapped(n) ==
  daemon[n].pc \in {"copy", "fault"} /\ daemon[n].page \in Page \ mapped[n]

\* What a step leaves to a process in that state.
StaysTrapped(n) ==
  \/ main'[n].pc = "exited"
  \/ Trapped(n)' /\ mapped'[n] = mapped[n] /\ table'[n] = table[n]

\* A request for a page that has left (a repeated one, or one sent on old
\* information) is fatal to the process that receives it: its daemon never
\* leaves the fault handler, so that from then on the process neither gives
\* nor gets a page and learns nothing of the others, until it dies.
ServeFaultIsFatal == [][\A n \in Rank : Trapped(n) => StaysTrapped(n)]_vars

\* The branch that invalidates the pages of a process that hangs up never
\* does so: it only ever hits the pages of the process that executes it, and
\* only when the launcher's input has ended.
HangUpHitsOwnPages ==
  \A n \in Rank, p \in Page : table[n][p].status = "INVALID" =>
    p % DSM_NODE_NUM = n /\ n # 0 /\ stdin[n] = "eof" /\ StdinKind[n] = "pipe"

=============================================================================
