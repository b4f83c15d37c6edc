--------------------------- MODULE DsmNodeProofs ---------------------------
(***************************************************************************)
(* Theorems about DsmNode, for every number of processes and pages, every  *)
(* program and every launcher: the types, what a trap and a hang-up leave, *)
(* then the words on the connections, read as messages, and the places of  *)
(* the pages, up to the conservation of the pages by the transfers.        *)
(***************************************************************************)
EXTENDS DsmTransfers, FiniteSetTheorems, SequenceTheorems, WellFoundedInduction, TLAPS


\* The types of the threads' states, named so that they need not be expanded.
MainState   == [pc : MainPc, page : Page, asked : Fd, out : Seq(Output)]
DaemonState == [pc : DaemonPc, slot : Rank, page : Nat, len : Nat, index : Index,
                ready : SUBSET Rank, polled : SUBSET Rank, out : Seq(Output)]

\* Ranks are descriptors, and so is the standard input.
LEMMA Ranks == Rank \subseteq Nat /\ Rank \subseteq Fd /\ Stdin \in Fd /\ 0 \in Rank
BY NodeAssumption DEF Rank, Fd, Stdin

\* There is a page 0, and page numbers are naturals.
LEMMA Pages == 0 \in Page /\ Page \subseteq Nat
BY NodeAssumption DEF Page

\* The index of the loop over the pages, one past the last page included.
LEMMA Indexes ==
  /\ 0 \in Index /\ Index \subseteq Nat
  /\ \A i \in Index : i < PAGE_NUMBER => i + 1 \in Index
BY NodeAssumption DEF Index

\* What an entry of dsm_conn_array holds is a descriptor.
LEMMA Descriptors == \A n \in Rank, i \in Nat : FdOf(n, i) \subseteq Fd
BY Ranks, NodeAssumption DEF FdOf

\* An int or a text is a word.
LEMMA Words == \A v \in Nat : Num(v) \in Word /\ Text(v) \in Word
BY DEF Num, Text, Word

\* A word with a descriptor can be written.
LEMMA Outputs == \A fd \in Fd, w \in Word : To(fd, w) \in Output
BY DEF To, Output

\* The two words of dsm_send_request.
LEMMA Requests == \A fd \in Fd, p \in Page : Request(fd, p) \in Seq(Output)
<1> TAKE fd \in Fd, p \in Page
<1>1. Num(PAGE_REQUEST) \in Word /\ Num(p) \in Word
  BY Words, Pages DEF PAGE_REQUEST
<1>2. To(fd, Num(PAGE_REQUEST)) \in Output /\ To(fd, Num(p)) \in Output
  BY <1>1, Outputs
<1> QED BY <1>2 DEF Request

\* The states in which the threads start and end.
LEMMA Starts ==
  /\ \A at \in MainPc : MainAt(at) \in MainState
  /\ \A n \in Rank, at \in DaemonPc : DaemonAt(n, at) \in DaemonState
<1>1. << >> \in Seq(Output)
  OBVIOUS
<1>2. ASSUME NEW at \in MainPc PROVE MainAt(at) \in MainState
  BY <1>1, Ranks, Pages DEF MainAt, MainState
<1>3. ASSUME NEW n \in Rank, NEW at \in DaemonPc PROVE DaemonAt(n, at) \in DaemonState
  BY <1>1, Ranks, Indexes DEF DaemonAt, DaemonState
<1> QED BY <1>2, <1>3

\* The points of the daemon's program.
LEMMA Pcs ==
  {"type", "page", "len", "infoPage", "infoOwner", "wanted", "text", "poll", "scan", "install",
   "copy", "unmap", "inform", "fault", "eof", "desync", "exited"} \subseteq DaemonPc
BY DEF DaemonPc, Reading, ReadingInt

\* An exit leaves every variable with its type.
LEMMA ExitType == ASSUME TypeOK, NEW n \in Rank, Exit(n) PROVE TypeOK'
<1>1. mapped' \in [Rank -> SUBSET Page] /\ open' \in [Rank -> SUBSET Rank]
  BY DEF TypeOK, Exit
<1>2. chan' \in [Rank -> [Rank -> Seq(Word)]]
  <2>1. << >> \in Seq(Word)
    OBVIOUS
  <2> QED BY <2>1 DEF TypeOK, Exit
<1>3. main' \in [Rank -> MainState]
  <2>1. MainAt("exited") \in MainState
    BY Starts DEF MainPc
  <2> QED BY <2>1 DEF TypeOK, Exit, MainState
<1>4. daemon' \in [Rank -> DaemonState]
  <2>1. DaemonAt(n, "exited") \in DaemonState
    BY Starts DEF DaemonPc
  <2> QED BY <2>1 DEF TypeOK, Exit, DaemonState
<1>5. UNCHANGED <<table, stdin>>
  BY DEF Exit
<1> QED BY <1>1, <1>2, <1>3, <1>4, <1>5 DEF TypeOK, MainState, DaemonState

\* What the next word of a slot is worth, and what is left once it is taken.
LEMMA TakesType ==
  ASSUME TypeOK, NEW n \in Rank, NEW at, NEW kind, Takes(n, at, kind)
  PROVE  /\ NextWord(n) \in Nat
         /\ chan' \in [Rank -> [Rank -> Seq(Word)]]
<1> DEFINE m == Link[n][daemon[n].slot]
<1>1. m \in Rank
  BY NodeAssumption DEF TypeOK
<1>2. chan[m][n] \in Seq(Word) /\ chan[m][n] # << >>
  <2>1. chan \in [Rank -> [Rank -> Seq(Word)]]
    BY DEF TypeOK
  <2>2. chan[m] \in [Rank -> Seq(Word)]
    BY <1>1, <2>1
  <2>3. chan[m][n] \in Seq(Word)
    BY <2>2
  <2> QED BY <2>3 DEF Takes, Incoming
<1>3. Head(chan[m][n]) \in Word /\ Tail(chan[m][n]) \in Seq(Word)
  BY <1>2
<1>4. NextWord(n) \in Nat
  BY <1>3 DEF NextWord, Incoming, Word
<1>5. chan' \in [Rank -> [Rank -> Seq(Word)]]
  BY <1>1, <1>3 DEF TypeOK, Takes
<1> QED BY <1>4, <1>5

\* A write leaves the channels with their type.
LEMMA DeliversType ==
  ASSUME TypeOK, NEW n \in Rank, NEW o \in Output, Delivers(n, o.fd, o.word)
  PROVE  chan' \in [Rank -> [Rank -> Seq(Word)]]
<1>1. CASE UNCHANGED chan
  BY <1>1 DEF TypeOK
<1>2. CASE /\ o.fd \in open[n]
           /\ chan' = [chan EXCEPT ![n][Link[n][o.fd]] = Append(@, o.word)]
  <2>0. o.fd \in Rank /\ o.word \in Word
    BY <1>2 DEF TypeOK, Output
  <2>1. o.fd \in Rank /\ Link[n][o.fd] \in Rank /\ o.word \in Word
    BY <2>0, NodeAssumption
  <2>2. chan[n][Link[n][o.fd]] \in Seq(Word)
    <3>1. chan \in [Rank -> [Rank -> Seq(Word)]]
      BY DEF TypeOK
    <3>2. chan[n] \in [Rank -> Seq(Word)]
      BY <3>1
    <3> QED BY <2>1, <3>2
  <2>3. Append(chan[n][Link[n][o.fd]], o.word) \in Seq(Word)
    BY <2>1, <2>2
  <2> QED BY <1>2, <2>1, <2>3 DEF TypeOK
<1> QED BY <1>1, <1>2 DEF Delivers

\* No step of the user thread changes the type of a variable.
LEMMA MainType ==
  ASSUME TypeOK, NEW n \in Rank, MainStep(n) \/ Choice(n)
  PROVE  TypeOK'
<1> USE DEF MainState, DaemonState
<1>0. main[n] \in MainState /\ daemon[n] \in DaemonState
  BY DEF TypeOK
<1>1. ASSUME NEW p \in Page, Ask(n, p) PROVE TypeOK'
  <2>1. table[n][p].owner \in Nat
    BY DEF TypeOK
  <2>2. PICK fd \in FdOf(n, table[n][p].owner) :
          main' = [main EXCEPT ![n] = [pc |-> "wait", page |-> p, asked |-> fd,
                                       out |-> Request(fd, p)]]
    BY <1>1 DEF Ask
  <2>3. fd \in Fd
    BY <2>1, Descriptors
  <2>4. Request(fd, p) \in Seq(Output)
    BY <2>3, Requests
  <2>5. main' \in [Rank -> MainState]
    BY <2>2, <2>3, <2>4 DEF TypeOK, MainPc
  <2> QED BY <1>1, <2>5 DEF TypeOK, Ask
<1>2. CASE MainWrite(n)
  <2>1. CASE Exit(n)
    BY <2>1, ExitType
  <2>2. CASE /\ main[n].out # << >>
             /\ Delivers(n, Head(main[n].out).fd, Head(main[n].out).word)
             /\ main' = [main EXCEPT ![n].out = Tail(@)]
             /\ UNCHANGED <<mapped, table, open, stdin, daemon>>
    <3>1. Head(main[n].out) \in Output /\ Tail(main[n].out) \in Seq(Output)
      BY <1>0, <2>2
    <3>2. chan' \in [Rank -> [Rank -> Seq(Word)]]
      BY <2>2, <3>1, DeliversType
    <3>3. [main[n] EXCEPT !.out = Tail(@)] \in MainState
      BY <1>0, <3>1
    <3>4. main' = [main EXCEPT ![n] = [main[n] EXCEPT !.out = Tail(@)]]
      BY <2>2
    <3>5. main' \in [Rank -> MainState]
      BY <3>3, <3>4 DEF TypeOK
    <3> QED BY <2>2, <3>2, <3>5 DEF TypeOK
  <2> QED BY <1>2, <2>1, <2>2 DEF MainWrite
<1>3. CASE EndWait(n)
  <2>1. [main[n] EXCEPT !.pc = "sleep"] \in MainState
    BY <1>0 DEF MainPc
  <2>2. main' \in [Rank -> MainState]
    BY <1>3, <2>1 DEF TypeOK, EndWait
  <2> QED BY <1>3, <2>2 DEF TypeOK, EndWait
<1>4. CASE Retry(n)
  <2>1. CASE main' = [main EXCEPT ![n] = MainAt("run")]
             /\ UNCHANGED <<mapped, table, chan, open, stdin, daemon>>
    <3>1. MainAt("run") \in MainState
      BY Starts DEF MainPc
    <3> QED BY <2>1, <3>1 DEF TypeOK
  <2>2. CASE Ask(n, main[n].page)
    BY <1>0, <1>1, <2>2
  <2> QED BY <1>4, <2>1, <2>2 DEF Retry
<1>5. CASE CloseNext(n)
  <2>0. UNCHANGED <<mapped, table, chan, stdin, daemon>>
    BY <1>5 DEF CloseNext
  <2>1. CASE /\ main' = [main EXCEPT ![n].pc = "joining"]
             /\ UNCHANGED open
    <3>1. [main[n] EXCEPT !.pc = "joining"] \in MainState
      BY <1>0 DEF MainPc
    <3>2. main' \in [Rank -> MainState]
      BY <2>1, <3>1 DEF TypeOK
    <3> QED BY <2>0, <2>1, <3>2 DEF TypeOK
  <2>2. ASSUME NEW s \in open[n], open' = [open EXCEPT ![n] = @ \ {s}], UNCHANGED main
        PROVE  TypeOK'
    <3>1. open' \in [Rank -> SUBSET Rank]
      BY <2>2 DEF TypeOK
    <3> QED BY <2>0, <2>2, <3>1 DEF TypeOK
  <2> QED BY <1>5, <2>1, <2>2 DEF CloseNext
<1>6. CASE Fault(n)
  <2>1. PICK p \in Touches[n] \ mapped[n] : Ask(n, p)
    BY <1>6 DEF Fault
  <2>2. p \in Page
    BY NodeAssumption
  <2> QED BY <1>1, <2>1, <2>2
<1>7. CASE Finalize(n)
  <2>1. [main[n] EXCEPT !.pc = "closing"] \in MainState
    BY <1>0 DEF MainPc
  <2>2. main' \in [Rank -> MainState]
    BY <1>7, <2>1 DEF TypeOK, Finalize
  <2> QED BY <1>7, <2>2 DEF TypeOK, Finalize
<1>8. CASE StdinEnd(n)
  BY <1>8 DEF TypeOK, StdinEnd
<1> QED BY <1>2, <1>3, <1>4, <1>5, <1>6, <1>7, <1>8 DEF MainStep, Choice

\* No step of the communication daemon changes the type of a variable.
LEMMA DaemonType ==
  ASSUME TypeOK, NEW n \in Rank, DaemonStep(n)
  PROVE  TypeOK'
<1> USE DEF MainState, DaemonState
<1>0. daemon[n] \in DaemonState
  BY DEF TypeOK
\* A daemon that only moves to another point of its program.
<1>a. ASSUME NEW at \in DaemonPc, daemon' = [daemon EXCEPT ![n].pc = at]
      PROVE  daemon' \in [Rank -> DaemonState]
  <2>1. [daemon[n] EXCEPT !.pc = at] \in DaemonState
    BY <1>0
  <2>2. daemon' = [daemon EXCEPT ![n] = [daemon[n] EXCEPT !.pc = at]]
    BY <1>a
  <2> QED BY <2>1, <2>2 DEF TypeOK
<1>1. CASE Exit(n)
  BY <1>1, ExitType
\* It is enough to know that the record of the daemon is well formed.
<1>2. ASSUME NEW d \in DaemonState, daemon' = [daemon EXCEPT ![n] = d],
             chan' \in [Rank -> [Rank -> Seq(Word)]],
             table' \in [Rank -> [Page -> [status : {"WRITE", "INVALID"}, owner : Nat]]],
             mapped' \in [Rank -> SUBSET Page],
             UNCHANGED <<open, stdin, main>>
      PROVE  TypeOK'
  BY <1>2 DEF TypeOK
<1>3. Resume(n) \in DaemonState
  BY <1>0, Ranks, Indexes DEF Resume, DaemonPc
<1>4. CASE DaemonWrite(n)
  <2>1. CASE /\ daemon[n].out # << >>
             /\ Delivers(n, Head(daemon[n].out).fd, Head(daemon[n].out).word)
             /\ daemon' = [daemon EXCEPT ![n].out = Tail(@)]
             /\ UNCHANGED <<mapped, table, open, stdin, main>>
    <3>1. Head(daemon[n].out) \in Output /\ Tail(daemon[n].out) \in Seq(Output)
      BY <1>0, <2>1
    <3>2. chan' \in [Rank -> [Rank -> Seq(Word)]]
      BY <2>1, <3>1, DeliversType
    <3>3. [daemon[n] EXCEPT !.out = Tail(@)] \in DaemonState
      BY <1>0, <3>1
    <3>4. daemon' = [daemon EXCEPT ![n] = [daemon[n] EXCEPT !.out = Tail(@)]]
      BY <2>1
    <3>5. mapped' = mapped /\ table' = table /\ UNCHANGED <<open, stdin, main>>
      BY <2>1
    <3> QED BY <1>2, <3>2, <3>3, <3>4, <3>5 DEF TypeOK
  <2> QED BY <1>1, <1>4, <2>1 DEF DaemonWrite
<1>5. CASE Poll(n)
  <2>1. Readable(n) \subseteq Rank
    BY DEF Readable, TypeOK
  <2>2. daemon' \in [Rank -> DaemonState]
    <3>1. [daemon[n] EXCEPT !.pc = "scan", !.ready = Readable(n)] \in DaemonState
      BY <1>0, <2>1, Pcs
    <3>2. daemon' = [daemon EXCEPT ![n] = [daemon[n] EXCEPT !.pc = "scan", !.ready = Readable(n)]]
      BY <1>5 DEF Poll
    <3> QED BY <3>1, <3>2 DEF TypeOK
  <2> QED BY <1>5, <2>2 DEF TypeOK, Poll
<1>6. CASE Scan(n)
  <2>0. UNCHANGED <<mapped, chan, open, stdin, main>>
    BY <1>6 DEF Scan
  <2>1. ASSUME NEW s \in daemon[n].ready, HangUp(n, s)
        PROVE  TypeOK'
    <3>1. s \in Rank
      BY <1>0
    <3>2. table' \in [Rank -> [Page -> [status : {"WRITE", "INVALID"}, owner : Nat]]]
      <4>1. table[n] \in [Page -> [status : {"WRITE", "INVALID"}, owner : Nat]]
        BY DEF TypeOK
      <4>2. [status |-> "INVALID", owner |-> s] \in [status : {"WRITE", "INVALID"}, owner : Nat]
        BY <3>1, Ranks
      <4>3. [p \in Page |-> IF p % DSM_NODE_NUM = s THEN [status |-> "INVALID", owner |-> s]
                                                    ELSE table[n][p]]
              \in [Page -> [status : {"WRITE", "INVALID"}, owner : Nat]]
        BY <4>1, <4>2
      <4>4. table' = [table EXCEPT ![n] =
              [p \in Page |-> IF p % DSM_NODE_NUM = s THEN [status |-> "INVALID", owner |-> s]
                                                      ELSE table[n][p]]]
        BY <2>1 DEF HangUp
      <4> QED BY <4>3, <4>4 DEF TypeOK
    <3>3. daemon' \in [Rank -> DaemonState]
      <4>1. [daemon[n] EXCEPT !.ready = @ \ {s}, !.polled = @ \ {s}] \in DaemonState
        BY <1>0
      <4>2. daemon' = [daemon EXCEPT ![n] =
              [daemon[n] EXCEPT !.ready = @ \ {s}, !.polled = @ \ {s}]]
        BY <2>1 DEF HangUp
      <4> QED BY <4>1, <4>2 DEF TypeOK
    <3> QED BY <2>0, <3>2, <3>3 DEF TypeOK
  <2>2. ASSUME NEW s \in daemon[n].ready,
               daemon' = [daemon EXCEPT ![n].pc = "type", ![n].slot = s,
                                        ![n].ready = @ \ {s}],
               table' = table
        PROVE  TypeOK'
    <3>1. daemon' \in [Rank -> DaemonState]
      <4>1. [daemon[n] EXCEPT !.pc = "type", !.slot = s, !.ready = @ \ {s}] \in DaemonState
        BY <1>0, <2>2, Pcs
      <4>2. daemon' = [daemon EXCEPT ![n] =
              [daemon[n] EXCEPT !.pc = "type", !.slot = s, !.ready = @ \ {s}]]
        BY <2>2
      <4> QED BY <4>1, <4>2 DEF TypeOK
    <3> QED BY <2>0, <2>2, <3>1 DEF TypeOK
  <2> QED BY <1>6, <2>1, <2>2, Zenon DEF Scan
<1>7. CASE EndScan(n)
  <2>1. CASE /\ daemon' = [daemon EXCEPT ![n].pc = "poll"]
             /\ UNCHANGED <<mapped, table, chan, open, stdin, main>>
    BY <1>a, <2>1, Pcs DEF TypeOK
  <2> QED BY <1>1, <1>7, <2>1 DEF EndScan
<1>8. CASE RecvType(n)
  <2>1. chan' \in [Rank -> [Rank -> Seq(Word)]]
    BY <1>8, TakesType DEF RecvType
  <2>2. PICK d \in DaemonState : daemon' = [daemon EXCEPT ![n] = d]
    <3>1. \A at \in DaemonPc : [daemon[n] EXCEPT !.pc = at] \in DaemonState
      BY <1>0
    <3>2. daemon' \in {[daemon EXCEPT ![n] = [daemon[n] EXCEPT !.pc = at]] : at \in DaemonPc}
                     \cup {[daemon EXCEPT ![n] = Resume(n)]}
      BY <1>8, Pcs DEF RecvType
    <3> QED BY <1>3, <3>1, <3>2
  <2> QED BY <1>2, <1>8, <2>1, <2>2 DEF RecvType, TypeOK
<1>9. CASE RecvPageNumber(n)
  <2>1. NextWord(n) \in Nat /\ chan' \in [Rank -> [Rank -> Seq(Word)]]
    BY <1>9, TakesType DEF RecvPageNumber
  <2>2. mapped' \in [Rank -> SUBSET Page]
    BY <1>9 DEF RecvPageNumber, TypeOK
  <2>3. daemon' \in [Rank -> DaemonState]
    <3>1. [daemon[n] EXCEPT !.pc = "len", !.page = NextWord(n)] \in DaemonState
      BY <1>0, <2>1, Pcs
    <3>2. daemon' = [daemon EXCEPT ![n] = [daemon[n] EXCEPT !.pc = "len", !.page = NextWord(n)]]
      BY <1>9 DEF RecvPageNumber
    <3> QED BY <3>1, <3>2 DEF TypeOK
  <2> QED BY <1>9, <2>1, <2>2, <2>3 DEF RecvPageNumber, TypeOK
<1>10. CASE RecvLength(n)
  <2>1. NextWord(n) \in Nat /\ chan' \in [Rank -> [Rank -> Seq(Word)]]
    BY <1>10, TakesType DEF RecvLength
  <2>2. daemon' \in [Rank -> DaemonState]
    <3>1. [daemon[n] EXCEPT !.pc = IF NextWord(n) = 0 THEN "install" ELSE "text", !.len = NextWord(n)]
          \in DaemonState
      BY <1>0, <2>1, Pcs
    <3>2. daemon' = [daemon EXCEPT ![n] =
            [daemon[n] EXCEPT !.pc = IF NextWord(n) = 0 THEN "install" ELSE "text", !.len = NextWord(n)]]
      BY <1>10 DEF RecvLength
    <3> QED BY <3>1, <3>2 DEF TypeOK
  <2> QED BY <1>10, <2>1, <2>2 DEF RecvLength, TypeOK
<1>11. CASE RecvText(n)
  <2>1. chan' \in [Rank -> [Rank -> Seq(Word)]]
    BY <1>11, TakesType DEF RecvText
  <2>2. daemon' \in [Rank -> DaemonState]
    <3>1. [daemon[n] EXCEPT !.pc = "install"] \in DaemonState
      BY <1>0, Pcs
    <3>2. daemon' = [daemon EXCEPT ![n] = [daemon[n] EXCEPT !.pc = "install"]]
      BY <1>11 DEF RecvText
    <3> QED BY <3>1, <3>2 DEF TypeOK
  <2> QED BY <1>11, <2>1, <2>2 DEF RecvText, TypeOK
<1>12. CASE Install(n)
  <2>1. ASSUME daemon[n].page \in Page,
               table' = [table EXCEPT ![n][daemon[n].page] = [status |-> "WRITE", owner |-> n]],
               daemon' = [daemon EXCEPT ![n] = Resume(n)],
               UNCHANGED <<mapped, chan, open, stdin, main>>
        PROVE  TypeOK'
    <3>1. table' \in [Rank -> [Page -> [status : {"WRITE", "INVALID"}, owner : Nat]]]
      BY <2>1, Ranks DEF TypeOK
    <3> QED BY <1>2, <1>3, <2>1, <3>1 DEF TypeOK
  <2> QED BY <1>1, <1>12, <2>1 DEF Install
<1>13. CASE RecvInfoPage(n)
  <2>1. NextWord(n) \in Nat /\ chan' \in [Rank -> [Rank -> Seq(Word)]]
    BY <1>13, TakesType DEF RecvInfoPage
  <2>2. daemon' \in [Rank -> DaemonState]
    <3>1. [daemon[n] EXCEPT !.pc = "infoOwner", !.page = NextWord(n)] \in DaemonState
      BY <1>0, <2>1, Pcs
    <3>2. daemon' = [daemon EXCEPT ![n] =
            [daemon[n] EXCEPT !.pc = "infoOwner", !.page = NextWord(n)]]
      BY <1>13 DEF RecvInfoPage
    <3> QED BY <3>1, <3>2 DEF TypeOK
  <2> QED BY <1>13, <2>1, <2>2 DEF RecvInfoPage, TypeOK
<1>14. CASE RecvInfoOwner(n)
  <2>1. NextWord(n) \in Nat /\ chan' \in [Rank -> [Rank -> Seq(Word)]]
    BY <1>14, TakesType DEF RecvInfoOwner
  <2>2. table' \in [Rank -> [Page -> [status : {"WRITE", "INVALID"}, owner : Nat]]]
    BY <1>14, <2>1 DEF RecvInfoOwner, TypeOK
  <2> QED BY <1>2, <1>3, <1>14, <2>1, <2>2 DEF RecvInfoOwner, TypeOK
<1>15. CASE RecvPageRequest(n)
  <2>1. NextWord(n) \in Nat /\ chan' \in [Rank -> [Rank -> Seq(Word)]]
    BY <1>15, TakesType DEF RecvPageRequest
  <2>2. To(daemon[n].slot, Num(SEND_PAGE)) \in Output
        /\ To(daemon[n].slot, Num(NextWord(n))) \in Output
    BY <1>0, <2>1, Ranks, Words, Outputs DEF SEND_PAGE
  <2>4. <<To(daemon[n].slot, Num(SEND_PAGE)), To(daemon[n].slot, Num(NextWord(n)))>>
          \in Seq(Output)
    BY <2>2
  <2>3. daemon' \in [Rank -> DaemonState]
    <3>1. [daemon[n] EXCEPT !.pc = "copy", !.page = NextWord(n),
           !.out = <<To(daemon[n].slot, Num(SEND_PAGE)), To(daemon[n].slot, Num(NextWord(n)))>>]
                 \in DaemonState
      BY <1>0, <2>1, <2>4, Pcs
    <3>2. daemon' = [daemon EXCEPT ![n] = [daemon[n] EXCEPT !.pc = "copy", !.page = NextWord(n),
           !.out = <<To(daemon[n].slot, Num(SEND_PAGE)), To(daemon[n].slot, Num(NextWord(n)))>>]]
      BY <1>15 DEF RecvPageRequest
    <3> QED BY <3>1, <3>2 DEF TypeOK
  <2> QED BY <1>15, <2>1, <2>3 DEF RecvPageRequest, TypeOK
<1>16. CASE Misframed(n)
  <2>1. chan' \in [Rank -> [Rank -> Seq(Word)]]
    BY <1>16, TakesType DEF Misframed
  <2>2. daemon' \in [Rank -> DaemonState]
    BY <1>a, <1>16, Pcs DEF Misframed
  <2> QED BY <1>16, <2>1, <2>2 DEF Misframed, TypeOK
<1>17. CASE ReadEnds(n)
  <2>1. CASE /\ daemon' = [daemon EXCEPT ![n].pc = "eof"]
             /\ UNCHANGED <<mapped, table, chan, open, stdin, main>>
    BY <1>a, <2>1, Pcs DEF TypeOK
  <2> QED BY <1>1, <1>17, <2>1 DEF ReadEnds
<1>18. CASE CopyPage(n)
  <2> DEFINE s == daemon[n].slot
  <2>1. ASSUME NEW l \in Lengths,
               daemon' = [daemon EXCEPT ![n].pc = "unmap",
                 ![n].out = <<To(s, Num(l))>> \o (IF l = 0 THEN << >> ELSE <<To(s, Text(l))>>)],
               UNCHANGED <<mapped, table, chan, open, stdin, main>>
        PROVE  TypeOK'
    <3>1. To(s, Num(l)) \in Output /\ To(s, Text(l)) \in Output
      BY <1>0, <2>1, Ranks, Words, Outputs, NodeAssumption
    <3>2. <<To(s, Num(l))>> \o (IF l = 0 THEN << >> ELSE <<To(s, Text(l))>>) \in Seq(Output)
      BY <3>1
    <3>3. daemon' \in [Rank -> DaemonState]
      <4>1. [daemon[n] EXCEPT !.pc = "unmap",
             !.out = <<To(s, Num(l))>> \o (IF l = 0 THEN << >> ELSE <<To(s, Text(l))>>)]
                   \in DaemonState
        BY <1>0, <3>2, Pcs
      <4>2. daemon' = [daemon EXCEPT ![n] = [daemon[n] EXCEPT !.pc = "unmap",
             !.out = <<To(s, Num(l))>> \o (IF l = 0 THEN << >> ELSE <<To(s, Text(l))>>)]]
        BY <2>1
      <4> QED BY <4>1, <4>2 DEF TypeOK
    <3> QED BY <2>1, <3>3 DEF TypeOK
  <2>2. ASSUME daemon[n].page \in Page \ mapped[n],
               NEW fd \in FdOf(n, table[n][daemon[n].page].owner),
               daemon' = [daemon EXCEPT ![n].pc = "fault",
                                        ![n].out = Request(fd, daemon[n].page)],
               UNCHANGED <<mapped, table, chan, open, stdin, main>>
        PROVE  TypeOK'
    <3>1. fd \in Fd
      BY <2>2, Descriptors DEF TypeOK
    <3>2. Request(fd, daemon[n].page) \in Seq(Output)
      BY <2>2, <3>1, Requests
    <3>3. daemon' \in [Rank -> DaemonState]
      <4>1. [daemon[n] EXCEPT !.pc = "fault", !.out = Request(fd, daemon[n].page)] \in DaemonState
        BY <1>0, <3>2, Pcs
      <4>2. daemon' = [daemon EXCEPT ![n] =
              [daemon[n] EXCEPT !.pc = "fault", !.out = Request(fd, daemon[n].page)]]
        BY <2>2
      <4> QED BY <4>1, <4>2 DEF TypeOK
    <3> QED BY <2>2, <3>3 DEF TypeOK
  <2> QED BY <1>1, <1>18, <2>1, <2>2 DEF CopyPage
<1>19. CASE EndFault(n)
  BY <1>a, <1>19, Pcs DEF EndFault, TypeOK
<1>20. CASE UnmapPage(n)
  <2>1. mapped' \in [Rank -> SUBSET Page]
    BY <1>20 DEF UnmapPage, TypeOK
  <2>2. daemon' \in [Rank -> DaemonState]
    BY <1>a, <1>20, Pcs DEF UnmapPage
  <2> QED BY <1>20, <2>1, <2>2 DEF UnmapPage, TypeOK
<1>21. CASE Inform(n)
  <2>0. UNCHANGED <<mapped, table, chan, open, stdin, main>>
    BY <1>21, Zenon DEF Inform
  <2> DEFINE next == [daemon[n] EXCEPT !.index = daemon[n].index + 1]
  <2>1. daemon[n].index < PAGE_NUMBER => next \in DaemonState
    BY <1>0, Indexes
  <2>2. ASSUME daemon[n].index < PAGE_NUMBER, NEW fd \in FdOf(n, daemon[n].index),
               daemon' = [daemon EXCEPT ![n] = [next EXCEPT !.out =
                   <<To(fd, Num(SEND_INFO)), To(fd, Num(daemon[n].page)),
                     To(fd, Num(daemon[n].slot))>>]]
        PROVE  TypeOK'
    <3>1. fd \in Fd
      BY <1>0, <2>2, Descriptors, Indexes
    <3>2. /\ To(fd, Num(SEND_INFO)) \in Output
          /\ To(fd, Num(daemon[n].page)) \in Output
          /\ To(fd, Num(daemon[n].slot)) \in Output
      BY <1>0, <3>1, Ranks, Words, Outputs DEF SEND_INFO
    <3>4. <<To(fd, Num(SEND_INFO)), To(fd, Num(daemon[n].page)),
            To(fd, Num(daemon[n].slot))>> \in Seq(Output)
      BY <3>2
    <3>3. daemon' \in [Rank -> DaemonState]
      <4>1. [next EXCEPT !.out = <<To(fd, Num(SEND_INFO)), To(fd, Num(daemon[n].page)),
                              To(fd, Num(daemon[n].slot))>>] \in DaemonState
        BY <2>1, <2>2, <3>4
      <4>2. daemon' = [daemon EXCEPT ![n] =
              [next EXCEPT !.out = <<To(fd, Num(SEND_INFO)), To(fd, Num(daemon[n].page)),
                              To(fd, Num(daemon[n].slot))>>]]
        BY <2>2
      <4> QED BY <4>1, <4>2 DEF TypeOK
    <3> QED BY <2>0, <3>3 DEF TypeOK
  <2>3. CASE daemon[n].index < PAGE_NUMBER /\ daemon' = [daemon EXCEPT ![n] = next]
    BY <1>2, <2>0, <2>1, <2>3 DEF TypeOK
  <2>4. CASE daemon' = [daemon EXCEPT ![n] = Resume(n)]
    BY <1>2, <1>3, <2>0, <2>4 DEF TypeOK
  <2> QED BY <1>21, <2>2, <2>3, <2>4, Zenon DEF Inform
<1> QED BY <1>4, <1>5, <1>6, <1>7, <1>8, <1>9, <1>10, <1>11, <1>12, <1>13, <1>14,
           <1>15, <1>16, <1>17, <1>18, <1>19, <1>20, <1>21 DEF DaemonStep

\* Type correctness: table entries, descriptors and the threads' locals stay
\* in range whatever words the processes read from each other.
THEOREM Typed == Spec => []TypeOK
<1>1. Init => TypeOK
  <2> SUFFICES ASSUME Init PROVE TypeOK
    OBVIOUS
  <2>1. main \in [Rank -> MainState] /\ daemon \in [Rank -> DaemonState]
    BY Starts DEF Init, MainPc, DaemonPc
  <2>2. \A p \in Page : p % DSM_NODE_NUM \in Nat
    BY Pages, NodeAssumption
  <2>3. chan \in [Rank -> [Rank -> Seq(Word)]]
    BY DEF Init
  <2> QED BY <2>1, <2>2, <2>3 DEF Init, TypeOK, MainState, DaemonState
<1>2. TypeOK /\ [Next]_vars => TypeOK'
  <2>1. CASE UNCHANGED vars
    BY <2>1 DEF vars, TypeOK
  <2>2. ASSUME TypeOK, NEW n \in Rank, MainStep(n) \/ DaemonStep(n) \/ Choice(n)
        PROVE  TypeOK'
    BY <2>2, MainType, DaemonType
  <2> QED BY <2>1, <2>2 DEF Next
<1> QED BY <1>1, <1>2, PTL DEF Spec

----------------------------------------------------------------------------
\* The state of a process changes by its own steps only.
LEMMA OthersKeep ==
  ASSUME TypeOK, NEW n \in Rank, NEW m \in Rank \ {n},
         MainStep(m) \/ DaemonStep(m) \/ Choice(m)
  PROVE  /\ mapped'[n] = mapped[n] /\ table'[n] = table[n] /\ daemon'[n] = daemon[n]
         /\ stdin'[n] = stdin[n] /\ open'[n] = open[n]
<1>0. /\ mapped \in [Rank -> SUBSET Page]
      /\ table \in [Rank -> [Page -> [status : {"WRITE", "INVALID"}, owner : Nat]]]
      /\ daemon \in [Rank -> DaemonState]
      /\ stdin \in [Rank -> {"quiet", "eof"}] /\ open \in [Rank -> SUBSET Rank]
  BY DEF TypeOK, DaemonState
<1>1. ASSUME Exit(m)
      PROVE  /\ mapped'[n] = mapped[n] /\ table' = table /\ daemon'[n] = daemon[n]
             /\ stdin' = stdin /\ open'[n] = open[n]
  BY <1>0, <1>1 DEF Exit
<1>2. CASE MainStep(m) \/ Choice(m)
  <2>1. \A p : Ask(m, p) => UNCHANGED <<mapped, table, daemon, stdin, open>>
    BY DEF Ask
  <2> QED BY <1>0, <1>1, <1>2, <2>1 DEF MainStep, Choice, MainWrite, EndWait, Retry, CloseNext,
                                  Fault, Finalize, StdinEnd
<1>3. CASE DaemonStep(m)
  <2>1. CASE DaemonWrite(m)
    BY <1>0, <1>1, <2>1 DEF DaemonWrite
  <2>2. CASE Poll(m) \/ EndScan(m) \/ Misframed(m) \/ ReadEnds(m)
    BY <1>0, <1>1, <2>2 DEF Poll, EndScan, Misframed, ReadEnds
  <2>3. CASE Scan(m)
    BY <1>0, <2>3 DEF Scan, HangUp
  <2>4. CASE RecvType(m)
    BY <1>0, <2>4 DEF RecvType
  <2>5. CASE RecvPageNumber(m) \/ RecvLength(m) \/ RecvText(m)
    BY <1>0, <2>5 DEF RecvPageNumber, RecvLength, RecvText
  <2>6. CASE Install(m)
    BY <1>0, <1>1, <2>6 DEF Install
  <2>7. CASE RecvInfoPage(m) \/ RecvInfoOwner(m) \/ RecvPageRequest(m)
    BY <1>0, <2>7 DEF RecvInfoPage, RecvInfoOwner, RecvPageRequest
  <2>8. CASE CopyPage(m)
    BY <1>0, <1>1, <2>8 DEF CopyPage
  <2>9. CASE EndFault(m) \/ UnmapPage(m)
    BY <1>0, <2>9 DEF EndFault, UnmapPage
  <2>10. CASE Inform(m)
    BY <1>0, <2>10, Zenon DEF Inform
  <2> QED BY <1>3, <2>1, <2>2, <2>3, <2>4, <2>5, <2>6, <2>7, <2>8, <2>9, <2>10 DEF DaemonStep
<1> QED BY <1>2, <1>3

\* A step of a trapped process leaves it trapped.
LEMMA OwnStepKeepsTrap ==
  ASSUME TypeOK, NEW n \in Rank, Trapped(n), MainStep(n) \/ DaemonStep(n) \/ Choice(n)
  PROVE  StaysTrapped(n)
<1>0. daemon \in [Rank -> DaemonState] /\ main \in [Rank -> MainState]
  BY DEF TypeOK, DaemonState, MainState
<1>1. ASSUME Exit(n) PROVE main'[n].pc = "exited"
  BY <1>0, <1>1 DEF Exit, MainAt
<1>2. CASE MainStep(n) \/ Choice(n)
  <2>1. \A p : Ask(n, p) => UNCHANGED <<mapped, table, daemon>>
    BY DEF Ask
  <2>2. Exit(n) \/ UNCHANGED <<mapped, table, daemon>>
    BY <1>2, <2>1 DEF MainStep, Choice, MainWrite, EndWait, Retry, CloseNext,
                      Fault, Finalize, StdinEnd
  <2> QED BY <1>1, <2>2 DEF StaysTrapped, Trapped
<1>3. CASE DaemonStep(n)
  <2>1. daemon[n].pc \in {"copy", "fault"}
    BY DEF Trapped
  <2>2. DaemonWrite(n) \/ CopyPage(n) \/ EndFault(n)
    BY <1>3, <2>1, Zenon DEF DaemonStep, Poll, Scan, EndScan, RecvType, RecvPageNumber, RecvLength,
                      RecvText, Install, RecvInfoPage, RecvInfoOwner, RecvPageRequest,
                      Misframed, ReadEnds, UnmapPage, Inform, Takes, Reading, ReadingInt
  <2>3. CASE DaemonWrite(n)
    <3>1. CASE Exit(n)
      BY <1>1, <3>1 DEF StaysTrapped
    <3>2. CASE /\ daemon' = [daemon EXCEPT ![n].out = Tail(@)]
               /\ UNCHANGED <<mapped, table, open, stdin, main>>
      <4>1. daemon'[n] = [daemon[n] EXCEPT !.out = Tail(@)]
        BY <1>0, <3>2
      <4>2. daemon'[n].pc = daemon[n].pc /\ daemon'[n].page = daemon[n].page
        BY <1>0, <4>1 DEF DaemonState
      <4> QED BY <3>2, <4>2 DEF StaysTrapped, Trapped
    <3> QED BY <2>3, <3>1, <3>2 DEF DaemonWrite
  <2>4. CASE CopyPage(n)
    <3>1. daemon[n].page \in Page \ mapped[n]
      BY DEF Trapped
    <3>2. PICK fd \in FdOf(n, table[n][daemon[n].page].owner) :
            /\ daemon' = [daemon EXCEPT ![n].pc = "fault",
                                        ![n].out = Request(fd, daemon[n].page)]
            /\ UNCHANGED <<mapped, table, chan, open, stdin, main>>
      BY <2>4, <3>1 DEF CopyPage
    <3>3. daemon'[n].pc = "fault" /\ daemon'[n].page = daemon[n].page
      BY <1>0, <3>2 DEF DaemonState
    <3> QED BY <3>1, <3>2, <3>3 DEF StaysTrapped, Trapped
  <2>5. CASE EndFault(n)
    BY <1>0, <2>5 DEF EndFault, StaysTrapped, Trapped
  <2> QED BY <2>2, <2>3, <2>4, <2>5
<1> QED BY <1>2, <1>3

\* Whatever the program, the schedule and the other processes do, a process
\* asked for a page it no longer has never serves anybody again.
THEOREM TrapIsFatal == Spec => ServeFaultIsFatal
<1>1. TypeOK /\ [Next]_vars => [\A n \in Rank : Trapped(n) => StaysTrapped(n)]_vars
  <2> SUFFICES ASSUME TypeOK, Next, NEW n \in Rank, Trapped(n)
               PROVE  StaysTrapped(n)
    OBVIOUS
  <2>1. PICK m \in Rank : MainStep(m) \/ DaemonStep(m) \/ Choice(m)
    BY DEF Next
  <2>2. CASE m = n
    BY <2>1, <2>2, OwnStepKeepsTrap
  <2>3. CASE m # n
    BY <2>1, <2>3, OthersKeep DEF StaysTrapped, Trapped
  <2> QED BY <2>2, <2>3
<1> QED BY <1>1, Typed, PTL DEF Spec, ServeFaultIsFatal

----------------------------------------------------------------------------
\* What HangUpHitsOwnPages rests on: a process has no socket to itself,
\* process 0 does not poll its standard input, and the others find it ready
\* only at its end.
StdinOf(n) ==
  /\ n \notin open[n]
  /\ n = 0 => 0 \notin daemon[n].polled \cup daemon[n].ready
  /\ n \in daemon[n].ready => stdin[n] = "eof"

InvalidOf(n) ==
  \A p \in Page : table[n][p].status = "INVALID" =>
    p % DSM_NODE_NUM = n /\ n # 0 /\ stdin[n] = "eof" /\ StdinKind[n] = "pipe"

\* A process that neither polls, scans nor reads keeps both.
LEMMA QuietStep ==
  ASSUME NEW n \in Rank, StdinOf(n), InvalidOf(n),
         table'[n] = table[n], stdin'[n] = stdin[n], open'[n] \subseteq open[n],
         daemon'[n].ready \subseteq daemon[n].ready, daemon'[n].polled \subseteq daemon[n].polled
  PROVE  StdinOf(n)' /\ InvalidOf(n)'
BY DEF StdinOf, InvalidOf

\* A process that exits changes no table and no standard input.
LEMMA ExitKeepsStdin ==
  ASSUME TypeOK, NEW n \in Rank, StdinOf(n), InvalidOf(n), Exit(n)
  PROVE  StdinOf(n)' /\ InvalidOf(n)'
<1>1. daemon'[n] = DaemonAt(n, "exited") /\ table' = table /\ stdin' = stdin /\ open'[n] = {}
  BY DEF Exit, TypeOK
<1>2. daemon'[n].ready = {} /\ daemon'[n].polled = IF n = 0 THEN Rank \ {0} ELSE Rank
  BY <1>1 DEF DaemonAt
<1> QED BY <1>1, <1>2 DEF StdinOf, InvalidOf

\* The steps of the user thread and of the environment.
LEMMA MainKeepsStdin ==
  ASSUME TypeOK, NEW n \in Rank, StdinOf(n), InvalidOf(n), MainStep(n) \/ Choice(n)
  PROVE  StdinOf(n)' /\ InvalidOf(n)'
<1>1. CASE UNCHANGED <<table, stdin, open, daemon>>
  BY <1>1, QuietStep
<1>2. CASE Exit(n)
  BY <1>2, ExitKeepsStdin
<1>3. CASE StdinEnd(n)
  <2>1. stdin'[n] = "eof" /\ UNCHANGED <<table, open, daemon>>
    BY <1>3 DEF StdinEnd, TypeOK
  <2> QED BY <2>1 DEF StdinOf, InvalidOf
<1>4. CASE CloseNext(n)
  <2>1. UNCHANGED <<table, stdin, daemon>> /\ open'[n] \subseteq open[n]
    BY <1>4 DEF CloseNext, TypeOK
  <2> QED BY <2>1, QuietStep
<1>5. \A p : Ask(n, p) => UNCHANGED <<table, stdin, open, daemon>>
  BY DEF Ask
<1> QED BY <1>1, <1>2, <1>3, <1>4, <1>5
        DEF MainStep, Choice, MainWrite, EndWait, Retry, Fault, Finalize

\* A step of the daemon that leaves the poll and the table alone.
LEMMA DaemonKeepsPoll ==
  ASSUME TypeOK, NEW n \in Rank, ~Exit(n),
         \/ DaemonWrite(n) \/ EndScan(n) \/ Misframed(n) \/ ReadEnds(n) \/ RecvType(n)
         \/ RecvPageNumber(n) \/ RecvLength(n) \/ RecvText(n) \/ RecvInfoPage(n)
         \/ RecvPageRequest(n) \/ CopyPage(n) \/ EndFault(n) \/ UnmapPage(n) \/ Inform(n)
  PROVE  /\ UNCHANGED <<table, stdin, open>>
         /\ daemon'[n].ready = daemon[n].ready /\ daemon'[n].polled = daemon[n].polled
<1>0. daemon \in [Rank -> DaemonState]
  BY DEF TypeOK, DaemonState
<1>r. Resume(n).ready = daemon[n].ready /\ Resume(n).polled = daemon[n].polled
  BY <1>0 DEF Resume, DaemonState
<1>1. CASE DaemonWrite(n) \/ EndScan(n) \/ Misframed(n) \/ ReadEnds(n)
  BY <1>0, <1>1 DEF DaemonState, DaemonWrite, EndScan, Misframed, ReadEnds
<1>2. CASE RecvType(n)
  <2>1. \/ \E at \in DaemonPc : daemon'[n] = [daemon[n] EXCEPT !.pc = at]
        \/ daemon'[n] = Resume(n)
    BY <1>0, <1>2, Pcs DEF RecvType
  <2> QED BY <1>0, <1>r, <1>2, <2>1 DEF RecvType, DaemonState
<1>3. CASE RecvPageNumber(n) \/ RecvLength(n) \/ RecvText(n)
  BY <1>0, <1>3 DEF DaemonState, RecvPageNumber, RecvLength, RecvText
<1>4. CASE RecvInfoPage(n) \/ RecvPageRequest(n)
  BY <1>0, <1>4 DEF DaemonState, RecvInfoPage, RecvPageRequest
<1>5. CASE EndFault(n) \/ UnmapPage(n)
  BY <1>0, <1>5 DEF DaemonState, EndFault, UnmapPage
<1>7. CASE CopyPage(n)
  <2>1. \/ \E out : daemon' = [daemon EXCEPT ![n].pc = "unmap", ![n].out = out]
        \/ \E out : daemon' = [daemon EXCEPT ![n].pc = "fault", ![n].out = out]
    BY <1>7 DEF CopyPage
  <2>2. UNCHANGED <<table, stdin, open>>
    BY <1>7 DEF CopyPage
  <2> QED BY <1>0, <2>1, <2>2 DEF DaemonState
<1>6. CASE Inform(n)
  <2>1. UNCHANGED <<table, stdin, open>>
    BY <1>6, Zenon DEF Inform
  <2> DEFINE next == [daemon[n] EXCEPT !.index = daemon[n].index + 1]
  <2>2. next.ready = daemon[n].ready /\ next.polled = daemon[n].polled
    BY <1>0 DEF DaemonState
  <2>3. \A out : /\ [next EXCEPT !.out = out].ready = daemon[n].ready
                 /\ [next EXCEPT !.out = out].polled = daemon[n].polled
    BY <1>0 DEF DaemonState
  <2>4. \/ \E out : daemon'[n] = [next EXCEPT !.out = out]
        \/ daemon'[n] = next
        \/ daemon'[n] = Resume(n)
    BY <1>0, <1>6, Zenon DEF Inform
  <2> QED BY <1>r, <2>1, <2>2, <2>3, <2>4, Zenon
<1> QED BY <1>1, <1>2, <1>3, <1>4, <1>5, <1>6, <1>7

\* The steps of the daemon.
LEMMA DaemonKeepsStdin ==
  ASSUME TypeOK, NEW n \in Rank, StdinOf(n), InvalidOf(n), DaemonStep(n)
  PROVE  StdinOf(n)' /\ InvalidOf(n)'
<1>0. daemon \in [Rank -> DaemonState] /\ stdin \in [Rank -> {"quiet", "eof"}]
  BY DEF TypeOK, DaemonState
<1>t. table \in [Rank -> [Page -> [status : {"WRITE", "INVALID"}, owner : Nat]]]
  BY DEF TypeOK
<1>r. Resume(n).ready = daemon[n].ready /\ Resume(n).polled = daemon[n].polled
  BY <1>0 DEF Resume, DaemonState
<1>1. CASE Exit(n)
  BY <1>1, ExitKeepsStdin
<1>2. CASE /\ UNCHANGED <<table, stdin, open>>
           /\ daemon'[n].ready = daemon[n].ready /\ daemon'[n].polled = daemon[n].polled
  BY <1>2, QuietStep
\* A poll finds the standard input ready at its end only.
<1>3. CASE Poll(n)
  <2>1. /\ daemon'[n].ready = Readable(n) /\ daemon'[n].polled = daemon[n].polled
        /\ UNCHANGED <<table, stdin, open>>
    BY <1>0, <1>3 DEF DaemonState, Poll
  <2>2. Readable(n) \subseteq daemon[n].polled
    BY DEF Readable
  <2>3. n \in Readable(n) => stdin[n] = "eof"
    BY DEF Readable, StdinOf
  <2> QED BY <2>1, <2>2, <2>3 DEF StdinOf, InvalidOf
\* Only the standard input can be hung up.
<1>4. CASE Scan(n)
  <2>0. UNCHANGED <<stdin, open>>
    BY <1>4 DEF Scan
  <2>1. CASE n \in daemon[n].ready /\ StdinKind[n] = "pipe" /\ HangUp(n, n)
    <3>1. /\ daemon'[n].ready \subseteq daemon[n].ready
          /\ daemon'[n].polled \subseteq daemon[n].polled
      BY <1>0, <2>1 DEF DaemonState, HangUp
    <3>2. \A p \in Page : p % DSM_NODE_NUM # n => table'[n][p] = table[n][p]
      BY <1>t, <2>1 DEF HangUp
    <3>3. n # 0 /\ stdin[n] = "eof"
      BY <2>1 DEF StdinOf
    <3> QED BY <2>0, <2>1, <3>1, <3>2, <3>3 DEF StdinOf, InvalidOf
  <2>2. ASSUME NEW s \in daemon[n].ready, table' = table,
               daemon' = [daemon EXCEPT ![n].pc = "type", ![n].slot = s,
                                        ![n].ready = @ \ {s}]
        PROVE  StdinOf(n)' /\ InvalidOf(n)'
    <3>1. /\ daemon'[n].ready \subseteq daemon[n].ready
          /\ daemon'[n].polled \subseteq daemon[n].polled
      BY <1>0, <2>2 DEF DaemonState
    <3> QED BY <2>0, <2>2, <3>1, QuietStep
  <2> QED BY <1>4, <2>1, <2>2, Zenon DEF Scan
\* The other changes of the table write WRITE.
<1>5. CASE Install(n) \/ RecvInfoOwner(n)
  <2>1. CASE ~Exit(n)
    <3>1. /\ UNCHANGED <<stdin, open>>
          /\ daemon'[n].ready = daemon[n].ready /\ daemon'[n].polled = daemon[n].polled
      BY <1>0, <1>r, <1>5, <2>1 DEF DaemonState, Install, RecvInfoOwner
    <3>2. \A p \in Page : table'[n][p].status = "INVALID" => table[n][p].status = "INVALID"
      BY <1>t, <1>5, <2>1 DEF Install, RecvInfoOwner
    <3> QED BY <3>1, <3>2 DEF StdinOf, InvalidOf
  <2> QED BY <1>1, <2>1
<1> QED BY <1>1, <1>2, <1>3, <1>4, <1>5, DaemonKeepsPoll DEF DaemonStep

\* No process ever marks the pages of another one INVALID, whoever hangs up.
THEOREM HangUpIsLocal == Spec => []HangUpHitsOwnPages
<1> DEFINE Inv == TypeOK /\ \A n \in Rank : StdinOf(n) /\ InvalidOf(n)
<1>1. Init => \A n \in Rank : StdinOf(n) /\ InvalidOf(n)
  BY DEF Init, DaemonAt, StdinOf, InvalidOf
<1>2. Inv /\ TypeOK' /\ [Next]_vars => Inv'
  <2> SUFFICES ASSUME Inv, TypeOK', [Next]_vars, NEW n \in Rank
               PROVE  StdinOf(n)' /\ InvalidOf(n)'
    OBVIOUS
  <2>1. CASE UNCHANGED vars
    BY <2>1, QuietStep DEF vars
  <2>2. ASSUME NEW m \in Rank, MainStep(m) \/ DaemonStep(m) \/ Choice(m)
        PROVE  StdinOf(n)' /\ InvalidOf(n)'
    <3>1. CASE m = n
      BY <2>2, <3>1, MainKeepsStdin, DaemonKeepsStdin
    <3>2. CASE m # n
      BY <2>2, <3>2, OthersKeep, QuietStep
    <3> QED BY <3>1, <3>2
  <2> QED BY <2>1, <2>2 DEF Next
<1>3. Inv => HangUpHitsOwnPages
  BY DEF InvalidOf, HangUpHitsOwnPages
<1> QED BY <1>1, <1>2, <1>3, Typed, PTL DEF Spec

----------------------------------------------------------------------------
(* Messages stay whole                                                     *)

\* What the reader of a connection expects before one of the words on it.
Ahead == [at : Reading, page : Nat, len : Nat]

\* For the connection from n to m, a view says that for every word on it, and
\* for the one that comes behind them all.
Views == [Rank -> [Rank -> [Nat -> Ahead]]]

\* The view begins where the daemon that reads is.
Begins(m, s, a) ==
  IF daemon[m].slot = s /\ daemon[m].pc \in Reading
    THEN /\ a.at = daemon[m].pc
         /\ a.at \in {"len", "text"} => a.page = daemon[m].page
         /\ a.at = "text" => a.len = daemon[m].len
    ELSE a.at = "type"

\* Word w is one that a reader in a may read; it is in b behind it.
Legal(a, w, b) ==
  \/ /\ a.at = "type" /\ w.kind = "int"
     /\ \/ w.val = SEND_PAGE /\ b.at = "page"
        \/ w.val = SEND_INFO /\ b.at = "infoPage"
        \/ w.val = PAGE_REQUEST /\ b.at = "wanted"
  \/ a.at = "page" /\ w.kind = "int" /\ b.at = "len" /\ b.page = w.val
  \/ a.at = "len" /\ w.kind = "int" /\ w.val = 0 /\ b.at = "type"
  \/ /\ a.at = "len" /\ w.kind = "int" /\ w.val # 0
     /\ b.at = "text" /\ b.page = a.page /\ b.len = w.val
  \/ a.at = "text" /\ w.kind = "text" /\ w.val = a.len /\ b.at = "type"
  \/ a.at = "infoPage" /\ w.kind = "int" /\ b.at = "infoOwner"
  \/ a.at \in {"infoOwner", "wanted"} /\ w.kind = "int" /\ b.at = "type"

\* The view ends where the sender is: which word of a message it still owes.
PageOwed(d) ==
  IF d.pc = "copy" THEN IF Len(d.out) = 2 THEN "type"
                        ELSE IF Len(d.out) = 1 THEN "page" ELSE "len"
  ELSE IF d.pc = "fault" THEN "len"
  ELSE IF d.out = <<>> THEN "type"
  ELSE IF Head(d.out).word.kind = "int" THEN "len" ELSE "text"

InfoOwed(d) ==
  IF Len(d.out) = 2 THEN "infoPage" ELSE IF Len(d.out) = 1 THEN "infoOwner" ELSE "type"

DaemonOwed(n, r) ==
  IF daemon[n].pc \in {"copy", "unmap", "fault"} /\ daemon[n].slot = r
    THEN PageOwed(daemon[n])
  ELSE IF daemon[n].pc = "fault" /\ Len(daemon[n].out) = 1 /\ Head(daemon[n].out).fd = r
    THEN "wanted"
  ELSE IF daemon[n].pc = "inform" /\ daemon[n].out # <<>> /\ Head(daemon[n].out).fd = r
    THEN InfoOwed(daemon[n])
  ELSE "type"

Asked(n, r) == Len(main[n].out) = 1 /\ Head(main[n].out).fd = r

Owed(n, r) == IF Asked(n, r) THEN "wanted" ELSE DaemonOwed(n, r)

Ends(n, r, a) ==
  /\ a.at = Owed(n, r)
  /\ a.at \in {"len", "text"} => a.page = daemon[n].page
  /\ a.at = "text" => a.len = Head(daemon[n].out).word.val

\* Slot s of m is the connection from Link[m][s].
Framed(st) ==
  /\ \A m \in Rank : \A s \in Rank \ {m} : Begins(m, s, st[Link[m][s]][m][0])
  /\ \A n, m \in Rank : \A i \in 1 .. Len(chan[n][m]) :
       Legal(st[n][m][i - 1], chan[n][m][i], st[n][m][i])
  /\ \A n \in Rank : \A r \in Rank \ {n} :
       Ends(n, r, st[n][Link[n][r]][Len(chan[n][Link[n][r]])])

\* What the two threads of a process may still have to write.
MainOut(n) ==
  LET d == main[n]
  IN  /\ d.out \in {<<>>, Request(d.asked, d.page), <<To(d.asked, Num(d.page))>>}
      /\ d.out # <<>> => d.pc = "wait"

DaemonOut(n) ==
  LET d == daemon[n]
      s == d.slot
  IN  /\ d.pc = "copy" => d.out \in {<<To(s, Num(SEND_PAGE)), To(s, Num(d.page))>>,
                                     <<To(s, Num(d.page))>>, <<>>}
      /\ d.pc = "unmap" =>
           \/ d.out \in {<<>>, <<To(s, Num(0))>>}
           \/ \E l \in Nat \ {0} : d.out \in {<<To(s, Num(l)), To(s, Text(l))>>, <<To(s, Text(l))>>}
      /\ d.pc = "fault" => \E fd \in Fd :
           d.out \in {Request(fd, d.page), <<To(fd, Num(d.page))>>, <<>>}
      /\ d.pc = "inform" => \E fd \in Fd :
           d.out \in {<<To(fd, Num(SEND_INFO)), To(fd, Num(d.page)), To(fd, Num(s))>>,
                      <<To(fd, Num(d.page)), To(fd, Num(s))>>, <<To(fd, Num(s))>>, <<>>}
      /\ d.pc \notin {"copy", "unmap", "fault", "inform"} => d.out = <<>>

\* Where the daemon is, and what it has mapped.
Busy == {"page", "len", "text", "install", "infoPage", "infoOwner", "wanted",
         "copy", "unmap", "fault", "inform"}
DaemonPlace(n) ==
  LET d == daemon[n]
  IN  /\ d.pc \notin {"desync", "exited"}
      /\ d.pc \in Busy => d.slot # n
      /\ d.pc \in {"len", "text", "install"} /\ d.page \in Page => d.page \in mapped[n]
      /\ d.pc = "unmap" => d.page \in mapped[n]

Shaped ==
  /\ open = [n \in Rank |-> Rank \ {n}]
  /\ \A n \in Rank : MainOut(n) /\ DaemonOut(n) /\ DaemonPlace(n)

----------------------------------------------------------------------------
\* Slots lead to other processes, different slots to different ones, and
\* there is a slot for each.
LEMMA Links ==
  /\ \A n \in Rank : \A r \in Rank \ {n} : Link[n][r] \in Rank \ {n}
  /\ \A n \in Rank : \A m \in Rank \ {n} : \E r \in Rank \ {n} : Link[n][r] = m
  /\ \A n \in Rank : \A r, s \in Rank : Link[n][r] = Link[n][s] => r = s
<1>1. \A n \in Rank : /\ Link[n] \in [Rank -> Rank] /\ Link[n][n] = n
                      /\ \A r, s \in Rank : Link[n][r] = Link[n][s] => r = s
  BY NodeAssumption
<1>2. IsFiniteSet(Rank)
  <2>1. 0 \in Int /\ DSM_NODE_NUM - 1 \in Int
    BY NodeAssumption
  <2> QED BY <2>1, FS_Interval DEF Rank
<1>3. ASSUME NEW n \in Rank, NEW m \in Rank \ {n}
      PROVE  \E r \in Rank \ {n} : Link[n][r] = m
  <2>1. Link[n] \in Injection(Rank, Rank)
    BY <1>1 DEF Injection, IsInjective
  <2>2. Link[n] \in Surjection(Rank, Rank)
    BY <1>2, <2>1, FS_Injection
  <2>3. PICK r \in Rank : Link[n][r] = m
    BY <2>2 DEF Surjection
  <2> QED BY <1>1, <2>3
<1>4. ASSUME NEW n \in Rank, NEW r \in Rank \ {n}
      PROVE  Link[n][r] \in Rank \ {n}
  <2>1. Link[n][r] # n
    BY <1>1
  <2> QED BY <1>1, <2>1
<1> QED BY <1>1, <1>3, <1>4

\* While everybody is there, a write reaches the other end of its slot, or
\* goes back to the launcher.
LEMMA DeliversTo ==
  ASSUME TypeOK, open = [k \in Rank |-> Rank \ {k}], NEW n \in Rank, NEW fd, NEW w,
         Delivers(n, fd, w)
  PROVE  \/ fd = Stdin /\ UNCHANGED chan
         \/ /\ fd \in Rank \ {n}
            /\ chan' = [chan EXCEPT ![n][Link[n][fd]] = Append(@, w)]
<1>1. CASE fd \in open[n]
  <2>1. fd \in Rank \ {n}
    BY <1>1
  <2>2. Link[n][fd] \in Rank \ {n}
    BY <2>1, Links
  <2>3. Connected(n, fd)
    <3>1. PICK r \in Rank \ {Link[n][fd]} : Link[Link[n][fd]][r] = n
      BY <2>2, Links
    <3> QED BY <2>2, <3>1 DEF Connected
  <2>4. fd # Stdin
    BY <2>1, NodeAssumption DEF Rank, Stdin
  <2> QED BY <2>1, <2>3, <2>4 DEF Delivers
<1> QED BY <1>1 DEF Delivers


\* The channels, without the rest of TypeOK.
LEMMA Channels == TypeOK => \A n, m \in Rank : chan[n] \in [Rank -> Seq(Word)] /\ chan[n][m] \in Seq(Word)
<1> SUFFICES ASSUME TypeOK, NEW n \in Rank, NEW m \in Rank
             PROVE  chan[n] \in [Rank -> Seq(Word)] /\ chan[n][m] \in Seq(Word)
  OBVIOUS
<1>1. chan[n] \in [Rank -> Seq(Word)]
  BY DEF TypeOK
<1> QED BY <1>1

LEMMA Seen ==
  ASSUME NEW st \in Views, NEW n \in Rank, NEW m \in Rank, NEW i \in Nat
  PROVE  st[n] \in [Rank -> [Nat -> Ahead]] /\ st[n][m] \in [Nat -> Ahead] /\ st[n][m][i] \in Ahead
<1>1. st[n] \in [Rank -> [Nat -> Ahead]]
  BY DEF Views
<1>2. st[n][m] \in [Nat -> Ahead]
  BY <1>1
<1> QED BY <1>1, <1>2

\* What a step of n leaves: the other processes, what the daemon expects on
\* some slots, what is owed on some slots.
OthersStay(n)    == \A k \in Rank \ {n} : main'[k] = main[k] /\ daemon'[k] = daemon[k]
BeginsStay(n, S) == \A s \in S, a \in Ahead : Begins(n, s, a) => Begins(n, s, a)'
EndsStay(n, S)   == \A r \in S, a \in Ahead : Ends(n, r, a) => Ends(n, r, a)'

\* The two ends of a view, behind a step of n.
LEMMA EndsOfOthers ==
  ASSUME NEW n \in Rank, OthersStay(n), NEW k \in Rank, NEW a \in Ahead, NEW s
  PROVE  /\ k # n => (Begins(k, s, a)' <=> Begins(k, s, a)) /\ (Ends(k, s, a)' <=> Ends(k, s, a))
         /\ \A S : s \in S /\ BeginsStay(n, S) /\ Begins(k, s, a) => Begins(k, s, a)'
         /\ \A S : s \in S /\ EndsStay(n, S) /\ Ends(k, s, a) => Ends(k, s, a)'
<1>1. ASSUME k # n
      PROVE  (Begins(k, s, a)' <=> Begins(k, s, a)) /\ (Ends(k, s, a)' <=> Ends(k, s, a))
  <2>1. main'[k] = main[k] /\ daemon'[k] = daemon[k]
    BY <1>1 DEF OthersStay
  <2>2. Owed(k, s)' = Owed(k, s)
    BY <2>1 DEF Owed, Asked, DaemonOwed, PageOwed, InfoOwed
  <2> QED BY <2>1, <2>2 DEF Begins, Ends
<1> QED BY <1>1 DEF BeginsStay, EndsStay

\* The ends of the views of all connections, for a given state.
LEMMA ViewEnds ==
  ASSUME TypeOK, NEW st \in Views, Framed(st), NEW n \in Rank, NEW r \in Rank \ {n}
  PROVE  /\ Link[n][r] \in Rank \ {n}
         /\ st[Link[n][r]][n][0] \in Ahead /\ Begins(n, r, st[Link[n][r]][n][0])
         /\ Len(chan[n][Link[n][r]]) \in Nat
         /\ st[n][Link[n][r]][Len(chan[n][Link[n][r]])] \in Ahead
         /\ Ends(n, r, st[n][Link[n][r]][Len(chan[n][Link[n][r]])])
<1>1. Link[n][r] \in Rank \ {n}
  BY Links
<1>2. Len(chan[n][Link[n][r]]) \in Nat
  BY <1>1, Channels
<1> QED BY <1>1, <1>2, Seen DEF Framed

\* A step that touches no channel keeps the view.
LEMMA LocalFramed ==
  ASSUME TypeOK, NEW st \in Views, Framed(st), NEW n \in Rank, chan' = chan,
         BeginsStay(n, Rank \ {n}), EndsStay(n, Rank \ {n}), OthersStay(n)
  PROVE  Framed(st)'
<1>1. ASSUME NEW m \in Rank, NEW s \in Rank \ {m} PROVE Begins(m, s, st[Link[m][s]][m][0])'
  BY <1>1, ViewEnds, EndsOfOthers
<1>2. ASSUME NEW m \in Rank, NEW r \in Rank \ {m}
      PROVE  Ends(m, r, st[m][Link[m][r]][Len(chan[m][Link[m][r]])])'
  BY <1>2, ViewEnds, EndsOfOthers
<1> QED BY <1>1, <1>2 DEF Framed

\* What a word more or a word less makes of a sequence.
LEMMA Longer ==
  ASSUME NEW s \in Seq(Word), NEW w \in Word
  PROVE  /\ Len(s) \in Nat /\ Len(Append(s, w)) = Len(s) + 1
         /\ \A i \in 1 .. Len(s) : Append(s, w)[i] = s[i]
         /\ Append(s, w)[Len(s) + 1] = w
OBVIOUS

LEMMA Shorter ==
  ASSUME NEW s \in Seq(Word), s # << >>
  PROVE  /\ Len(s) \in Nat \ {0} /\ Len(Tail(s)) = Len(s) - 1 /\ Head(s) = s[1] /\ Head(s) \in Word
         /\ \A i \in 1 .. Len(s) - 1 : Tail(s)[i] = s[i + 1]
OBVIOUS

\* Places in a sequence of words.
LEMMA Counts ==
  ASSUME NEW l \in Nat
  PROVE  /\ 0 # l + 1 /\ l + 1 \in Nat /\ (l + 1) - 1 = l /\ l # l + 1
         /\ \A i \in 1 .. l + 1 : i # l + 1 =>
              i \in 1 .. l /\ i \in Nat /\ i - 1 \in Nat /\ i - 1 # l + 1
OBVIOUS

\* Word w is written from n to m, and what a view becomes.
Pushed(n, m, w) ==
  /\ Len(chan[n][m]) \in Nat /\ Len(chan'[n][m]) = Len(chan[n][m]) + 1
  /\ \A i \in 1 .. Len(chan[n][m]) : chan'[n][m][i] = chan[n][m][i]
  /\ chan'[n][m][Len(chan[n][m]) + 1] = w
  /\ \A x, y \in Rank : x # n \/ y # m => chan'[x][y] = chan[x][y]

Extended(st, st2, n, m, l, b) ==
  /\ st2 \in Views
  /\ \A x, y \in Rank : x # n \/ y # m => st2[x][y] = st[x][y]
  /\ \A i \in Nat : i # l => st2[n][m][i] = st[n][m][i]
  /\ st2[n][m][l] = b

LEMMA Appended ==
  ASSUME TypeOK, NEW n \in Rank, NEW m \in Rank, NEW w \in Word,
         chan' = [chan EXCEPT ![n][m] = Append(@, w)]
  PROVE  Pushed(n, m, w)
<1>1. chan[n][m] \in Seq(Word) /\ chan \in [Rank -> [Rank -> Seq(Word)]]
  BY Channels DEF TypeOK
<1>2. chan'[n][m] = Append(chan[n][m], w)
  BY <1>1
<1>3. \A x, y \in Rank : x # n \/ y # m => chan'[x][y] = chan[x][y]
  BY <1>1
<1> QED BY <1>1, <1>2, <1>3, Longer DEF Pushed

\* The view of one connection is exchanged for another.
LEMMA Reviewed ==
  ASSUME NEW st \in Views, NEW n \in Rank, NEW m \in Rank, NEW v \in [Nat -> Ahead]
  PROVE  \E st2 \in Views : /\ st2[n][m] = v
                            /\ \A x, y \in Rank : x # n \/ y # m => st2[x][y] = st[x][y]
<1> DEFINE st2 == [st EXCEPT ![n][m] = v]
<1>1. st \in [Rank -> [Rank -> [Nat -> Ahead]]]
  BY DEF Views
<1>2. /\ st2 \in Views /\ st2[n][m] = v
      /\ \A x, y \in Rank : x # n \/ y # m => st2[x][y] = st[x][y]
  BY <1>1 DEF Views
<1> QED BY <1>2

LEMMA Extension ==
  ASSUME NEW st \in Views, NEW n \in Rank, NEW m \in Rank, NEW l \in Nat, NEW b \in Ahead
  PROVE  \E st2 : Extended(st, st2, n, m, l, b)
<1>1. st[n][m] \in [Nat -> Ahead]
  BY Seen
<1>2. PICK v \in [Nat -> Ahead] : v[l] = b /\ \A i \in Nat : i # l => v[i] = st[n][m][i]
  <2>1. /\ [st[n][m] EXCEPT ![l] = b] \in [Nat -> Ahead]
        /\ [st[n][m] EXCEPT ![l] = b][l] = b
        /\ \A i \in Nat : i # l => [st[n][m] EXCEPT ![l] = b][i] = st[n][m][i]
    BY <1>1
  <2> QED BY <2>1, Zenon
<1>3. PICK st2 \in Views : /\ st2[n][m] = v
                           /\ \A x, y \in Rank : x # n \/ y # m => st2[x][y] = st[x][y]
  BY <1>2, Reviewed
<1>4. Extended(st, st2, n, m, l, b)
  BY <1>2, <1>3 DEF Extended
<1> QED BY <1>4

\* A word is appended: the view gets one entry more.
LEMMA AppendFramed ==
  ASSUME TypeOK, NEW st \in Views, Framed(st), NEW n \in Rank, NEW r \in Rank \ {n},
         NEW m, m = Link[n][r], NEW w, NEW b, Pushed(n, m, w),
         Legal(st[n][m][Len(chan[n][m])], w, b), Ends(n, r, b)',
         EndsStay(n, Rank \ {n, r}), BeginsStay(n, Rank \ {n}), OthersStay(n),
         NEW st2, Extended(st, st2, n, m, Len(chan[n][m]) + 1, b)
  PROVE  st2 \in Views /\ Framed(st2)'
<1>m. m \in Rank \ {n}
  BY Links
<1>1. /\ Len(chan[n][m]) \in Nat /\ Len(chan'[n][m]) = Len(chan[n][m]) + 1
      /\ \A i \in 1 .. Len(chan[n][m]) : chan'[n][m][i] = chan[n][m][i]
      /\ chan'[n][m][Len(chan[n][m]) + 1] = w
      /\ \A x, y \in Rank : x # n \/ y # m => chan'[x][y] = chan[x][y]
  BY Zenon DEF Pushed
<1>2. /\ st2 \in Views
      /\ \A x, y \in Rank : x # n \/ y # m => st2[x][y] = st[x][y]
      /\ \A i \in Nat : i # Len(chan[n][m]) + 1 => st2[n][m][i] = st[n][m][i]
      /\ st2[n][m][Len(chan[n][m]) + 1] = b
  BY Zenon DEF Extended
<1>l. Len(chan[n][m]) \in Nat
  BY <1>1
<1>3. ASSUME NEW k \in Rank, NEW s \in Rank \ {k} PROVE Begins(k, s, st2[Link[k][s]][k][0])'
  <2>1. st2[Link[k][s]][k][0] = st[Link[k][s]][k][0]
    <3>1. Link[k][s] \in Rank
      BY Links
    <3>2. 0 \in Nat /\ 0 # Len(chan[n][m]) + 1
      BY <1>l, Counts
    <3> QED BY <1>2, <3>1, <3>2
  <2>2. Begins(k, s, st[Link[k][s]][k][0])'
    BY <1>3, ViewEnds, EndsOfOthers, Zenon
  <2> QED BY <2>1, <2>2
<1>4. ASSUME NEW x \in Rank, NEW y \in Rank, NEW i \in 1 .. Len(chan'[x][y])
      PROVE  Legal(st2[x][y][i - 1], chan'[x][y][i], st2[x][y][i])
  <2>0. \A j \in 1 .. Len(chan[x][y]) : Legal(st[x][y][j - 1], chan[x][y][j], st[x][y][j])
    BY Zenon DEF Framed
  <2>1. CASE x # n \/ y # m
    <3>1. chan'[x][y] = chan[x][y] /\ st2[x][y] = st[x][y]
      BY <1>1, <1>2, <2>1, Zenon
    <3>2. i \in 1 .. Len(chan[x][y])
      BY <3>1
    <3> QED BY <2>0, <3>1, <3>2
  <2>2. CASE x = n /\ y = m
    <3>1. i \in 1 .. Len(chan[n][m]) + 1
      BY <1>1, <2>2, Zenon
    <3>2. CASE i = Len(chan[n][m]) + 1
      <4>1. i - 1 = Len(chan[n][m]) /\ i - 1 # Len(chan[n][m]) + 1
        BY <1>l, <3>2, Counts, Zenon
      <4>2. st2[n][m][i - 1] = st[n][m][Len(chan[n][m])]
        BY <1>1, <1>2, <4>1, Zenon
      <4> QED BY <1>1, <1>2, <2>2, <3>2, <4>2, Zenon
    <3>3. CASE i # Len(chan[n][m]) + 1
      <4>1. i \in 1 .. Len(chan[n][m]) /\ i - 1 \in Nat /\ i - 1 # Len(chan[n][m]) + 1 /\ i \in Nat
        BY <1>l, <3>1, <3>3, Counts
      <4>2. st2[n][m][i - 1] = st[n][m][i - 1] /\ st2[n][m][i] = st[n][m][i]
        BY <1>2, <3>3, <4>1, Zenon
      <4>3. chan'[n][m][i] = chan[n][m][i]
        BY <1>1, <4>1, Zenon
      <4> QED BY <2>0, <2>2, <4>1, <4>2, <4>3, Zenon
    <3> QED BY <3>2, <3>3
  <2> QED BY <2>1, <2>2
<1>5. ASSUME NEW x \in Rank, NEW q \in Rank \ {x}
      PROVE  Ends(x, q, st2[x][Link[x][q]][Len(chan[x][Link[x][q]])])'
  <2>1. CASE x = n /\ q = r
    <3>1. st2[x][Link[x][q]][Len(chan'[x][Link[x][q]])] = b
      BY <1>1, <1>2, <2>1, Zenon
    <3> QED BY <2>1, <3>1
  <2>2. CASE x # n \/ q # r
    <3>1. Link[x][q] \in Rank /\ (x # n \/ Link[x][q] # m)
      BY <2>2, Links, Zenon
    <3>2. chan'[x][Link[x][q]] = chan[x][Link[x][q]] /\ st2[x][Link[x][q]] = st[x][Link[x][q]]
      BY <1>1, <1>2, <3>1, Zenon
    <3>3. Ends(x, q, st[x][Link[x][q]][Len(chan[x][Link[x][q]])])'
      <4> DEFINE a == st[x][Link[x][q]][Len(chan[x][Link[x][q]])]
      <4>1. a \in Ahead /\ Ends(x, q, a)
        BY ViewEnds, Zenon
      <4>2. CASE x = n
        <5>1. q \in Rank \ {n, r}
          BY <2>2, <4>2
        <5>2. Ends(n, q, a)
          BY <4>1, <4>2, Zenon
        <5>3. Ends(n, q, a)'
          BY <3>2, <4>1, <5>1, <5>2, EndsOfOthers, Zenon
        <5> QED BY <3>2, <4>2, <5>3, Zenon
      <4>3. CASE x # n
        BY <3>2, <4>1, <4>3, EndsOfOthers, Zenon
      <4> QED BY <4>2, <4>3, Zenon
    <3> QED BY <3>2, <3>3, Zenon
  <2> QED BY <2>1, <2>2, Zenon
<1> QED BY <1>2, <1>3, <1>4, <1>5, Zenon DEF Framed

\* The first word from m is read by n, and what a view becomes.
Popped(m, n) ==
  /\ Len(chan[m][n]) \in Nat \ {0} /\ Len(chan'[m][n]) = Len(chan[m][n]) - 1
  /\ \A i \in 1 .. Len(chan[m][n]) - 1 : chan'[m][n][i] = chan[m][n][i + 1]
  /\ \A x, y \in Rank : x # m \/ y # n => chan'[x][y] = chan[x][y]

Shifted(st, st2, m, n) ==
  /\ st2 \in Views
  /\ \A x, y \in Rank : x # m \/ y # n => st2[x][y] = st[x][y]
  /\ \A i \in Nat : st2[m][n][i] = st[m][n][i + 1]

LEMMA TakesPops ==
  ASSUME TypeOK, open = [k \in Rank |-> Rank \ {k}], NEW n \in Rank, NEW at, NEW kind,
         Takes(n, at, kind), NEW s, s = daemon[n].slot, NEW m, m = Link[n][s]
  PROVE  /\ s \in Rank \ {n} /\ m \in Rank \ {n} /\ Popped(m, n)
         /\ daemon[n].pc = at /\ chan[m][n][1].kind = kind /\ chan[m][n][1].val = NextWord(n)
         /\ chan[m][n][1] \in Word
<1>1. s \in Rank \ {n} /\ daemon[n].pc = at
  BY DEF Takes
<1>2. m \in Rank \ {n}
  BY <1>1, Links
<1>3. /\ chan[m][n] \in Seq(Word) /\ chan[m][n] # << >>
      /\ chan \in [Rank -> [Rank -> Seq(Word)]] /\ chan[m] \in [Rank -> Seq(Word)]
  BY <1>2, Channels DEF Takes, Incoming, TypeOK
<1>4. chan' = [chan EXCEPT ![m][n] = Tail(@)] /\ Head(chan[m][n]).kind = kind
  BY DEF Takes, Incoming
<1>5. chan'[m][n] = Tail(chan[m][n])
  BY <1>2, <1>3, <1>4
<1>6. \A x, y \in Rank : x # m \/ y # n => chan'[x][y] = chan[x][y]
  BY <1>2, <1>3, <1>4
<1>7. Popped(m, n)
  BY <1>3, <1>5, <1>6, Shorter, Zenon DEF Popped
<1>8. Head(chan[m][n]) = chan[m][n][1] /\ chan[m][n][1] \in Word
  BY <1>3, Shorter
<1> QED BY <1>1, <1>2, <1>4, <1>7, <1>8, Zenon DEF NextWord, Incoming

LEMMA Shift ==
  ASSUME NEW st \in Views, NEW m \in Rank, NEW n \in Rank
  PROVE  \E st2 : Shifted(st, st2, m, n)
<1>1. st[m][n] \in [Nat -> Ahead]
  BY Seen
<1>2. PICK v \in [Nat -> Ahead] : \A i \in Nat : v[i] = st[m][n][i + 1]
  <2>1. /\ [i \in Nat |-> st[m][n][i + 1]] \in [Nat -> Ahead]
        /\ \A i \in Nat : [j \in Nat |-> st[m][n][j + 1]][i] = st[m][n][i + 1]
    BY <1>1
  <2> QED BY <2>1
<1>3. PICK st2 \in Views : /\ st2[m][n] = v
                           /\ \A x, y \in Rank : x # m \/ y # n => st2[x][y] = st[x][y]
  BY <1>2, Reviewed
<1>4. Shifted(st, st2, m, n)
  BY <1>2, <1>3 DEF Shifted
<1> QED BY <1>4

\* A word is read: the view loses its first entry.
LEMMA PopFramed ==
  ASSUME TypeOK, NEW st \in Views, Framed(st), NEW n \in Rank, NEW s \in Rank \ {n},
         NEW m, m = Link[n][s], Popped(m, n), Begins(n, s, st[m][n][1])',
         BeginsStay(n, Rank \ {n, s}), EndsStay(n, Rank \ {n}), OthersStay(n),
         NEW st2, Shifted(st, st2, m, n)
  PROVE  st2 \in Views /\ Framed(st2)'
<1>m. m \in Rank \ {n}
  BY Links
<1>1. /\ Len(chan[m][n]) \in Nat \ {0} /\ Len(chan'[m][n]) = Len(chan[m][n]) - 1
      /\ \A i \in 1 .. Len(chan[m][n]) - 1 : chan'[m][n][i] = chan[m][n][i + 1]
      /\ \A x, y \in Rank : x # m \/ y # n => chan'[x][y] = chan[x][y]
  BY DEF Popped
<1>2. /\ st2 \in Views
      /\ \A x, y \in Rank : x # m \/ y # n => st2[x][y] = st[x][y]
      /\ \A i \in Nat : st2[m][n][i] = st[m][n][i + 1]
  BY DEF Shifted
<1>3. ASSUME NEW k \in Rank, NEW q \in Rank \ {k} PROVE Begins(k, q, st2[Link[k][q]][k][0])'
  <2>0. Link[k][q] \in Rank
    BY Links
  <2>1. CASE k = n /\ q = s
    <3>1. st2[m][n][0] = st[m][n][1]
      BY <1>2
    <3> QED BY <2>1, <3>1
  <2>2. CASE k # n \/ q # s
    <3>1. Link[k][q] # m \/ k # n
      BY <2>2, Links
    <3>2. st2[Link[k][q]][k] = st[Link[k][q]][k]
      BY <1>2, <2>0, <3>1
    <3> DEFINE a == st[Link[k][q]][k][0]
    <3>3. a \in Ahead /\ Begins(k, q, a)
      BY ViewEnds
    <3>4. Begins(k, q, a)'
      <4>1. CASE k = n
        <5>1. q \in Rank \ {n, s}
          BY <2>2, <4>1
        <5> QED BY <3>3, <5>1, EndsOfOthers
      <4>2. CASE k # n
        BY <3>3, <4>2, EndsOfOthers
      <4> QED BY <4>1, <4>2
    <3> QED BY <3>2, <3>4
  <2> QED BY <2>1, <2>2
<1>4. ASSUME NEW x \in Rank, NEW y \in Rank, NEW i \in 1 .. Len(chan'[x][y])
      PROVE  Legal(st2[x][y][i - 1], chan'[x][y][i], st2[x][y][i])
  <2>0. \A j \in 1 .. Len(chan[x][y]) : Legal(st[x][y][j - 1], chan[x][y][j], st[x][y][j])
    BY DEF Framed
  <2>1. CASE x # m \/ y # n
    <3>1. chan'[x][y] = chan[x][y] /\ st2[x][y] = st[x][y]
      BY <1>1, <1>2, <2>1
    <3>2. i \in 1 .. Len(chan[x][y])
      BY <3>1
    <3> QED BY <2>0, <3>1, <3>2
  <2>2. CASE x = m /\ y = n
    <3>1. i \in 1 .. Len(chan[m][n]) - 1
      BY <1>1, <2>2
    <3>2. /\ i - 1 \in Nat /\ i \in Nat /\ (i - 1) + 1 = i /\ (i + 1) - 1 = i
          /\ i + 1 \in 1 .. Len(chan[m][n])
      <4>1. Len(chan[m][n]) \in Nat
        BY <1>1
      <4> QED BY <3>1, <4>1
    <3>3. st2[m][n][i - 1] = st[m][n][i] /\ st2[m][n][i] = st[m][n][i + 1]
      BY <1>2, <3>2
    <3>4. chan'[m][n][i] = chan[m][n][i + 1]
      BY <1>1, <3>1
    <3>5. Legal(st[m][n][(i + 1) - 1], chan[m][n][i + 1], st[m][n][i + 1])
      BY <2>0, <2>2, <3>2
    <3> QED BY <2>2, <3>2, <3>3, <3>4, <3>5
  <2> QED BY <2>1, <2>2
<1>5. ASSUME NEW x \in Rank, NEW q \in Rank \ {x}
      PROVE  Ends(x, q, st2[x][Link[x][q]][Len(chan[x][Link[x][q]])])'
  <2>1. Link[x][q] \in Rank
    BY Links
  <2>2. PICK b \in Ahead : b = st[x][Link[x][q]][Len(chan[x][Link[x][q]])] /\ Ends(x, q, b)
    BY ViewEnds
  <2>3. Ends(x, q, b)'
    BY <2>2, EndsOfOthers, Zenon
  <2>4. b = st2[x][Link[x][q]][Len(chan'[x][Link[x][q]])]
    <3>1. CASE x # m \/ Link[x][q] # n
      BY <1>1, <1>2, <2>1, <2>2, <3>1, Zenon
    <3>2. CASE x = m /\ Link[x][q] = n
      <4>1. Len(chan[m][n]) - 1 \in Nat /\ (Len(chan[m][n]) - 1) + 1 = Len(chan[m][n])
        <5>1. Len(chan[m][n]) \in Nat \ {0}
          BY <1>1
        <5> QED BY <5>1
      <4>2. st2[m][n][Len(chan[m][n]) - 1] = st[m][n][Len(chan[m][n])]
        BY <1>2, <4>1
      <4> QED BY <1>1, <2>2, <3>2, <4>2, Zenon
    <3> QED BY <3>1, <3>2
  <2> QED BY <2>3, <2>4, Zenon
<1> QED BY <1>2, <1>3, <1>4, <1>5 DEF Framed

----------------------------------------------------------------------------
\* The writes that are left, one after the other.
LEMMA Outs ==
  /\ \A a : Len(<<a>>) = 1 /\ Head(<<a>>) = a /\ Tail(<<a>>) = << >> /\ <<a>> # << >>
  /\ \A a, b : Len(<<a, b>>) = 2 /\ Head(<<a, b>>) = a /\ Tail(<<a, b>>) = <<b>> /\ <<a, b>> # << >>
  /\ \A a, b, c : /\ Len(<<a, b, c>>) = 3 /\ Head(<<a, b, c>>) = a /\ Tail(<<a, b, c>>) = <<b, c>>
                  /\ <<a, b, c>> # << >>
  /\ Len(<< >>) = 0 /\ 0 # 1 /\ 0 # 2 /\ 1 # 2 /\ 1 # 3 /\ 2 # 3
OBVIOUS

LEMMA OutWrites ==
  /\ \A a : WritesTo(<<a>>, a.fd)
  /\ \A a, b : WritesTo(<<a, b>>, a.fd)
  /\ \A a, b, c : WritesTo(<<a, b, c>>, a.fd)
  /\ \A s : ~WritesTo(<< >>, s)
BY DEF WritesTo

LEMMA HeadWrites ==
  \A out \in Seq(Output) : out # << >> => WritesTo(out, Head(out).fd)
<1> SUFFICES ASSUME NEW out \in Seq(Output), out # << >> PROVE WritesTo(out, Head(out).fd)
  OBVIOUS
<1>1. 1 \in DOMAIN out /\ Head(out) = out[1]
  OBVIOUS
<1> QED BY <1>1 DEF WritesTo

LEMMA Outgoing ==
  /\ \A fd, w : To(fd, w).fd = fd /\ To(fd, w).word = w
  /\ \A v : Num(v).kind = "int" /\ Num(v).val = v /\ Text(v).kind = "text" /\ Text(v).val = v
BY DEF To, Num, Text

LEMMA OneLeft == \A fd, w : Len(<<To(fd, w)>>) = 1 /\ Head(<<To(fd, w)>>).fd = fd
BY Outs, Outgoing

\* A step of n that touches no channel, one that writes a word on slot r and
\* one that reads the next word of slot s.
Silent(n) ==
  /\ chan' = chan
  /\ BeginsStay(n, Rank \ {n}) /\ EndsStay(n, Rank \ {n}) /\ OthersStay(n)

Writes(n, st, r, w, b) ==
  /\ r \in Rank \ {n} /\ b \in Ahead /\ Pushed(n, Link[n][r], w)
  /\ Legal(st[n][Link[n][r]][Len(chan[n][Link[n][r]])], w, b) /\ Ends(n, r, b)'
  /\ BeginsStay(n, Rank \ {n}) /\ EndsStay(n, Rank \ {n, r}) /\ OthersStay(n)

Reads(n, st, s) ==
  /\ s \in Rank \ {n} /\ Popped(Link[n][s], n) /\ Begins(n, s, st[Link[n][s]][n][1])'
  /\ BeginsStay(n, Rank \ {n, s}) /\ EndsStay(n, Rank \ {n}) /\ OthersStay(n)

\* While the user thread has something to write on a connection, the daemon
\* owes nothing there.
LEMMA DaemonSilent ==
  ASSUME Shaped, StreamsFramed, NEW n \in Rank, NEW r \in Rank \ {n}, WritesTo(main[n].out, r)
  PROVE  DaemonOwed(n, r) = "type"
<1>1. ~WritesTo(daemon[n].out, r) /\ ~Answering(n, r)
  BY DEF StreamsFramed
<1>2. DaemonOut(n)
  BY DEF Shaped
<1>3. ASSUME daemon[n].pc = "unmap", daemon[n].slot = r PROVE daemon[n].out = << >>
  <2>1. \/ daemon[n].out \in {<< >>, <<To(r, Num(0))>>}
        \/ \E l \in Nat \ {0} : daemon[n].out \in {<<To(r, Num(l)), To(r, Text(l))>>, <<To(r, Text(l))>>}
    BY <1>2, <1>3 DEF DaemonOut
  <2>2. \A l : /\ WritesTo(<<To(r, Num(l))>>, r) /\ WritesTo(<<To(r, Text(l))>>, r)
               /\ WritesTo(<<To(r, Num(l)), To(r, Text(l))>>, r)
    BY OutWrites, Outgoing
  <2> QED BY <1>1, <2>1, <2>2
<1>4. ASSUME daemon[n].pc = "fault", daemon[n].out # << >> PROVE Head(daemon[n].out).fd # r
  <2>1. PICK fd \in Fd : daemon[n].out \in {Request(fd, daemon[n].page), <<To(fd, Num(daemon[n].page))>>}
    BY <1>2, <1>4 DEF DaemonOut
  <2>2. Head(daemon[n].out).fd = fd /\ WritesTo(daemon[n].out, fd)
    BY <2>1, Outs, OutWrites, Outgoing DEF Request
  <2> QED BY <1>1, <2>2
<1>5. ASSUME daemon[n].pc = "inform", daemon[n].out # << >> PROVE Head(daemon[n].out).fd # r
  <2> DEFINE p == daemon[n].page
             s == daemon[n].slot
  <2>1. PICK fd \in Fd : daemon[n].out \in {<<To(fd, Num(SEND_INFO)), To(fd, Num(p)), To(fd, Num(s))>>,
                                            <<To(fd, Num(p)), To(fd, Num(s))>>, <<To(fd, Num(s))>>}
    BY <1>2, <1>5 DEF DaemonOut
  <2>2. Head(daemon[n].out).fd = fd /\ WritesTo(daemon[n].out, fd)
    BY <2>1, Outs, OutWrites, Outgoing
  <2> QED BY <1>1, <2>2
<1>6. ~(daemon[n].pc \in {"copy", "fault"} /\ daemon[n].slot = r)
  BY <1>1 DEF Answering
<1>7. Len(daemon[n].out) = 1 => daemon[n].out # << >>
  BY Outs
<1> QED BY <1>3, <1>4, <1>5, <1>6, <1>7 DEF DaemonOwed, PageOwed

\* What the user thread is about to write, and to whom.
LEMMA MainHead ==
  ASSUME Shaped, NEW n \in Rank, main[n].out # << >>
  PROVE  /\ Head(main[n].out).fd = main[n].asked /\ main[n].pc = "wait"
         /\ WritesTo(main[n].out, main[n].asked)
         /\ \/ /\ Head(main[n].out).word = Num(PAGE_REQUEST) /\ Len(main[n].out) = 2
               /\ Tail(main[n].out) = <<To(main[n].asked, Num(main[n].page))>>
            \/ /\ Head(main[n].out).word = Num(main[n].page) /\ Len(main[n].out) = 1
               /\ Tail(main[n].out) = << >>
<1>1. MainOut(n)
  BY DEF Shaped
<1> DEFINE o == To(main[n].asked, Num(main[n].page))
           q == To(main[n].asked, Num(PAGE_REQUEST))
<1>2. o.fd = main[n].asked /\ q.fd = main[n].asked /\ o.word = Num(main[n].page)
      /\ q.word = Num(PAGE_REQUEST)
  BY Outgoing
<1>3. main[n].out \in {<<q, o>>, <<o>>} /\ main[n].pc = "wait"
  BY <1>1 DEF MainOut, Request
<1> HIDE DEF o, q
<1>4. CASE main[n].out = <<q, o>>
  <2>1. Head(main[n].out) = q /\ Len(main[n].out) = 2 /\ Tail(main[n].out) = <<o>>
    BY <1>4, Outs
  <2>2. WritesTo(main[n].out, q.fd)
    BY <1>4, OutWrites
  <2> QED BY <1>2, <1>3, <2>1, <2>2 DEF o
<1>5. CASE main[n].out = <<o>>
  <2>1. Head(main[n].out) = o /\ Len(main[n].out) = 1 /\ Tail(main[n].out) = << >>
    BY <1>5, Outs
  <2>2. WritesTo(main[n].out, o.fd)
    BY <1>5, OutWrites
  <2> QED BY <1>2, <1>3, <2>1, <2>2 DEF o
<1> QED BY <1>3, <1>4, <1>5

\* The user thread writes a word of a request.
LEMMA MainWrites ==
  ASSUME TypeOK, Shaped, StreamsFramed, NEW n \in Rank, main[n].out # << >>,
         Delivers(n, Head(main[n].out).fd, Head(main[n].out).word),
         main' = [main EXCEPT ![n].out = Tail(@)],
         UNCHANGED <<mapped, table, open, stdin, daemon>>,
         NEW st \in Views, Framed(st)
  PROVE  /\ Shaped'
         /\ Silent(n) \/ \E r, b : r = Head(main[n].out).fd /\ Writes(n, st, r, Head(main[n].out).word, b)
<1>1. main \in [Rank -> MainState]
  BY DEF TypeOK, MainState
<1>0. PICK fd \in Fd, p \in Page : fd = main[n].asked /\ p = main[n].page
  BY <1>1 DEF MainState
<1>2. /\ main'[n].out = Tail(main[n].out) /\ main'[n].pc = main[n].pc
      /\ main'[n].asked = fd /\ main'[n].page = p
      /\ \A k \in Rank \ {n} : main'[k] = main[k]
  BY <1>0, <1>1 DEF MainState
<1>3. Shaped'
  <2>1. ASSUME NEW k \in Rank PROVE MainOut(k)'
    <3>1. MainOut(k)
      BY DEF Shaped
    <3>2. CASE k = n
      BY <1>0, <1>2, <3>2, MainHead DEF MainOut
    <3>3. CASE k # n
      BY <1>2, <3>1, <3>3 DEF MainOut
    <3> QED BY <3>2, <3>3
  <2>2. \A k \in Rank : DaemonOut(k)' /\ DaemonPlace(k)'
    BY DEF Shaped, DaemonOut, DaemonPlace
  <2> QED BY <2>1, <2>2 DEF Shaped
<1>4. OthersStay(n) /\ BeginsStay(n, Rank \ {n})
  BY <1>2 DEF OthersStay, BeginsStay, Begins
<1>5. \A r : DaemonOwed(n, r)' = DaemonOwed(n, r)
  BY DEF DaemonOwed, PageOwed, InfoOwed
\* The other connections see nothing.
<1>6. ASSUME NEW r \in Rank \ {n}, r # fd, NEW a \in Ahead, Ends(n, r, a)
      PROVE  Ends(n, r, a)'
  <2>1. ~Asked(n, r) /\ ~Asked(n, r)'
    <3>1. Head(main[n].out).fd # r
      BY <1>0, <1>6, MainHead
    <3>2. main'[n].out = <<To(fd, Num(p))>> \/ main'[n].out = << >>
      BY <1>0, <1>2, MainHead
    <3>3. CASE main'[n].out = <<To(fd, Num(p))>>
      <4>1. Head(main'[n].out).fd = fd
        BY <3>3, OneLeft
      <4> QED BY <1>6, <3>1, <4>1 DEF Asked
    <3>4. CASE main'[n].out = << >>
      BY <3>1, <3>4, Outs DEF Asked
    <3> QED BY <3>2, <3>3, <3>4
  <2> QED BY <1>5, <1>6, <2>1 DEF Ends, Owed
<1>7. CASE fd = Stdin /\ UNCHANGED chan
  <2>1. EndsStay(n, Rank \ {n})
    BY <1>6, <1>7, NodeAssumption DEF EndsStay, Rank, Stdin
  <2> QED BY <1>3, <1>4, <1>7, <2>1 DEF Silent
<1>8. CASE /\ fd \in Rank \ {n}
           /\ chan' = [chan EXCEPT ![n][Link[n][fd]] = Append(@, Head(main[n].out).word)]
  <2> DEFINE m == Link[n][fd]
             w == Head(main[n].out).word
  <2>1. m \in Rank \ {n} /\ w \in Word
    <3>1. main[n].out \in Seq(Output)
      BY <1>1 DEF MainState
    <3>2. Head(main[n].out) \in Output
      BY <3>1
    <3> QED BY <1>8, <3>2, Links DEF Output
  <2>2. Pushed(n, m, w)
    BY <1>8, <2>1, Appended
  <2>3. EndsStay(n, Rank \ {n, fd})
    BY <1>6 DEF EndsStay
  <2>4. DaemonOwed(n, fd) = "type"
    BY <1>0, <1>8, MainHead, DaemonSilent
  <2> DEFINE a == st[n][m][Len(chan[n][m])]
  <2>5. a \in Ahead /\ a.at = Owed(n, fd)
    <3>1. a \in Ahead /\ Ends(n, fd, a)
      BY <1>8, ViewEnds
    <3> QED BY <3>1 DEF Ends
  <2>6. PICK b \in Ahead : Legal(a, w, b) /\ Ends(n, fd, b)'
    <3>1. CASE w = Num(PAGE_REQUEST) /\ Len(main[n].out) = 2 /\ Tail(main[n].out) = <<To(fd, Num(p))>>
      <4> DEFINE b == [at |-> "wanted", page |-> 0, len |-> 0]
      <4>1. a.at = "type"
        BY <2>4, <2>5, <3>1, Outs DEF Owed, Asked
      <4>2. b \in Ahead /\ Legal(a, w, b)
        BY <3>1, <4>1, Outgoing DEF Ahead, Reading, ReadingInt, Legal
      <4>3. Asked(n, fd)'
        <5>1. main'[n].out = <<To(fd, Num(p))>>
          BY <1>2, <3>1
        <5>2. Len(main'[n].out) = 1 /\ Head(main'[n].out).fd = fd
          BY <5>1, OneLeft
        <5> QED BY <5>2 DEF Asked
      <4>4. Ends(n, fd, b)'
        BY <4>3 DEF Ends, Owed
      <4> QED BY <4>2, <4>4, Zenon
    <3>2. CASE w = Num(p) /\ Len(main[n].out) = 1 /\ Tail(main[n].out) = << >>
      <4> DEFINE b == [at |-> "type", page |-> 0, len |-> 0]
      <4>1. a.at = "wanted"
        BY <1>0, <2>5, <3>2, MainHead, Zenon DEF Owed, Asked
      <4>2. b \in Ahead /\ Legal(a, w, b)
        <5>1. w.kind = "int"
          BY <3>2, Outgoing
        <5> QED BY <4>1, <5>1 DEF Ahead, Reading, ReadingInt, Legal
      <4>3. ~Asked(n, fd)'
        BY <1>2, <3>2, Outs DEF Asked
      <4>4. Ends(n, fd, b)'
        BY <1>5, <2>4, <4>3 DEF Ends, Owed
      <4> QED BY <4>2, <4>4, Zenon
    <3> QED BY <1>0, <3>1, <3>2, MainHead, Zenon
  <2>7. Writes(n, st, fd, w, b) /\ fd = Head(main[n].out).fd
    BY <1>0, <1>4, <1>8, <2>2, <2>3, <2>6, MainHead, Zenon DEF Writes
  <2> QED BY <1>3, <2>7
<1> QED BY <1>0, <1>7, <1>8, MainHead, DeliversTo DEF Shaped

\* The daemon's part of Ends, and what its next word does to it.
DaemonEnds(n, r, a) ==
  /\ a.at = DaemonOwed(n, r)
  /\ a.at \in {"len", "text"} => a.page = daemon[n].page
  /\ a.at = "text" => a.len = Head(daemon[n].out).word.val

Continues(n, fd, w) ==
  /\ daemon[n].pc \in {"copy", "unmap", "fault", "inform"} /\ DaemonOut(n)'
  /\ WritesTo(daemon[n].out, fd)
  /\ \A q \in Rank \ {n, fd} : DaemonOwed(n, q)' = DaemonOwed(n, q) /\ DaemonOwed(n, q) # "text"
  /\ \A a \in Ahead : DaemonEnds(n, fd, a) => \E b \in Ahead : Legal(a, w, b) /\ DaemonEnds(n, fd, b)'

LEMMA DaemonContinues ==
  ASSUME TypeOK, Shaped, StreamsFramed, NEW n \in Rank, NEW fd, NEW w \in Word,
         Delivers(n, fd, w), Continues(n, fd, w),
         daemon' = [daemon EXCEPT ![n].out = Tail(@)],
         UNCHANGED <<mapped, table, open, stdin, main>>,
         NEW st \in Views, Framed(st)
  PROVE  /\ Shaped'
         /\ Silent(n) \/ \E b : Writes(n, st, fd, w, b)
<1>1. daemon \in [Rank -> DaemonState]
  BY DEF TypeOK, DaemonState
<1>2. /\ daemon'[n].out = Tail(daemon[n].out) /\ daemon'[n].pc = daemon[n].pc
      /\ daemon'[n].slot = daemon[n].slot /\ daemon'[n].page = daemon[n].page
      /\ \A k \in Rank \ {n} : daemon'[k] = daemon[k]
  BY <1>1 DEF DaemonState
<1>3. Shaped'
  <2>1. ASSUME NEW k \in Rank PROVE DaemonOut(k)' /\ DaemonPlace(k)'
    <3>1. DaemonOut(k) /\ DaemonPlace(k)
      BY DEF Shaped
    <3>2. CASE k = n
      BY <1>2, <3>1, <3>2 DEF DaemonPlace, Continues
    <3>3. CASE k # n
      BY <1>2, <3>1, <3>3 DEF DaemonOut, DaemonPlace
    <3> QED BY <3>2, <3>3
  <2>2. \A k \in Rank : MainOut(k)'
    BY DEF Shaped, MainOut
  <2> QED BY <2>1, <2>2 DEF Shaped
<1>4. OthersStay(n) /\ BeginsStay(n, Rank \ {n})
  <2>1. daemon[n].pc \notin Reading
    BY DEF Continues, Reading, ReadingInt
  <2> QED BY <1>2, <2>1 DEF OthersStay, BeginsStay, Begins
<1>5. \A r : Asked(n, r)' <=> Asked(n, r)
  BY DEF Asked
<1>6. ASSUME NEW r \in Rank \ {n}, r # fd, NEW a \in Ahead, Ends(n, r, a)
      PROVE  Ends(n, r, a)'
  <2>1. DaemonOwed(n, r)' = DaemonOwed(n, r) /\ DaemonOwed(n, r) # "text"
    BY <1>6 DEF Continues
  <2> QED BY <1>2, <1>5, <1>6, <2>1 DEF Ends, Owed
<1>7. CASE fd = Stdin /\ UNCHANGED chan
  <2>1. EndsStay(n, Rank \ {n})
    BY <1>6, <1>7, NodeAssumption DEF EndsStay, Rank, Stdin
  <2> QED BY <1>3, <1>4, <1>7, <2>1 DEF Silent
<1>8. CASE /\ fd \in Rank \ {n}
           /\ chan' = [chan EXCEPT ![n][Link[n][fd]] = Append(@, w)]
  <2> DEFINE m == Link[n][fd]
             a == st[n][m][Len(chan[n][m])]
  <2>1. m \in Rank \ {n}
    BY <1>8, Links
  <2>2. Pushed(n, m, w)
    BY <1>8, <2>1, Appended
  <2>3. EndsStay(n, Rank \ {n, fd})
    BY <1>6 DEF EndsStay
  <2>4. ~Asked(n, fd) /\ ~Asked(n, fd)'
    <3>1. ~WritesTo(main[n].out, fd)
      BY <1>8 DEF StreamsFramed, Continues
    <3>2. MainOut(n)
      BY DEF Shaped
    <3>3. ~Asked(n, fd)
      BY <3>1, <3>2, MainHead, Outs DEF Asked, Shaped
    <3> QED BY <1>5, <3>3
  <2>5. a \in Ahead /\ Ends(n, fd, a)
    BY <1>8, ViewEnds
  <2>6. DaemonEnds(n, fd, a)
    BY <2>4, <2>5 DEF Ends, DaemonEnds, Owed
  <2>7. PICK b \in Ahead : Legal(a, w, b) /\ DaemonEnds(n, fd, b)'
    BY <2>5, <2>6, Zenon DEF Continues
  <2>8. Ends(n, fd, b)'
    BY <2>4, <2>7 DEF Ends, DaemonEnds, Owed
  <2>9. Writes(n, st, fd, w, b)
    BY <1>4, <1>8, <2>2, <2>3, <2>7, <2>8, Zenon DEF Writes
  <2> QED BY <1>3, <2>9
<1> QED BY <1>7, <1>8, DeliversTo DEF Shaped

\* A write of the daemon removes the first word of those that are left.
Advance(n) ==
  /\ daemon'[n].out = Tail(daemon[n].out) /\ daemon'[n].pc = daemon[n].pc
  /\ daemon'[n].slot = daemon[n].slot /\ daemon'[n].page = daemon[n].page

\* What is owed on slot s becomes what follows word w.
Follows(from, w, to, p) ==
  \/ /\ w.kind = "int"
     /\ \/ from = "type" /\ w.val = SEND_PAGE /\ to = "page"
        \/ from = "type" /\ w.val = SEND_INFO /\ to = "infoPage"
        \/ from = "type" /\ w.val = PAGE_REQUEST /\ to = "wanted"
        \/ from = "page" /\ w.val = p /\ to = "len"
        \/ from = "len" /\ w.val = 0 /\ to = "type"
        \/ from = "len" /\ w.val # 0 /\ to = "text"
        \/ from = "infoPage" /\ to = "infoOwner"
        \/ from \in {"infoOwner", "wanted"} /\ to = "type"
  \/ from = "text" /\ w.kind = "text" /\ to = "type"

LEMMA Onward ==
  ASSUME NEW n \in Rank, Advance(n), DaemonOut(n)',
         daemon[n].pc \in {"copy", "unmap", "fault", "inform"},
         NEW s, NEW w \in Word, NEW p \in Nat, p = daemon[n].page, WritesTo(daemon[n].out, s),
         NEW from, NEW to, DaemonOwed(n, s) = from, DaemonOwed(n, s)' = to, Follows(from, w, to, p),
         from = "text" => w = Head(daemon[n].out).word,
         to = "text" => Head(daemon'[n].out).word.val = w.val,
         \A q \in Rank \ {n, s} : DaemonOwed(n, q)' = DaemonOwed(n, q) /\ DaemonOwed(n, q) # "text"
  PROVE  Continues(n, s, w)
<1>1. /\ daemon'[n].page = p /\ w.val \in Nat
      /\ to \in {"page", "infoPage", "wanted", "len", "type", "text", "infoOwner"}
  BY DEF Advance, Word, Follows
<1>2. ASSUME NEW a \in Ahead, DaemonEnds(n, s, a)
      PROVE  \E b \in Ahead : Legal(a, w, b) /\ DaemonEnds(n, s, b)'
  <2> DEFINE b == [at |-> to, page |-> p, len |-> w.val]
  <2>1. b \in Ahead /\ b.at = to /\ b.page = p /\ b.len = w.val
    BY <1>1 DEF Ahead, Reading, ReadingInt
  <2> HIDE DEF b
  <2>2. /\ a.at = from
        /\ from \in {"len", "text"} => a.page = p
        /\ from = "text" => a.len = w.val
    BY <1>2 DEF DaemonEnds
  <2>3. Legal(a, w, b)
    <3>1. CASE from = "type"
      BY <2>1, <2>2, <3>1 DEF Legal, Follows
    <3>2. CASE from \in {"page", "infoPage", "infoOwner", "wanted"}
      BY <2>1, <2>2, <3>2 DEF Legal, Follows
    <3>3. CASE from = "len"
      BY <2>1, <2>2, <3>3 DEF Legal, Follows
    <3>4. CASE from = "text"
      BY <2>1, <2>2, <3>4 DEF Legal, Follows
    <3> QED BY <3>1, <3>2, <3>3, <3>4 DEF Follows
  <2>4. DaemonEnds(n, s, b)'
    BY <1>1, <2>1 DEF DaemonEnds
  <2> QED BY <2>1, <2>3, <2>4
<1> QED BY <1>2 DEF Continues

LEMMA CopyContinues ==
  ASSUME NEW n \in Rank, DaemonOut(n), Advance(n), daemon[n].pc = "copy", daemon[n].out # << >>,
         daemon[n].page \in Nat, NEW fd, NEW w, fd = Head(daemon[n].out).fd, w = Head(daemon[n].out).word
  PROVE  Continues(n, fd, w)
<1>0. PICK p \in Nat : \E s : s = daemon[n].slot /\ p = daemon[n].page
  OBVIOUS
<1>s. PICK s : s = daemon[n].slot
  OBVIOUS
<1> DEFINE a == To(s, Num(SEND_PAGE))
           b == To(s, Num(p))
<1>1. /\ daemon'[n].out = Tail(daemon[n].out) /\ daemon'[n].pc = "copy"
      /\ daemon'[n].slot = s /\ daemon'[n].page = p
  BY <1>0, <1>s DEF Advance
<1>2. daemon[n].out \in {<<a, b>>, <<b>>}
  BY <1>0, <1>s DEF DaemonOut
<1>3. /\ a.fd = s /\ b.fd = s /\ a.word = Num(SEND_PAGE) /\ b.word = Num(p)
      /\ Num(p) \in Word /\ Num(SEND_PAGE) \in Word
  BY Outgoing, Words DEF SEND_PAGE
<1> HIDE DEF a, b
<1>4. /\ \A q : q # s => DaemonOwed(n, q) = "type" /\ DaemonOwed(n, q)' = "type"
      /\ DaemonOwed(n, s) = PageOwed(daemon[n]) /\ DaemonOwed(n, s)' = PageOwed(daemon'[n])
  BY <1>0, <1>s, <1>1 DEF DaemonOwed
<1>5. \A q \in Rank \ {n, s} : DaemonOwed(n, q)' = DaemonOwed(n, q) /\ DaemonOwed(n, q) # "text"
  BY <1>4
<1>6. CASE daemon[n].out = <<a, b>>
  <2>1. Head(daemon[n].out) = a /\ Len(daemon[n].out) = 2 /\ daemon'[n].out = <<b>> /\ Len(daemon'[n].out) = 1
    BY <1>1, <1>6, Outs
  <2>2. DaemonOwed(n, s) = "type" /\ DaemonOwed(n, s)' = "page"
    BY <1>0, <1>s, <1>1, <1>4, <2>1, Outs DEF PageOwed
  <2>3. DaemonOut(n)'
    BY <1>1, <2>1 DEF DaemonOut, b
  <2>4. WritesTo(daemon[n].out, s)
    BY <1>3, <1>6, OutWrites
  <2>5. fd = s /\ w = Num(SEND_PAGE) /\ w \in Word
    BY <1>3, <2>1
  <2>6. Follows("type", w, "page", p)
    BY <2>5, Outgoing DEF Follows
  <2> QED BY <1>0, <1>s, <1>5, <2>2, <2>3, <2>4, <2>5, <2>6, Onward
<1>7. CASE daemon[n].out = <<b>>
  <2>1. Head(daemon[n].out) = b /\ Len(daemon[n].out) = 1 /\ daemon'[n].out = << >> /\ Len(daemon'[n].out) = 0
    BY <1>1, <1>7, Outs
  <2>2. DaemonOwed(n, s) = "page" /\ DaemonOwed(n, s)' = "len"
    BY <1>0, <1>s, <1>1, <1>4, <2>1, Outs DEF PageOwed
  <2>3. DaemonOut(n)'
    BY <1>1, <2>1 DEF DaemonOut
  <2>4. WritesTo(daemon[n].out, s)
    BY <1>3, <1>7, OutWrites
  <2>5. fd = s /\ w = Num(p) /\ w \in Word
    BY <1>3, <2>1
  <2>6. Follows("page", w, "len", p)
    BY <2>5, Outgoing DEF Follows
  <2> QED BY <1>0, <1>s, <1>5, <2>2, <2>3, <2>4, <2>5, <2>6, Onward
<1> QED BY <1>2, <1>6, <1>7

LEMMA UnmapContinues ==
  ASSUME NEW n \in Rank, DaemonOut(n), Advance(n), daemon[n].pc = "unmap", daemon[n].out # << >>,
         daemon[n].page \in Nat, NEW fd, NEW w, fd = Head(daemon[n].out).fd, w = Head(daemon[n].out).word
  PROVE  Continues(n, fd, w)
<1>0. PICK p \in Nat : p = daemon[n].page
  OBVIOUS
<1>s. PICK s : s = daemon[n].slot
  OBVIOUS
<1>1. /\ daemon'[n].out = Tail(daemon[n].out) /\ daemon'[n].pc = "unmap"
      /\ daemon'[n].slot = s /\ daemon'[n].page = p
  BY <1>0, <1>s DEF Advance
<1>2. \/ daemon[n].out = <<To(s, Num(0))>>
      \/ \E l \in Nat \ {0} : daemon[n].out \in {<<To(s, Num(l)), To(s, Text(l))>>, <<To(s, Text(l))>>}
  BY <1>s DEF DaemonOut
<1>3. \A l \in Nat : /\ To(s, Num(l)).fd = s /\ To(s, Text(l)).fd = s
                     /\ To(s, Num(l)).word = Num(l) /\ To(s, Text(l)).word = Text(l)
                     /\ Num(l) \in Word /\ Text(l) \in Word
  BY Outgoing, Words
<1>4. /\ \A q : q # s => DaemonOwed(n, q) = "type" /\ DaemonOwed(n, q)' = "type"
      /\ DaemonOwed(n, s) = PageOwed(daemon[n]) /\ DaemonOwed(n, s)' = PageOwed(daemon'[n])
  BY <1>s, <1>1 DEF DaemonOwed
<1>5. \A q \in Rank \ {n, s} : DaemonOwed(n, q)' = DaemonOwed(n, q) /\ DaemonOwed(n, q) # "text"
  BY <1>4
\* The last word: a length of zero, or the text.
<1>6. ASSUME NEW l \in Nat, NEW at, NEW x \in Word, daemon[n].out = <<To(s, x)>>,
             \/ x = Num(0) /\ at = "len"
             \/ x = Text(l) /\ at = "text"
      PROVE  Continues(n, fd, w)
  <2>1. Head(daemon[n].out) = To(s, x) /\ daemon'[n].out = << >> /\ daemon[n].out # << >>
    BY <1>1, <1>6, Outs
  <2>5. fd = s /\ w = x /\ w \in Word /\ Head(daemon[n].out).word = x
    BY <1>6, <2>1, Outgoing
  <2>2. DaemonOwed(n, s) = at /\ DaemonOwed(n, s)' = "type"
    BY <1>1, <1>4, <1>6, <2>1, <2>5, Outgoing DEF PageOwed
  <2>3. DaemonOut(n)'
    BY <1>1, <2>1 DEF DaemonOut
  <2>4. WritesTo(daemon[n].out, s)
    BY <1>6, OutWrites, Outgoing
  <2>6. Follows(at, w, "type", p)
    BY <1>6, <2>5, Outgoing DEF Follows
  <2> QED BY <1>0, <1>5, <2>1, <2>2, <2>3, <2>4, <2>5, <2>6, Onward
<1>7. ASSUME NEW l \in Nat \ {0}, daemon[n].out = <<To(s, Num(l)), To(s, Text(l))>>
      PROVE  Continues(n, fd, w)
  <2>1. /\ Head(daemon[n].out) = To(s, Num(l)) /\ daemon'[n].out = <<To(s, Text(l))>>
        /\ daemon'[n].out # << >> /\ Head(daemon'[n].out) = To(s, Text(l))
    BY <1>1, <1>7, Outs
  <2>5. /\ fd = s /\ w = Num(l) /\ w \in Word /\ Head(daemon[n].out).word = Num(l)
        /\ Head(daemon'[n].out).word = Text(l)
    BY <1>3, <2>1
  <2>2. DaemonOwed(n, s) = "len" /\ DaemonOwed(n, s)' = "text"
    BY <1>1, <1>4, <2>1, <2>5, Outgoing DEF PageOwed
  <2>3. DaemonOut(n)'
    BY <1>1, <2>1 DEF DaemonOut
  <2>4. WritesTo(daemon[n].out, s)
    BY <1>3, <1>7, OutWrites
  <2>6. Follows("len", w, "text", p) /\ Head(daemon'[n].out).word.val = w.val
    BY <2>5, Outgoing DEF Follows
  <2> QED BY <1>0, <1>5, <2>2, <2>3, <2>4, <2>5, <2>6, Onward
<1>8. Num(0) \in Word /\ \A l \in Nat : Text(l) \in Word
  BY Words
<1> QED BY <1>2, <1>6, <1>7, <1>8

LEMMA FaultContinues ==
  ASSUME NEW n \in Rank, DaemonOut(n), Advance(n), daemon[n].pc = "fault", daemon[n].out # << >>,
         daemon[n].page \in Nat, NEW fd, NEW w, fd = Head(daemon[n].out).fd, w = Head(daemon[n].out).word,
         daemon[n].slot # fd
  PROVE  Continues(n, fd, w)
<1>0. PICK p \in Nat : p = daemon[n].page
  OBVIOUS
<1>s. PICK s : s = daemon[n].slot /\ s # fd
  OBVIOUS
<1>1. /\ daemon'[n].out = Tail(daemon[n].out) /\ daemon'[n].pc = "fault"
      /\ daemon'[n].slot = s /\ daemon'[n].page = p
  BY <1>0, <1>s DEF Advance
<1>2. PICK f \in Fd : daemon[n].out \in {Request(f, p), <<To(f, Num(p))>>}
  BY <1>0 DEF DaemonOut
<1> DEFINE a == To(f, Num(PAGE_REQUEST))
           b == To(f, Num(p))
<1>3. /\ a.fd = f /\ b.fd = f /\ a.word = Num(PAGE_REQUEST) /\ b.word = Num(p)
      /\ Num(p) \in Word /\ Num(PAGE_REQUEST) \in Word
  BY Outgoing, Words DEF PAGE_REQUEST
<1>r. daemon[n].out \in {<<a, b>>, <<b>>}
  BY <1>2 DEF Request
<1> HIDE DEF a, b
<1>4. f = fd
  BY <1>3, <1>r, Outs
<1>5. ASSUME NEW q, q # fd
      PROVE  DaemonOwed(n, q)' = DaemonOwed(n, q) /\ DaemonOwed(n, q) # "text"
  <2>1. daemon'[n].out = << >> \/ Head(daemon'[n].out).fd = f
    BY <1>1, <1>3, <1>r, Outs
  <2>2. Head(daemon[n].out).fd # q /\ ~(Len(daemon'[n].out) = 1 /\ Head(daemon'[n].out).fd = q)
    BY <1>4, <1>5, <2>1, Outs
  <2> QED BY <1>1, <1>s, <2>2 DEF DaemonOwed, PageOwed
<1>6. CASE daemon[n].out = <<a, b>>
  <2>1. /\ Head(daemon[n].out) = a /\ Len(daemon[n].out) = 2 /\ daemon'[n].out = <<b>>
        /\ Len(daemon'[n].out) = 1 /\ Head(daemon'[n].out) = b
    BY <1>1, <1>6, Outs
  <2>2. DaemonOwed(n, fd) = "type" /\ DaemonOwed(n, fd)' = "wanted"
    BY <1>s, <1>1, <1>3, <1>4, <2>1, Outs DEF DaemonOwed
  <2>3. DaemonOut(n)'
    BY <1>1, <2>1 DEF DaemonOut, b
  <2>4. WritesTo(daemon[n].out, fd)
    BY <1>3, <1>4, <1>6, OutWrites
  <2>5. w = Num(PAGE_REQUEST) /\ w \in Word
    BY <1>3, <2>1
  <2>6. Follows("type", w, "wanted", p)
    BY <2>5, Outgoing DEF Follows
  <2> QED BY <1>0, <1>5, <2>2, <2>3, <2>4, <2>5, <2>6, Onward
<1>7. CASE daemon[n].out = <<b>>
  <2>1. /\ Head(daemon[n].out) = b /\ Len(daemon[n].out) = 1 /\ daemon'[n].out = << >>
        /\ Len(daemon'[n].out) = 0
    BY <1>1, <1>7, Outs
  <2>2. DaemonOwed(n, fd) = "wanted" /\ DaemonOwed(n, fd)' = "type"
    BY <1>s, <1>1, <1>3, <1>4, <2>1, Outs DEF DaemonOwed
  <2>3. DaemonOut(n)'
    BY <1>1, <2>1 DEF DaemonOut
  <2>4. WritesTo(daemon[n].out, fd)
    BY <1>3, <1>4, <1>7, OutWrites
  <2>5. w = Num(p) /\ w \in Word
    BY <1>3, <2>1
  <2>6. Follows("wanted", w, "type", p)
    BY <2>5, Outgoing DEF Follows
  <2> QED BY <1>0, <1>5, <2>2, <2>3, <2>4, <2>5, <2>6, Onward
<1> QED BY <1>r, <1>6, <1>7

LEMMA InformContinues ==
  ASSUME NEW n \in Rank, DaemonOut(n), Advance(n), daemon[n].pc = "inform", daemon[n].out # << >>,
         daemon[n].page \in Nat, daemon[n].slot \in Nat,
         NEW fd, NEW w, fd = Head(daemon[n].out).fd, w = Head(daemon[n].out).word
  PROVE  Continues(n, fd, w)
<1>0. PICK p \in Nat : p = daemon[n].page
  OBVIOUS
<1>s. PICK s \in Nat : s = daemon[n].slot
  OBVIOUS
<1>1. /\ daemon'[n].out = Tail(daemon[n].out) /\ daemon'[n].pc = "inform"
      /\ daemon'[n].slot = s /\ daemon'[n].page = p
  BY <1>0, <1>s DEF Advance
<1>2. PICK f \in Fd : daemon[n].out \in {<<To(f, Num(SEND_INFO)), To(f, Num(p)), To(f, Num(s))>>,
                                         <<To(f, Num(p)), To(f, Num(s))>>, <<To(f, Num(s))>>}
  BY <1>0, <1>s DEF DaemonOut
<1> DEFINE a == To(f, Num(SEND_INFO))
           b == To(f, Num(p))
           c == To(f, Num(s))
<1>3. /\ a.fd = f /\ b.fd = f /\ a.word = Num(SEND_INFO) /\ b.word = Num(p)
      /\ c.fd = f /\ c.word = Num(s)
      /\ Num(p) \in Word /\ Num(SEND_INFO) \in Word /\ Num(s) \in Word
  BY Outgoing, Words DEF SEND_INFO
<1>r. daemon[n].out \in {<<a, b, c>>, <<b, c>>, <<c>>}
  BY <1>2
<1> HIDE DEF a, b, c
<1>4. f = fd
  BY <1>3, <1>r, Outs
<1>5. ASSUME NEW q, q # fd
      PROVE  DaemonOwed(n, q)' = DaemonOwed(n, q) /\ DaemonOwed(n, q) # "text"
  <2>1. daemon'[n].out = << >> \/ Head(daemon'[n].out).fd = f
    BY <1>1, <1>3, <1>r, Outs
  <2>2. Head(daemon[n].out).fd # q /\ ~(daemon'[n].out # << >> /\ Head(daemon'[n].out).fd = q)
    BY <1>4, <1>5, <2>1, Outs
  <2> QED BY <1>1, <1>s, <2>2 DEF DaemonOwed
<1>6. CASE daemon[n].out = <<a, b, c>>
  <2>1. /\ Head(daemon[n].out) = a /\ Len(daemon[n].out) = 3 /\ daemon'[n].out = <<b, c>>
        /\ Len(daemon'[n].out) = 2 /\ Head(daemon'[n].out) = b /\ daemon'[n].out # << >>
        /\ daemon[n].out # << >>
    BY <1>1, <1>6, Outs
  <2>2. DaemonOwed(n, fd) = "type" /\ DaemonOwed(n, fd)' = "infoPage"
    BY <1>s, <1>1, <1>3, <1>4, <2>1, Outs DEF DaemonOwed, InfoOwed
  <2>3. DaemonOut(n)'
    BY <1>1, <2>1 DEF DaemonOut, b, c
  <2>4. WritesTo(daemon[n].out, fd)
    BY <1>3, <1>4, <1>6, OutWrites
  <2>5. w = Num(SEND_INFO) /\ w \in Word
    BY <1>3, <2>1
  <2>6. Follows("type", w, "infoPage", p)
    BY <2>5, Outgoing DEF Follows
  <2> QED BY <1>0, <1>5, <2>2, <2>3, <2>4, <2>5, <2>6, Onward
<1>7. CASE daemon[n].out = <<b, c>>
  <2>1. /\ Head(daemon[n].out) = b /\ Len(daemon[n].out) = 2 /\ daemon'[n].out = <<c>>
        /\ Len(daemon'[n].out) = 1 /\ Head(daemon'[n].out) = c /\ daemon'[n].out # << >>
        /\ daemon[n].out # << >>
    BY <1>1, <1>7, Outs
  <2>2. DaemonOwed(n, fd) = "infoPage" /\ DaemonOwed(n, fd)' = "infoOwner"
    BY <1>s, <1>1, <1>3, <1>4, <2>1, Outs DEF DaemonOwed, InfoOwed
  <2>3. DaemonOut(n)'
    BY <1>1, <2>1 DEF DaemonOut, c
  <2>4. WritesTo(daemon[n].out, fd)
    BY <1>3, <1>4, <1>7, OutWrites
  <2>5. w = Num(p) /\ w \in Word
    BY <1>3, <2>1
  <2>6. Follows("infoPage", w, "infoOwner", p)
    BY <2>5, Outgoing DEF Follows
  <2> QED BY <1>0, <1>5, <2>2, <2>3, <2>4, <2>5, <2>6, Onward
<1>8. CASE daemon[n].out = <<c>>
  <2>1. /\ Head(daemon[n].out) = c /\ Len(daemon[n].out) = 1 /\ daemon'[n].out = << >>
        /\ Len(daemon'[n].out) = 0 /\ daemon[n].out # << >>
    BY <1>1, <1>8, Outs
  <2>2. DaemonOwed(n, fd) = "infoOwner" /\ DaemonOwed(n, fd)' = "type"
    BY <1>s, <1>1, <1>3, <1>4, <2>1, Outs DEF DaemonOwed, InfoOwed
  <2>3. DaemonOut(n)'
    BY <1>1, <2>1 DEF DaemonOut
  <2>4. WritesTo(daemon[n].out, fd)
    BY <1>3, <1>4, <1>8, OutWrites
  <2>5. w = Num(s) /\ w \in Word
    BY <1>3, <2>1
  <2>6. Follows("infoOwner", w, "type", p)
    BY <2>5, Outgoing DEF Follows
  <2> QED BY <1>0, <1>5, <2>2, <2>3, <2>4, <2>5, <2>6, Onward
<1> QED BY <1>r, <1>6, <1>7, <1>8

\* The daemon writes a word of a message.
LEMMA DaemonWrites ==
  ASSUME TypeOK, Shaped, StreamsFramed, NEW n \in Rank, daemon[n].out # << >>,
         Delivers(n, Head(daemon[n].out).fd, Head(daemon[n].out).word),
         daemon' = [daemon EXCEPT ![n].out = Tail(@)],
         UNCHANGED <<mapped, table, open, stdin, main>>,
         NEW st \in Views, Framed(st)
  PROVE  /\ Shaped'
         /\ Silent(n) \/ \E r, b : r = Head(daemon[n].out).fd /\ Writes(n, st, r, Head(daemon[n].out).word, b)
<1>1. daemon \in [Rank -> DaemonState]
  BY DEF TypeOK, DaemonState
<1>2. /\ daemon[n].page \in Nat /\ daemon[n].slot \in Rank /\ daemon[n].out \in Seq(Output)
      /\ Advance(n)
  BY <1>1 DEF Advance, DaemonState
<1>3. Head(daemon[n].out) \in Output
  BY <1>2
<1>4. PICK fd \in Fd, w \in Word : fd = Head(daemon[n].out).fd /\ w = Head(daemon[n].out).word
  BY <1>3 DEF Output
<1>5. DaemonOut(n) /\ DaemonPlace(n)
  BY DEF Shaped
<1>6. daemon[n].pc \in {"copy", "unmap", "fault", "inform"}
  BY <1>5 DEF DaemonOut
<1>7. Delivers(n, fd, w)
  BY <1>4
<1>8. Continues(n, fd, w)
  <2>1. ASSUME daemon[n].pc = "fault" PROVE daemon[n].slot # fd
    <3>1. daemon[n].slot \in Rank \ {n}
      BY <1>2, <1>5, <2>1 DEF DaemonPlace, Busy
    <3>2. WritesTo(daemon[n].out, fd)
      <4>1. PICK f \in Fd : daemon[n].out \in {Request(f, daemon[n].page), <<To(f, Num(daemon[n].page))>>}
        BY <1>5, <2>1 DEF DaemonOut
      <4> QED BY <1>4, <4>1, Outs, OutWrites, Outgoing DEF Request
    <3> QED BY <2>1, <3>1, <3>2 DEF StreamsFramed
  <2>2. daemon[n].slot \in Nat
    BY <1>2, Ranks
  <2> QED BY <1>2, <1>4, <1>5, <1>6, <2>1, <2>2, CopyContinues, UnmapContinues,
             FaultContinues, InformContinues
<1> QED BY <1>4, <1>7, <1>8, DaemonContinues

----------------------------------------------------------------------------
\* Steps that touch no channel.
LEMMA MainLocal ==
  ASSUME Shaped, NEW n \in Rank, UNCHANGED <<chan, open, daemon, mapped>>,
         \A k \in Rank \ {n} : main'[k] = main[k], MainOut(n)',
         \A r \in Rank : ~Asked(n, r) /\ ~Asked(n, r)'
  PROVE  Shaped' /\ Silent(n)
<1>1. Shaped'
  <2>1. \A k \in Rank : MainOut(k)'
    BY DEF Shaped, MainOut
  <2>2. \A k \in Rank : DaemonOut(k)' /\ DaemonPlace(k)'
    BY DEF Shaped, DaemonOut, DaemonPlace
  <2> QED BY <2>1, <2>2 DEF Shaped
<1>2. OthersStay(n) /\ BeginsStay(n, Rank \ {n})
  BY DEF OthersStay, BeginsStay, Begins
<1>3. EndsStay(n, Rank \ {n})
  <2>1. \A r \in Rank : Owed(n, r)' = Owed(n, r)
    BY DEF Owed, DaemonOwed, PageOwed, InfoOwed
  <2> QED BY <2>1 DEF EndsStay, Ends
<1> QED BY <1>1, <1>2, <1>3 DEF Silent

\* Nothing is left to write when no request is being made.
LEMMA NotAsking ==
  ASSUME Shaped, NEW n \in Rank
  PROVE  main[n].pc # "wait" => main[n].out = << >>
BY DEF Shaped, MainOut

LEMMA AskSilent ==
  ASSUME TypeOK, Shaped, NEW n \in Rank, NEW p \in Page, main[n].out = << >>, Ask(n, p)
  PROVE  Shaped' /\ Silent(n)
<1>1. PICK fd : main' = [main EXCEPT ![n] = [pc |-> "wait", page |-> p, asked |-> fd,
                                             out |-> Request(fd, p)]]
  BY DEF Ask
<1>2. /\ main'[n].pc = "wait" /\ main'[n].page = p /\ main'[n].asked = fd
      /\ main'[n].out = Request(fd, p)
      /\ \A k \in Rank \ {n} : main'[k] = main[k]
  BY <1>1 DEF TypeOK
<1>3. MainOut(n)'
  BY <1>2 DEF MainOut
<1>4. \A r \in Rank : ~Asked(n, r) /\ ~Asked(n, r)'
  <2>1. Len(main[n].out) = 0 /\ Len(main'[n].out) = 2
    BY <1>2, Outs DEF Request
  <2> QED BY <2>1, Outs DEF Asked
<1> QED BY <1>2, <1>3, <1>4, MainLocal DEF Ask

\* The user thread, when it does not write.
LEMMA MainSilent ==
  ASSUME TypeOK, Shaped, Together, Together', NEW n \in Rank,
         EndWait(n) \/ Retry(n) \/ CloseNext(n) \/ Fault(n) \/ Finalize(n) \/ StdinEnd(n)
  PROVE  Shaped' /\ Silent(n) /\ UNCHANGED <<daemon, mapped, chan>>
<1>1. main \in [Rank -> MainState]
  BY DEF TypeOK, MainState
<1>2. CASE EndWait(n)
  <2>1. /\ main'[n].out = << >> /\ main[n].out = << >>
        /\ \A k \in Rank \ {n} : main'[k] = main[k]
    BY <1>1, <1>2 DEF EndWait, MainState
  <2>2. MainOut(n)' /\ \A r \in Rank : ~Asked(n, r) /\ ~Asked(n, r)'
    BY <2>1, Outs DEF MainOut, Asked
  <2> QED BY <1>2, <2>1, <2>2, MainLocal DEF EndWait
<1>3. CASE Retry(n)
  <2>0. main[n].out = << >> /\ main[n].page \in Page
    BY <1>1, <1>3, NotAsking DEF Retry, MainState
  <2>1. CASE Ask(n, main[n].page)
    BY <2>0, <2>1, AskSilent DEF Ask
  <2>2. CASE main' = [main EXCEPT ![n] = MainAt("run")] /\ UNCHANGED <<mapped, table, chan, open, stdin, daemon>>
    <3>1. /\ main'[n].out = << >>
          /\ \A k \in Rank \ {n} : main'[k] = main[k]
      BY <1>1, <2>2 DEF MainAt
    <3>2. MainOut(n)' /\ \A r \in Rank : ~Asked(n, r) /\ ~Asked(n, r)'
      BY <2>0, <3>1, Outs DEF MainOut, Asked
    <3> QED BY <2>2, <3>1, <3>2, MainLocal
  <2> QED BY <1>3, <2>1, <2>2 DEF Retry
<1>4. CASE CloseNext(n)
  BY <1>4 DEF CloseNext, Together
<1>5. CASE Fault(n)
  <2>1. PICK p \in Touches[n] \ mapped[n] : Ask(n, p)
    BY <1>5 DEF Fault
  <2>2. p \in Page
    BY NodeAssumption
  <2>3. main[n].out = << >>
    BY <1>5, NotAsking DEF Fault
  <2> QED BY <2>1, <2>2, <2>3, AskSilent DEF Ask
<1>6. CASE Finalize(n)
  <2>1. main'[n].pc = "closing"
    BY <1>1, <1>6 DEF Finalize, MainState
  <2> QED BY <2>1 DEF Together
<1>7. CASE StdinEnd(n)
  <2>1. Shaped'
    BY <1>7 DEF StdinEnd, Shaped, MainOut, DaemonOut, DaemonPlace
  <2>2. OthersStay(n) /\ BeginsStay(n, Rank \ {n})
    BY <1>7 DEF StdinEnd, OthersStay, BeginsStay, Begins
  <2>3. EndsStay(n, Rank \ {n})
    BY <1>7 DEF StdinEnd, EndsStay, Ends, Owed, Asked, DaemonOwed, PageOwed, InfoOwed
  <2> QED BY <1>7, <2>1, <2>2, <2>3 DEF StdinEnd, Silent
<1> QED BY <1>2, <1>3, <1>4, <1>5, <1>6, <1>7

\* Nobody exits while all are together.
LEMMA NoExit ==
  ASSUME TypeOK, Together', NEW n \in Rank
  PROVE  ~Exit(n)
<1>1. ASSUME Exit(n) PROVE FALSE
  <2>1. main'[n] = MainAt("exited")
    BY <1>1 DEF Exit, TypeOK
  <2> QED BY <2>1 DEF Together, MainAt
<1> QED BY <1>1

\* A step of the daemon leaves the rest of its process, and the others.
DaemonOnly(n) ==
  /\ UNCHANGED <<main, open>>
  /\ \A k \in Rank \ {n} : daemon'[k] = daemon[k] /\ mapped'[k] = mapped[k]

LEMMA DaemonOnlyShaped ==
  ASSUME Shaped, NEW n \in Rank, DaemonOnly(n), DaemonOut(n)', DaemonPlace(n)'
  PROVE  Shaped' /\ OthersStay(n)
<1>1. \A k \in Rank : DaemonOut(k)' /\ DaemonPlace(k)'
  BY DEF Shaped, DaemonOnly, DaemonOut, DaemonPlace
<1>2. \A k \in Rank : MainOut(k)'
  BY DEF Shaped, DaemonOnly, MainOut
<1> QED BY <1>1, <1>2 DEF Shaped, DaemonOnly, OthersStay

LEMMA DaemonLocal ==
  ASSUME Shaped, NEW n \in Rank, DaemonOnly(n), DaemonOut(n)', DaemonPlace(n)', chan' = chan,
         \A r \in Rank \ {n} : /\ DaemonOwed(n, r)' = DaemonOwed(n, r)
                               /\ DaemonOwed(n, r) # "text"
                               /\ DaemonOwed(n, r) = "len" => daemon'[n].page = daemon[n].page,
         daemon[n].slot # n => daemon[n].pc \notin Reading,
         daemon'[n].slot # n /\ daemon'[n].pc \in Reading => daemon'[n].pc = "type"
  PROVE  Shaped' /\ Silent(n)
<1>1. Shaped' /\ OthersStay(n)
  BY DaemonOnlyShaped
<1>2. BeginsStay(n, Rank \ {n})
  <2> SUFFICES ASSUME NEW s \in Rank \ {n}, NEW a \in Ahead, Begins(n, s, a) PROVE Begins(n, s, a)'
    BY DEF BeginsStay
  <2>1. a.at = "type"
    BY DEF Begins
  <2> QED BY <2>1 DEF Begins
<1>3. EndsStay(n, Rank \ {n})
  <2> SUFFICES ASSUME NEW r \in Rank \ {n}, NEW a \in Ahead, Ends(n, r, a) PROVE Ends(n, r, a)'
    BY DEF EndsStay
  <2>1. Asked(n, r)' <=> Asked(n, r)
    BY DEF Asked, DaemonOnly
  <2>2. a.at = Owed(n, r) /\ a.at # "text" /\ (a.at = "len" => daemon'[n].page = daemon[n].page /\ a.page = daemon[n].page)
    BY DEF Ends, Owed
  <2>3. Owed(n, r)' = Owed(n, r)
    BY <2>1 DEF Owed
  <2> QED BY <2>2, <2>3 DEF Ends
<1> QED BY <1>1, <1>2, <1>3 DEF Silent

\* What the daemon's record becomes in each of these steps.
LEMMA PollSilent ==
  ASSUME TypeOK, Shaped, Together', NEW n \in Rank,
         Poll(n) \/ Scan(n) \/ EndScan(n) \/ Install(n)
  PROVE  Shaped' /\ Silent(n) /\ UNCHANGED <<main, mapped, chan>>
<1>0. daemon \in [Rank -> DaemonState] /\ DaemonOut(n) /\ DaemonPlace(n) /\ ~Exit(n)
  BY NoExit DEF TypeOK, DaemonState, Shaped
<1>1. /\ UNCHANGED <<main, mapped, open, chan>>
      /\ \A k \in Rank \ {n} : daemon'[k] = daemon[k]
      /\ daemon[n].pc \in {"poll", "scan", "install"}
      /\ daemon'[n].pc \in {"scan", "type", "poll"} /\ daemon'[n].out = daemon[n].out
  <2>1. CASE Poll(n)
    BY <1>0, <2>1 DEF Poll, DaemonState
  <2>2. CASE Scan(n)
    <3>1. UNCHANGED <<mapped, chan, open, main>> /\ daemon[n].pc = "scan"
      BY <2>2, Zenon DEF Scan
    <3>2. PICK s \in daemon[n].ready :
            \/ HangUp(n, s)
            \/ daemon' = [daemon EXCEPT ![n].pc = "type", ![n].slot = s, ![n].ready = @ \ {s}]
      BY <2>2, Zenon DEF Scan
    <3>3. CASE HangUp(n, s)
      BY <1>0, <3>1, <3>3 DEF HangUp, DaemonState
    <3>4. CASE daemon' = [daemon EXCEPT ![n].pc = "type", ![n].slot = s, ![n].ready = @ \ {s}]
      BY <1>0, <3>1, <3>4 DEF DaemonState
    <3> QED BY <3>2, <3>3, <3>4
  <2>3. CASE EndScan(n)
    BY <1>0, <2>3 DEF EndScan, DaemonState
  <2>4. CASE Install(n)
    <3>1. UNCHANGED <<mapped, chan, open, main>> /\ daemon[n].pc = "install"
      BY <1>0, <2>4 DEF Install
    <3>2. daemon' = [daemon EXCEPT ![n] = Resume(n)]
      BY <1>0, <2>4 DEF Install
    <3>3. daemon'[n] = Resume(n) /\ \A k \in Rank \ {n} : daemon'[k] = daemon[k]
      BY <1>0, <3>2
    <3>4. Resume(n).pc = "scan" /\ Resume(n).out = daemon[n].out
      BY <1>0 DEF Resume, DaemonState
    <3> QED BY <3>1, <3>3, <3>4
  <2> QED BY <2>1, <2>2, <2>3, <2>4
<1>2. DaemonOnly(n)
  BY <1>1 DEF DaemonOnly
<1>3. daemon[n].out = << >>
  BY <1>0, <1>1 DEF DaemonOut
<1>4. DaemonOut(n)' /\ DaemonPlace(n)'
  BY <1>1, <1>3 DEF DaemonOut, DaemonPlace, Busy
<1>5. \A r \in Rank : DaemonOwed(n, r) = "type" /\ DaemonOwed(n, r)' = "type"
  BY <1>1 DEF DaemonOwed
<1> QED BY <1>1, <1>2, <1>4, <1>5, DaemonLocal DEF Reading, ReadingInt

LEMMA Resumed ==
  ASSUME TypeOK, NEW n \in Rank, daemon' = [daemon EXCEPT ![n] = Resume(n)]
  PROVE  /\ daemon'[n].pc = "scan" /\ daemon'[n].out = daemon[n].out
         /\ daemon'[n].slot = 0 /\ daemon'[n].page = 0
         /\ \A k \in Rank \ {n} : daemon'[k] = daemon[k]
<1>0. daemon \in [Rank -> DaemonState]
  BY DEF TypeOK, DaemonState
<1>1. daemon'[n] = Resume(n) /\ \A k \in Rank \ {n} : daemon'[k] = daemon[k]
  BY <1>0
<1> QED BY <1>0, <1>1 DEF Resume, DaemonState

\* Whom one turn of the loop over the pages writes to.
Informed(n, fd) ==
  fd \in FdOf(n, daemon[n].index) /\ daemon[n].index % DSM_NODE_NUM \notin {n, daemon[n].slot}

\* One turn of the loop that informs the others.
LEMMA Informs ==
  ASSUME TypeOK, NEW n \in Rank, Inform(n)
  PROVE  /\ UNCHANGED <<mapped, main, open, chan>>
         /\ daemon[n].pc = "inform" /\ daemon[n].out = << >>
         /\ \A k \in Rank \ {n} : daemon'[k] = daemon[k]
         /\ \/ daemon'[n].pc = "scan" /\ daemon'[n].out = << >>
            \/ /\ daemon'[n].pc = "inform" /\ daemon'[n].slot = daemon[n].slot
               /\ daemon'[n].page = daemon[n].page
               /\ \/ daemon'[n].out = << >>
                  \/ \E fd \in Fd : Informed(n, fd) /\ daemon'[n].out =
                       <<To(fd, Num(SEND_INFO)), To(fd, Num(daemon[n].page)), To(fd, Num(daemon[n].slot))>>
<1>0. daemon \in [Rank -> DaemonState]
  BY DEF TypeOK, DaemonState
<1>1. UNCHANGED <<mapped, main, open, chan>> /\ daemon[n].pc = "inform" /\ daemon[n].out = << >>
  BY Zenon DEF Inform
<1>2. PICK d \in DaemonState : d = daemon[n]
  BY <1>0
<1>3. PICK next : next = [d EXCEPT !.index = d.index + 1]
  OBVIOUS
<1>4. next.pc = "inform" /\ next.slot = d.slot /\ next.page = d.page /\ next.out = << >>
  BY <1>1, <1>2, <1>3 DEF DaemonState
<1>5. CASE daemon' = [daemon EXCEPT ![n] = Resume(n)]
  BY <1>1, <1>5, Resumed
<1>6. CASE daemon' = [daemon EXCEPT ![n] = next]
  <2>1. daemon'[n] = next /\ \A k \in Rank \ {n} : daemon'[k] = daemon[k]
    BY <1>0, <1>6
  <2> QED BY <1>1, <1>2, <1>4, <2>1
<1>7. ASSUME NEW fd \in Fd, NEW o,
             o = <<To(fd, Num(SEND_INFO)), To(fd, Num(daemon[n].page)), To(fd, Num(daemon[n].slot))>>,
             daemon' = [daemon EXCEPT ![n] = [next EXCEPT !.out = o]]
      PROVE  /\ \A k \in Rank \ {n} : daemon'[k] = daemon[k]
             /\ daemon'[n].pc = "inform" /\ daemon'[n].slot = daemon[n].slot
             /\ daemon'[n].page = daemon[n].page /\ daemon'[n].out = o
  <2>1. daemon'[n] = [next EXCEPT !.out = o] /\ \A k \in Rank \ {n} : daemon'[k] = daemon[k]
    BY <1>0, <1>7
  <2>2. /\ [next EXCEPT !.out = o].pc = next.pc /\ [next EXCEPT !.out = o].slot = next.slot
        /\ [next EXCEPT !.out = o].page = next.page /\ [next EXCEPT !.out = o].out = o
    BY <1>2, <1>3 DEF DaemonState
  <2> QED BY <1>2, <1>4, <2>1, <2>2
<1>8. \/ \E fd \in FdOf(n, d.index) : Informed(n, fd) /\ daemon' = [daemon EXCEPT ![n] = [next EXCEPT !.out =
                   <<To(fd, Num(SEND_INFO)), To(fd, Num(daemon[n].page)), To(fd, Num(daemon[n].slot))>>]]
      \/ daemon' = [daemon EXCEPT ![n] = next]
      \/ daemon' = [daemon EXCEPT ![n] = Resume(n)]
  BY <1>2, <1>3, Zenon DEF Inform, Informed
<1>9. FdOf(n, d.index) \subseteq Fd
  <2>1. d.index \in Nat
    BY <1>2, Indexes DEF DaemonState
  <2> QED BY <2>1, Descriptors
<1>10. ASSUME NEW fd \in FdOf(n, d.index), Informed(n, fd), daemon' = [daemon EXCEPT ![n] = [next EXCEPT !.out =
                   <<To(fd, Num(SEND_INFO)), To(fd, Num(daemon[n].page)), To(fd, Num(daemon[n].slot))>>]]
       PROVE  /\ \A k \in Rank \ {n} : daemon'[k] = daemon[k]
              /\ daemon'[n].pc = "inform" /\ daemon'[n].slot = daemon[n].slot
              /\ daemon'[n].page = daemon[n].page
              /\ \E f \in Fd : Informed(n, f) /\ daemon'[n].out =
                   <<To(f, Num(SEND_INFO)), To(f, Num(daemon[n].page)), To(f, Num(daemon[n].slot))>>
  <2>1. fd \in Fd
    BY <1>9
  <2> QED BY <1>7, <1>10, <2>1
<1> QED BY <1>1, <1>5, <1>6, <1>8, <1>10

LEMMA UnmapSilent ==
  ASSUME TypeOK, Shaped, NEW n \in Rank, UnmapPage(n) \/ Inform(n)
  PROVE  Shaped' /\ Silent(n) /\ UNCHANGED <<main, chan>>
<1>0. daemon \in [Rank -> DaemonState] /\ DaemonOut(n) /\ DaemonPlace(n) /\ mapped \in [Rank -> SUBSET Page]
  BY DEF TypeOK, DaemonState, Shaped
<1>1. /\ UNCHANGED <<main, open, chan>> /\ daemon[n].out = << >>
      /\ \A k \in Rank \ {n} : daemon'[k] = daemon[k] /\ mapped'[k] = mapped[k]
      /\ daemon[n].pc \in {"unmap", "inform"}
      /\ \/ daemon'[n].pc = "inform" /\ daemon'[n].slot = daemon[n].slot
         \/ daemon'[n].pc = "scan"
      /\ \/ daemon'[n].out = << >>
         \/ /\ daemon'[n].pc = "inform"
            /\ \E fd \in Fd : daemon'[n].out =
                 <<To(fd, Num(SEND_INFO)), To(fd, Num(daemon'[n].page)), To(fd, Num(daemon'[n].slot))>>
  <2>1. CASE UnmapPage(n)
    BY <1>0, <2>1 DEF UnmapPage, DaemonState
  <2>2. CASE Inform(n)
    BY <2>2, Informs
  <2> QED BY <2>1, <2>2
<1>2. DaemonOnly(n)
  BY <1>1 DEF DaemonOnly
<1>4. DaemonOut(n)' /\ DaemonPlace(n)'
  <2>1. DaemonPlace(n)'
    BY <1>0, <1>1 DEF DaemonPlace, Busy
  <2>2. DaemonOut(n)'
    <3>1. CASE daemon'[n].out = << >>
      BY <1>1, <3>1, Ranks DEF DaemonOut
    <3>2. CASE daemon'[n].out # << >>
      BY <1>1, <3>2 DEF DaemonOut
    <3> QED BY <3>1, <3>2
  <2> QED BY <2>1, <2>2
<1>5. \A r \in Rank : DaemonOwed(n, r) = "type" /\ DaemonOwed(n, r)' = "type"
  <2>1. \A r : DaemonOwed(n, r) = "type"
    BY <1>1 DEF DaemonOwed, PageOwed
  <2>2. CASE daemon'[n].out = << >>
    BY <1>1, <2>1, <2>2 DEF DaemonOwed
  <2>3. CASE Len(daemon'[n].out) = 3 /\ daemon'[n].pc = "inform"
    BY <2>1, <2>3, Outs DEF DaemonOwed, InfoOwed
  <2> QED BY <1>1, <2>2, <2>3, Outs
<1> QED BY <1>1, <1>2, <1>4, <1>5, DaemonLocal DEF Reading, ReadingInt

\* What dsm_send_page does with the page: it copies it, or it faults on it.
LEMMA Copies ==
  ASSUME TypeOK, Together', NEW n \in Rank, CopyPage(n)
  PROVE  /\ UNCHANGED <<mapped, main, open, chan>>
         /\ daemon[n].pc = "copy" /\ daemon[n].out = << >>
         /\ \A k \in Rank \ {n} : daemon'[k] = daemon[k]
         /\ daemon'[n].slot = daemon[n].slot /\ daemon'[n].page = daemon[n].page
         /\ \/ /\ daemon[n].page \in mapped[n] /\ daemon'[n].pc = "unmap"
               /\ \/ daemon'[n].out = <<To(daemon[n].slot, Num(0))>>
                  \/ \E l \in Nat \ {0} :
                       daemon'[n].out = <<To(daemon[n].slot, Num(l)), To(daemon[n].slot, Text(l))>>
            \/ /\ daemon[n].page \in Page \ mapped[n] /\ daemon'[n].pc = "fault"
               /\ \E fd \in Fd : daemon'[n].out = Request(fd, daemon[n].page)
<1>0. daemon \in [Rank -> DaemonState] /\ ~Exit(n)
  BY NoExit DEF TypeOK, DaemonState
<1>1. UNCHANGED <<mapped, main, open, chan>> /\ daemon[n].pc = "copy" /\ daemon[n].out = << >>
  BY <1>0 DEF CopyPage
<1>2. ASSUME NEW pc, NEW o, daemon' = [daemon EXCEPT ![n].pc = pc, ![n].out = o]
      PROVE  /\ \A k \in Rank \ {n} : daemon'[k] = daemon[k]
             /\ daemon'[n].slot = daemon[n].slot /\ daemon'[n].page = daemon[n].page
             /\ daemon'[n].pc = pc /\ daemon'[n].out = o
  BY <1>0, <1>2 DEF DaemonState
<1>p. PICK p \in Nat, s \in Rank : p = daemon[n].page /\ s = daemon[n].slot
  BY <1>0 DEF DaemonState
<1>3. CASE p \in mapped[n]
  <2>1. PICK l \in Lengths : daemon' = [daemon EXCEPT ![n].pc = "unmap",
            ![n].out = <<To(s, Num(l))>> \o (IF l = 0 THEN << >> ELSE <<To(s, Text(l))>>)]
    BY <1>0, <1>3, <1>p DEF CopyPage
  <2>2. PICK o : o = <<To(s, Num(l))>> \o (IF l = 0 THEN << >> ELSE <<To(s, Text(l))>>)
    OBVIOUS
  <2>3. daemon' = [daemon EXCEPT ![n].pc = "unmap", ![n].out = o]
    BY <2>1, <2>2
  <2>4. \/ o = <<To(s, Num(0))>>
        \/ l \in Nat \ {0} /\ o = <<To(s, Num(l)), To(s, Text(l))>>
    <3>1. l \in Nat
      BY NodeAssumption
    <3>2. \A a : <<a>> \o << >> = <<a>>
      OBVIOUS
    <3>3. ASSUME NEW a, NEW b PROVE <<a>> \o <<b>> = <<a, b>>
      <4>1. <<a>> \in Seq({a, b}) /\ b \in {a, b}
        OBVIOUS
      <4>2. Append(<<a>>, b) = <<a, b>>
        <5>1. Append(<<a>>, b) \in Seq({a, b}) /\ <<a, b>> \in Seq({a, b})
          OBVIOUS
        <5>2. /\ Len(Append(<<a>>, b)) = 2 /\ Len(<<a, b>>) = 2
              /\ Append(<<a>>, b)[1] = a /\ Append(<<a>>, b)[2] = b
          OBVIOUS
        <5>3. \A i \in 1 .. 2 : Append(<<a>>, b)[i] = <<a, b>>[i]
          BY <5>2
        <5> QED BY <5>1, <5>2, <5>3, SeqEqual
      <4> QED BY <4>1, <4>2, AppendIsConcat
    <3> QED BY <2>2, <3>1, <3>2, <3>3
  <2>5. /\ \A k \in Rank \ {n} : daemon'[k] = daemon[k]
        /\ daemon'[n].slot = daemon[n].slot /\ daemon'[n].page = daemon[n].page
        /\ daemon'[n].pc = "unmap" /\ daemon'[n].out = o
    BY <1>2, <2>3
  <2> QED BY <1>1, <1>3, <1>p, <2>4, <2>5
<1>4. CASE p \notin mapped[n]
  <2>1. p \in Page /\ \E fd \in FdOf(n, table[n][p].owner) :
            daemon' = [daemon EXCEPT ![n].pc = "fault", ![n].out = Request(fd, p)]
    BY <1>0, <1>4, <1>p DEF CopyPage
  <2>2. table[n][p].owner \in Nat
    BY <2>1 DEF TypeOK
  <2>3. PICK fd \in Fd : daemon' = [daemon EXCEPT ![n].pc = "fault", ![n].out = Request(fd, p)]
    BY <2>1, <2>2, Descriptors
  <2>5. /\ \A k \in Rank \ {n} : daemon'[k] = daemon[k]
        /\ daemon'[n].slot = daemon[n].slot /\ daemon'[n].page = daemon[n].page
        /\ daemon'[n].pc = "fault" /\ daemon'[n].out = Request(fd, p)
    BY <1>2, <2>3
  <2> QED BY <1>1, <1>4, <1>p, <2>1, <2>5
<1> QED BY <1>3, <1>4

LEMMA CopySilent ==
  ASSUME TypeOK, Shaped, Together', NEW n \in Rank, CopyPage(n) \/ EndFault(n)
  PROVE  Shaped' /\ Silent(n) /\ UNCHANGED <<main, mapped, chan>>
<1>0. daemon \in [Rank -> DaemonState] /\ DaemonOut(n) /\ DaemonPlace(n)
  BY DEF TypeOK, DaemonState, Shaped
<1>p. PICK p \in Nat, s \in Rank : p = daemon[n].page /\ s = daemon[n].slot
  BY <1>0 DEF DaemonState
<1>1. CASE CopyPage(n)
  <2>1. DaemonOnly(n) /\ chan' = chan /\ mapped' = mapped /\ daemon[n].pc = "copy" /\ daemon[n].out = << >>
    BY <1>1, Copies DEF DaemonOnly
  <2>2. daemon'[n].slot = s /\ daemon'[n].page = p
    BY <1>1, <1>p, Copies
  <2>3. \/ /\ p \in mapped[n] /\ daemon'[n].pc = "unmap"
           /\ \/ daemon'[n].out = <<To(s, Num(0))>>
              \/ \E l \in Nat \ {0} : daemon'[n].out = <<To(s, Num(l)), To(s, Text(l))>>
        \/ /\ daemon'[n].pc = "fault"
           /\ \E fd \in Fd : daemon'[n].out = Request(fd, p)
    BY <1>1, <1>p, Copies
  <2>4. DaemonPlace(n)'
    BY <1>0, <1>p, <2>1, <2>2, <2>3 DEF DaemonPlace, Busy
  <2>5. DaemonOwed(n, s) = "len" /\ \A r : r # s => DaemonOwed(n, r) = "type"
    BY <1>p, <2>1, Outs DEF DaemonOwed, PageOwed
  <2>6. CASE daemon'[n].pc = "fault" /\ \E fd \in Fd : daemon'[n].out = Request(fd, p)
    <3>1. DaemonOut(n)'
      BY <2>2, <2>6 DEF DaemonOut
    <3>2. Len(daemon'[n].out) = 2
      BY <2>6, Outs DEF Request
    <3>3. DaemonOwed(n, s)' = "len" /\ \A r : r # s => DaemonOwed(n, r)' = "type"
      BY <2>2, <2>6, <3>2, Outs DEF DaemonOwed, PageOwed
    <3> QED BY <1>p, <2>1, <2>2, <2>4, <2>5, <2>6, <3>1, <3>3, DaemonLocal DEF Reading, ReadingInt, DaemonOnly
  <2>7. CASE /\ daemon'[n].pc = "unmap"
             /\ \/ daemon'[n].out = <<To(s, Num(0))>>
                \/ \E l \in Nat \ {0} : daemon'[n].out = <<To(s, Num(l)), To(s, Text(l))>>
    <3>1. DaemonOut(n)'
      BY <2>2, <2>7 DEF DaemonOut
    <3>2. daemon'[n].out # << >> /\ Head(daemon'[n].out).word.kind = "int"
      <4>1. PICK v, x : daemon'[n].out = <<To(s, Num(v))>> \/ daemon'[n].out = <<To(s, Num(v)), x>>
        BY <2>7
      <4>2. daemon'[n].out # << >> /\ Head(daemon'[n].out) = To(s, Num(v))
        BY <4>1, Outs
      <4> QED BY <4>2, Outgoing
    <3>3. DaemonOwed(n, s)' = "len" /\ \A r : r # s => DaemonOwed(n, r)' = "type"
      BY <2>2, <2>7, <3>2 DEF DaemonOwed, PageOwed
    <3> QED BY <1>p, <2>1, <2>2, <2>4, <2>5, <2>7, <3>1, <3>3, DaemonLocal DEF Reading, ReadingInt, DaemonOnly
  <2> QED BY <2>3, <2>6, <2>7
<1>2. CASE EndFault(n)
  <2>1. /\ DaemonOnly(n) /\ chan' = chan /\ mapped' = mapped /\ daemon[n].pc = "fault" /\ daemon[n].out = << >>
        /\ daemon'[n].pc = "copy" /\ daemon'[n].slot = s /\ daemon'[n].page = p /\ daemon'[n].out = << >>
    BY <1>0, <1>2, <1>p DEF EndFault, DaemonOnly, DaemonState
  <2>2. DaemonPlace(n)' /\ DaemonOut(n)'
    BY <1>0, <1>p, <2>1 DEF DaemonPlace, DaemonOut, Busy
  <2>3. DaemonOwed(n, s) = "len" /\ \A r : r # s => DaemonOwed(n, r) = "type"
    BY <1>p, <2>1, Outs DEF DaemonOwed, PageOwed
  <2>4. DaemonOwed(n, s)' = "len" /\ \A r : r # s => DaemonOwed(n, r)' = "type"
    BY <2>1, Outs DEF DaemonOwed, PageOwed
  <2> QED BY <1>p, <2>1, <2>2, <2>3, <2>4, DaemonLocal DEF Reading, ReadingInt, DaemonOnly
<1> QED BY <1>1, <1>2

\* Only the standard input can end.
LEMMA EndSilent ==
  ASSUME TypeOK, Shaped, Together', NEW n \in Rank, ReadEnds(n)
  PROVE  /\ Shaped' /\ Silent(n) /\ UNCHANGED <<main, mapped, chan>>
         /\ daemon[n].pc \in {"type", "eof"} /\ daemon'[n].pc = "eof"
<1>0. daemon \in [Rank -> DaemonState] /\ DaemonOut(n) /\ DaemonPlace(n) /\ ~Exit(n)
  BY NoExit DEF TypeOK, DaemonState, Shaped
<1>p. PICK p \in Nat, s \in Rank : p = daemon[n].page /\ s = daemon[n].slot
  BY <1>0 DEF DaemonState
<1>1. \A q \in Rank \ {n} : q \in open[n] /\ Connected(n, q)
  <2> SUFFICES ASSUME NEW q \in Rank \ {n} PROVE q \in open[n] /\ Connected(n, q)
    OBVIOUS
  <2>1. Link[n][q] \in Rank \ {n}
    BY Links
  <2>2. PICK r \in Rank \ {Link[n][q]} : Link[Link[n][q]][r] = n
    BY <2>1, Links
  <2> QED BY <2>1, <2>2 DEF Connected, Shaped
<1>2. /\ daemon' = [daemon EXCEPT ![n].pc = "eof"] /\ UNCHANGED <<mapped, table, chan, open, stdin, main>>
      /\ daemon[n].pc \in Reading \cup {"eof"} /\ s = n
  BY <1>0, <1>1, <1>p DEF ReadEnds
<1>3. /\ DaemonOnly(n) /\ daemon'[n].pc = "eof" /\ daemon'[n].slot = s /\ daemon'[n].page = p
      /\ daemon'[n].out = daemon[n].out
  BY <1>0, <1>2, <1>p DEF DaemonOnly, DaemonState
<1>4. DaemonOut(n)' /\ DaemonPlace(n)'
  BY <1>0, <1>2, <1>3 DEF DaemonOut, DaemonPlace, Reading, ReadingInt, Busy
<1>5. \A r \in Rank : DaemonOwed(n, r) = "type" /\ DaemonOwed(n, r)' = "type"
  BY <1>2, <1>3 DEF DaemonOwed, Reading, ReadingInt
<1>6. daemon[n].pc \in {"type", "eof"}
  BY <1>0, <1>p, <1>2 DEF DaemonPlace, Busy, Reading, ReadingInt
<1> QED BY <1>p, <1>2, <1>3, <1>4, <1>5, <1>6, DaemonLocal DEF Reading, ReadingInt

----------------------------------------------------------------------------
\* The word that the daemon takes is one that it expects.
LEMMA ReadsLegal ==
  ASSUME TypeOK, Shaped, NEW st \in Views, Framed(st), NEW n \in Rank, NEW at \in Reading, NEW kind,
         Takes(n, at, kind), NEW s, s = daemon[n].slot, NEW m, m = Link[n][s]
  PROVE  /\ s \in Rank \ {n} /\ m \in Rank \ {n} /\ Popped(m, n) /\ daemon[n].pc = at
         /\ chan[m][n][1] \in Word /\ chan[m][n][1].kind = kind /\ chan[m][n][1].val = NextWord(n)
         /\ st[m][n][0] \in Ahead /\ st[m][n][1] \in Ahead
         /\ Legal(st[m][n][0], chan[m][n][1], st[m][n][1])
         /\ st[m][n][0].at = at
         /\ at \in {"len", "text"} => st[m][n][0].page = daemon[n].page
         /\ at = "text" => st[m][n][0].len = daemon[n].len
<1>1. /\ s \in Rank \ {n} /\ m \in Rank \ {n} /\ Popped(m, n) /\ daemon[n].pc = at
      /\ chan[m][n][1] \in Word /\ chan[m][n][1].kind = kind /\ chan[m][n][1].val = NextWord(n)
  BY TakesPops DEF Shaped
<1>2. st[m][n][0] \in Ahead /\ st[m][n][1] \in Ahead
  BY <1>1, Seen
<1>3. Legal(st[m][n][0], chan[m][n][1], st[m][n][1])
  <2>1. 1 \in 1 .. Len(chan[m][n]) /\ 1 - 1 = 0
    <3>1. Len(chan[m][n]) \in Nat \ {0}
      BY <1>1 DEF Popped
    <3> QED BY <3>1
  <2> QED BY <1>1, <2>1 DEF Framed
<1>4. Begins(n, s, st[m][n][0])
  BY <1>1 DEF Framed
<1>5. /\ st[m][n][0].at = at
      /\ at \in {"len", "text"} => st[m][n][0].page = daemon[n].page
      /\ at = "text" => st[m][n][0].len = daemon[n].len
  BY <1>1, <1>4, Zenon DEF Begins
<1> QED BY <1>1, <1>2, <1>3, <1>5, Zenon

LEMMA ReadFramed ==
  ASSUME Shaped, NEW n \in Rank, NEW s \in Rank \ {n}, s = daemon[n].slot, daemon[n].pc \in Reading,
         NEW st, Popped(Link[n][s], n), DaemonOnly(n), DaemonOut(n)', DaemonPlace(n)',
         \A r \in Rank : DaemonOwed(n, r)' = "type",
         daemon'[n].slot = s \/ daemon'[n].pc \notin Reading,
         Begins(n, s, st[Link[n][s]][n][1])'
  PROVE  Shaped' /\ Reads(n, st, s)
<1>1. Shaped' /\ OthersStay(n)
  BY DaemonOnlyShaped
<1>2. BeginsStay(n, Rank \ {n, s})
  BY DEF BeginsStay, Begins
<1>3. EndsStay(n, Rank \ {n})
  <2>1. \A r \in Rank : DaemonOwed(n, r) = "type"
    BY DEF DaemonOwed, Reading, ReadingInt
  <2>2. \A r \in Rank : Owed(n, r)' = Owed(n, r) /\ Owed(n, r) \in {"type", "wanted"}
    BY <2>1 DEF Owed, Asked, DaemonOnly
  <2> QED BY <2>2 DEF EndsStay, Ends
<1> QED BY <1>1, <1>2, <1>3 DEF Reads

\* Each of the reads; the daemon never meets a word that it does not expect.
LEMMA NeverMisframed ==
  ASSUME TypeOK, Shaped, NEW st \in Views, Framed(st), NEW n \in Rank
  PROVE  ~Misframed(n)
<1> SUFFICES ASSUME Misframed(n) PROVE FALSE
  OBVIOUS
<1>1. PICK s, m : s = daemon[n].slot /\ m = Link[n][s]
  OBVIOUS
<1>2. ASSUME NEW at \in ReadingInt, Takes(n, at, "text") PROVE FALSE
  <2>1. at \in Reading /\ at # "text"
    BY DEF Reading, ReadingInt
  <2>2. /\ chan[m][n][1].kind = "text" /\ st[m][n][0].at = at
        /\ Legal(st[m][n][0], chan[m][n][1], st[m][n][1])
    BY <1>1, <1>2, <2>1, ReadsLegal
  <2> QED BY <2>1, <2>2 DEF Legal
<1>3. ASSUME NEW kind, Takes(n, "text", kind) PROVE kind = "text" /\ NextWord(n) = daemon[n].len
  <2>1. "text" \in Reading
    BY DEF Reading
  <2>2. /\ chan[m][n][1].kind = kind /\ st[m][n][0].at = "text" /\ chan[m][n][1].val = NextWord(n)
        /\ st[m][n][0].len = daemon[n].len
        /\ Legal(st[m][n][0], chan[m][n][1], st[m][n][1])
    BY <1>1, <1>3, <2>1, ReadsLegal
  <2> QED BY <2>2 DEF Legal
<1> QED BY <1>2, <1>3 DEF Misframed

LEMMA MessageRead ==
  ASSUME TypeOK, Shaped, NEW st \in Views, Framed(st), NEW n \in Rank, NEW s, s = daemon[n].slot,
         RecvType(n) \/ RecvInfoPage(n) \/ RecvInfoOwner(n) \/ RecvPageRequest(n)
  PROVE  /\ Shaped' /\ Reads(n, st, s) /\ UNCHANGED <<main, mapped>>
         /\ daemon'[n].pc \in {"page", "infoPage", "wanted", "infoOwner", "scan", "copy"}
         /\ daemon[n].pc \in {"type", "infoPage", "infoOwner", "wanted"}
<1>0. daemon \in [Rank -> DaemonState] /\ DaemonOut(n) /\ DaemonPlace(n)
  BY DEF TypeOK, DaemonState, Shaped
<1>m. PICK m : m = Link[n][s]
  OBVIOUS
<1>a. PICK a, w, b : a = st[m][n][0] /\ w = chan[m][n][1] /\ b = st[m][n][1]
  OBVIOUS
<1>1. ASSUME NEW at \in {"type", "infoPage", "infoOwner", "wanted"}, Takes(n, at, "int")
      PROVE  /\ s \in Rank \ {n} /\ Popped(Link[n][s], n) /\ daemon[n].pc = at /\ at \in Reading
             /\ w.val = NextWord(n) /\ w.kind = "int" /\ a.at = at /\ Legal(a, w, b)
             /\ daemon[n].out = << >> /\ w \in Word
  <2>1. at \in Reading
    BY DEF Reading, ReadingInt
  <2>2. daemon[n].pc = at
    BY <1>1 DEF Takes
  <2>3. /\ s \in Rank \ {n} /\ Popped(m, n)
        /\ chan[m][n][1] \in Word /\ chan[m][n][1].kind = "int" /\ chan[m][n][1].val = NextWord(n)
        /\ st[m][n][0].at = at /\ Legal(st[m][n][0], chan[m][n][1], st[m][n][1])
    BY <1>1, <1>m, <2>1, ReadsLegal
  <2>4. daemon[n].out = << >>
    BY <1>0, <2>2 DEF DaemonOut
  <2>5. /\ w.val = NextWord(n) /\ w.kind = "int" /\ a.at = at /\ Legal(a, w, b) /\ w \in Word
    BY <1>a, <2>3
  <2> QED BY <1>m, <2>1, <2>2, <2>3, <2>4, <2>5, Zenon
<1>2. ASSUME DaemonOnly(n), daemon'[n].slot = s, daemon'[n].pc = b.at, daemon'[n].out = << >>,
             b.at \in {"page", "infoPage", "wanted", "infoOwner"}, s \in Rank \ {n},
             Popped(Link[n][s], n), daemon[n].pc \in Reading
      PROVE  Shaped' /\ Reads(n, st, s)
  <2>1. DaemonOut(n)' /\ DaemonPlace(n)'
    BY <1>2 DEF DaemonOut, DaemonPlace, Busy
  <2>2. \A r \in Rank : DaemonOwed(n, r)' = "type"
    BY <1>2 DEF DaemonOwed
  <2>3. Begins(n, s, b)'
    BY <1>2 DEF Begins, Reading, ReadingInt
  <2> QED BY <1>2, <1>a, <1>m, <2>1, <2>2, <2>3, ReadFramed, Zenon
<1>3. ASSUME DaemonOnly(n), DaemonOut(n)', DaemonPlace(n)', daemon'[n].pc \in {"scan", "copy"},
             b.at = "type", \A r \in Rank : DaemonOwed(n, r)' = "type", s \in Rank \ {n},
             Popped(Link[n][s], n), daemon[n].pc \in Reading
      PROVE  Shaped' /\ Reads(n, st, s)
  <2>3. Begins(n, s, b)' /\ daemon'[n].pc \notin Reading
    BY <1>3 DEF Begins, Reading, ReadingInt
  <2> QED BY <1>3, <1>a, <1>m, <2>3, ReadFramed, Zenon
<1>4. CASE RecvType(n)
  <2>1. Takes(n, "type", "int") /\ UNCHANGED <<mapped, main, open>>
    BY <1>4 DEF RecvType
  <2>2. PICK v : v = NextWord(n)
    OBVIOUS
  <2>3. \/ v = SEND_PAGE /\ b.at = "page"
        \/ v = SEND_INFO /\ b.at = "infoPage"
        \/ v = PAGE_REQUEST /\ b.at = "wanted"
    BY <1>1, <2>1, <2>2 DEF Legal
  <2>4. daemon' = [daemon EXCEPT ![n] = [daemon[n] EXCEPT !.pc = b.at]]
    <3>1. PICK d : /\ daemon' = [daemon EXCEPT ![n] = d]
                   /\ d = CASE v = SEND_PAGE    -> [daemon[n] EXCEPT !.pc = "page"]
                            [] v = SEND_INFO    -> [daemon[n] EXCEPT !.pc = "infoPage"]
                            [] v = PAGE_REQUEST -> [daemon[n] EXCEPT !.pc = "wanted"]
                            [] OTHER -> Resume(n)
      BY <1>4, <2>2 DEF RecvType
    <3>2. d = [daemon[n] EXCEPT !.pc = b.at]
      <4>1. CASE v = SEND_PAGE /\ b.at = "page"
        BY <3>1, <4>1 DEF SEND_PAGE, SEND_INFO, PAGE_REQUEST
      <4>2. CASE v = SEND_INFO /\ b.at = "infoPage"
        BY <3>1, <4>2 DEF SEND_PAGE, SEND_INFO, PAGE_REQUEST
      <4>3. CASE v = PAGE_REQUEST /\ b.at = "wanted"
        BY <3>1, <4>3 DEF SEND_PAGE, SEND_INFO, PAGE_REQUEST
      <4> QED BY <2>3, <4>1, <4>2, <4>3
    <3> QED BY <3>1, <3>2
  <2>5. /\ daemon'[n].slot = s /\ daemon'[n].pc = b.at /\ daemon'[n].out = << >> /\ DaemonOnly(n)
    BY <1>0, <1>1, <2>1, <2>4 DEF DaemonState, DaemonOnly
  <2> QED BY <1>1, <1>2, <2>1, <2>3, <2>5
<1>5. CASE RecvInfoPage(n)
  <2>1. Takes(n, "infoPage", "int") /\ UNCHANGED <<mapped, main, open>>
    BY <1>5 DEF RecvInfoPage
  <2>2. b.at = "infoOwner"
    BY <1>1, <2>1 DEF Legal
  <2>3. daemon' = [daemon EXCEPT ![n].pc = "infoOwner", ![n].page = NextWord(n)]
    BY <1>5 DEF RecvInfoPage
  <2>5. /\ daemon'[n].slot = s /\ daemon'[n].pc = b.at /\ daemon'[n].out = << >> /\ DaemonOnly(n)
    BY <1>0, <1>1, <2>1, <2>2, <2>3 DEF DaemonState, DaemonOnly
  <2> QED BY <1>1, <1>2, <2>1, <2>2, <2>5
<1>6. CASE RecvInfoOwner(n)
  <2>1. Takes(n, "infoOwner", "int") /\ UNCHANGED <<mapped, main, open>>
    BY <1>6 DEF RecvInfoOwner
  <2>2. b.at = "type"
    BY <1>1, <2>1 DEF Legal
  <2>3. daemon' = [daemon EXCEPT ![n] = Resume(n)]
    BY <1>6 DEF RecvInfoOwner
  <2>4. daemon'[n].pc = "scan" /\ daemon'[n].out = << >> /\ DaemonOnly(n)
    BY <1>1, <2>1, <2>3, Resumed DEF DaemonOnly
  <2>5. DaemonOut(n)' /\ DaemonPlace(n)' /\ \A r \in Rank : DaemonOwed(n, r)' = "type"
    BY <2>4 DEF DaemonOut, DaemonPlace, DaemonOwed, Busy
  <2> QED BY <1>1, <1>3, <2>1, <2>2, <2>4, <2>5
<1>7. CASE RecvPageRequest(n)
  <2>1. Takes(n, "wanted", "int") /\ UNCHANGED <<mapped, main, open>>
    BY <1>7 DEF RecvPageRequest
  <2>2. b.at = "type"
    BY <1>1, <2>1 DEF Legal
  <2>3. PICK v : v = NextWord(n)
    OBVIOUS
  <2>4. daemon' = [daemon EXCEPT ![n].pc = "copy", ![n].page = v,
                     ![n].out = <<To(s, Num(SEND_PAGE)), To(s, Num(v))>>]
    BY <1>7, <2>3 DEF RecvPageRequest
  <2>5. /\ daemon'[n].slot = s /\ daemon'[n].pc = "copy" /\ daemon'[n].page = v
        /\ daemon'[n].out = <<To(s, Num(SEND_PAGE)), To(s, Num(v))>> /\ DaemonOnly(n)
    BY <1>0, <2>1, <2>4 DEF DaemonState, DaemonOnly
  <2>6. s \in Rank \ {n}
    BY <1>1, <2>1
  <2>7. DaemonOut(n)' /\ DaemonPlace(n)'
    BY <2>5, <2>6 DEF DaemonOut, DaemonPlace, Busy
  <2>8. \A r \in Rank : DaemonOwed(n, r)' = "type"
    BY <2>5, Outs DEF DaemonOwed, PageOwed
  <2> QED BY <1>1, <1>3, <2>1, <2>2, <2>5, <2>7, <2>8
<1> QED BY <1>4, <1>5, <1>6, <1>7

\* What is read of a page message, and what it leaves in the process.
LEMMA PageRead ==
  ASSUME TypeOK, Shaped, NEW st \in Views, Framed(st), NEW n \in Rank, NEW s, s = daemon[n].slot,
         NEW m, m = Link[n][s],
         RecvPageNumber(n) \/ RecvLength(n) \/ RecvText(n)
  PROVE  /\ Shaped' /\ Reads(n, st, s) /\ main' = main
         /\ \/ /\ daemon[n].pc = "page" /\ daemon'[n].pc = "len" /\ daemon'[n].page = chan[m][n][1].val
               /\ mapped'[n] = mapped[n] \cup ({chan[m][n][1].val} \cap Page)
            \/ /\ daemon[n].pc = "len" /\ daemon'[n].pc = "text" /\ daemon'[n].page = daemon[n].page
               /\ st[m][n][1].at = "text" /\ mapped' = mapped
            \/ /\ daemon[n].pc \in {"len", "text"} /\ daemon'[n].pc = "install"
               /\ daemon'[n].page = daemon[n].page /\ st[m][n][1].at = "type"
               /\ mapped' = mapped
<1>0. daemon \in [Rank -> DaemonState] /\ DaemonOut(n) /\ DaemonPlace(n) /\ mapped \in [Rank -> SUBSET Page]
  BY DEF TypeOK, DaemonState, Shaped
<1>a. PICK a, w, b : a = st[m][n][0] /\ w = chan[m][n][1] /\ b = st[m][n][1]
  OBVIOUS
<1>p. PICK p, l : p = daemon[n].page /\ l = daemon[n].len
  OBVIOUS
<1>1. ASSUME NEW at \in {"page", "len", "text"}, NEW kind, Takes(n, at, kind)
      PROVE  /\ s \in Rank \ {n} /\ Popped(Link[n][s], n) /\ daemon[n].pc = at /\ at \in Reading
             /\ w.val = NextWord(n) /\ w.kind = kind /\ a.at = at /\ Legal(a, w, b)
             /\ at \in {"len", "text"} => a.page = p
             /\ at = "text" => a.len = l
             /\ daemon[n].out = << >> /\ w \in Word /\ b \in Ahead
  <2>1. at \in Reading
    BY DEF Reading, ReadingInt
  <2>2. daemon[n].pc = at
    BY <1>1 DEF Takes
  <2>3. daemon[n].out = << >>
    BY <1>0, <2>2 DEF DaemonOut
  <2>4. /\ s \in Rank \ {n} /\ Popped(m, n)
        /\ chan[m][n][1] \in Word /\ chan[m][n][1].kind = kind /\ chan[m][n][1].val = NextWord(n)
        /\ st[m][n][1] \in Ahead /\ Legal(st[m][n][0], chan[m][n][1], st[m][n][1])
        /\ st[m][n][0].at = at
        /\ at \in {"len", "text"} => st[m][n][0].page = daemon[n].page
        /\ at = "text" => st[m][n][0].len = daemon[n].len
    BY <1>1, <2>1, ReadsLegal
  <2>5. /\ w.val = NextWord(n) /\ w.kind = kind /\ a.at = at /\ Legal(a, w, b)
        /\ at \in {"len", "text"} => a.page = p
        /\ at = "text" => a.len = l
        /\ w \in Word /\ b \in Ahead
    BY <1>a, <1>p, <2>4, Zenon
  <2> QED BY <2>1, <2>2, <2>3, <2>4, <2>5, Zenon
<1>2. ASSUME DaemonOnly(n), daemon'[n].slot = s, daemon'[n].out = << >>, DaemonPlace(n)',
             daemon'[n].pc \in {"len", "text", "install"}, s \in Rank \ {n}, Begins(n, s, b)',
             Popped(Link[n][s], n), daemon[n].pc \in Reading
      PROVE  Shaped' /\ Reads(n, st, s)
  <2>1. DaemonOut(n)'
    BY <1>2 DEF DaemonOut
  <2>2. \A r \in Rank : DaemonOwed(n, r)' = "type"
    BY <1>2 DEF DaemonOwed
  <2> QED BY <1>2, <1>a, <2>1, <2>2, ReadFramed, Zenon
<1>4. CASE RecvPageNumber(n)
  <2>1. Takes(n, "page", "int") /\ UNCHANGED <<table, main, open>>
    BY <1>4 DEF RecvPageNumber
  <2>2. PICK v : v = NextWord(n) /\ v = w.val
    BY <1>1, <2>1
  <2>3. b.at = "len" /\ b.page = v
    BY <1>1, <2>1, <2>2 DEF Legal
  <2>4. /\ daemon' = [daemon EXCEPT ![n].pc = "len", ![n].page = v]
        /\ mapped' = [mapped EXCEPT ![n] = @ \cup ({v} \cap Page)]
    BY <1>4, <2>2 DEF RecvPageNumber
  <2>5. /\ daemon'[n].slot = s /\ daemon'[n].pc = "len" /\ daemon'[n].out = << >> /\ DaemonOnly(n)
        /\ daemon'[n].page = v /\ mapped'[n] = mapped[n] \cup ({v} \cap Page)
    BY <1>0, <1>1, <2>1, <2>4 DEF DaemonState, DaemonOnly
  <2>6. s \in Rank \ {n} /\ Popped(Link[n][s], n) /\ daemon[n].pc = "page" /\ daemon[n].pc \in Reading
    BY <1>1, <2>1
  <2>7. DaemonPlace(n)' /\ Begins(n, s, b)'
    <3>1. DaemonPlace(n)'
      BY <2>5, <2>6 DEF DaemonPlace, Busy
    <3>2. Begins(n, s, b)'
      BY <2>3, <2>5 DEF Begins, Reading, ReadingInt
    <3> QED BY <3>1, <3>2
  <2> QED BY <1>2, <1>a, <2>1, <2>2, <2>5, <2>6, <2>7, Zenon
<1>5. CASE RecvLength(n)
  <2>1. Takes(n, "len", "int") /\ UNCHANGED <<mapped, table, main, open>>
    BY <1>5 DEF RecvLength
  <2>2. PICK v : v = NextWord(n) /\ v = w.val
    BY <1>1, <2>1
  <2>3. PICK pc : pc = IF v = 0 THEN "install" ELSE "text"
    OBVIOUS
  <2>4. daemon' = [daemon EXCEPT ![n].pc = pc, ![n].len = v]
    BY <1>5, <2>2, <2>3 DEF RecvLength
  <2>5. /\ daemon'[n].slot = s /\ daemon'[n].pc = pc /\ daemon'[n].out = << >> /\ DaemonOnly(n)
        /\ daemon'[n].page = p /\ daemon'[n].len = v
    BY <1>0, <1>1, <1>p, <2>1, <2>4 DEF DaemonState, DaemonOnly
  <2>6. /\ s \in Rank \ {n} /\ Popped(Link[n][s], n) /\ daemon[n].pc = "len" /\ daemon[n].pc \in Reading
        /\ Legal(a, w, b) /\ a.at = "len" /\ a.page = p
    BY <1>1, <2>1
  <2>7. \/ v = 0 /\ pc = "install" /\ b.at = "type"
        \/ v # 0 /\ pc = "text" /\ b.at = "text" /\ b.page = p /\ b.len = v
    BY <2>2, <2>3, <2>6 DEF Legal
  <2>8. DaemonPlace(n)' /\ Begins(n, s, b)'
    <3>1. DaemonPlace(n)'
      BY <1>0, <1>p, <2>1, <2>5, <2>6, <2>7 DEF DaemonPlace, Busy
    <3>2. Begins(n, s, b)'
      BY <2>5, <2>7 DEF Begins, Reading, ReadingInt
    <3> QED BY <3>1, <3>2
  <2> QED BY <1>2, <1>a, <1>p, <2>1, <2>5, <2>6, <2>7, <2>8, Zenon
<1>6. CASE RecvText(n)
  <2>1. Takes(n, "text", "text") /\ UNCHANGED <<mapped, table, main, open>>
    BY <1>6 DEF RecvText
  <2>4. daemon' = [daemon EXCEPT ![n].pc = "install"]
    BY <1>6 DEF RecvText
  <2>5. /\ daemon'[n].slot = s /\ daemon'[n].pc = "install" /\ daemon'[n].out = << >> /\ DaemonOnly(n)
        /\ daemon'[n].page = p
    BY <1>0, <1>1, <1>p, <2>1, <2>4 DEF DaemonState, DaemonOnly
  <2>6. /\ s \in Rank \ {n} /\ Popped(Link[n][s], n) /\ daemon[n].pc = "text" /\ daemon[n].pc \in Reading
        /\ Legal(a, w, b) /\ a.at = "text"
    BY <1>1, <2>1
  <2>7. b.at = "type"
    BY <2>6 DEF Legal
  <2>8. DaemonPlace(n)' /\ Begins(n, s, b)'
    <3>1. DaemonPlace(n)'
      BY <1>0, <1>p, <2>1, <2>5, <2>6 DEF DaemonPlace, Busy
    <3>2. Begins(n, s, b)'
      BY <2>5, <2>7 DEF Begins, Reading, ReadingInt
    <3> QED BY <3>1, <3>2
  <2> QED BY <1>2, <1>a, <1>p, <2>1, <2>5, <2>6, <2>7, <2>8, Zenon
<1> QED BY <1>4, <1>5, <1>6, Zenon

----------------------------------------------------------------------------
(* Every page is in one place                                              *)

Holds(n, p)    == p \in mapped[n] /\ ~Filling(n, p) /\ ~Sent(n, p)
Installs(n, p) == daemon[n].pc = "install" /\ daemon[n].page = p

\* The word between a and b is the last one of a message with page p.
Completes(a, b, p) == a.at \in {"len", "text"} /\ a.page = p /\ b.at = "type"

\* Page p is at n, which keeps it (place 0) or installs it (place 1), or it
\* has left n for m with the word at place i.
At(st, p, n, m, i) ==
  \/ n = m /\ i = 0 /\ Holds(n, p)
  \/ n = m /\ i = 1 /\ Installs(n, p)
  \/ n # m /\ i \in 1 .. Len(chan[n][m]) /\ Completes(st[n][m][i - 1], st[n][m][i], p)

Only(st, p, n, m, i) ==
  \A x, y \in Rank : \A j \in Nat : At(st, p, x, y, j) <=> (x = n /\ y = m /\ j = i)

Once(st, p) == \E n, m \in Rank : \E i \in Nat : Only(st, p, n, m, i)

\* What a step of n leaves of the processes, for page p.
Elsewhere(n) == \A k \in Rank \ {n} : daemon'[k] = daemon[k] /\ mapped'[k] = mapped[k]
Keeps(n, p)  == (Holds(n, p)' <=> Holds(n, p)) /\ (Installs(n, p)' <=> Installs(n, p))
Installed(n, p) == Installs(n, p) /\ Holds(n, p)' /\ ~Installs(n, p)'

LEMMA KeepsAll ==
  ASSUME NEW n \in Rank, NEW p, Elsewhere(n), Keeps(n, p)
  PROVE  \A k \in Rank : Keeps(k, p)
<1> SUFFICES ASSUME NEW k \in Rank, k # n PROVE Keeps(k, p)
  OBVIOUS
<1>1. daemon'[k] = daemon[k] /\ mapped'[k] = mapped[k]
  BY DEF Elsewhere
<1> QED BY <1>1 DEF Keeps, Holds, Installs, Filling, Sent

LEMMA KeepsOthers ==
  ASSUME NEW n \in Rank, NEW p, Elsewhere(n)
  PROVE  \A k \in Rank \ {n} : Keeps(k, p)
<1> SUFFICES ASSUME NEW k \in Rank \ {n} PROVE Keeps(k, p)
  OBVIOUS
<1>1. daemon'[k] = daemon[k] /\ mapped'[k] = mapped[k]
  BY DEF Elsewhere
<1> QED BY <1>1 DEF Keeps, Holds, Installs, Filling, Sent

\* No word moves, and the page stays where it was.
LEMMA OnceStays ==
  ASSUME NEW st, NEW p, Once(st, p), chan' = chan, \A k \in Rank : Keeps(k, p)
  PROVE  Once(st, p)'
<1>1. ASSUME NEW x \in Rank, NEW y \in Rank, NEW j \in Nat
      PROVE  At(st, p, x, y, j)' <=> At(st, p, x, y, j)
  BY DEF At, Keeps
<1>2. PICK n \in Rank, m \in Rank, i \in Nat :
        \A x, y \in Rank : \A j \in Nat : At(st, p, x, y, j) <=> (x = n /\ y = m /\ j = i)
  BY DEF Once, Only
<1>3. ASSUME NEW x \in Rank, NEW y \in Rank, NEW j \in Nat
      PROVE  At(st, p, x, y, j)' <=> (x = n /\ y = m /\ j = i)
  BY <1>1, <1>2
<1>4. Only(st, p, n, m, i)'
  BY <1>3 DEF Only
<1> QED BY <1>4 DEF Once

\* No word moves, and the page is installed.
LEMMA OnceInstalled ==
  ASSUME NEW st, NEW p, Once(st, p), chan' = chan, NEW n \in Rank, \A k \in Rank \ {n} : Keeps(k, p),
         Installs(n, p), Holds(n, p)', ~Installs(n, p)'
  PROVE  Once(st, p)'
<1>1. ASSUME NEW x \in Rank, NEW y \in Rank, NEW j \in Nat, x # n \/ y # n
      PROVE  At(st, p, x, y, j)' <=> At(st, p, x, y, j)
  <2>1. CASE x = y
    BY <1>1, <2>1 DEF At, Keeps
  <2>2. CASE x # y
    BY <1>1, <2>2 DEF At
  <2> QED BY <2>1, <2>2
<1>2. PICK a \in Rank, b \in Rank, i \in Nat :
        \A x, y \in Rank : \A j \in Nat : At(st, p, x, y, j) <=> (x = a /\ y = b /\ j = i)
  BY DEF Once, Only
<1>3. At(st, p, n, n, 1)
  BY DEF At
<1>4. a = n /\ b = n
  BY <1>2, <1>3
<1>5. \A j \in Nat : At(st, p, n, n, j)' <=> j = 0
  BY DEF At
<1>6. \A x, y \in Rank : \A j \in Nat : At(st, p, x, y, j)' <=> (x = n /\ y = n /\ j = 0)
  BY <1>1, <1>2, <1>4, <1>5
<1>7. Only(st, p, n, n, 0)'
  BY <1>6 DEF Only
<1> QED BY <1>7 DEF Once

\* A word is written that is not the last one of a message with the page.
LEMMA OnceAppended ==
  ASSUME NEW st, NEW p, Once(st, p), NEW n \in Rank, NEW m \in Rank \ {n}, NEW w, Pushed(n, m, w),
         NEW b, NEW st2, Extended(st, st2, n, m, Len(chan[n][m]) + 1, b),
         ~Completes(st[n][m][Len(chan[n][m])], b, p), \A k \in Rank : Keeps(k, p)
  PROVE  Once(st2, p)'
<1>1. /\ Len(chan[n][m]) \in Nat /\ Len(chan'[n][m]) = Len(chan[n][m]) + 1
      /\ \A x, y \in Rank : x # n \/ y # m => chan'[x][y] = chan[x][y]
  BY DEF Pushed
<1>2. /\ \A x, y \in Rank : x # n \/ y # m => st2[x][y] = st[x][y]
      /\ \A i \in Nat : i # Len(chan[n][m]) + 1 => st2[n][m][i] = st[n][m][i]
      /\ st2[n][m][Len(chan[n][m]) + 1] = b
  BY DEF Extended
<1>3. ASSUME NEW x \in Rank, NEW y \in Rank, NEW j \in Nat
      PROVE  At(st2, p, x, y, j)' <=> At(st, p, x, y, j)
  <2>1. CASE x # n \/ y # m
    <3>1. chan'[x][y] = chan[x][y] /\ st2[x][y] = st[x][y]
      BY <1>1, <1>2, <2>1
    <3> QED BY <3>1 DEF At, Keeps
  <2>2. CASE x = n /\ y = m
    <3> DEFINE l == Len(chan[n][m])
    <3>1. CASE j = l + 1
      <4>1. j - 1 = l /\ l # l + 1 /\ j \notin 1 .. l
        BY <1>1, <3>1
      <4>2. st2[n][m][j - 1] = st[n][m][l] /\ st2[n][m][j] = b
        BY <1>1, <1>2, <3>1, <4>1
      <4>3. ~At(st, p, x, y, j)
        BY <2>2, <4>1 DEF At
      <4>4. ~At(st2, p, x, y, j)'
        BY <2>2, <4>2 DEF At
      <4> QED BY <4>3, <4>4
    <3>2. CASE j # l + 1
      <4>1. j \in 1 .. Len(chan'[n][m]) <=> j \in 1 .. l
        BY <1>1, <3>2
      <4>2. CASE j \in 1 .. l
        <5>1. j - 1 \in Nat /\ j - 1 # l + 1
          BY <1>1, <4>2
        <5>2. st2[n][m][j - 1] = st[n][m][j - 1] /\ st2[n][m][j] = st[n][m][j]
          BY <1>2, <3>2, <5>1
        <5> QED BY <2>2, <4>1, <5>2 DEF At
      <4>3. CASE j \notin 1 .. l
        BY <2>2, <4>1, <4>3 DEF At
      <4> QED BY <4>2, <4>3
    <3> QED BY <3>1, <3>2
  <2> QED BY <2>1, <2>2
<1>4. PICK a \in Rank, c \in Rank, i \in Nat :
        \A x, y \in Rank : \A j \in Nat : At(st, p, x, y, j) <=> (x = a /\ y = c /\ j = i)
  BY DEF Once, Only
<1>5. ASSUME NEW x \in Rank, NEW y \in Rank, NEW j \in Nat
      PROVE  At(st2, p, x, y, j)' <=> (x = a /\ y = c /\ j = i)
  BY <1>3, <1>4
<1>6. Only(st2, p, a, c, i)'
  BY <1>5 DEF Only
<1> QED BY <1>6 DEF Once

\* The last word of the message with the page is written.
LEMMA OnceSent ==
  ASSUME NEW st, NEW p, Once(st, p), NEW n \in Rank, NEW m \in Rank \ {n}, NEW w, Pushed(n, m, w),
         NEW b, NEW st2, Extended(st, st2, n, m, Len(chan[n][m]) + 1, b),
         Completes(st[n][m][Len(chan[n][m])], b, p), \A k \in Rank \ {n} : Keeps(k, p),
         Holds(n, p), ~Holds(n, p)', ~Installs(n, p)'
  PROVE  Once(st2, p)'
<1>0. PICK l \in Nat : l = Len(chan[n][m])
  BY DEF Pushed
<1>1. /\ Len(chan'[n][m]) = l + 1
      /\ \A x, y \in Rank : x # n \/ y # m => chan'[x][y] = chan[x][y]
  BY <1>0 DEF Pushed
<1>2. /\ \A x, y \in Rank : x # n \/ y # m => st2[x][y] = st[x][y]
      /\ \A i \in Nat : i # l + 1 => st2[n][m][i] = st[n][m][i]
      /\ st2[n][m][l + 1] = b
  BY <1>0 DEF Extended
<1>3. At(st, p, n, n, 0)
  BY DEF At
<1>4. \A x, y \in Rank : \A j \in Nat : At(st, p, x, y, j) <=> (x = n /\ y = n /\ j = 0)
  <2>1. PICK a \in Rank, c \in Rank, i \in Nat : Only(st, p, a, c, i)
    BY DEF Once
  <2>2. a = n /\ c = n /\ i = 0
    BY <1>3, <2>1 DEF Only
  <2> QED BY <2>1, <2>2 DEF Only
<1>5. ASSUME NEW x \in Rank, NEW y \in Rank, NEW j \in Nat
      PROVE  At(st2, p, x, y, j)' <=> (x = n /\ y = m /\ j = l + 1)
  <2>1. CASE x = n /\ y = n
    BY <2>1 DEF At
  <2>2. CASE (x # n \/ y # m) /\ (x # n \/ y # n)
    <3>1. chan'[x][y] = chan[x][y] /\ st2[x][y] = st[x][y] /\ (x = y => Keeps(x, p))
      BY <1>1, <1>2, <2>2
    <3>2. At(st2, p, x, y, j)' <=> At(st, p, x, y, j)
      BY <3>1 DEF At, Keeps
    <3> QED BY <1>4, <2>2, <3>2
  <2>3. CASE x = n /\ y = m
    <3>1. CASE j = l + 1
      <4>1. j - 1 = l /\ l # l + 1 /\ j \in 1 .. l + 1 /\ j - 1 \in Nat
        BY <3>1
      <4>2. st2[n][m][j - 1] = st[n][m][l] /\ st2[n][m][j] = b
        BY <1>2, <3>1, <4>1
      <4> QED BY <1>0, <1>1, <2>3, <3>1, <4>1, <4>2 DEF At
    <3>2. CASE j # l + 1
      <4>1. j \in 1 .. Len(chan'[n][m]) <=> j \in 1 .. l
        BY <1>1, <3>2
      <4>2. CASE j \in 1 .. l
        <5>1. j - 1 \in Nat /\ j - 1 # l + 1
          BY <4>2
        <5>2. st2[n][m][j - 1] = st[n][m][j - 1] /\ st2[n][m][j] = st[n][m][j]
          BY <1>2, <3>2, <5>1
        <5>3. ~At(st, p, n, m, j)
          BY <1>4
        <5> QED BY <1>0, <2>3, <3>2, <4>1, <5>2, <5>3 DEF At
      <4>3. CASE j \notin 1 .. l
        BY <2>3, <3>2, <4>1, <4>3 DEF At
      <4> QED BY <4>2, <4>3
    <3> QED BY <3>1, <3>2
  <2> QED BY <2>1, <2>2, <2>3
<1>6. Only(st2, p, n, m, l + 1)'
  BY <1>5 DEF Only
<1> QED BY <1>6 DEF Once

\* A word is read that is not the last one of a message with the page.
LEMMA OncePopped ==
  ASSUME NEW st, NEW p, Once(st, p), NEW n \in Rank, NEW m \in Rank \ {n}, Popped(m, n),
         NEW st2, Shifted(st, st2, m, n),
         ~Completes(st[m][n][0], st[m][n][1], p), \A k \in Rank : Keeps(k, p)
  PROVE  Once(st2, p)'
<1>0. PICK l \in Nat : Len(chan[m][n]) = l + 1
  <2>1. Len(chan[m][n]) \in Nat \ {0}
    BY DEF Popped
  <2>2. Len(chan[m][n]) - 1 \in Nat /\ Len(chan[m][n]) = (Len(chan[m][n]) - 1) + 1
    BY <2>1
  <2> QED BY <2>2
<1>1. /\ Len(chan'[m][n]) = l
      /\ \A x, y \in Rank : x # m \/ y # n => chan'[x][y] = chan[x][y]
  BY <1>0 DEF Popped
<1>2. /\ \A x, y \in Rank : x # m \/ y # n => st2[x][y] = st[x][y]
      /\ \A i \in Nat : st2[m][n][i] = st[m][n][i + 1]
  BY DEF Shifted
<1>3. ASSUME NEW x \in Rank, NEW y \in Rank, NEW j \in Nat, x # m \/ y # n
      PROVE  At(st2, p, x, y, j)' <=> At(st, p, x, y, j)
  <2>1. chan'[x][y] = chan[x][y] /\ st2[x][y] = st[x][y]
    BY <1>1, <1>2, <1>3
  <2> QED BY <2>1 DEF At, Keeps
<1>4. \A j \in Nat : At(st2, p, m, n, j)' <=> At(st, p, m, n, j + 1)
  <2> SUFFICES ASSUME NEW j \in Nat PROVE At(st2, p, m, n, j)' <=> At(st, p, m, n, j + 1)
    OBVIOUS
  <2>1. CASE j = 0
    <3>1. ~At(st2, p, m, n, j)'
      BY <2>1 DEF At
    <3>2. ~At(st, p, m, n, j + 1)
      BY <2>1 DEF At
    <3> QED BY <3>1, <3>2
  <2>2. CASE j # 0
    <3>1. /\ j \in 1 .. l <=> j + 1 \in 1 .. l + 1
          /\ j - 1 \in Nat /\ (j - 1) + 1 = j /\ (j + 1) - 1 = j
      BY <2>2
    <3>2. st2[m][n][j - 1] = st[m][n][(j + 1) - 1] /\ st2[m][n][j] = st[m][n][j + 1]
      BY <1>2, <3>1
    <3> QED BY <1>0, <1>1, <3>1, <3>2 DEF At
  <2> QED BY <2>1, <2>2
<1>5. ~At(st, p, m, n, 0) /\ ~At(st, p, m, n, 1)
  BY DEF At
<1>6. PICK a \in Rank, c \in Rank, i \in Nat :
        \A x, y \in Rank : \A j \in Nat : At(st, p, x, y, j) <=> (x = a /\ y = c /\ j = i)
  BY DEF Once, Only
<1>7. CASE a = m /\ c = n
  <2>1. i # 0 /\ i - 1 \in Nat
    BY <1>5, <1>6, <1>7
  <2>2. ASSUME NEW x \in Rank, NEW y \in Rank, NEW j \in Nat
        PROVE  At(st2, p, x, y, j)' <=> (x = a /\ y = c /\ j = i - 1)
    <3>1. CASE x # m \/ y # n
      BY <1>3, <1>6, <1>7, <3>1
    <3>2. CASE x = m /\ y = n
      <4>1. j + 1 = i <=> j = i - 1
        BY <2>1
      <4>2. At(st, p, m, n, j + 1) <=> j + 1 = i
        BY <1>6, <1>7
      <4> QED BY <1>4, <1>7, <3>2, <4>1, <4>2
    <3> QED BY <3>1, <3>2
  <2>3. Only(st2, p, a, c, i - 1)'
    BY <2>2 DEF Only
  <2> QED BY <2>1, <2>3 DEF Once
<1>8. CASE a # m \/ c # n
  <2>2. ASSUME NEW x \in Rank, NEW y \in Rank, NEW j \in Nat
        PROVE  At(st2, p, x, y, j)' <=> (x = a /\ y = c /\ j = i)
    <3>1. CASE x # m \/ y # n
      BY <1>3, <1>6, <3>1
    <3>2. CASE x = m /\ y = n
      <4>2. ~At(st, p, m, n, j + 1)
        BY <1>6, <1>8
      <4> QED BY <1>4, <1>8, <3>2, <4>2
    <3> QED BY <3>1, <3>2
  <2>3. Only(st2, p, a, c, i)'
    BY <2>2 DEF Only
  <2> QED BY <2>3 DEF Once
<1> QED BY <1>7, <1>8

\* The last word of the message with the page is read.
LEMMA OnceReceived ==
  ASSUME NEW st, NEW p, Once(st, p), NEW n \in Rank, NEW m \in Rank \ {n}, Popped(m, n),
         NEW st2, Shifted(st, st2, m, n),
         Completes(st[m][n][0], st[m][n][1], p), \A k \in Rank \ {n} : Keeps(k, p),
         Installs(n, p)', ~Holds(n, p)'
  PROVE  Once(st2, p)'
<1>0. PICK l \in Nat : Len(chan[m][n]) = l + 1
  <2>1. Len(chan[m][n]) \in Nat \ {0}
    BY DEF Popped
  <2>2. Len(chan[m][n]) - 1 \in Nat /\ Len(chan[m][n]) = (Len(chan[m][n]) - 1) + 1
    BY <2>1
  <2> QED BY <2>2
<1>1. /\ Len(chan'[m][n]) = l
      /\ \A x, y \in Rank : x # m \/ y # n => chan'[x][y] = chan[x][y]
  BY <1>0 DEF Popped
<1>2. /\ \A x, y \in Rank : x # m \/ y # n => st2[x][y] = st[x][y]
      /\ \A i \in Nat : st2[m][n][i] = st[m][n][i + 1]
  BY DEF Shifted
<1>3. At(st, p, m, n, 1)
  <2>1. 1 \in 1 .. l + 1 /\ 1 - 1 = 0
    OBVIOUS
  <2> QED BY <1>0, <2>1 DEF At
<1>4. \A x, y \in Rank : \A j \in Nat : At(st, p, x, y, j) <=> (x = m /\ y = n /\ j = 1)
  <2>1. PICK a \in Rank, c \in Rank, i \in Nat : Only(st, p, a, c, i)
    BY DEF Once
  <2>2. a = m /\ c = n /\ i = 1
    BY <1>3, <2>1 DEF Only
  <2> QED BY <2>1, <2>2 DEF Only
<1>5. ASSUME NEW x \in Rank, NEW y \in Rank, NEW j \in Nat
      PROVE  At(st2, p, x, y, j)' <=> (x = n /\ y = n /\ j = 1)
  <2>1. CASE x = n /\ y = n
    BY <2>1 DEF At
  <2>2. CASE (x # m \/ y # n) /\ (x # n \/ y # n)
    <3>1. chan'[x][y] = chan[x][y] /\ st2[x][y] = st[x][y] /\ (x = y => Keeps(x, p))
      BY <1>1, <1>2, <2>2
    <3>2. At(st2, p, x, y, j)' <=> At(st, p, x, y, j)
      BY <3>1 DEF At, Keeps
    <3> QED BY <1>4, <2>2, <3>2
  <2>3. CASE x = m /\ y = n
    <3>1. CASE j = 0
      BY <2>3, <3>1 DEF At
    <3>2. CASE j # 0
      <4>1. /\ j \in 1 .. l <=> j + 1 \in 1 .. l + 1
            /\ j - 1 \in Nat /\ (j - 1) + 1 = j /\ (j + 1) - 1 = j /\ j + 1 # 1
        BY <3>2
      <4>2. st2[m][n][j - 1] = st[m][n][(j + 1) - 1] /\ st2[m][n][j] = st[m][n][j + 1]
        BY <1>2, <4>1
      <4>3. ~At(st, p, m, n, j + 1)
        BY <1>4, <4>1
      <4> QED BY <1>0, <1>1, <2>3, <4>1, <4>2, <4>3 DEF At
    <3> QED BY <3>1, <3>2
  <2> QED BY <2>1, <2>2, <2>3
<1>6. Only(st2, p, n, n, 1)'
  BY <1>5 DEF Only
<1> QED BY <1>6 DEF Once

----------------------------------------------------------------------------
\* The view st says where every message and every page is.
Settled(st) == st \in Views /\ Framed(st) /\ \A p \in Page : Once(st, p)

\* How a step of n that writes the first word of out changes a view, and how
\* one that reads on the slot of the daemon does.
\* A page leaves n with the last word of a message, and only then; it enters
\* n with the last word of one, and only then.
Leaves(n, a, b, p) ==
  \/ ~Completes(a, b, p) /\ Keeps(n, p)
  \/ Completes(a, b, p) /\ Holds(n, p) /\ ~Holds(n, p)' /\ ~Installs(n, p)'
Enters(n, a, b, p) ==
  \/ ~Completes(a, b, p) /\ Keeps(n, p)
  \/ Completes(a, b, p) /\ Installs(n, p)' /\ ~Holds(n, p)'

WroteFirst(n, st, st2, out) ==
  /\ Elsewhere(n)
  /\ \/ st2 = st /\ chan' = chan /\ \A p \in Page : Keeps(n, p)
     \/ \E r, b : /\ r = Head(out).fd /\ Writes(n, st, r, Head(out).word, b)
                  /\ Extended(st, st2, n, Link[n][r], Len(chan[n][Link[n][r]]) + 1, b)
                  /\ \A p \in Page : Leaves(n, st[n][Link[n][r]][Len(chan[n][Link[n][r]])], b, p)

ReadNext(n, st, st2) ==
  /\ Elsewhere(n)
  /\ \E s : /\ s = daemon[n].slot /\ Reads(n, st, s) /\ Shifted(st, st2, Link[n][s], n)
            /\ \A p \in Page : Enters(n, st[Link[n][s]][n][0], st[Link[n][s]][n][1], p)

LEMMA SettledSilent ==
  ASSUME TypeOK, NEW st, Settled(st), NEW n \in Rank, Silent(n), Elsewhere(n),
         \A p \in Page : Keeps(n, p) \/ Installed(n, p)
  PROVE  Settled(st)'
<1>1. st \in Views /\ Framed(st)'
  BY LocalFramed DEF Settled, Silent
<1>2. ASSUME NEW p \in Page PROVE Once(st, p)'
  <2>1. Once(st, p) /\ chan' = chan
    BY DEF Settled, Silent
  <2>2. CASE Keeps(n, p)
    BY <2>1, <2>2, KeepsAll, OnceStays
  <2>3. CASE Installed(n, p)
    BY <2>1, <2>3, KeepsOthers, OnceInstalled DEF Installed
  <2> QED BY <2>2, <2>3
<1> QED BY <1>1, <1>2 DEF Settled

LEMMA SettledWrites ==
  ASSUME TypeOK, NEW st, Settled(st), NEW n \in Rank, NEW r, NEW w, NEW b, Writes(n, st, r, w, b),
         Elsewhere(n), NEW m, m = Link[n][r], NEW a, a = st[n][m][Len(chan[n][m])],
         \A p \in Page : Leaves(n, a, b, p)
  PROVE  \E st2 : Settled(st2)' /\ Extended(st, st2, n, m, Len(chan[n][m]) + 1, b)
<1>1. /\ r \in Rank \ {n} /\ b \in Ahead /\ Pushed(n, m, w) /\ Legal(a, w, b) /\ Ends(n, r, b)'
      /\ BeginsStay(n, Rank \ {n}) /\ EndsStay(n, Rank \ {n, r}) /\ OthersStay(n)
  BY Zenon DEF Writes
<1>2. m \in Rank \ {n} /\ Len(chan[n][m]) + 1 \in Nat
  <2>1. Len(chan[n][m]) \in Nat
    BY <1>1, Zenon DEF Pushed
  <2> QED BY <1>1, <2>1, Links, Counts, Zenon
<1>3. st \in Views /\ Framed(st)
  BY DEF Settled
<1>4. PICK st2 : Extended(st, st2, n, m, Len(chan[n][m]) + 1, b)
  BY <1>1, <1>2, <1>3, Extension, Zenon
<1>5. st2 \in Views /\ Framed(st2)'
  BY <1>1, <1>3, <1>4, AppendFramed, Zenon
<1>6. ASSUME NEW p \in Page PROVE Once(st2, p)'
  <2>1. Once(st, p)
    BY DEF Settled
  <2>2. CASE ~Completes(a, b, p) /\ Keeps(n, p)
    <3>1. \A k \in Rank : Keeps(k, p)
      BY <2>2, KeepsAll
    <3> QED BY <1>1, <1>2, <1>4, <2>1, <2>2, <3>1, OnceAppended, Zenon
  <2>3. CASE Completes(a, b, p) /\ Holds(n, p) /\ ~Holds(n, p)' /\ ~Installs(n, p)'
    <3>1. \A k \in Rank \ {n} : Keeps(k, p)
      BY KeepsOthers
    <3> QED BY <1>1, <1>2, <1>4, <2>1, <2>3, <3>1, OnceSent, Zenon
  <2> QED BY <2>2, <2>3 DEF Leaves
<1> QED BY <1>4, <1>5, <1>6 DEF Settled

LEMMA SettledReads ==
  ASSUME TypeOK, NEW st, Settled(st), NEW n \in Rank, NEW s, Reads(n, st, s),
         Elsewhere(n), NEW m, m = Link[n][s], NEW a, a = st[m][n][0], NEW b, b = st[m][n][1],
         \A p \in Page : Enters(n, a, b, p)
  PROVE  \E st2 : Settled(st2)' /\ Shifted(st, st2, m, n)
<1>1. /\ s \in Rank \ {n} /\ Popped(m, n) /\ Begins(n, s, st[m][n][1])'
      /\ BeginsStay(n, Rank \ {n, s}) /\ EndsStay(n, Rank \ {n}) /\ OthersStay(n)
  BY DEF Reads
<1>2. m \in Rank \ {n}
  BY <1>1, Links
<1>3. st \in Views /\ Framed(st)
  BY DEF Settled
<1>4. PICK st2 : Shifted(st, st2, m, n)
  BY <1>2, <1>3, Shift
<1>5. st2 \in Views /\ Framed(st2)'
  BY <1>1, <1>3, <1>4, PopFramed
<1>6. ASSUME NEW p \in Page PROVE Once(st2, p)'
  <2>1. Once(st, p)
    BY DEF Settled
  <2>2. CASE ~Completes(a, b, p) /\ Keeps(n, p)
    <3>1. \A k \in Rank : Keeps(k, p)
      BY <2>2, KeepsAll
    <3> QED BY <1>1, <1>2, <1>4, <2>1, <2>2, <3>1, OncePopped
  <2>3. CASE Completes(a, b, p) /\ Installs(n, p)' /\ ~Holds(n, p)'
    <3>1. \A k \in Rank \ {n} : Keeps(k, p)
      BY KeepsOthers
    <3> QED BY <1>1, <1>2, <1>4, <2>1, <2>3, <3>1, OnceReceived
  <2> QED BY <2>2, <2>3 DEF Enters
<1> QED BY <1>4, <1>5, <1>6 DEF Settled

\* The user thread moves no page.
LEMMA MainSettled ==
  ASSUME TypeOK, Shaped, StreamsFramed, Together, Together', NEW n \in Rank,
         MainStep(n) \/ Choice(n), NEW st, Settled(st)
  PROVE  /\ Shaped'
         /\ \E st2 : /\ Settled(st2)'
                     /\ IF MainWrite(n) THEN WroteFirst(n, st, st2, main[n].out)
                                         ELSE st2 = st /\ chan' = chan
<1>0. st \in Views /\ Framed(st) /\ ~Exit(n)
  BY NoExit DEF Settled
<1>1. CASE UNCHANGED <<daemon, mapped>>
  <2>1. Elsewhere(n) /\ \A p \in Page : Keeps(n, p)
    BY <1>1 DEF Elsewhere, Keeps, Holds, Installs, Filling, Sent
  <2>2. CASE MainWrite(n)
    <3>1. /\ main[n].out # << >>
          /\ Delivers(n, Head(main[n].out).fd, Head(main[n].out).word)
          /\ main' = [main EXCEPT ![n].out = Tail(@)]
          /\ UNCHANGED <<mapped, table, open, stdin, daemon>>
      BY <1>0, <2>2 DEF MainWrite
    <3>2. Shaped' /\ (Silent(n) \/ \E r, b : r = Head(main[n].out).fd /\ Writes(n, st, r, Head(main[n].out).word, b))
      BY <1>0, <3>1, MainWrites
    <3>3. CASE Silent(n)
      <4>1. Settled(st)'
        BY <2>1, <3>3, SettledSilent
      <4>2. WroteFirst(n, st, st, main[n].out)
        BY <2>1, <3>3 DEF Silent, WroteFirst
      <4> QED BY <2>2, <3>2, <4>1, <4>2
    <3>4. CASE \E r, b : r = Head(main[n].out).fd /\ Writes(n, st, r, Head(main[n].out).word, b)
      <4>1. PICK r, b, w : r = Head(main[n].out).fd /\ w = Head(main[n].out).word /\ Writes(n, st, r, w, b)
        BY <3>4
      <4>2. PICK m, a : m = Link[n][r] /\ a = st[n][m][Len(chan[n][m])]
        OBVIOUS
      <4>3. r \in Rank \ {n} /\ WritesTo(main[n].out, r)
        BY <3>1, <4>1, MainHead, Zenon DEF Writes
      <4>4. DaemonOwed(n, r) = "type"
        BY <4>3, DaemonSilent
      <4>5. Ends(n, r, a)
        BY <1>0, <4>2, <4>3, ViewEnds
      <4>6. a.at \in {"type", "wanted"}
        BY <4>4, <4>5 DEF Ends, Owed
      <4>7. \A p \in Page : Leaves(n, a, b, p)
        BY <2>1, <4>6 DEF Completes, Leaves
      <4>8. PICK st2 : Settled(st2)' /\ Extended(st, st2, n, m, Len(chan[n][m]) + 1, b)
        BY <2>1, <4>1, <4>2, <4>7, SettledWrites, Zenon
      <4>9. WroteFirst(n, st, st2, main[n].out)
        BY <2>1, <4>1, <4>2, <4>7, <4>8, Zenon DEF WroteFirst
      <4> QED BY <2>2, <3>2, <4>8, <4>9
    <3> QED BY <3>2, <3>3, <3>4
  <2>3. CASE EndWait(n) \/ Retry(n) \/ CloseNext(n) \/ Fault(n) \/ Finalize(n) \/ StdinEnd(n)
    <3>1. Shaped' /\ Silent(n)
      BY <2>3, MainSilent
    <3>2. Settled(st)'
      BY <2>1, <3>1, SettledSilent
    <3>3. WroteFirst(n, st, st, main[n].out) /\ chan' = chan
      BY <2>1, <3>1 DEF Silent, WroteFirst
    <3> QED BY <3>1, <3>2, <3>3
  <2> QED BY <2>2, <2>3 DEF MainStep, Choice
<1>2. UNCHANGED <<daemon, mapped>>
  <2>1. CASE MainWrite(n)
    BY <1>0, <2>1 DEF MainWrite
  <2>2. CASE EndWait(n) \/ Retry(n) \/ CloseNext(n) \/ Fault(n) \/ Finalize(n) \/ StdinEnd(n)
    BY <2>2, MainSilent
  <2> QED BY <2>1, <2>2 DEF MainStep, Choice
<1> QED BY <1>1, <1>2

\* The daemon, when it neither reads nor writes.
Fills == {"len", "text", "install"}

LEMMA DaemonSettled ==
  ASSUME TypeOK, Shaped, Together', NEW n \in Rank, NEW st, Settled(st),
         \/ Poll(n) \/ Scan(n) \/ EndScan(n) \/ Install(n) \/ ReadEnds(n)
         \/ CopyPage(n) \/ EndFault(n) \/ UnmapPage(n) \/ Inform(n)
  PROVE  /\ Shaped' /\ Settled(st)' /\ chan' = chan /\ Elsewhere(n)
         /\ \A p \in Page : Keeps(n, p) \/ (Install(n) /\ Installed(n, p))
         /\ Install(n) \/ (daemon[n].pc \notin Fills /\ daemon'[n].pc \notin Fills)
<1>0. daemon \in [Rank -> DaemonState] /\ ~Exit(n) /\ DaemonOut(n) /\ DaemonPlace(n)
      /\ mapped \in [Rank -> SUBSET Page]
  BY NoExit DEF TypeOK, DaemonState, Shaped
\* None of these is at the reception of a page, or has just sent one.
<1> DEFINE Idle == {"poll", "scan", "type", "eof", "inform", "copy", "fault"}
<1>1. ASSUME mapped' = mapped, daemon[n].pc \in Idle, daemon'[n].pc \in Idle, NEW p
      PROVE  Keeps(n, p)
  BY <1>1 DEF Keeps, Holds, Installs, Filling, Sent
<1>2. CASE Poll(n) \/ Scan(n) \/ EndScan(n)
  <2>1. Shaped' /\ Silent(n) /\ mapped' = mapped
    BY <1>2, PollSilent
  <2>2. daemon[n].pc \in Idle /\ daemon'[n].pc \in Idle
    <3>1. CASE Poll(n)
      BY <1>0, <3>1 DEF Poll, DaemonState
    <3>2. CASE Scan(n)
      <4>1. daemon[n].pc = "scan"
        BY <3>2, Zenon DEF Scan
      <4>2. PICK s \in daemon[n].ready :
              \/ HangUp(n, s)
              \/ daemon' = [daemon EXCEPT ![n].pc = "type", ![n].slot = s, ![n].ready = @ \ {s}]
        BY <3>2, Zenon DEF Scan
      <4>3. CASE HangUp(n, s)
        BY <1>0, <4>1, <4>3 DEF HangUp, DaemonState
      <4>4. CASE daemon' = [daemon EXCEPT ![n].pc = "type", ![n].slot = s, ![n].ready = @ \ {s}]
        BY <1>0, <4>1, <4>4 DEF DaemonState
      <4> QED BY <4>2, <4>3, <4>4
    <3>3. CASE EndScan(n)
      BY <1>0, <3>3 DEF EndScan, DaemonState
    <3> QED BY <1>2, <3>1, <3>2, <3>3
  <2>3. Elsewhere(n)
    BY <2>1 DEF Silent, OthersStay, Elsewhere
  <2> QED BY <1>1, <2>1, <2>2, <2>3, SettledSilent DEF Silent, Fills
<1>3. CASE Install(n)
  <2>1. Shaped' /\ Silent(n) /\ mapped' = mapped
    BY <1>3, PollSilent
  <2>2. Elsewhere(n)
    BY <2>1 DEF Silent, OthersStay, Elsewhere
  <2>3. /\ daemon[n].pc = "install" /\ daemon[n].page \in mapped[n]
        /\ daemon' = [daemon EXCEPT ![n] = Resume(n)]
    BY <1>0, <1>3 DEF Install, DaemonPlace
  <2>4. daemon'[n].pc = "scan"
    BY <2>3, Resumed
  <2>5. ASSUME NEW p PROVE Keeps(n, p) \/ Installed(n, p)
    <3>1. CASE p = daemon[n].page
      BY <2>1, <2>3, <2>4, <3>1 DEF Installed, Installs, Holds, Filling, Sent
    <3>2. CASE p # daemon[n].page
      BY <2>1, <2>3, <2>4, <3>2 DEF Keeps, Installs, Holds, Filling, Sent
    <3> QED BY <3>1, <3>2
  <2> QED BY <1>3, <2>1, <2>2, <2>5, SettledSilent DEF Silent
<1>4. CASE ReadEnds(n)
  <2>1. Shaped' /\ Silent(n) /\ mapped' = mapped /\ daemon[n].pc \in Idle /\ daemon'[n].pc \in Idle
    BY <1>4, EndSilent
  <2>3. Elsewhere(n)
    BY <2>1 DEF Silent, OthersStay, Elsewhere
  <2> QED BY <1>1, <2>1, <2>3, SettledSilent DEF Silent, Fills
<1>5. CASE CopyPage(n) \/ EndFault(n)
  <2>1. Shaped' /\ Silent(n) /\ mapped' = mapped
    BY <1>5, CopySilent
  <2>2. Elsewhere(n)
    BY <2>1 DEF Silent, OthersStay, Elsewhere
  <2>3. \/ daemon[n].pc \in Idle /\ daemon'[n].pc \in Idle
        \/ daemon[n].pc \in Idle /\ daemon'[n].pc = "unmap" /\ daemon'[n].out # << >>
    <3>1. CASE CopyPage(n)
      <4>1. daemon[n].pc = "copy"
        BY <3>1, Copies
      <4>2. \/ daemon'[n].pc = "fault"
            \/ daemon'[n].pc = "unmap" /\ \E a, b : daemon'[n].out = <<a>> \/ daemon'[n].out = <<a, b>>
        BY <3>1, Copies
      <4> QED BY <4>1, <4>2, Outs
    <3>2. CASE EndFault(n)
      BY <1>0, <3>2 DEF EndFault, DaemonState
    <3> QED BY <1>5, <3>1, <3>2
  <2>4. ASSUME NEW p PROVE Keeps(n, p)
    BY <2>1, <2>3 DEF Keeps, Holds, Installs, Filling, Sent
  <2> QED BY <2>1, <2>2, <2>3, <2>4, SettledSilent DEF Silent, Fills
<1>6. CASE UnmapPage(n)
  <2>1. Shaped' /\ Silent(n)
    BY <1>6, UnmapSilent
  <2>2. /\ daemon[n].pc = "unmap" /\ daemon[n].out = << >> /\ daemon'[n].pc = "inform"
        /\ mapped'[n] = mapped[n] \ {daemon[n].page} /\ \A k \in Rank \ {n} : mapped'[k] = mapped[k]
    BY <1>0, <1>6 DEF UnmapPage, DaemonState
  <2>3. Elsewhere(n)
    BY <2>1, <2>2 DEF Silent, OthersStay, Elsewhere
  <2>4. ASSUME NEW p PROVE Keeps(n, p)
    BY <2>2 DEF Keeps, Holds, Installs, Filling, Sent
  <2> QED BY <2>1, <2>2, <2>3, <2>4, SettledSilent DEF Silent, Fills
<1>7. CASE Inform(n)
  <2>1. Shaped' /\ Silent(n)
    BY <1>7, UnmapSilent
  <2>2. mapped' = mapped /\ daemon[n].pc \in Idle /\ daemon'[n].pc \in Idle
    BY <1>7, Informs
  <2>3. Elsewhere(n)
    BY <2>1, <2>2 DEF Silent, OthersStay, Elsewhere
  <2> QED BY <1>1, <2>1, <2>2, <2>3, SettledSilent DEF Silent, Fills
<1> QED BY <1>2, <1>3, <1>4, <1>5, <1>6, <1>7

\* The daemon writes: the last word of a page message takes the page away.
LEMMA DaemonWriteSettled ==
  ASSUME TypeOK, Shaped, StreamsFramed, Together', NEW n \in Rank, DaemonWrite(n), NEW st, Settled(st)
  PROVE  Shaped' /\ \E st2 : Settled(st2)' /\ WroteFirst(n, st, st2, daemon[n].out)
<1>0. st \in Views /\ Framed(st) /\ ~Exit(n) /\ daemon \in [Rank -> DaemonState]
      /\ DaemonOut(n) /\ DaemonPlace(n)
  BY NoExit DEF Settled, Shaped, TypeOK, DaemonState
<1>1. /\ daemon[n].out # << >>
      /\ Delivers(n, Head(daemon[n].out).fd, Head(daemon[n].out).word)
      /\ daemon' = [daemon EXCEPT ![n].out = Tail(@)]
      /\ UNCHANGED <<mapped, table, open, stdin, main>>
  BY <1>0 DEF DaemonWrite
<1>2. /\ Shaped'
      /\ \/ Silent(n)
         \/ \E r, b : r = Head(daemon[n].out).fd /\ Writes(n, st, r, Head(daemon[n].out).word, b)
  BY <1>0, <1>1, DaemonWrites
<1>3. /\ daemon'[n].pc = daemon[n].pc /\ daemon'[n].page = daemon[n].page
      /\ daemon'[n].slot = daemon[n].slot /\ daemon'[n].out = Tail(daemon[n].out)
      /\ \A k \in Rank \ {n} : daemon'[k] = daemon[k]
  BY <1>0, <1>1 DEF DaemonState
<1>4. Elsewhere(n)
  BY <1>1, <1>3 DEF Elsewhere
<1>5. ASSUME NEW p, daemon'[n].out # << >> \/ daemon[n].pc # "unmap" \/ daemon[n].page # p
      PROVE  Keeps(n, p)
  BY <1>1, <1>3, <1>5 DEF Keeps, Holds, Installs, Filling, Sent
<1>6. PICK w : w = Head(daemon[n].out).word
  OBVIOUS
<1>7. PICK r : r = Head(daemon[n].out).fd
  OBVIOUS
<1>8. ASSUME daemon[n].pc = "unmap" PROVE r = daemon[n].slot /\ r \in Rank \ {n}
  <2>1. PICK x, y : \/ daemon[n].out = <<To(daemon[n].slot, x)>>
                    \/ daemon[n].out = <<To(daemon[n].slot, x), y>>
    BY <1>0, <1>1, <1>8 DEF DaemonOut
  <2>2. Head(daemon[n].out) = To(daemon[n].slot, x)
    BY <2>1, Outs
  <2>3. daemon[n].slot \in Rank \ {n}
    BY <1>0, <1>8 DEF DaemonPlace, Busy, DaemonState
  <2> QED BY <1>7, <2>2, <2>3, Outgoing
<1>9. CASE Silent(n)
  <2>1. daemon[n].pc # "unmap"
    <3> SUFFICES ASSUME daemon[n].pc = "unmap" PROVE FALSE
      OBVIOUS
    <3>1. r \in Rank \ {n} /\ r # Stdin
      BY <1>8, NodeAssumption DEF Rank, Stdin
    <3>2. Delivers(n, r, w)
      BY <1>1, <1>6, <1>7
    <3>3. chan' = [chan EXCEPT ![n][Link[n][r]] = Append(@, w)]
      BY <3>1, <3>2, DeliversTo DEF Shaped
    <3>4. w \in Word
      <4>1. daemon[n].out \in Seq(Output)
        BY <1>0 DEF DaemonState
      <4>2. Head(daemon[n].out) \in Output
        BY <1>1, <4>1
      <4> QED BY <1>6, <4>2 DEF Output
    <3>5. PICK m \in Rank : m = Link[n][r]
      BY <3>1, Links
    <3>6. Pushed(n, m, w)
      BY <3>3, <3>4, <3>5, Appended
    <3>7. Len(chan[n][m]) \in Nat /\ Len(chan[n][m]) = Len(chan[n][m]) + 1
      BY <1>9, <3>6 DEF Pushed, Silent
    <3> QED BY <3>7
  <2>2. \A p : Keeps(n, p)
    BY <1>5, <2>1
  <2>3. Settled(st)' /\ WroteFirst(n, st, st, daemon[n].out)
    <3>1. Settled(st)'
      BY <1>4, <1>9, <2>2, SettledSilent
    <3> QED BY <1>4, <1>9, <2>2, <3>1 DEF Silent, WroteFirst
  <2> QED BY <1>2, <2>3
<1>10. ASSUME NEW b, Writes(n, st, r, w, b)
       PROVE  \E st2 : Settled(st2)' /\ WroteFirst(n, st, st2, daemon[n].out)
  <2>0. PICK m, a : m = Link[n][r] /\ a = st[n][m][Len(chan[n][m])]
    OBVIOUS
  <2>1. r \in Rank \ {n} /\ Ends(n, r, b)'
    BY <1>10 DEF Writes
  <2>2. Ends(n, r, a)
    BY <1>0, <2>0, <2>1, ViewEnds
  <2>3. WritesTo(daemon[n].out, r)
    BY <1>0, <1>1, <1>7, HeadWrites DEF DaemonState
  <2>4. ~Asked(n, r) /\ ~Asked(n, r)'
    <3>1. ~WritesTo(main[n].out, r)
      BY <2>1, <2>3 DEF StreamsFramed
    <3>2. main[n].out \in Seq(Output)
      BY DEF TypeOK
    <3>3. ~Asked(n, r)
      BY <3>1, <3>2, HeadWrites, Outs DEF Asked
    <3> QED BY <1>1, <3>3 DEF Asked
  <2>5. /\ a.at = DaemonOwed(n, r) /\ b.at = DaemonOwed(n, r)'
        /\ a.at \in {"len", "text"} => a.page = daemon[n].page
    BY <2>2, <2>1, <2>4 DEF Ends, Owed
  <2>6. ASSUME a.at \in {"len", "text"} PROVE daemon[n].pc = "unmap"
    <3>1. CASE daemon[n].pc = "copy" /\ daemon[n].slot = r
      <4>1. \/ daemon[n].out = <<To(r, Num(SEND_PAGE)), To(r, Num(daemon[n].page))>>
            \/ daemon[n].out = <<To(r, Num(daemon[n].page))>>
        BY <1>0, <1>1, <3>1 DEF DaemonOut
      <4>2. Len(daemon[n].out) \in {1, 2}
        BY <4>1, Outs
      <4> QED BY <2>5, <2>6, <3>1, <4>2 DEF DaemonOwed, PageOwed
    <3>2. ~(daemon[n].pc = "fault" /\ daemon[n].slot = r)
      BY <2>1, <2>3 DEF StreamsFramed
    <3> QED BY <2>5, <2>6, <3>1, <3>2 DEF DaemonOwed, PageOwed, InfoOwed
  <2>7. ASSUME daemon[n].pc = "unmap"
        PROVE  a.at \in {"len", "text"} /\ (b.at = "type" <=> daemon'[n].out = << >>)
    <3>1. DaemonOwed(n, r) = PageOwed(daemon[n]) /\ DaemonOwed(n, r)' = PageOwed(daemon'[n])
      BY <1>3, <1>8, <2>7 DEF DaemonOwed
    <3> QED BY <1>1, <1>3, <2>5, <2>7, <3>1 DEF PageOwed
  <2>8. ASSUME NEW p \in Page
        PROVE  Leaves(n, a, b, p)
    <3>1. CASE daemon[n].pc = "unmap" /\ daemon'[n].out = << >> /\ daemon[n].page = p
      <4>1. Completes(a, b, p)
        BY <2>5, <2>7, <3>1 DEF Completes
      <4>2. Holds(n, p)
        BY <1>0, <1>1, <3>1 DEF Holds, Filling, Sent, DaemonPlace
      <4>3. ~Holds(n, p)' /\ ~Installs(n, p)'
        BY <1>3, <3>1 DEF Holds, Sent, Installs
      <4> QED BY <4>1, <4>2, <4>3 DEF Leaves
    <3>2. CASE ~(daemon[n].pc = "unmap" /\ daemon'[n].out = << >> /\ daemon[n].page = p)
      <4>1. ~Completes(a, b, p)
        BY <2>5, <2>6, <2>7, <3>2 DEF Completes
      <4> QED BY <1>5, <3>2, <4>1 DEF Leaves
    <3> QED BY <3>1, <3>2
  <2>9. PICK st2 : Settled(st2)' /\ Extended(st, st2, n, m, Len(chan[n][m]) + 1, b)
    BY <1>4, <1>10, <2>0, <2>8, SettledWrites
  <2> QED BY <1>4, <1>6, <1>7, <1>10, <2>0, <2>8, <2>9, Zenon DEF WroteFirst
<1> QED BY <1>2, <1>6, <1>7, <1>9, <1>10

\* Behind the number of page p there comes the end of the message, unless the
\* sender still has to write it; the sender keeps the page until it does, if
\* it has the page at all.
LEMMA BegunMessage ==
  ASSUME TypeOK, Shaped, NEW st, Settled(st), NEW n \in Rank, NEW m \in Rank \ {n}, NEW p \in Page,
         Len(chan[m][n]) \in Nat \ {0}, st[m][n][1].at = "len", st[m][n][1].page = p
  PROVE  ~Holds(n, p) \/ (Trapped(m) /\ daemon[m].page = p /\ Link[m][daemon[m].slot] = n)
<1>0. st \in Views /\ Framed(st) /\ Once(st, p)
  BY DEF Settled
<1>1. PICK l \in Nat \ {0} : l = Len(chan[m][n])
  OBVIOUS
<1>2. PICK r \in Rank \ {m} : Link[m][r] = n
  BY Links
<1>3. PICK a, b : a = st[m][n][1] /\ b = st[m][n][2]
  OBVIOUS
\* A second place excludes that n holds the page.
<1>4. ASSUME NEW x \in Rank, NEW y \in Rank, NEW j \in Nat, At(st, p, x, y, j), x # n
      PROVE  ~Holds(n, p)
  <2>1. ~At(st, p, n, n, 0)
    BY <1>0, <1>4 DEF Once, Only
  <2> QED BY <2>1 DEF At
<1>5. \A i \in 1 .. l : Legal(st[m][n][i - 1], chan[m][n][i], st[m][n][i])
  BY <1>0, <1>1 DEF Framed
<1>6. Ends(m, r, st[m][n][l])
  BY <1>0, <1>1, <1>2, ViewEnds
\* The sender is at the page itself.
<1>7. ASSUME NEW e, Ends(m, r, e), e.at \in {"len", "text"}, e.page = p
      PROVE  ~Holds(n, p) \/ (Trapped(m) /\ daemon[m].page = p /\ Link[m][daemon[m].slot] = n)
  <2>1. e.at = DaemonOwed(m, r) /\ daemon[m].page = p
    BY <1>7 DEF Ends, Owed
  <2>2. daemon[m].pc \in {"copy", "unmap", "fault"} /\ daemon[m].slot = r
    BY <1>7, <2>1 DEF DaemonOwed, InfoOwed
  <2>3. CASE daemon[m].pc = "unmap"
    <3>1. daemon[m].out # << >>
      BY <1>7, <2>1, <2>2, <2>3 DEF DaemonOwed, PageOwed
    <3>2. p \in mapped[m]
      BY <2>1, <2>3 DEF Shaped, DaemonPlace
    <3>3. At(st, p, m, m, 0)
      BY <2>3, <3>1, <3>2 DEF At, Holds, Filling, Sent
    <3> QED BY <1>4, <3>3
  <2>4. CASE daemon[m].pc \in {"copy", "fault"} /\ p \in mapped[m]
    <3>3. At(st, p, m, m, 0)
      BY <2>4 DEF At, Holds, Filling, Sent
    <3> QED BY <1>4, <3>3
  <2>5. CASE daemon[m].pc \in {"copy", "fault"} /\ p \notin mapped[m]
    BY <1>2, <2>1, <2>2, <2>5 DEF Trapped
  <2> QED BY <2>2, <2>3, <2>4, <2>5
<1>8. CASE l = 1
  BY <1>6, <1>7, <1>8
<1>9. CASE l \in Nat /\ l > 1
  <2>1. Legal(a, chan[m][n][2], b)
    <3>1. 2 \in 1 .. l /\ 2 - 1 = 1
      BY <1>9
    <3> QED BY <1>3, <1>5, <3>1
  <2>2. b.at = "type" \/ (b.at = "text" /\ b.page = p)
    BY <1>3, <2>1 DEF Legal
  <2>3. CASE b.at = "type"
    <3>1. 2 \in 1 .. l /\ 2 - 1 = 1 /\ 2 \in Nat
      BY <1>9
    <3>2. At(st, p, m, n, 2)
      BY <1>1, <1>3, <2>3, <3>1 DEF At, Completes
    <3> QED BY <1>4, <3>1, <3>2
  <2>4. CASE b.at = "text" /\ b.page = p
    <3>1. CASE l = 2
      BY <1>3, <1>6, <1>7, <2>4, <3>1
    <3>2. CASE l > 2
      <4>1. 3 \in 1 .. l /\ 3 - 1 = 2 /\ 3 \in Nat
        BY <3>2
      <4>2. Legal(b, chan[m][n][3], st[m][n][3])
        BY <1>3, <1>5, <4>1
      <4>3. st[m][n][3].at = "type"
        BY <2>4, <4>2 DEF Legal
      <4>4. At(st, p, m, n, 3)
        BY <1>1, <1>3, <2>4, <4>1, <4>3 DEF At, Completes
      <4> QED BY <1>4, <4>1, <4>4
    <3> QED BY <1>9, <3>1, <3>2
  <2> QED BY <2>2, <2>3, <2>4
<1> QED BY <1>8, <1>9

\* The number of a page is read by a process that does not have the page.
NumberIsNews(n) == daemon[n].pc = "page" => ~Holds(n, NextWord(n))

LEMMA DaemonReadSettled ==
  ASSUME TypeOK, Shaped, NEW n \in Rank, NEW st, Settled(st),
         \/ RecvType(n) \/ RecvInfoPage(n) \/ RecvInfoOwner(n) \/ RecvPageRequest(n) \/ Misframed(n)
         \/ (RecvPageNumber(n) /\ (NextWord(n) \in Page => NumberIsNews(n))) \/ RecvLength(n) \/ RecvText(n)
  PROVE  Shaped' /\ \E st2 : Settled(st2)' /\ ReadNext(n, st, st2)
<1>0. st \in Views /\ Framed(st) /\ ~Misframed(n)
  BY NeverMisframed DEF Settled
<1>1. PICK s, m, a, b, w : /\ s = daemon[n].slot /\ m = Link[n][s] /\ a = st[m][n][0] /\ b = st[m][n][1]
                           /\ w = chan[m][n][1]
  OBVIOUS
\* Where the reader of slot s is.
<1>2. ASSUME s \in Rank \ {n}, daemon[n].pc \in Reading
      PROVE  a.at = daemon[n].pc /\ (a.at \in {"len", "text"} => a.page = daemon[n].page)
  <2>1. Begins(n, s, a)
    BY <1>0, <1>1, <1>2 DEF Framed
  <2> QED BY <1>1, <1>2, <2>1 DEF Begins
<1>3. CASE RecvType(n) \/ RecvInfoPage(n) \/ RecvInfoOwner(n) \/ RecvPageRequest(n)
  <2>1. /\ Shaped' /\ Reads(n, st, s) /\ UNCHANGED <<main, mapped>>
        /\ daemon'[n].pc \in {"page", "infoPage", "wanted", "infoOwner", "scan", "copy"}
        /\ daemon[n].pc \in {"type", "infoPage", "infoOwner", "wanted"}
    BY <1>0, <1>1, <1>3, MessageRead
  <2>2. Elsewhere(n) /\ s \in Rank \ {n}
    BY <2>1 DEF Reads, OthersStay, Elsewhere
  <2>3. \A p : Keeps(n, p)
    BY <2>1 DEF Keeps, Holds, Installs, Filling, Sent
  <2>4. \A p \in Page : Enters(n, a, b, p)
    <3>1. a.at = daemon[n].pc
      BY <1>2, <2>1, <2>2 DEF Reading, ReadingInt
    <3> QED BY <2>1, <2>3, <3>1 DEF Completes, Enters
  <2>9. PICK st2 : Settled(st2)' /\ Shifted(st, st2, m, n)
    BY <1>1, <2>1, <2>2, <2>4, SettledReads
  <2> QED BY <1>1, <2>1, <2>2, <2>4, <2>9 DEF ReadNext
<1>4. CASE RecvPageNumber(n) /\ (NextWord(n) \in Page => NumberIsNews(n))
  <2>1. /\ Shaped' /\ Reads(n, st, s) /\ daemon[n].pc = "page" /\ daemon'[n].pc = "len"
        /\ daemon'[n].page = w.val /\ mapped'[n] = mapped[n] \cup ({w.val} \cap Page)
        /\ \A k \in Rank \ {n} : mapped'[k] = mapped[k]
    <3>1. daemon[n].pc = "page"
      BY <1>4 DEF RecvPageNumber, Takes
    <3>2. \A k \in Rank \ {n} : mapped'[k] = mapped[k]
      BY <1>4 DEF RecvPageNumber, TypeOK
    <3> QED BY <1>0, <1>1, <1>4, <3>1, <3>2, PageRead
  <2>2. Elsewhere(n) /\ s \in Rank \ {n}
    BY <2>1 DEF Reads, OthersStay, Elsewhere
  <2>3. \A p : ~Completes(a, b, p)
    BY <1>2, <2>1, <2>2 DEF Completes, Reading, ReadingInt
  <2>4. w.val = NextWord(n)
    <3>1. Takes(n, "page", "int")
      BY <1>4 DEF RecvPageNumber
    <3> QED BY <1>1, <3>1, TakesPops DEF Shaped
  <2>5. ASSUME NEW p \in Page PROVE Keeps(n, p)
    <3>1. CASE p # w.val
      BY <2>1, <3>1 DEF Keeps, Holds, Installs, Filling, Sent
    <3>2. CASE p = w.val
      <4>1. ~Holds(n, p)
        BY <1>4, <2>1, <2>4, <2>5, <3>2 DEF NumberIsNews
      <4>2. ~Holds(n, p)' /\ ~Installs(n, p) /\ ~Installs(n, p)'
        BY <2>1, <3>2 DEF Holds, Filling, Installs
      <4> QED BY <4>1, <4>2 DEF Keeps
    <3> QED BY <3>1, <3>2
  <2>6. \A p \in Page : Enters(n, a, b, p)
    BY <2>3, <2>5 DEF Enters
  <2>9. PICK st2 : Settled(st2)' /\ Shifted(st, st2, m, n)
    BY <1>1, <2>1, <2>2, <2>6, SettledReads, Zenon
  <2> QED BY <1>1, <2>1, <2>2, <2>6, <2>9, Zenon DEF ReadNext
<1>5. CASE RecvLength(n) \/ RecvText(n)
  <2>1. daemon[n].pc \in {"len", "text"} /\ mapped' = mapped
    BY <1>5, Zenon DEF RecvLength, RecvText, Takes
  <2>2. /\ Shaped' /\ Reads(n, st, s)
        /\ \/ /\ daemon[n].pc = "len" /\ daemon'[n].pc = "text" /\ daemon'[n].page = daemon[n].page
              /\ b.at = "text"
           \/ /\ daemon'[n].pc = "install" /\ daemon'[n].page = daemon[n].page /\ b.at = "type"
    BY <1>0, <1>1, <1>5, <2>1, PageRead
  <2>3. Elsewhere(n) /\ s \in Rank \ {n}
    BY <2>1, <2>2 DEF Reads, OthersStay, Elsewhere
  <2>4. a.at \in {"len", "text"} /\ a.page = daemon[n].page
    BY <1>2, <2>1, <2>3 DEF Reading, ReadingInt
  <2>5. ASSUME NEW p \in Page
        PROVE  Enters(n, a, b, p)
    <3>1. CASE daemon'[n].pc = "install" /\ p = daemon[n].page
      BY <2>2, <2>4, <3>1 DEF Enters, Completes, Installs, Holds, Filling
    <3>2. CASE daemon'[n].pc = "install" /\ p # daemon[n].page
      BY <2>1, <2>2, <2>4, <3>2 DEF Enters, Completes, Keeps, Installs, Holds, Filling, Sent
    <3>3. CASE daemon'[n].pc = "text"
      BY <2>1, <2>2, <2>4, <3>3 DEF Enters, Completes, Keeps, Installs, Holds, Filling, Sent
    <3> QED BY <2>2, <3>1, <3>2, <3>3 DEF Enters
  <2>9. PICK st2 : Settled(st2)' /\ Shifted(st, st2, m, n)
    BY <1>1, <2>2, <2>3, <2>5, SettledReads, Zenon
  <2> QED BY <1>1, <2>2, <2>3, <2>5, <2>9, Zenon DEF ReadNext
<1> QED BY <1>0, <1>3, <1>4, <1>5

----------------------------------------------------------------------------
\* The pages are placed: the invariant behind PageConserved.
Placed == Shaped /\ \E st : Settled(st)

LEMMA Homes == \A p \in Page : p % DSM_NODE_NUM \in Rank
<1> SUFFICES ASSUME NEW p \in Page PROVE p % DSM_NODE_NUM \in Rank
  OBVIOUS
<1>1. p \in Nat /\ DSM_NODE_NUM \in Nat /\ DSM_NODE_NUM > 0
  BY NodeAssumption DEF Page
<1>2. p % DSM_NODE_NUM \in 0 .. (DSM_NODE_NUM - 1)
  BY <1>1
<1> QED BY <1>2 DEF Rank

\* At first every page is at home and no word has been written.
LEMMA PlacedAtFirst == Init => Placed
<1> SUFFICES ASSUME Init PROVE Placed
  OBVIOUS
<1> DEFINE start == [at |-> "type", page |-> 0, len |-> 0]
           st == [n \in Rank |-> [m \in Rank |-> [i \in Nat |-> start]]]
<1>1. start \in Ahead /\ start.at = "type"
  BY DEF Ahead, Reading, ReadingInt
<1>2. st \in Views /\ \A n, m \in Rank : \A i \in Nat : st[n][m][i] = start
  BY <1>1 DEF Views
<1> HIDE DEF start, st
<1>3. /\ \A n, m \in Rank : chan[n][m] = << >>
      /\ \A n \in Rank : /\ main[n].pc = "run" /\ main[n].out = << >>
                         /\ daemon[n].pc = "poll" /\ daemon[n].out = << >>
                         /\ mapped[n] = {p \in Page : p % DSM_NODE_NUM = n}
      /\ open = [n \in Rank |-> Rank \ {n}]
  BY DEF Init, MainAt, DaemonAt
<1>4. Shaped
  BY <1>3 DEF Shaped, MainOut, DaemonOut, DaemonPlace, Busy
<1>5. Framed(st)
  <2>1. ASSUME NEW m \in Rank, NEW s \in Rank \ {m} PROVE Begins(m, s, st[Link[m][s]][m][0])
    <3>1. Link[m][s] \in Rank
      BY Links
    <3> QED BY <1>1, <1>2, <1>3, <3>1 DEF Begins, Reading, ReadingInt
  <2>2. ASSUME NEW n \in Rank, NEW r \in Rank \ {n}
        PROVE  Ends(n, r, st[n][Link[n][r]][Len(chan[n][Link[n][r]])])
    <3>1. Link[n][r] \in Rank
      BY Links
    <3>2. chan[n][Link[n][r]] = << >>
      BY <1>3, <3>1
    <3>3. st[n][Link[n][r]][Len(chan[n][Link[n][r]])] = start
      BY <1>2, <3>1, <3>2, Outs
    <3>4. Owed(n, r) = "type"
      BY <1>3, Outs DEF Owed, Asked, DaemonOwed
    <3> QED BY <1>1, <3>3, <3>4 DEF Ends
  <2>3. \A n, m \in Rank : \A i \in 1 .. Len(chan[n][m]) : FALSE
    BY <1>3, Outs
  <2> QED BY <2>1, <2>2, <2>3 DEF Framed
<1>6. ASSUME NEW p \in Page PROVE Once(st, p)
  <2>1. PICK h \in Rank : h = p % DSM_NODE_NUM
    BY Homes
  <2>2. ASSUME NEW x \in Rank, NEW y \in Rank, NEW j \in Nat
        PROVE  At(st, p, x, y, j) <=> (x = h /\ y = h /\ j = 0)
    <3>1. ~Installs(x, p) /\ ~Filling(x, p) /\ ~Sent(x, p)
      BY <1>3 DEF Installs, Filling, Sent
    <3>2. j \notin 1 .. Len(chan[x][y])
      BY <1>3, Outs
    <3>3. p \in mapped[x] <=> x = h
      BY <1>3, <2>1
    <3> QED BY <3>1, <3>2, <3>3 DEF At, Holds
  <2> QED BY <2>2 DEF Once, Only
<1> QED BY <1>2, <1>4, <1>5, <1>6 DEF Placed, Settled

LEMMA PlacedStep ==
  ASSUME TypeOK, Placed, StreamsFramed, Together, Together', NobodyTrapped, [Next]_vars
  PROVE  Placed'
<1>1. PICK st : Settled(st)
  BY DEF Placed
<1>s. Shaped
  BY DEF Placed
<1>2. CASE UNCHANGED vars
  <2>1. Shaped'
    BY <1>s, <1>2 DEF vars, Shaped, MainOut, DaemonOut, DaemonPlace
  <2>2. 0 \in Rank
    BY Ranks
  <2>3. Silent(0) /\ Elsewhere(0) /\ \A p : Keeps(0, p)
    BY <1>2 DEF vars, Silent, BeginsStay, EndsStay, OthersStay, Begins, Ends, Owed, Asked, DaemonOwed,
                PageOwed, InfoOwed, Elsewhere, Keeps, Holds, Installs, Filling, Sent
  <2> QED BY <1>1, <2>1, <2>2, <2>3, SettledSilent DEF Placed
<1>3. ASSUME NEW n \in Rank, MainStep(n) \/ Choice(n) PROVE Placed'
  BY <1>1, <1>s, <1>3, MainSettled DEF Placed
<1>4. ASSUME NEW n \in Rank, DaemonStep(n) PROVE Placed'
  <2>1. CASE DaemonWrite(n)
    BY <1>1, <1>s, <2>1, DaemonWriteSettled DEF Placed
  <2>2. CASE \/ Poll(n) \/ Scan(n) \/ EndScan(n) \/ Install(n) \/ ReadEnds(n)
             \/ CopyPage(n) \/ EndFault(n) \/ UnmapPage(n) \/ Inform(n)
    BY <1>1, <1>s, <2>2, DaemonSettled DEF Placed
  <2>3. CASE \/ RecvType(n) \/ RecvInfoPage(n) \/ RecvInfoOwner(n) \/ RecvPageRequest(n) \/ Misframed(n)
             \/ RecvLength(n) \/ RecvText(n)
    BY <1>1, <1>s, <2>3, DaemonReadSettled DEF Placed
  <2>4. CASE RecvPageNumber(n)
    <3>1. ASSUME NextWord(n) \in Page PROVE ~Holds(n, NextWord(n))
      <4>1. PICK s, m, a, b : s = daemon[n].slot /\ m = Link[n][s] /\ a = st[m][n][0] /\ b = st[m][n][1]
        OBVIOUS
      <4>2. Takes(n, "page", "int") /\ "page" \in Reading
        BY <2>4 DEF RecvPageNumber, Reading, ReadingInt
      <4>3. st \in Views /\ Framed(st)
        BY <1>1 DEF Settled
      <4>4. /\ m \in Rank \ {n} /\ Popped(m, n) /\ chan[m][n][1].val = NextWord(n)
            /\ Legal(a, chan[m][n][1], b) /\ a.at = "page"
        BY <1>s, <4>1, <4>2, <4>3, ReadsLegal
      <4>5. b.at = "len" /\ b.page = NextWord(n)
        BY <4>4 DEF Legal
      <4>6. Len(chan[m][n]) \in Nat \ {0}
        BY <4>4 DEF Popped
      <4>7. ~Trapped(m)
        BY <4>4 DEF NobodyTrapped
      <4>8. PICK p \in Page : p = NextWord(n)
        BY <3>1
      <4>9. st[m][n][1].at = "len" /\ st[m][n][1].page = p
        BY <4>1, <4>5, <4>8
      <4>10. ~Holds(n, p)
        BY <1>1, <1>s, <4>4, <4>6, <4>7, <4>9, BegunMessage
      <4> QED BY <4>8, <4>10
    <3> QED BY <1>1, <1>s, <2>4, <3>1, DaemonReadSettled DEF NumberIsNews, Placed
  <2> QED BY <1>4, <2>1, <2>2, <2>3, <2>4 DEF DaemonStep
<1> QED BY <1>2, <1>3, <1>4 DEF Next


----------------------------------------------------------------------------
(* What has left for a process                                             *)

\* The readers that Underway computes, one for each number of words read.
IsReading(f, r, ws) ==
  f = [i \in 0 .. Len(ws) |-> IF i = 0 THEN r ELSE Read[f[i - 1]][ws[i]]]

LEMMA UnderwayReads ==
  ASSUME NEW n, NEW s, \E f : IsReading(f, Reader(n, s), Incoming(n, s))
  PROVE  \E f : /\ IsReading(f, Reader(n, s), Incoming(n, s))
                /\ Underway(n, s) = f[Len(Incoming(n, s))].got
<1> DEFINE g == CHOOSE f : IsReading(f, Reader(n, s), Incoming(n, s))
<1>1. IsReading(g, Reader(n, s), Incoming(n, s))
  OBVIOUS
<1>2. Underway(n, s) = g[Len(Incoming(n, s))].got
  BY DEF Underway, IsReading
<1> QED BY <1>1, <1>2

LEMMA ReadFollows ==
  ASSUME NEW a \in Ahead, NEW b \in Ahead, NEW w \in Word, NEW r \in ReaderState,
         Legal(a, w, b), r.at = a.at, a.at \in {"len", "text"} => r.page = a.page
  PROVE  /\ Read[r][w] \in ReaderState /\ Read[r][w].at = b.at
         /\ b.at \in {"len", "text"} => Read[r][w].page = b.page
         /\ Read[r][w].got = IF a.at \in {"len", "text"} /\ b.at = "type"
                               THEN Append(r.got, a.page) ELSE r.got
<1>1. /\ r.at \in Reading /\ r.page \in Nat /\ r.got \in Seq(Nat)
      /\ r = [at |-> r.at, page |-> r.page, got |-> r.got]
  BY DEF ReaderState
<1>2. w.val \in Nat
  BY DEF Word
<1>r. \A x \in Reading, y \in Nat, z \in Seq(Nat) : [at |-> x, page |-> y, got |-> z] \in ReaderState
  BY DEF ReaderState
<1>b. b.at \in Reading
  BY DEF Ahead
<1>3. Append(r.got, r.page) \in Seq(Nat)
  BY <1>1
<1>4. CASE a.at = "type"
  <2>1. Read[r][w] = [r EXCEPT !.at = IF w.val = SEND_PAGE THEN "page"
                                       ELSE IF w.val = SEND_INFO THEN "infoPage" ELSE "wanted"]
    BY <1>4 DEF Read
  <2>2. Read[r][w] = [r EXCEPT !.at = b.at] /\ b.at \in {"page", "infoPage", "wanted"}
    BY <1>4, <2>1 DEF Legal, SEND_PAGE, SEND_INFO, PAGE_REQUEST
  <2>3. Read[r][w] = [at |-> b.at, page |-> r.page, got |-> r.got]
    BY <1>1, <2>1, <2>2
  <2> QED BY <1>1, <1>4, <2>2, <1>r, <1>b, <2>3
<1>5. CASE a.at = "page"
  <2>1. Read[r][w] = [r EXCEPT !.at = "len", !.page = w.val]
    BY <1>5 DEF Read
  <2>2. b.at = "len" /\ b.page = w.val
    BY <1>5 DEF Legal
  <2>3. Read[r][w] = [at |-> b.at, page |-> w.val, got |-> r.got]
    BY <1>1, <2>1, <2>2
  <2> QED BY <1>1, <1>2, <1>5, <2>1, <2>2, <1>r, <1>b, <2>3
<1>6. CASE a.at = "len" /\ w.val # 0
  <2>1. Read[r][w] = [r EXCEPT !.at = "text"]
    BY <1>6 DEF Read
  <2>2. b.at = "text" /\ b.page = a.page
    BY <1>6 DEF Legal
  <2>3. Read[r][w] = [at |-> b.at, page |-> r.page, got |-> r.got]
    BY <1>1, <2>1, <2>2
  <2> QED BY <1>1, <1>6, <2>1, <2>2, <1>r, <1>b, <2>3
<1>7. CASE a.at = "text" \/ (a.at = "len" /\ w.val = 0)
  <2>1. Read[r][w] = [r EXCEPT !.at = "type", !.got = Append(@, r.page)]
    BY <1>7 DEF Read
  <2>2. b.at = "type" /\ r.page = a.page
    BY <1>7 DEF Legal
  <2>3. Read[r][w] = [at |-> b.at, page |-> r.page, got |-> Append(r.got, r.page)]
    BY <1>1, <2>1, <2>2
  <2>4. a.at \in {"len", "text"} /\ r.page = a.page
    BY <1>7
  <2>5. PICK z \in Seq(Nat) : z = Append(r.got, a.page)
    BY <1>3, <2>4
  <2>6. Read[r][w] = [at |-> b.at, page |-> r.page, got |-> z]
    BY <2>3, <2>4, <2>5
  <2>7. Read[r][w] \in ReaderState
    BY <1>1, <1>r, <1>b, <2>6
  <2> QED BY <2>2, <2>4, <2>5, <2>6, <2>7
<1>8. CASE a.at = "infoPage"
  <2>1. Read[r][w] = [r EXCEPT !.at = "infoOwner"]
    BY <1>8 DEF Read
  <2>2. b.at = "infoOwner"
    BY <1>8 DEF Legal
  <2>3. Read[r][w] = [at |-> b.at, page |-> r.page, got |-> r.got]
    BY <1>1, <2>1, <2>2
  <2> QED BY <1>1, <1>8, <2>1, <2>2, <1>r, <1>b, <2>3
<1>9. CASE a.at \in {"infoOwner", "wanted"}
  <2>1. Read[r][w] = [r EXCEPT !.at = "type"]
    BY <1>9 DEF Read
  <2>2. b.at = "type"
    BY <1>9 DEF Legal
  <2>3. Read[r][w] = [at |-> b.at, page |-> r.page, got |-> r.got]
    BY <1>1, <2>1, <2>2
  <2> QED BY <1>1, <1>9, <2>1, <2>2, <1>r, <1>b, <2>3
<1> QED BY <1>4, <1>5, <1>6, <1>7, <1>8, <1>9 DEF Legal

\* What holds at first and is kept holds up to any number.
LEMMA CountUp ==
  ASSUME NEW l \in Nat, NEW S, 0 \in S, \A k \in Nat : k < l /\ k \in S => k + 1 \in S
  PROVE  \A k \in 0 .. l : k \in S
<1>1. PICK Bad \in SUBSET Nat : Bad = {k \in 0 .. l : k \notin S}
  <2>1. {k \in 0 .. l : k \notin S} \in SUBSET Nat
    OBVIOUS
  <2> QED BY <2>1
<1>2. ASSUME Bad # {} PROVE FALSE
  <2> DEFINE Less == {ss \in Nat \X Nat : ss[1] < ss[2]}
  <2>1. IsWellFoundedOn(Less, Nat)
    BY NatLessThanWellFounded DEF OpToRel
  <2>2. PICK k \in Bad : \A m \in Bad : ~(<<m, k>> \in Less)
    <3> HIDE DEF Less
    <3> QED BY <1>2, <2>1, WFMin
  <2>3. k \in 0 .. l /\ k \notin S /\ k # 0
    BY <1>1
  <2>4. PICK m \in Nat : k = m + 1 /\ m < l /\ m \in 0 .. l
    <3>1. k - 1 \in Nat /\ k = (k - 1) + 1 /\ k - 1 < l /\ k - 1 \in 0 .. l
      BY <2>3
    <3> QED BY <3>1
  <2>5. m \notin Bad
    <3>1. <<m, k>> \in Nat \X Nat /\ m < k
      BY <2>3, <2>4
    <3>2. <<m, k>> \in Less
      BY <3>1
    <3> QED BY <2>2, <3>2
  <2> QED BY <1>1, <2>3, <2>4, <2>5
<1> QED BY <1>1, <1>2

\* A reader has followed a view for k words: it is where the view is, and has
\* found the pages that the view completes.
Matches(q, v, k) ==
  /\ q \in ReaderState /\ q.at = v[k].at
  /\ v[k].at \in {"len", "text"} => q.page = v[k].page
  /\ \A p \in Nat : (\E x \in 1 .. Len(q.got) : q.got[x] = p)
                    <=> (\E j \in 1 .. k : Completes(v[j - 1], v[j], p))

LEMMA MatchesNext ==
  ASSUME NEW v \in [Nat -> Ahead], NEW k \in Nat, NEW q, Matches(q, v, k), NEW w \in Word,
         Legal(v[k], w, v[k + 1])
  PROVE  Matches(Read[q][w], v, k + 1)
<1>1. /\ v[k] \in Ahead /\ v[k + 1] \in Ahead /\ q \in ReaderState /\ q.at = v[k].at
      /\ v[k].at \in {"len", "text"} => q.page = v[k].page
  BY DEF Matches
<1>2. PICK r \in ReaderState : r = Read[q][w]
  BY <1>1, ReadFollows
<1>3. /\ r.at = v[k + 1].at
      /\ v[k + 1].at \in {"len", "text"} => r.page = v[k + 1].page
      /\ r.got = IF v[k].at \in {"len", "text"} /\ v[k + 1].at = "type"
                   THEN Append(q.got, v[k].page) ELSE q.got
  BY <1>1, <1>2, ReadFollows
<1>4. ASSUME NEW p \in Nat
      PROVE  (\E x \in 1 .. Len(r.got) : r.got[x] = p)
             <=> (\E j \in 1 .. k + 1 : Completes(v[j - 1], v[j], p))
  <2>1. (\E j \in 1 .. k + 1 : Completes(v[j - 1], v[j], p))
        <=> (\E j \in 1 .. k : Completes(v[j - 1], v[j], p)) \/ Completes(v[k], v[k + 1], p)
    <3>1. (k + 1) - 1 = k /\ k + 1 \in 1 .. k + 1 /\ 1 .. k \subseteq 1 .. k + 1
          /\ \A j \in 1 .. k + 1 : j \in 1 .. k \/ j = k + 1
      OBVIOUS
    <3> QED BY <3>1
  <2>2. (\E x \in 1 .. Len(q.got) : q.got[x] = p)
        <=> (\E j \in 1 .. k : Completes(v[j - 1], v[j], p))
    BY DEF Matches
  <2>3. CASE v[k].at \in {"len", "text"} /\ v[k + 1].at = "type"
    <3>1. PICK s \in Seq(Nat), y \in Nat : s = q.got /\ y = v[k].page /\ r.got = Append(s, y)
      BY <1>1, <1>3, <2>3 DEF ReaderState, Ahead
    <3>2. (\E x \in 1 .. Len(Append(s, y)) : Append(s, y)[x] = p)
          <=> (\E x \in 1 .. Len(s) : s[x] = p) \/ y = p
      <4>1. /\ Len(s) \in Nat /\ Len(Append(s, y)) = Len(s) + 1
            /\ \A x \in 1 .. Len(s) : Append(s, y)[x] = s[x]
            /\ Append(s, y)[Len(s) + 1] = y
        OBVIOUS
      <4>2. PICK l \in Nat : l = Len(s)
        BY <4>1
      <4>3. l + 1 \in 1 .. l + 1 /\ \A x \in 1 .. l + 1 : x \in 1 .. l \/ x = l + 1
        OBVIOUS
      <4>4. 1 .. l \subseteq 1 .. l + 1
        OBVIOUS
      <4> HIDE <3>1
      <4> QED BY <4>1, <4>2, <4>3, <4>4
    <3>3. Completes(v[k], v[k + 1], p) <=> y = p
      BY <2>3, <3>1 DEF Completes
    <3> QED BY <2>1, <2>2, <3>1, <3>2, <3>3
  <2>4. CASE ~(v[k].at \in {"len", "text"} /\ v[k + 1].at = "type")
    <3>1. r.got = q.got /\ ~Completes(v[k], v[k + 1], p)
      BY <1>3, <2>4 DEF Completes
    <3> QED BY <2>1, <2>2, <3>1
  <2> QED BY <2>3, <2>4
<1>5. Matches(r, v, k + 1)
  BY <1>2, <1>3, <1>4 DEF Matches
<1> QED BY <1>2, <1>5

\* The readers of Underway exist, and follow the view.
LEMMA ReadingMatches ==
  ASSUME NEW ws \in Seq(Word), NEW v \in [Nat -> Ahead], NEW r, Matches(r, v, 0),
         \A i \in 1 .. Len(ws) : Legal(v[i - 1], ws[i], v[i]),
         NEW f, IsReading(f, r, ws)
  PROVE  Matches(f[Len(ws)], v, Len(ws))
<1>1. PICK l \in Nat : l = Len(ws)
  OBVIOUS
<1>2. PICK S : S = {k \in 0 .. l : Matches(f[k], v, k)}
  OBVIOUS
<1>3. f[0] = r /\ \A i \in 1 .. l : f[i] = Read[f[i - 1]][ws[i]]
  BY <1>1 DEF IsReading
<1>4. 0 \in S
  BY <1>1, <1>2, <1>3
<1>5. ASSUME NEW k \in Nat, k < l, k \in S PROVE k + 1 \in S
  <2>1. k + 1 \in 1 .. l /\ k + 1 \in 0 .. l /\ (k + 1) - 1 = k /\ k + 1 \in 1 .. Len(ws)
    BY <1>1, <1>5
  <2>2. ws[k + 1] \in Word /\ Legal(v[k], ws[k + 1], v[k + 1])
    BY <1>1, <2>1
  <2>3. f[k + 1] = Read[f[k]][ws[k + 1]]
    BY <1>3, <2>1
  <2>4. Matches(f[k], v, k)
    BY <1>2, <1>5
  <2>5. Matches(f[k + 1], v, k + 1)
    BY <2>2, <2>3, <2>4, MatchesNext
  <2> QED BY <1>2, <2>1, <2>5
<1>6. l \in S
  <2>1. \A k \in 0 .. l : k \in S
    BY <1>4, <1>5, CountUp
  <2> QED BY <2>1
<1> QED BY <1>1, <1>2, <1>6

\* A reader that has read the first k words.
UpTo(f, r, ws, k) ==
  f \in [0 .. k -> ReaderState] /\ f[0] = r /\ \A i \in 1 .. k : f[i] = Read[f[i - 1]][ws[i]]

LEMMA ReadingExists ==
  ASSUME NEW ws \in Seq(Word), NEW v \in [Nat -> Ahead], NEW r, Matches(r, v, 0),
         \A i \in 1 .. Len(ws) : Legal(v[i - 1], ws[i], v[i])
  PROVE  \E f : IsReading(f, r, ws)
<1>1. PICK l \in Nat : l = Len(ws)
  OBVIOUS
<1>2. PICK S : S = {k \in 0 .. l : \E f : UpTo(f, r, ws, k) /\ Matches(f[k], v, k)}
  OBVIOUS
<1>3. 0 \in S
  <2>1. PICK f : f = [i \in 0 .. 0 |-> r]
    OBVIOUS
  <2>2. UpTo(f, r, ws, 0) /\ Matches(f[0], v, 0)
    BY <2>1 DEF UpTo, Matches
  <2> QED BY <1>1, <1>2, <2>2
<1>4. ASSUME NEW k \in Nat, k < l, k \in S PROVE k + 1 \in S
  <2>1. k + 1 \in 0 .. l /\ (k + 1) - 1 = k /\ k + 1 \in 1 .. Len(ws) /\ k \in 0 .. k
    BY <1>1, <1>4
  <2>2. PICK f : UpTo(f, r, ws, k) /\ Matches(f[k], v, k)
    BY <1>2, <1>4
  <2>3. ws[k + 1] \in Word /\ Legal(v[k], ws[k + 1], v[k + 1])
    BY <1>1, <2>1
  <2>4. PICK q : q = Read[f[k]][ws[k + 1]] /\ Matches(q, v, k + 1)
    BY <2>2, <2>3, MatchesNext
  <2>5. PICK g : g = [i \in 0 .. k + 1 |-> IF i = k + 1 THEN q ELSE f[i]]
    OBVIOUS
  <2>6. g[k + 1] = q /\ \A i \in 0 .. k : g[i] = f[i]
    BY <2>5
  <2>7. g \in [0 .. k + 1 -> ReaderState]
    <3>1. q \in ReaderState /\ \A i \in 0 .. k : f[i] \in ReaderState
      BY <2>2, <2>4 DEF UpTo, Matches
    <3>2. \A i \in 0 .. k + 1 : i = k + 1 \/ i \in 0 .. k
      OBVIOUS
    <3> QED BY <2>5, <3>1, <3>2
  <2>8. ASSUME NEW i \in 1 .. k + 1 PROVE g[i] = Read[g[i - 1]][ws[i]]
    <3>1. CASE i = k + 1
      BY <2>1, <2>4, <2>6, <3>1
    <3>2. CASE i # k + 1
      <4>1. i \in 1 .. k /\ i \in 0 .. k /\ i - 1 \in 0 .. k
        BY <3>2
      <4> QED BY <2>2, <2>6, <4>1 DEF UpTo
    <3> QED BY <3>1, <3>2
  <2>9. g[0] = r
    <3>1. 0 \in 0 .. k
      OBVIOUS
    <3> QED BY <2>2, <2>6, <3>1 DEF UpTo
  <2>10. UpTo(g, r, ws, k + 1) /\ Matches(g[k + 1], v, k + 1)
    BY <2>4, <2>6, <2>7, <2>8, <2>9 DEF UpTo
  <2> QED BY <1>2, <2>1, <2>10
<1>5. l \in S
  <2>1. \A k \in 0 .. l : k \in S
    BY <1>3, <1>4, CountUp
  <2> QED BY <2>1
<1>6. PICK f : UpTo(f, r, ws, l)
  BY <1>2, <1>5
<1>7. f = [i \in 0 .. l |-> IF i = 0 THEN r ELSE Read[f[i - 1]][ws[i]]]
  <2>1. \A i \in 0 .. l : i = 0 \/ i \in 1 .. l
    OBVIOUS
  <2> QED BY <1>6, <2>1 DEF UpTo
<1> QED BY <1>1, <1>7 DEF IsReading

\* The first reader of a slot stands where the view begins.
LEMMA FirstReader ==
  ASSUME TypeOK, NEW n \in Rank, NEW s, NEW v \in [Nat -> Ahead], Begins(n, s, v[0])
  PROVE  Matches(Reader(n, s), v, 0)
<1>1. daemon[n].page \in Nat
  BY DEF TypeOK
<1>2. << >> \in Seq(Nat) /\ \A x \in 1 .. Len(<< >>) : FALSE
  OBVIOUS
<1>3. \A j \in 1 .. 0 : FALSE
  OBVIOUS
<1>4. CASE daemon[n].slot = s /\ daemon[n].pc \in Reading
  <2>1. Reader(n, s) = [at |-> daemon[n].pc, page |-> daemon[n].page, got |-> << >>]
    BY <1>4 DEF Reader
  <2>2. Reader(n, s) \in ReaderState
    BY <1>1, <1>2, <1>4, <2>1 DEF ReaderState
  <2>3. /\ v[0].at = daemon[n].pc
        /\ v[0].at \in {"len", "text"} => v[0].page = daemon[n].page
    BY <1>4 DEF Begins
  <2> QED BY <1>2, <1>3, <2>1, <2>2, <2>3 DEF Matches
<1>5. CASE ~(daemon[n].slot = s /\ daemon[n].pc \in Reading)
  <2>1. Reader(n, s) = [at |-> "type", page |-> 0, got |-> << >>]
    BY <1>5 DEF Reader
  <2>2. Reader(n, s) \in ReaderState
    BY <1>2, <2>1 DEF ReaderState, Reading, ReadingInt
  <2>3. v[0].at = "type"
    BY <1>5 DEF Begins
  <2> QED BY <1>2, <1>3, <2>1, <2>2, <2>3 DEF Matches
<1> QED BY <1>4, <1>5

\* The pages that have left for n by slot s are those that the view completes.
LEMMA UnderwaySeen ==
  ASSUME TypeOK, NEW st \in Views, Framed(st), NEW n \in Rank, NEW s \in Rank \ {n}, NEW p \in Page
  PROVE  p \in ToSet(Underway(n, s)) <=>
           \E j \in 1 .. Len(chan[Link[n][s]][n]) :
             Completes(st[Link[n][s]][n][j - 1], st[Link[n][s]][n][j], p)
<1>1. PICK m \in Rank : m = Link[n][s]
  BY Links
<1>2. PICK v \in [Nat -> Ahead] : v = st[m][n]
  BY Seen
<1>3. PICK ws \in Seq(Word) : ws = chan[m][n] /\ ws = Incoming(n, s)
  BY <1>1, Channels DEF Incoming
<1>4. Begins(n, s, v[0]) /\ \A i \in 1 .. Len(ws) : Legal(v[i - 1], ws[i], v[i])
  BY <1>1, <1>2, <1>3 DEF Framed
<1>5. PICK r : r = Reader(n, s)
  OBVIOUS
<1>6. Matches(r, v, 0)
  BY <1>4, <1>5, FirstReader
<1>7. \E f : IsReading(f, r, ws)
  BY <1>4, <1>6, ReadingExists
<1>8. PICK f : IsReading(f, r, ws) /\ Underway(n, s) = f[Len(ws)].got
  BY <1>3, <1>5, <1>7, UnderwayReads
<1>9. Matches(f[Len(ws)], v, Len(ws))
  BY <1>4, <1>6, <1>8, ReadingMatches
<1>10. PICK got \in Seq(Nat) : got = Underway(n, s)
  BY <1>8, <1>9 DEF Matches, ReaderState
<1>11. p \in Nat
  BY Pages
<1>12. p \in ToSet(got) <=> \E x \in 1 .. Len(got) : got[x] = p
  BY DEF ToSet
<1> QED BY <1>1, <1>2, <1>3, <1>8, <1>9, <1>10, <1>11, <1>12 DEF Matches

\* Who keeps a page and who receives it, in the terms of At.
LEMMA WhoHasPage ==
  ASSUME TypeOK, NEW st \in Views, Framed(st), NEW p \in Page
  PROVE  /\ \A n \in Rank : n \in Keepers(p) <=> At(st, p, n, n, 0)
         /\ \A n \in Rank : n \in Receivers(p) <=>
              \/ At(st, p, n, n, 1)
              \/ \E m \in Rank \ {n} : \E i \in Nat : At(st, p, m, n, i)
<1>1. ASSUME NEW n \in Rank PROVE n \in Keepers(p) <=> At(st, p, n, n, 0)
  BY DEF Keepers, At, Holds
<1>2. ASSUME NEW n \in Rank
      PROVE  n \in Receivers(p) <=> \/ At(st, p, n, n, 1)
                                    \/ \E m \in Rank \ {n} : \E i \in Nat : At(st, p, m, n, i)
  <2>1. At(st, p, n, n, 1) <=> Installs(n, p)
    BY DEF At
  <2>2. ASSUME NEW s \in Rank \ {n}, p \in ToSet(Underway(n, s))
        PROVE  \E m \in Rank \ {n} : \E i \in Nat : At(st, p, m, n, i)
    <3>1. PICK m \in Rank \ {n} : m = Link[n][s]
      BY Links
    <3>2. PICK i \in 1 .. Len(chan[m][n]) : Completes(st[m][n][i - 1], st[m][n][i], p)
      BY <2>2, <3>1, UnderwaySeen
    <3>3. i \in Nat /\ At(st, p, m, n, i)
      BY <3>2 DEF At
    <3> QED BY <3>3
  <2>3. ASSUME NEW m \in Rank \ {n}, NEW i \in Nat, At(st, p, m, n, i)
        PROVE  \E s \in Rank \ {n} : p \in ToSet(Underway(n, s))
    <3>1. PICK s \in Rank \ {n} : Link[n][s] = m
      BY Links
    <3>2. i \in 1 .. Len(chan[m][n]) /\ Completes(st[m][n][i - 1], st[m][n][i], p)
      BY <2>3 DEF At
    <3>3. p \in ToSet(Underway(n, s))
      BY <3>1, <3>2, UnderwaySeen
    <3> QED BY <3>3
  <2>4. n \in Receivers(p) <=> \/ Installs(n, p)
                               \/ \E s \in Rank \ {n} : p \in ToSet(Underway(n, s))
    BY DEF Receivers, Receives, Installs
  <2> QED BY <2>1, <2>2, <2>3, <2>4
<1> QED BY <1>1, <1>2

\* A page that is once somewhere has one keeper or one receiver.
LEMMA ContentOnce ==
  ASSUME TypeOK, Placed, NEW p \in Page
  PROVE  Cardinality(Keepers(p)) + Cardinality(Receivers(p)) = 1
<1>1. PICK st \in Views : Framed(st) /\ Once(st, p)
  BY DEF Placed, Settled
<1>2. PICK h \in Rank, g \in Rank, k \in Nat :
        \A x, y \in Rank : \A j \in Nat : At(st, p, x, y, j) <=> (x = h /\ y = g /\ j = k)
  BY <1>1 DEF Once, Only
<1>3. /\ \A n \in Rank : n \in Keepers(p) <=> At(st, p, n, n, 0)
      /\ \A n \in Rank : n \in Receivers(p) <=>
              \/ At(st, p, n, n, 1)
              \/ \E m \in Rank \ {n} : \E i \in Nat : At(st, p, m, n, i)
  BY <1>1, WhoHasPage
<1>4. At(st, p, h, g, k)
  BY <1>2
<1>5. Keepers(p) \subseteq Rank /\ Receivers(p) \subseteq Rank
  BY DEF Keepers, Receivers
<1>6. Cardinality({}) = 0 /\ \A x : Cardinality({x}) = 1
  BY FS_EmptySet, FS_Singleton
<1>7. CASE h = g /\ k = 0
  <2>1. Keepers(p) = {h}
    BY <1>2, <1>3, <1>5, <1>7
  <2>2. Receivers(p) = {}
    BY <1>2, <1>3, <1>5, <1>7
  <2>3. Cardinality(Keepers(p)) = 1 /\ Cardinality(Receivers(p)) = 0
    BY <1>6, <2>1, <2>2
  <2> QED BY <2>3
<1>8. CASE ~(h = g /\ k = 0)
  <2>1. Keepers(p) = {}
    BY <1>2, <1>3, <1>5, <1>8
  <2>2. g \in Receivers(p)
    <3>1. CASE h = g
      <4>1. k = 1
        BY <1>4, <1>8, <3>1 DEF At
      <4> QED BY <1>3, <1>4, <3>1, <4>1
    <3>2. CASE h # g
      BY <1>3, <1>4, <3>2
    <3> QED BY <3>1, <3>2
  <2>3. ASSUME NEW n \in Receivers(p) PROVE n = g
    BY <1>2, <1>3, <1>5, <2>3
  <2>4. Receivers(p) = {g}
    BY <2>2, <2>3
  <2> QED BY <1>6, <2>1, <2>4
<1> QED BY <1>7, <1>8

\* m, which owes n the content of page p, has the page or is trapped.
LEMMA Supplies ==
  ASSUME TypeOK, Shaped, NEW m \in Rank, NEW r \in Rank \ {m}, NEW a \in Ahead, NEW p \in Page,
         Ends(m, r, a), a.at \in {"len", "text"}, a.page = p
  PROVE  /\ Link[m][daemon[m].slot] = Link[m][r]
         /\ Feeds(m, Link[m][r], p) \/ (a.at = "len" /\ m \in TrappedBy(p))
<1>1. Owed(m, r) \in {"len", "text"} /\ a.at = Owed(m, r) /\ daemon[m].page = p
  BY DEF Ends
<1>2. /\ daemon[m].pc \in {"copy", "unmap", "fault"} /\ daemon[m].slot = r
      /\ Owed(m, r) = PageOwed(daemon[m])
  BY <1>1 DEF Owed, DaemonOwed, InfoOwed
<1>3. CASE daemon[m].pc = "unmap"
  <2>1. p \in mapped[m]
    BY <1>1, <1>3 DEF Shaped, DaemonPlace
  <2>2. daemon[m].out # <<>>
    BY <1>1, <1>2, <1>3 DEF PageOwed
  <2> QED BY <1>1, <1>2, <1>3, <2>1, <2>2 DEF Feeds, Sent
<1>4. CASE daemon[m].pc # "unmap"
  <2>1. daemon[m].pc \in {"copy", "fault"} /\ a.at = "len"
    BY <1>1, <1>2, <1>4 DEF PageOwed
  <2>2. CASE p \in mapped[m]
    BY <1>1, <1>2, <2>1, <2>2 DEF Feeds, Sent
  <2>3. CASE p \notin mapped[m]
    BY <1>1, <1>2, <2>1, <2>3 DEF TrappedBy, Trapped
  <2> QED BY <2>2, <2>3
<1> QED BY <1>3, <1>4

\* A process that has mapped a page for its content gets it, or is being
\* answered by the one that has the page, or by one that is trapped.
LEMMA FillingFed ==
  ASSUME TypeOK, Shaped, NEW st \in Views, Framed(st), NEW p \in Page, NEW n \in Stranded(p)
  PROVE  \E m \in TrappedBy(p) : Link[m][daemon[m].slot] = n
<1>1. /\ n \in Rank /\ Filling(n, p) /\ n \notin Receivers(p)
      /\ \A m \in Rank : ~Feeds(m, n, p)
  BY DEF Stranded, Receivers
<1>2. daemon[n].pc \in {"len", "text"} /\ daemon[n].page = p
  BY <1>1 DEF Filling, Receivers, Receives
<1>3. daemon[n].slot \in Rank \ {n}
  BY <1>1, <1>2 DEF TypeOK, Shaped, DaemonPlace, Busy
<1>4. PICK m \in Rank \ {n} : m = Link[n][daemon[n].slot]
  BY <1>1, <1>3, Links
<1>5. PICK r \in Rank \ {m} : Link[m][r] = n
  <2>1. m \in Rank /\ n \in Rank \ {m}
    BY <1>1, <1>4
  <2> QED BY <2>1, Links, Zenon
<1>6. /\ chan[m][n] \in Seq(Word) /\ Len(chan[m][n]) \in Nat
      /\ \A i \in Nat : st[m][n][i] \in Ahead
  BY <1>1, Channels, Seen
<1>7. PICK a \in Ahead : a = st[m][n][0]
  BY <1>6
<1>8. a.at \in {"len", "text"} /\ a.page = p
  <2>1. Begins(n, daemon[n].slot, a)
    BY <1>1, <1>3, <1>4, <1>7 DEF Framed
  <2> QED BY <1>2, <2>1 DEF Begins, Reading, ReadingInt
<1>9. Ends(m, r, st[m][n][Len(chan[m][n])])
  BY <1>5, ViewEnds
<1>10. ASSUME NEW j \in 1 .. Len(chan[m][n]) PROVE ~Completes(st[m][n][j - 1], st[m][n][j], p)
  <2>1. j \in Nat /\ (At(st, p, m, n, j) => n \in Receivers(p))
    BY <1>1, <1>6, WhoHasPage
  <2> QED BY <1>1, <1>10, <2>1 DEF At
<1>11. CASE Len(chan[m][n]) = 0
  <2>1. Ends(m, r, a)
    BY <1>7, <1>9, <1>11
  <2> QED BY <1>1, <1>5, <1>8, <2>1, Supplies
<1>12. CASE Len(chan[m][n]) # 0
  <2>1. PICK b \in Ahead : b = st[m][n][1]
    BY <1>6
  <2>2. Legal(a, chan[m][n][1], b) /\ ~Completes(a, b, p)
    <3>1. 1 \in 1 .. Len(chan[m][n]) /\ 1 - 1 = 0
      BY <1>6, <1>12
    <3> QED BY <1>1, <1>7, <1>10, <2>1, <3>1 DEF Framed
  <2>3. b.at = "text" /\ b.page = p
    BY <1>8, <2>2 DEF Legal, Completes
  <2>4. CASE Len(chan[m][n]) = 1
    <3>1. Ends(m, r, b)
      BY <1>9, <2>1, <2>4
    <3>2. Feeds(m, n, p)
      BY <1>5, <2>3, <3>1, Supplies
    <3> QED BY <1>1, <3>2
  <2>5. CASE Len(chan[m][n]) # 1
    <3>1. PICK c \in Ahead : c = st[m][n][2]
      BY <1>6
    <3>2. Legal(b, chan[m][n][2], c) /\ ~Completes(b, c, p)
      <4>1. PICK l \in Nat : l = Len(chan[m][n])
        BY <1>6
      <4>2. 2 \in 1 .. l /\ 2 - 1 = 1
        <5>1. l # 0 /\ l # 1
          BY <1>12, <2>5, <4>1
        <5> QED BY <5>1
      <4> QED BY <1>1, <1>10, <2>1, <3>1, <4>1, <4>2 DEF Framed
    <3> QED BY <2>3, <3>2 DEF Legal, Completes
  <2> QED BY <2>4, <2>5
<1> QED BY <1>11, <1>12

\* A trapped daemon answers one process.
LEMMA FewStranded ==
  ASSUME TypeOK, Placed, NEW p \in Page
  PROVE  Cardinality(Stranded(p)) <= Cardinality(TrappedBy(p))
<1>1. PICK st \in Views : Framed(st)
  BY DEF Placed, Settled
<1>2. PICK f \in [Stranded(p) -> TrappedBy(p)] :
        \A n \in Stranded(p) : Link[f[n]][daemon[f[n]].slot] = n
  <2>1. ASSUME NEW n \in Stranded(p)
        PROVE  \E m \in TrappedBy(p) : Link[m][daemon[m].slot] = n
    <3>1. Shaped
      BY DEF Placed
    <3> QED BY <1>1, <3>1, FillingFed, Zenon
  <2>2. PICK f : f = [n \in Stranded(p) |->
                        CHOOSE m \in TrappedBy(p) : Link[m][daemon[m].slot] = n]
    OBVIOUS
  <2> QED BY <2>1, <2>2
<1>3. f \in Injection(Stranded(p), TrappedBy(p))
  BY <1>2 DEF Injection, IsInjective
<1>4. IsFiniteSet(TrappedBy(p))
  <2>1. 0 \in Int /\ DSM_NODE_NUM - 1 \in Int
    BY NodeAssumption
  <2>2. IsFiniteSet(Rank) /\ TrappedBy(p) \subseteq Rank
    BY <2>1, FS_Interval DEF Rank, TrappedBy
  <2> QED BY <2>2, FS_Subset
<1> QED BY <1>3, <1>4, FS_Injection

LEMMA PlacedConserved == TypeOK /\ Placed => PageConserved
BY ContentOnce, FewStranded DEF PageConserved

\* Every page is in one place, as long as messages stay whole, nobody leaves
\* and nobody is asked for a page it no longer has.  The last hypothesis also
\* means that there are no empty pages besides.
THEOREM PagesConserved ==
  Spec /\ []StreamsFramed /\ []NobodyTrapped /\ []Together => []PageConserved
<1>1. Spec => []TypeOK
  BY Typed
<1>2. Init => Placed
  BY PlacedAtFirst
<1>3. TypeOK /\ Placed /\ StreamsFramed /\ Together /\ Together' /\ NobodyTrapped /\ [Next]_vars => Placed'
  BY PlacedStep
<1>4. TypeOK /\ Placed => PageConserved
  BY PlacedConserved
<1> QED BY <1>1, <1>2, <1>3, <1>4, PTL DEF Spec

=============================================================================
