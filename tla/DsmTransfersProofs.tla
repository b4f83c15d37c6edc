------------------------- MODULE DsmTransfersProofs -------------------------
(***************************************************************************)
(* Theorems about the transfers of pages, for every number of processes    *)
(* and pages and every program, on top of the places of the pages found in *)
(* DsmNodeProofs: what one request at a time brings, why a page that has   *)
(* been given away is lost, and how the exchange of messages implements    *)
(* PageOwnership.  Then the programs for which nothing has to be supposed  *)
(* of the runs, and what the page tables of these programs come to.        *)
(***************************************************************************)
EXTENDS DsmNodeProofs

----------------------------------------------------------------------------
(* One request at a time                                                   *)

\* The user thread of n has a request to write to another process; the daemon
\* of m has still to write to n the number of the page it answers with.
Asks(n)         == main[n].out # << >> /\ Head(main[n].out).fd # Stdin
Promises(m, n)  == daemon[m].pc = "copy" /\ daemon[m].out # << >> /\ Link[m][daemon[m].slot] = n

\* Where a request of n for page p may be: at n, on the way to m with the
\* number of the page at place i, at m, or in an answer of m with the number
\* at place i.
RequestAt(st, n, k, m, i, p) ==
  \/ k = "ask" /\ m = n /\ i = 0 /\ Asks(n) /\ p = main[n].page
  \/ /\ k = "wanted" /\ m \in Rank \ {n} /\ i \in 1 .. Len(chan[n][m])
     /\ st[n][m][i - 1].at = "wanted" /\ p = chan[n][m][i].val
  \/ k = "copy" /\ m \in Rank \ {n} /\ i = 0 /\ Promises(m, n) /\ p = daemon[m].page
  \/ /\ k = "page" /\ m \in Rank \ {n} /\ i \in 1 .. Len(chan[m][n])
     /\ st[m][n][i - 1].at = "page" /\ p = chan[m][n][i].val

\* Every connection leads to the process that its slot is named after, what is
\* read beyond the array is no connection, and no standard input is a pipe.
Direct == /\ \A n, s \in Rank : Link[n][s] = s
          /\ \A n \in Rank : n \notin WildFds /\ StdinKind[n] = "socket"

\* The user thread of n waits for a page that n does not have, and that, if
\* the connections are direct, n knows to be somewhere else.
Awaits(n) ==
  /\ main[n].pc \in {"wait", "sleep"} /\ main[n].asked # Stdin
  /\ main[n].page \notin mapped[n]
  /\ Direct => table[n][main[n].page].owner # n

\* There is no other request of n than the one at a given place, and its
\* user thread waits for that one.
Sole(st, n, k, m, i) ==
  \A k2, m2, i2, p : RequestAt(st, n, k2, m2, i2, p) =>
    k2 = k /\ m2 = m /\ i2 = i /\ p = main[n].page /\ Awaits(n)

OneRequest(st, n) == daemon[n].pc # "fault" /\ \E k, m, i : Sole(st, n, k, m, i)

\* The daemon of a process in a trap may ask again and again.
Tracked(st) == \A n \in Rank : Trapped(n) \/ OneRequest(st, n)

\* Requests of n in the two threads, behind a step, and what stays of it.
Threads(n, k, m, i, p) ==
  \/ k = "ask" /\ m = n /\ i = 0 /\ Asks(n) /\ p = main[n].page
  \/ k = "copy" /\ m \in Rank \ {n} /\ i = 0 /\ Promises(m, n) /\ p = daemon[m].page

\* A step that touches no channel.
LEMMA RequestsStay ==
  ASSUME chan' = chan, NEW st, NEW n, NEW k, NEW m, NEW i, NEW p,
         RequestAt(st, n, k, m, i, p)'
  PROVE  Threads(n, k, m, i, p)' \/ RequestAt(st, n, k, m, i, p)
BY DEF RequestAt, Threads

\* A word is written from x to y.
LEMMA RequestsPushed ==
  ASSUME NEW x \in Rank, NEW y \in Rank \ {x}, NEW w, Pushed(x, y, w), NEW st, NEW st2, NEW b, NEW l,
         l = Len(chan[x][y]), Extended(st, st2, x, y, l + 1, b),
         NEW n \in Rank, NEW k, NEW m, NEW i, NEW p, RequestAt(st2, n, k, m, i, p)'
  PROVE  \/ Threads(n, k, m, i, p)'
         \/ k \in {"wanted", "page"} /\ RequestAt(st, n, k, m, i, p)
         \/ /\ k = "wanted" /\ n = x /\ m = y /\ i = l + 1
            /\ st[x][y][l].at = "wanted" /\ p = w.val
         \/ /\ k = "page" /\ n = y /\ m = x /\ i = l + 1
            /\ st[x][y][l].at = "page" /\ p = w.val
<1>0. l \in Nat /\ Len(chan'[x][y]) = l + 1 /\ chan'[x][y][l + 1] = w
      /\ (\A j \in 1 .. l : chan'[x][y][j] = chan[x][y][j])
      /\ (\A c, d \in Rank : c # x \/ d # y => chan'[c][d] = chan[c][d])
  BY DEF Pushed
<1>1. (\A c, d \in Rank : c # x \/ d # y => st2[c][d] = st[c][d])
      /\ (\A j \in Nat : j # l + 1 => st2[x][y][j] = st[x][y][j])
  BY DEF Extended
\* The two ends of a channel, one for requests and one for answers.
<1>2. ASSUME NEW c \in Rank, NEW d \in Rank, NEW at, i \in 1 .. Len(chan'[c][d]),
             st2[c][d][i - 1].at = at, p = chan'[c][d][i].val
      PROVE  \/ /\ i \in 1 .. Len(chan[c][d]) /\ st[c][d][i - 1].at = at /\ p = chan[c][d][i].val
             \/ c = x /\ d = y /\ i = l + 1 /\ st[x][y][l].at = at /\ p = w.val
  <2>1. CASE c # x \/ d # y
    BY <1>0, <1>1, <1>2, <2>1
  <2>2. CASE c = x /\ d = y /\ i = l + 1
    <3>1. i - 1 = l /\ l # l + 1
      BY <1>0, <2>2, Counts
    <3> QED BY <1>0, <1>1, <1>2, <2>2, <3>1
  <2>3. CASE c = x /\ d = y /\ i # l + 1
    <3>1. i \in 1 .. l + 1
      BY <1>0, <1>2, <2>3
    <3>2. i \in 1 .. l /\ i - 1 \in Nat /\ i - 1 # l + 1
      BY <1>0, <2>3, <3>1, Counts
    <3> QED BY <1>0, <1>1, <1>2, <2>3, <3>2
  <2> QED BY <2>1, <2>2, <2>3
<1>3. CASE k = "wanted" /\ m \in Rank \ {n} /\ i \in 1 .. Len(chan'[n][m])
           /\ st2[n][m][i - 1].at = "wanted" /\ p = chan'[n][m][i].val
  <2>1. \/ i \in 1 .. Len(chan[n][m]) /\ st[n][m][i - 1].at = "wanted" /\ p = chan[n][m][i].val
        \/ n = x /\ m = y /\ i = l + 1 /\ st[x][y][l].at = "wanted" /\ p = w.val
    BY <1>2, <1>3
  <2> QED BY <1>3, <2>1 DEF RequestAt
<1>4. CASE k = "page" /\ m \in Rank \ {n} /\ i \in 1 .. Len(chan'[m][n])
           /\ st2[m][n][i - 1].at = "page" /\ p = chan'[m][n][i].val
  BY <1>2, <1>4, Zenon DEF RequestAt
<1> QED BY <1>3, <1>4 DEF RequestAt, Threads

\* A word from y is read by x.
LEMMA RequestsPopped ==
  ASSUME NEW x \in Rank, NEW y \in Rank \ {x}, Popped(y, x), NEW st, NEW st2, Shifted(st, st2, y, x),
         NEW n \in Rank, NEW k, NEW m, NEW i, NEW p, RequestAt(st2, n, k, m, i, p)'
  PROVE  \/ Threads(n, k, m, i, p)'
         \/ /\ k \in {"wanted", "page"} /\ RequestAt(st, n, k, m, i, p)
            /\ ~(k = "wanted" /\ n = y /\ m = x) /\ ~(k = "page" /\ n = x /\ m = y)
         \/ /\ (k = "wanted" /\ n = y /\ m = x) \/ (k = "page" /\ n = x /\ m = y)
            /\ i \in Nat \ {0} /\ RequestAt(st, n, k, m, i + 1, p)
<1>0. PICK l \in Nat \ {0} : l = Len(chan[y][x])
  BY DEF Popped
<1>1. Len(chan'[y][x]) = l - 1
      /\ (\A j \in 1 .. l - 1 : chan'[y][x][j] = chan[y][x][j + 1])
      /\ (\A c, d \in Rank : c # y \/ d # x => chan'[c][d] = chan[c][d])
  BY <1>0 DEF Popped
<1>2. (\A c, d \in Rank : c # y \/ d # x => st2[c][d] = st[c][d])
      /\ (\A j \in Nat : st2[y][x][j] = st[y][x][j + 1])
  BY DEF Shifted
<1>3. ASSUME NEW c \in Rank, NEW d \in Rank, NEW at, i \in 1 .. Len(chan'[c][d]),
             st2[c][d][i - 1].at = at, p = chan'[c][d][i].val
      PROVE  IF c = y /\ d = x
               THEN /\ i \in Nat \ {0} /\ i + 1 \in 1 .. Len(chan[c][d])
                    /\ st[c][d][(i + 1) - 1].at = at /\ p = chan[c][d][i + 1].val
               ELSE i \in 1 .. Len(chan[c][d]) /\ st[c][d][i - 1].at = at /\ p = chan[c][d][i].val
  <2>1. CASE ~(c = y /\ d = x)
    BY <1>1, <1>2, <1>3, <2>1
  <2>2. CASE c = y /\ d = x
    <3>1. i \in 1 .. l - 1
      BY <1>1, <1>3, <2>2
    <3>2. i \in Nat \ {0} /\ i + 1 \in 1 .. l /\ i - 1 \in Nat /\ (i - 1) + 1 = (i + 1) - 1
      BY <1>0, <3>1
    <3>3. st2[y][x][i - 1] = st[y][x][(i - 1) + 1]
      BY <1>2, <3>2
    <3> QED BY <1>0, <1>1, <1>3, <2>2, <3>1, <3>2, <3>3
  <2> QED BY <2>1, <2>2
<1>4. CASE k = "wanted" /\ m \in Rank \ {n} /\ i \in 1 .. Len(chan'[n][m])
           /\ st2[n][m][i - 1].at = "wanted" /\ p = chan'[n][m][i].val
  BY <1>3, <1>4 DEF RequestAt
<1>5. CASE k = "page" /\ m \in Rank \ {n} /\ i \in 1 .. Len(chan'[m][n])
           /\ st2[m][n][i - 1].at = "page" /\ p = chan'[m][n][i].val
  BY <1>3, <1>5 DEF RequestAt
<1> QED BY <1>4, <1>5 DEF RequestAt, Threads

\* A process that was not in a trap before a step of x has at most one
\* request behind it: its old one, one read or written, or a new one.
LEMMA StillSole ==
  ASSUME NEW st, NEW st2, NEW n \in Rank, NEW k, NEW m, NEW i, daemon'[n].pc # "fault",
         \A k2, m2, i2, p : RequestAt(st2, n, k2, m2, i2, p)' =>
            k2 = k /\ m2 = m /\ i2 = i /\ p = main'[n].page /\ Awaits(n)'
  PROVE  OneRequest(st2, n)'
BY DEF OneRequest, Sole

\* A process in a trap stays there.
LEMMA StillTrapped ==
  ASSUME TypeOK, Together', Next
  PROVE  \A n \in Rank : Trapped(n) => Trapped(n)'
<1> SUFFICES ASSUME NEW n \in Rank, Trapped(n) PROVE Trapped(n)'
  OBVIOUS
<1>1. PICK x \in Rank : MainStep(x) \/ DaemonStep(x) \/ Choice(x)
  BY DEF Next
<1>2. CASE x = n
  <2>1. StaysTrapped(n)
    BY <1>1, <1>2, OwnStepKeepsTrap
  <2>2. main'[n].pc # "exited"
    BY DEF Together
  <2> QED BY <2>1, <2>2 DEF StaysTrapped
<1>3. CASE x # n
  BY <1>1, <1>3, OthersKeep DEF Trapped
<1> QED BY <1>2, <1>3

\* A step that touches no channel, and neither begins a request or a promise
\* nor ends a wait.
LEMMA OneSilent ==
  ASSUME chan' = chan, NEW st, NEW n \in Rank, OneRequest(st, n), daemon'[n].pc # "fault",
         Asks(n)' => Asks(n),
         \A m \in Rank : Promises(m, n)' => Promises(m, n) /\ daemon'[m].page = daemon[m].page,
         Awaits(n) => Awaits(n)' /\ main'[n].page = main[n].page
  PROVE  OneRequest(st, n)'
<1>1. PICK k, m, i : Sole(st, n, k, m, i)
  BY DEF OneRequest
<1>2. ASSUME NEW k2, NEW m2, NEW i2, NEW p, RequestAt(st, n, k2, m2, i2, p)'
      PROVE  k2 = k /\ m2 = m /\ i2 = i /\ p = main'[n].page /\ Awaits(n)'
  <2>0. \A p2 : RequestAt(st, n, k2, m2, i2, p2) =>
          k2 = k /\ m2 = m /\ i2 = i /\ p2 = main[n].page /\ Awaits(n)
    BY <1>1 DEF Sole
  <2>1. CASE RequestAt(st, n, k2, m2, i2, p)
    BY <2>0, <2>1
  <2>2. CASE k2 = "ask" /\ m2 = n /\ i2 = 0 /\ Asks(n)' /\ p = main'[n].page
    <3>1. RequestAt(st, n, k2, m2, i2, main[n].page)
      BY <2>2 DEF RequestAt
    <3> QED BY <2>0, <2>2, <3>1
  <2>3. CASE k2 = "copy" /\ m2 \in Rank \ {n} /\ i2 = 0 /\ Promises(m2, n)' /\ p = daemon'[m2].page
    <3>1. Promises(m2, n) /\ p = daemon[m2].page
      BY <2>3
    <3>2. RequestAt(st, n, k2, m2, i2, p)
      BY <2>3, <3>1 DEF RequestAt
    <3> QED BY <2>0, <3>2
  <2> QED BY <1>2, <2>1, <2>2, <2>3, RequestsStay DEF Threads
<1> QED BY <1>2, StillSole

\* A request is only made when the one before has been answered.
LEMMA AskTracked ==
  ASSUME PromptReplies, TypeOK, NEW st, NEW n \in Rank, OneRequest(st, n), Together',
         NEW p \in Page \ mapped[n], Ask(n, p), ~Awaits(n)
  PROVE  OneRequest(st, n)'
<1>1. PICK fd \in FdOf(n, table[n][p].owner) :
        main' = [main EXCEPT ![n] = [pc |-> "wait", page |-> p, asked |-> fd, out |-> Request(fd, p)]]
  BY DEF Ask
<1>2. UNCHANGED <<mapped, table, chan, open, stdin, daemon>>
  BY DEF Ask
<1>3. main'[n] = [pc |-> "wait", page |-> p, asked |-> fd, out |-> Request(fd, p)]
  BY <1>1 DEF TypeOK
<1>4. main'[n].pc = "wait" /\ main'[n].page = p /\ main'[n].asked = fd /\ main'[n].out = Request(fd, p)
  BY <1>3
<1>5. Head(Request(fd, p)).fd = fd
  BY Outs, Outgoing DEF Request
<1>6. \A k2, m2, i2, p2 : ~RequestAt(st, n, k2, m2, i2, p2)
  BY DEF OneRequest, Sole
<1>7. ASSUME NEW k2, NEW m2, NEW i2, NEW p2, RequestAt(st, n, k2, m2, i2, p2)'
      PROVE  k2 = "ask" /\ m2 = n /\ i2 = 0 /\ p2 = main'[n].page /\ Awaits(n)'
  <2>1. Threads(n, k2, m2, i2, p2)'
    BY <1>2, <1>6, <1>7, RequestsStay
  <2>2. ~(k2 = "copy" /\ m2 \in Rank \ {n} /\ i2 = 0 /\ Promises(m2, n) /\ p2 = daemon[m2].page)
    BY <1>6 DEF RequestAt
  <2>3. k2 = "ask" /\ m2 = n /\ i2 = 0 /\ Asks(n)' /\ p2 = main'[n].page
    BY <1>2, <2>1, <2>2 DEF Threads, Promises
  <2>4. fd # Stdin
    BY <1>4, <1>5, <2>3 DEF Asks
  <2>5. p \notin mapped'[n] /\ table'[n][p].owner # n
    BY <1>2, <2>4 DEF FdOf
  <2> QED BY <1>4, <2>3, <2>4, <2>5 DEF Awaits
<1>8. daemon'[n].pc # "fault"
  BY <1>2 DEF OneRequest
<1> QED BY <1>7, <1>8, StillSole

\* The user thread, when it does not write.
LEMMA MainSilentTracked ==
  ASSUME PromptReplies, TypeOK, Shaped, Together, Together', NEW x \in Rank, NEW st, Tracked(st), chan' = chan,
         \A n \in Rank : Trapped(n) => Trapped(n)',
         EndWait(x) \/ Retry(x) \/ CloseNext(x) \/ Choice(x)
  PROVE  Tracked(st)'
<1>0. main \in [Rank -> MainState]
  BY DEF TypeOK, MainState
<1>1. UNCHANGED <<daemon, mapped, table>>
  BY DEF EndWait, Retry, CloseNext, Choice, Fault, Finalize, StdinEnd, Ask
<1>2. \A n \in Rank \ {x} : main'[n] = main[n]
  BY <1>0 DEF EndWait, Retry, CloseNext, Choice, Fault, Finalize, StdinEnd, Ask
<1>3. SUFFICES ASSUME NEW n \in Rank, ~Trapped(n)' PROVE OneRequest(st, n)'
  BY DEF Tracked
<1>4. OneRequest(st, n) /\ daemon'[n].pc # "fault"
  BY <1>1, <1>3 DEF Tracked, OneRequest
<1>5. \A m \in Rank : Promises(m, n)' => Promises(m, n) /\ daemon'[m].page = daemon[m].page
  BY <1>1 DEF Promises
<1>6. ASSUME Asks(n)' => Asks(n), Awaits(n) => Awaits(n)' /\ main'[n].page = main[n].page
      PROVE  OneRequest(st, n)'
  BY <1>4, <1>5, <1>6, OneSilent
<1>7. CASE n # x
  BY <1>1, <1>2, <1>6, <1>7 DEF Asks, Awaits
<1>8. CASE n = x
  <2>1. CASE EndWait(n)
    <3>1. /\ main'[n].pc = "sleep" /\ main'[n].out = main[n].out
          /\ main'[n].page = main[n].page /\ main'[n].asked = main[n].asked
      BY <1>0, <2>1 DEF EndWait, MainState
    <3> QED BY <1>1, <1>6, <3>1 DEF Asks, Awaits
  <2>2. CASE Retry(n)
    <3>1. CASE main[n].page \in mapped[n] /\ main' = [main EXCEPT ![n] = MainAt("run")]
      <4>1. main'[n].out = << >>
        BY <1>0, <3>1 DEF MainAt
      <4> QED BY <1>6, <3>1, <4>1 DEF Asks, Awaits
    <3>2. CASE main[n].page \notin mapped[n] /\ main[n].asked = Stdin /\ Ask(n, main[n].page)
      <4>1. PICK p \in Page \ mapped[n] : p = main[n].page
        BY <1>0, <3>2 DEF MainState
      <4> QED BY <1>4, <3>2, <4>1, AskTracked DEF Awaits
    <3> QED BY <2>2, <3>1, <3>2 DEF Retry
  <2>3. CASE Fault(n)
    <3>1. PICK p \in Touches[n] \ mapped[n] : Ask(n, p)
      BY <2>3 DEF Fault
    <3>2. p \in Page
      BY <3>1, NodeAssumption
    <3>3. ~Awaits(n)
      BY <2>3 DEF Fault, Awaits
    <3> QED BY <1>4, <3>1, <3>2, <3>3, AskTracked
  <2>4. CASE CloseNext(n)
    BY <2>4 DEF CloseNext, Together
  <2>5. CASE Finalize(n)
    <3>1. main'[n].pc = "closing"
      BY <1>0, <2>5 DEF Finalize, MainState
    <3> QED BY <3>1 DEF Together
  <2>6. CASE StdinEnd(n)
    BY <1>1, <1>6, <2>6 DEF StdinEnd, Asks, Awaits
  <2> QED BY <1>8, <2>1, <2>2, <2>3, <2>4, <2>5, <2>6 DEF Choice
<1> QED BY <1>7, <1>8

\* The request of another process than the one whose user thread writes.
LEMMA RequestOfOther ==
  ASSUME NEW n \in Rank, NEW st, NEW st2, OneRequest(st, n), daemon'[n].pc # "fault",
         main'[n] = main[n], mapped'[n] \subseteq mapped[n], table'[n] = table[n],
         \A k, m, i, p : RequestAt(st2, n, k, m, i, p)' => RequestAt(st, n, k, m, i, p)
  PROVE  OneRequest(st2, n)'
<1>1. PICK k, m, i : Sole(st, n, k, m, i)
  BY DEF OneRequest
<1>2. Awaits(n) => Awaits(n)'
  BY DEF Awaits
<1>3. \A k2, m2, i2, p : RequestAt(st2, n, k2, m2, i2, p)' =>
            k2 = k /\ m2 = m /\ i2 = i /\ p = main'[n].page /\ Awaits(n)'
  BY <1>1, <1>2 DEF Sole
<1> QED BY <1>3, StillSole

\* The user thread writes: its request leaves with the number of the page.
LEMMA MainWriteTracked ==
  ASSUME TypeOK, Shaped, StreamsFramed, Together', NEW x \in Rank, MainWrite(x),
         NEW st \in Views, Framed(st), NEW st2, WroteFirst(x, st, st2, main[x].out),
         Tracked(st), \A n \in Rank : Trapped(n) => Trapped(n)'
  PROVE  Tracked(st2)'
<1>0. main \in [Rank -> MainState] /\ ~Exit(x)
  BY NoExit DEF TypeOK, MainState
<1>1. /\ main[x].out # << >>
      /\ main' = [main EXCEPT ![x].out = Tail(@)]
      /\ UNCHANGED <<mapped, table, open, stdin, daemon>>
  BY <1>0 DEF MainWrite
<1>2. /\ main'[x].out = Tail(main[x].out) /\ main'[x].pc = main[x].pc
      /\ main'[x].asked = main[x].asked /\ main'[x].page = main[x].page
      /\ \A k \in Rank \ {x} : main'[k] = main[k]
  BY <1>0, <1>1 DEF MainState
<1>3. PICK fd : fd = main[x].asked /\ Head(main[x].out).fd = fd /\ main[x].pc = "wait"
  BY <1>1, MainHead
<1>4. \/ Len(main[x].out) = 2 /\ Tail(main[x].out) = <<To(fd, Num(main[x].page))>>
      \/ Len(main[x].out) = 1 /\ Tail(main[x].out) = << >> /\ Head(main[x].out).word = Num(main[x].page)
  BY <1>1, <1>3, MainHead
<1>5. Asks(x)' => Asks(x)
  <2>1. main'[x].out # << >> => Head(main'[x].out).fd = fd
    <3>1. PICK v : v = Num(main[x].page)
      OBVIOUS
    <3>2. main'[x].out = <<To(fd, v)>> \/ main'[x].out = << >>
      BY <1>2, <1>4, <3>1
    <3>3. Head(<<To(fd, v)>>).fd = fd
      BY OneLeft
    <3> QED BY <3>2, <3>3
  <2> QED BY <1>1, <1>3, <2>1 DEF Asks
<1>6. \A m, n : Promises(m, n)' <=> Promises(m, n)
  BY <1>1 DEF Promises
<1>7. \A n \in Rank : Awaits(n)' <=> Awaits(n)
  BY <1>1, <1>2, <1>3 DEF Awaits
<1>8. \A n \in Rank : main'[n].page = main[n].page /\ (Asks(n)' => Asks(n))
  BY <1>2, <1>5 DEF Asks
<1>9. SUFFICES ASSUME NEW n \in Rank, ~Trapped(n)' PROVE OneRequest(st2, n)'
  BY DEF Tracked
<1>10. OneRequest(st, n) /\ daemon'[n].pc # "fault"
  BY <1>1, <1>9 DEF Tracked, OneRequest
<1>11. CASE st2 = st /\ chan' = chan
  BY <1>1, <1>6, <1>7, <1>8, <1>10, <1>11, OneSilent
<1>12. CASE \E r, b : /\ r = Head(main[x].out).fd /\ Writes(x, st, r, Head(main[x].out).word, b)
                      /\ Extended(st, st2, x, Link[x][r], Len(chan[x][Link[x][r]]) + 1, b)
  <2>1. PICK r, b, w, y, l : /\ r = fd /\ w = Head(main[x].out).word /\ y = Link[x][r] /\ l = Len(chan[x][y])
                             /\ Writes(x, st, r, w, b) /\ Extended(st, st2, x, y, l + 1, b)
    BY <1>3, <1>12
  <2>2. r \in Rank \ {x} /\ y \in Rank \ {x} /\ Pushed(x, y, w)
    BY <2>1, Links DEF Writes
  <2>3. WritesTo(main[x].out, r) /\ DaemonOwed(x, r) = "type"
    BY <1>1, <1>3, <2>1, <2>2, MainHead, DaemonSilent
  <2>4. st[x][y][l].at = Owed(x, r)
    <3>1. PICK a : a = st[x][y][l] /\ Ends(x, r, a)
      BY <2>1, <2>2, ViewEnds
    <3> QED BY <3>1 DEF Ends
  \* Where the requests of n are behind the step.
  <2>5. ASSUME NEW k, NEW m, NEW i, NEW p, RequestAt(st2, n, k, m, i, p)'
        PROVE  \/ k = "ask" /\ m = n /\ i = 0 /\ Asks(n)' /\ p = main'[n].page
               \/ k \in {"copy", "wanted", "page"} /\ RequestAt(st, n, k, m, i, p)
               \/ /\ k = "wanted" /\ n = x /\ m = y /\ i = l + 1
                  /\ Owed(x, r) = "wanted" /\ p = w.val
    <3>1. \/ Threads(n, k, m, i, p)'
          \/ k \in {"wanted", "page"} /\ RequestAt(st, n, k, m, i, p)
          \/ /\ k = "wanted" /\ n = x /\ m = y /\ i = l + 1
             /\ st[x][y][l].at = "wanted" /\ p = w.val
          \/ /\ k = "page" /\ n = y /\ m = x /\ i = l + 1
             /\ st[x][y][l].at = "page" /\ p = w.val
      <4>1. l = Len(chan[x][y]) /\ Extended(st, st2, x, y, l + 1, b) /\ Pushed(x, y, w) /\ y \in Rank \ {x}
        BY <2>1, <2>2
      <4> HIDE <2>1
      <4> QED BY <2>5, <4>1, RequestsPushed
    <3>2. st[x][y][l].at # "page"
      BY <2>3, <2>4 DEF Owed
    <3>3. ASSUME k = "copy" /\ m \in Rank \ {n} /\ i = 0 /\ Promises(m, n)' /\ p = daemon'[m].page
          PROVE  RequestAt(st, n, k, m, i, p)
      BY <1>1, <1>6, <3>3 DEF RequestAt
    <3> QED BY <2>4, <3>1, <3>2, <3>3 DEF Threads
  <2>6. CASE n = x /\ Len(main[x].out) = 1
    \* The request was the one to write: now it is the one on the way.
    <3>1. Asks(x) /\ ~Asks(x)'
      <4>1. fd # Stdin
        BY <2>1, <2>2, NodeAssumption DEF Rank, Stdin
      <4>2. main'[x].out = << >>
        BY <1>2, <1>4, <2>6
      <4> QED BY <1>1, <1>3, <4>1, <4>2 DEF Asks
    <3>2. RequestAt(st, n, "ask", n, 0, main[n].page)
      BY <2>6, <3>1 DEF RequestAt
    <3>3. /\ \A k, m, i, p : RequestAt(st, n, k, m, i, p) => k = "ask"
          /\ Awaits(n)
      BY <1>10, <3>2 DEF OneRequest, Sole
    <3>4. w.val = main[x].page
      BY <1>1, <1>4, <2>1, <2>6, Outgoing
    <3>5. ASSUME NEW k, NEW m, NEW i, NEW p, RequestAt(st2, n, k, m, i, p)'
          PROVE  k = "wanted" /\ m = y /\ i = l + 1 /\ p = main'[n].page /\ Awaits(n)'
      <4>1. ~(k = "ask" /\ m = n /\ i = 0 /\ Asks(n)' /\ p = main'[n].page)
        BY <2>6, <3>1
      <4>2. ~(k \in {"copy", "wanted", "page"} /\ RequestAt(st, n, k, m, i, p))
        BY <3>3
      <4>3. k = "wanted" /\ m = y /\ i = l + 1 /\ p = w.val
        BY <2>5, <3>5, <4>1, <4>2
      <4> QED BY <1>7, <1>8, <2>6, <3>3, <3>4, <4>3
    <3> QED BY <1>10, <3>5, StillSole
  <2>7. CASE ~(n = x /\ Len(main[x].out) = 1)
    <3>1. n = x => Owed(x, r) = "type"
      BY <2>3, <2>7 DEF Owed, Asked
    <3>2. PICK k, m, i : Sole(st, n, k, m, i)
      BY <1>10 DEF OneRequest
    <3>3. ASSUME NEW k2, NEW m2, NEW i2, NEW p, RequestAt(st2, n, k2, m2, i2, p)'
          PROVE  k2 = k /\ m2 = m /\ i2 = i /\ p = main'[n].page /\ Awaits(n)'
      <4>1. RequestAt(st, n, k2, m2, i2, p)
        <5>1. CASE k2 = "ask" /\ m2 = n /\ i2 = 0 /\ Asks(n)' /\ p = main'[n].page
          BY <1>8, <5>1 DEF RequestAt
        <5> QED BY <2>5, <3>1, <3>3, <5>1
      <4> QED BY <1>7, <1>8, <3>2, <4>1 DEF Sole
    <3> QED BY <1>10, <3>3, StillSole
  <2> QED BY <2>6, <2>7
<1> QED BY <1>11, <1>12 DEF WroteFirst

\* Without a message the table keeps what it says of a page that is not there.
LEMMA OwnerOfMissing ==
  ASSUME TypeOK, Shaped, Direct, NEW x \in Rank, ~Exit(x), NEW n \in Rank, NEW p, p \notin mapped[n],
         \/ Poll(x) \/ Scan(x) \/ EndScan(x) \/ Install(x) \/ ReadEnds(x)
         \/ CopyPage(x) \/ EndFault(x) \/ UnmapPage(x) \/ Inform(x)
  PROVE  table'[n][p] = table[n][p]
<1>1. CASE Install(x)
  <2>1. PICK q : q = daemon[x].page
    OBVIOUS
  <2>2. q \in Page /\ table' = [table EXCEPT ![x][q] = [status |-> "WRITE", owner |-> x]]
    BY <1>1, <2>1 DEF Install
  <2>3. q \in mapped[x]
    BY <1>1, <2>1, <2>2 DEF Install, Shaped, DaemonPlace
  <2>4. n # x \/ p # q
    BY <2>3
  <2> QED BY <2>2, <2>4 DEF TypeOK
<1>2. CASE Scan(x)
  BY <1>2, Zenon DEF Scan, Direct
<1>3. CASE ~Install(x) /\ ~Scan(x)
  BY <1>3, Zenon DEF Poll, EndScan, ReadEnds, CopyPage, EndFault, UnmapPage, Inform
<1> QED BY <1>1, <1>2, <1>3

\* The daemon, when it neither reads nor writes.
LEMMA DaemonSilentTracked ==
  ASSUME TypeOK, Shaped, Together', NEW x \in Rank, NEW st, Tracked(st),
         \A n \in Rank : Trapped(n) => Trapped(n)',
         \/ Poll(x) \/ Scan(x) \/ EndScan(x) \/ Install(x) \/ ReadEnds(x)
         \/ CopyPage(x) \/ EndFault(x) \/ UnmapPage(x) \/ Inform(x)
  PROVE  Tracked(st)'
<1>0. daemon \in [Rank -> DaemonState] /\ mapped \in [Rank -> SUBSET Page] /\ ~Exit(x)
  BY NoExit DEF TypeOK, DaemonState
<1>1. UNCHANGED <<main, chan>>
  BY PollSilent, EndSilent, CopySilent, UnmapSilent
<1>2. \A k \in Rank : mapped'[k] \subseteq mapped[k]
  <2>1. CASE Poll(x) \/ Scan(x) \/ EndScan(x) \/ Install(x) \/ ReadEnds(x) \/ CopyPage(x) \/ EndFault(x)
    BY <2>1, PollSilent, EndSilent, CopySilent
  <2>2. CASE UnmapPage(x)
    BY <1>0, <2>2 DEF UnmapPage
  <2>3. CASE Inform(x)
    BY <2>3, Zenon DEF Inform
  <2> QED BY <2>1, <2>2, <2>3
<1>3. /\ \A k \in Rank \ {x} : daemon'[k] = daemon[k]
      /\ daemon'[x].pc = "copy" => daemon'[x].out = << >>
      /\ daemon'[x].pc = "fault" => daemon[x].pc = "fault" \/ Trapped(x)
  <2>1. CASE Poll(x) \/ Scan(x) \/ EndScan(x)
    <3>1. CASE Poll(x)
      BY <1>0, <3>1 DEF Poll, DaemonState
    <3>2. CASE EndScan(x)
      BY <1>0, <3>2 DEF EndScan, DaemonState
    <3>3. CASE Scan(x)
      <4>1. daemon[x].pc = "scan"
        BY <3>3, Zenon DEF Scan
      <4>2. PICK s \in daemon[x].ready :
              \/ HangUp(x, s)
              \/ daemon' = [daemon EXCEPT ![x].pc = "type", ![x].slot = s, ![x].ready = @ \ {s}]
        BY <3>3, Zenon DEF Scan
      <4>3. CASE HangUp(x, s)
        BY <1>0, <4>1, <4>3 DEF HangUp, DaemonState
      <4>4. CASE daemon' = [daemon EXCEPT ![x].pc = "type", ![x].slot = s, ![x].ready = @ \ {s}]
        BY <1>0, <4>4 DEF DaemonState
      <4> QED BY <4>2, <4>3, <4>4
    <3> QED BY <2>1, <3>1, <3>2, <3>3
  <2>2. CASE Install(x)
    <3>1. daemon' = [daemon EXCEPT ![x] = Resume(x)]
      BY <1>0, <2>2 DEF Install
    <3> QED BY <3>1, Resumed
  <2>3. CASE ReadEnds(x)
    <3>1. daemon'[x].pc = "eof"
      BY <2>3, EndSilent
    <3> QED BY <1>0, <2>3, <3>1 DEF ReadEnds
  <2>4. CASE CopyPage(x)
    <3>1. /\ daemon[x].pc = "copy" /\ \A k \in Rank \ {x} : daemon'[k] = daemon[k]
          /\ daemon'[x].pc = "unmap" \/ (daemon'[x].pc = "fault" /\ daemon[x].page \in Page \ mapped[x])
      BY <2>4, Copies
    <3> QED BY <3>1 DEF Trapped
  <2>5. CASE EndFault(x)
    BY <1>0, <2>5 DEF EndFault, DaemonState
  <2>6. CASE UnmapPage(x)
    BY <1>0, <2>6 DEF UnmapPage, DaemonState
  <2>7. CASE Inform(x)
    BY <2>7, Informs
  <2> QED BY <2>1, <2>2, <2>3, <2>4, <2>5, <2>6, <2>7
<1>4. SUFFICES ASSUME NEW n \in Rank, ~Trapped(n)' PROVE OneRequest(st, n)'
  BY DEF Tracked
<1>5. OneRequest(st, n) /\ daemon'[n].pc # "fault"
  BY <1>3, <1>4 DEF Tracked, OneRequest
<1>6. \A m \in Rank : Promises(m, n)' => Promises(m, n) /\ daemon'[m].page = daemon[m].page
  BY <1>3 DEF Promises
<1>7. (Asks(n)' => Asks(n)) /\ main'[n].page = main[n].page
  BY <1>1 DEF Asks
<1>8. Awaits(n) => Awaits(n)'
  <2>1. ASSUME Direct, main[n].page \notin mapped[n]
        PROVE  table'[n][main[n].page] = table[n][main[n].page]
    BY <1>0, <2>1, OwnerOfMissing
  <2> QED BY <1>1, <1>2, <2>1 DEF Awaits
<1> QED BY <1>1, <1>5, <1>6, <1>7, <1>8, OneSilent

\* The daemon writes: its promise leaves with the number of the page.
LEMMA DaemonWriteTracked ==
  ASSUME TypeOK, Shaped, StreamsFramed, Together', NEW x \in Rank, DaemonWrite(x),
         NEW st \in Views, Framed(st), NEW st2, WroteFirst(x, st, st2, daemon[x].out),
         Tracked(st), \A n \in Rank : Trapped(n) => Trapped(n)'
  PROVE  Tracked(st2)'
<1>0. daemon \in [Rank -> DaemonState] /\ ~Exit(x) /\ DaemonOut(x)
  BY NoExit DEF TypeOK, DaemonState, Shaped
<1>1. /\ daemon[x].out # << >>
      /\ daemon' = [daemon EXCEPT ![x].out = Tail(@)]
      /\ UNCHANGED <<mapped, table, open, stdin, main>>
  BY <1>0 DEF DaemonWrite
<1>2. /\ daemon'[x].out = Tail(daemon[x].out) /\ daemon'[x].pc = daemon[x].pc
      /\ daemon'[x].slot = daemon[x].slot /\ daemon'[x].page = daemon[x].page
      /\ \A k \in Rank \ {x} : daemon'[k] = daemon[k]
  BY <1>0, <1>1 DEF DaemonState
<1>3. PICK fd : fd = Head(daemon[x].out).fd
  OBVIOUS
<1>4. \A m, n \in Rank : /\ daemon'[m].page = daemon[m].page
                         /\ Promises(m, n)' => Promises(m, n)
  BY <1>1, <1>2 DEF Promises
<1>5. \A n \in Rank : /\ Awaits(n)' <=> Awaits(n)
                      /\ main'[n].page = main[n].page
                      /\ Asks(n)' <=> Asks(n)
  BY <1>1 DEF Awaits, Asks
<1>6. SUFFICES ASSUME NEW n \in Rank, ~Trapped(n)' PROVE OneRequest(st2, n)'
  BY DEF Tracked
<1>7. OneRequest(st, n) /\ daemon[n].pc # "fault" /\ daemon'[n].pc # "fault"
  BY <1>2, <1>6 DEF Tracked, OneRequest
<1>8. CASE st2 = st /\ chan' = chan
  BY <1>4, <1>5, <1>7, <1>8, OneSilent
<1>9. CASE \E r, b : /\ r = Head(daemon[x].out).fd /\ Writes(x, st, r, Head(daemon[x].out).word, b)
                     /\ Extended(st, st2, x, Link[x][r], Len(chan[x][Link[x][r]]) + 1, b)
  <2>1. PICK r, b, w, y, l : /\ r = fd /\ w = Head(daemon[x].out).word /\ y = Link[x][r] /\ l = Len(chan[x][y])
                             /\ Writes(x, st, r, w, b) /\ Extended(st, st2, x, y, l + 1, b)
    BY <1>3, <1>9, Zenon
  <2>2. r \in Rank \ {x} /\ y \in Rank \ {x} /\ Pushed(x, y, w)
    BY <2>1, Links DEF Writes
  <2>3. ~Asked(x, r)
    <3>1. WritesTo(daemon[x].out, r)
      BY <1>0, <1>1, <1>3, <2>1, HeadWrites, Zenon DEF DaemonState
    <3>2. ~WritesTo(main[x].out, r) /\ main[x].out \in Seq(Output)
      BY <2>2, <3>1 DEF StreamsFramed, TypeOK
    <3> QED BY <3>2, HeadWrites, Outs DEF Asked
  <2>4. st[x][y][l].at = DaemonOwed(x, r)
    <3>1. PICK a : a = st[x][y][l] /\ Ends(x, r, a)
      BY <2>1, <2>2, ViewEnds
    <3> QED BY <2>3, <3>1 DEF Ends, Owed
  <2>5. ASSUME NEW k, NEW m, NEW i, NEW p, RequestAt(st2, n, k, m, i, p)'
        PROVE  \/ RequestAt(st, n, k, m, i, p) /\ (k = "copy" => Promises(m, n)')
               \/ /\ k = "page" /\ n = y /\ m = x /\ i = l + 1
                  /\ DaemonOwed(x, r) = "page" /\ p = w.val
    <3>1. \/ Threads(n, k, m, i, p)'
          \/ k \in {"wanted", "page"} /\ RequestAt(st, n, k, m, i, p)
          \/ /\ k = "wanted" /\ n = x /\ m = y /\ i = l + 1
             /\ st[x][y][l].at = "wanted" /\ p = w.val
          \/ /\ k = "page" /\ n = y /\ m = x /\ i = l + 1
             /\ st[x][y][l].at = "page" /\ p = w.val
      <4>1. l = Len(chan[x][y]) /\ Extended(st, st2, x, y, l + 1, b) /\ Pushed(x, y, w) /\ y \in Rank \ {x}
        BY <2>1, <2>2
      <4> HIDE <2>1
      <4> QED BY <2>5, <4>1, RequestsPushed
    <3>2. ~(n = x /\ st[x][y][l].at = "wanted")
      BY <1>7, <2>4 DEF DaemonOwed, PageOwed, InfoOwed
    <3>3. ASSUME Threads(n, k, m, i, p)'
          PROVE  RequestAt(st, n, k, m, i, p) /\ (k = "copy" => Promises(m, n)')
      BY <1>4, <1>5, <3>3 DEF Threads, RequestAt
    <3> QED BY <2>4, <3>1, <3>2, <3>3
  <2>6. CASE n = y /\ DaemonOwed(x, r) = "page"
    \* The promise is kept: the number of the page is on its way.
    <3>1. daemon[x].pc = "copy" /\ daemon[x].slot = r /\ Len(daemon[x].out) = 1
      BY <2>6 DEF DaemonOwed, PageOwed, InfoOwed
    <3>2. daemon[x].out = <<To(r, Num(daemon[x].page))>>
      <4>1. daemon[x].out \in {<<To(r, Num(SEND_PAGE)), To(r, Num(daemon[x].page))>>,
                               <<To(r, Num(daemon[x].page))>>, << >>}
        BY <1>0, <3>1 DEF DaemonOut
      <4> QED BY <3>1, <4>1, Outs
    <3>3. daemon'[x].out = << >> /\ w.val = daemon[x].page
      BY <1>2, <2>1, <3>2, Outs, Outgoing
    <3>4. Promises(x, n) /\ ~Promises(x, n)'
      BY <1>1, <2>1, <2>6, <3>1, <3>3 DEF Promises
    <3>5. RequestAt(st, n, "copy", x, 0, daemon[x].page)
      BY <2>2, <2>6, <3>4 DEF RequestAt
    <3>6. /\ \A k, m, i, p : RequestAt(st, n, k, m, i, p) => k = "copy" /\ m = x
          /\ Awaits(n) /\ daemon[x].page = main[n].page
      <4>1. PICK k, m, i : Sole(st, n, k, m, i)
        BY <1>7 DEF OneRequest
      <4>2. k = "copy" /\ m = x /\ i = 0 /\ Awaits(n) /\ daemon[x].page = main[n].page
        BY <3>5, <4>1 DEF Sole
      <4> QED BY <4>1, <4>2 DEF Sole
    <3>7. ASSUME NEW k, NEW m, NEW i, NEW p, RequestAt(st2, n, k, m, i, p)'
          PROVE  k = "page" /\ m = x /\ i = l + 1 /\ p = main'[n].page /\ Awaits(n)'
      <4>1. k = "page" /\ m = x /\ i = l + 1 /\ p = w.val
        BY <2>5, <3>4, <3>6, <3>7
      <4> QED BY <1>5, <3>3, <3>6, <4>1
    <3> QED BY <1>7, <3>7, StillSole
  <2>7. CASE ~(n = y /\ DaemonOwed(x, r) = "page")
    <3>1. \A k, m, i, p : RequestAt(st2, n, k, m, i, p)' => RequestAt(st, n, k, m, i, p)
      BY <2>5, <2>7
    <3>2. main'[n] = main[n] /\ mapped'[n] \subseteq mapped[n] /\ table'[n] = table[n]
      BY <1>1
    <3> QED BY <1>7, <3>1, <3>2, RequestOfOther
  <2> QED BY <2>6, <2>7
<1> QED BY <1>8, <1>9 DEF WroteFirst

\* A word is read, which for n is no more than a step forward in a queue.
LEMMA OneShifted ==
  ASSUME NEW x \in Rank, NEW y \in Rank \ {x}, Popped(y, x), NEW st, NEW st2, Shifted(st, st2, y, x),
         NEW n \in Rank, OneRequest(st, n), daemon'[n].pc # "fault", main'[n] = main[n],
         Awaits(n) => Awaits(n)',
         \A m \in Rank : Promises(m, n)' => Promises(m, n) /\ daemon'[m].page = daemon[m].page
  PROVE  OneRequest(st2, n)'
<1>1. PICK k, m, i : Sole(st, n, k, m, i)
  BY DEF OneRequest
<1>2. Awaits(n) => Awaits(n)'
  OBVIOUS
<1> DEFINE In(k2, m2) == (k2 = "wanted" /\ n = y /\ m2 = x) \/ (k2 = "page" /\ n = x /\ m2 = y)
<1>3. PICK i3 : i3 = IF In(k, m) THEN i - 1 ELSE i
  OBVIOUS
<1>4. ASSUME NEW k2, NEW m2, NEW i2, NEW p, RequestAt(st2, n, k2, m2, i2, p)'
      PROVE  k2 = k /\ m2 = m /\ i2 = i3 /\ p = main'[n].page /\ Awaits(n)'
  <2>1. ASSUME NEW j, RequestAt(st, n, k2, m2, j, p)
        PROVE  k2 = k /\ m2 = m /\ j = i /\ p = main'[n].page /\ Awaits(n)'
    BY <1>1, <1>2, <2>1 DEF Sole
  <2>2. \/ Threads(n, k2, m2, i2, p)'
        \/ k2 \in {"wanted", "page"} /\ RequestAt(st, n, k2, m2, i2, p) /\ ~In(k2, m2)
        \/ In(k2, m2) /\ i2 \in Nat \ {0} /\ RequestAt(st, n, k2, m2, i2 + 1, p)
    BY <1>4, RequestsPopped
  <2>3. CASE Threads(n, k2, m2, i2, p)'
    <3>1. RequestAt(st, n, k2, m2, i2, p) /\ k2 \in {"ask", "copy"}
      BY <2>3 DEF Threads, RequestAt, Asks
    <3> QED BY <1>3, <2>1, <3>1
  <2>4. CASE RequestAt(st, n, k2, m2, i2, p) /\ ~In(k2, m2)
    BY <1>3, <2>1, <2>4
  <2>5. CASE In(k2, m2) /\ i2 \in Nat \ {0} /\ RequestAt(st, n, k2, m2, i2 + 1, p)
    <3>1. k2 = k /\ m2 = m /\ i2 + 1 = i /\ p = main'[n].page /\ Awaits(n)'
      BY <2>1, <2>5
    <3>2. i3 = i - 1
      BY <1>3, <2>5, <3>1
    <3>3. (i2 + 1) - 1 = i2
      BY <2>5
    <3> QED BY <3>1, <3>2, <3>3
  <2> QED BY <2>2, <2>3, <2>4, <2>5
<1> HIDE DEF In
<1> QED BY <1>4, StillSole

\* The first word on a connection asks for a page: only that request is left.
LEMMA FirstIsSole ==
  ASSUME NEW st, NEW n \in Rank, OneRequest(st, n), NEW k, NEW m, NEW p, RequestAt(st, n, k, m, 1, p)
  PROVE  /\ \A k2, m2, i2, p2 : RequestAt(st, n, k2, m2, i2, p2) => k2 = k /\ m2 = m /\ i2 = 1
         /\ p = main[n].page /\ Awaits(n)
<1>1. PICK k3, m3, i3 : Sole(st, n, k3, m3, i3)
  BY DEF OneRequest
<1>2. k = k3 /\ m = m3 /\ 1 = i3 /\ p = main[n].page /\ Awaits(n)
  BY <1>1 DEF Sole
<1> QED BY <1>1, <1>2 DEF Sole

\* A process is never told that it owns the page it is being sent: neither by
\* the daemon that is about to write so, nor by a word on the way.
Told(st) ==
  /\ \A n \in Rank : daemon[n].pc = "inform" /\ daemon[n].out # << >> =>
       Head(daemon[n].out).fd # daemon[n].slot
  /\ \A n, m \in Rank : \A i \in 1 .. Len(chan[n][m]) :
       st[n][m][i - 1].at = "infoOwner" => chan[n][m][i].val # m

\* A step that touches no channel.
LEMMA ToldSilent ==
  ASSUME NEW st, Told(st), chan' = chan, NEW x \in Rank, \A k \in Rank \ {x} : daemon'[k] = daemon[k],
         daemon'[x].pc = "inform" /\ daemon'[x].out # << >> =>
           Head(daemon'[x].out).fd # daemon'[x].slot
  PROVE  Told(st)'
BY DEF Told

\* A word is written.
LEMMA ToldPushed ==
  ASSUME NEW x \in Rank, NEW y \in Rank, NEW w, Pushed(x, y, w), NEW st, NEW st2, NEW b, NEW l,
         l = Len(chan[x][y]), Extended(st, st2, x, y, l + 1, b), Told(st),
         st[x][y][l].at = "infoOwner" => w.val # y,
         \A n \in Rank : daemon'[n].pc = "inform" /\ daemon'[n].out # << >> =>
           Head(daemon'[n].out).fd # daemon'[n].slot
  PROVE  Told(st2)'
<1>0. l \in Nat /\ Len(chan'[x][y]) = l + 1 /\ chan'[x][y][l + 1] = w
      /\ (\A j \in 1 .. l : chan'[x][y][j] = chan[x][y][j])
      /\ (\A c, d \in Rank : c # x \/ d # y => chan'[c][d] = chan[c][d])
  BY DEF Pushed
<1>1. (\A c, d \in Rank : c # x \/ d # y => st2[c][d] = st[c][d])
      /\ (\A j \in Nat : j # l + 1 => st2[x][y][j] = st[x][y][j])
  BY DEF Extended
<1>2. ASSUME NEW c \in Rank, NEW d \in Rank, NEW i, i \in 1 .. Len(chan'[c][d]),
             st2[c][d][i - 1].at = "infoOwner"
      PROVE  chan'[c][d][i].val # d
  <2>1. CASE c # x \/ d # y
    BY <1>0, <1>1, <1>2, <2>1 DEF Told
  <2>2. CASE c = x /\ d = y /\ i = l + 1
    <3>1. i - 1 = l /\ l # l + 1
      BY <1>0, <2>2, Counts
    <3> QED BY <1>0, <1>1, <1>2, <2>2, <3>1
  <2>3. CASE c = x /\ d = y /\ i # l + 1
    <3>1. i \in 1 .. l + 1
      BY <1>0, <1>2, <2>3
    <3>2. i \in 1 .. l /\ i - 1 \in Nat /\ i - 1 # l + 1
      BY <1>0, <2>3, <3>1, Counts
    <3>3. st[x][y][i - 1].at = "infoOwner" => chan[x][y][i].val # y
      BY <1>0, <3>2 DEF Told
    <3> QED BY <1>0, <1>1, <1>2, <2>3, <3>2, <3>3
  <2> QED BY <2>1, <2>2, <2>3
<1> QED BY <1>2 DEF Told

\* A word is read.
LEMMA ToldPopped ==
  ASSUME NEW x \in Rank, NEW y \in Rank \ {x}, Popped(y, x), NEW st, NEW st2, Shifted(st, st2, y, x),
         Told(st), daemon'[x].pc # "inform", \A k \in Rank \ {x} : daemon'[k] = daemon[k]
  PROVE  Told(st2)'
<1>0. PICK l \in Nat \ {0} : l = Len(chan[y][x])
  BY DEF Popped
<1>1. Len(chan'[y][x]) = l - 1
      /\ (\A j \in 1 .. l - 1 : chan'[y][x][j] = chan[y][x][j + 1])
      /\ (\A c, d \in Rank : c # y \/ d # x => chan'[c][d] = chan[c][d])
  BY <1>0 DEF Popped
<1>2. (\A c, d \in Rank : c # y \/ d # x => st2[c][d] = st[c][d])
      /\ (\A j \in Nat : st2[y][x][j] = st[y][x][j + 1])
  BY DEF Shifted
<1>3. ASSUME NEW c \in Rank, NEW d \in Rank, NEW i, i \in 1 .. Len(chan'[c][d]),
             st2[c][d][i - 1].at = "infoOwner"
      PROVE  chan'[c][d][i].val # d
  <2>1. CASE ~(c = y /\ d = x)
    BY <1>1, <1>2, <1>3, <2>1 DEF Told
  <2>2. CASE c = y /\ d = x
    <3>1. i \in 1 .. l - 1
      BY <1>1, <1>3, <2>2
    <3>2. i + 1 \in 1 .. l /\ i - 1 \in Nat /\ (i - 1) + 1 = (i + 1) - 1
      BY <1>0, <3>1
    <3>3. st2[y][x][i - 1] = st[y][x][(i - 1) + 1]
      BY <1>2, <3>2
    <3>4. st[y][x][(i + 1) - 1].at = "infoOwner" => chan[y][x][i + 1].val # x
      BY <1>0, <3>2 DEF Told
    <3> QED BY <1>1, <1>3, <2>2, <3>1, <3>2, <3>3, <3>4
  <2> QED BY <2>1, <2>2
<1> QED BY <1>3 DEF Told

\* What is written of a request is not the end of an information.
LEMMA MainWriteTold ==
  ASSUME TypeOK, Shaped, StreamsFramed, Together', NEW x \in Rank, MainWrite(x),
         NEW st \in Views, Framed(st), NEW st2, WroteFirst(x, st, st2, main[x].out), Told(st)
  PROVE  Told(st2)'
<1>0. ~Exit(x)
  BY NoExit
<1>1. main[x].out # << >> /\ daemon' = daemon
  BY <1>0 DEF MainWrite
<1>2. CASE st2 = st /\ chan' = chan
  BY <1>1, <1>2, ToldSilent DEF Told
<1>3. CASE \E r, b : /\ r = Head(main[x].out).fd /\ Writes(x, st, r, Head(main[x].out).word, b)
                     /\ Extended(st, st2, x, Link[x][r], Len(chan[x][Link[x][r]]) + 1, b)
  <2>1. PICK r, b, w, y, l : /\ r = Head(main[x].out).fd /\ w = Head(main[x].out).word
                             /\ y = Link[x][r] /\ l = Len(chan[x][y])
                             /\ Writes(x, st, r, w, b) /\ Extended(st, st2, x, y, l + 1, b)
    BY <1>3, Zenon
  <2>2. r \in Rank \ {x} /\ y \in Rank \ {x} /\ Pushed(x, y, w)
    BY <2>1, Links, Zenon DEF Writes
  <2>3. DaemonOwed(x, r) = "type"
    BY <1>1, <2>1, <2>2, MainHead, DaemonSilent, Zenon
  <2>4. PICK a : a = st[x][y][l] /\ Ends(x, r, a)
    BY <2>1, <2>2, ViewEnds, Zenon
  <2>5. a.at # "infoOwner"
    BY <2>3, <2>4 DEF Ends, Owed
  <2>6. \A n \in Rank : daemon'[n].pc = "inform" /\ daemon'[n].out # << >> =>
          Head(daemon'[n].out).fd # daemon'[n].slot
    BY <1>1 DEF Told
  <2>7. l = Len(chan[x][y]) /\ Extended(st, st2, x, y, l + 1, b)
    BY <2>1, Zenon
  <2> HIDE <2>1
  <2> QED BY <2>2, <2>4, <2>5, <2>6, <2>7, ToldPushed, Zenon
<1> QED BY <1>2, <1>3 DEF WroteFirst

\* A rank is what the loop over the pages takes it for.
LEMMA AtHome == \A i \in Rank : i % DSM_NODE_NUM = i
<1> SUFFICES ASSUME NEW i \in Rank PROVE i % DSM_NODE_NUM = i
  OBVIOUS
<1>1. PICK n \in Nat : n = DSM_NODE_NUM /\ i \in Nat /\ 0 < n /\ i < n
  BY NodeAssumption DEF Rank
<1>2. PICK q \in Nat, r \in Nat : q = i \div n /\ r = i % n /\ i = n * q + r
  BY <1>1
<1>3. CASE q = 0
  BY <1>1, <1>2, <1>3
<1>4. CASE q > 0
  <2>1. n * q >= n
    BY <1>1, <1>4
  <2> QED BY <1>1, <1>2, <2>1
<1> QED BY <1>2, <1>3, <1>4

\* The loop over the pages leaves out the process that gets the page.
LEMMA DaemonSilentTold ==
  ASSUME TypeOK, Shaped, Together', Direct, NEW x \in Rank, NEW st, Told(st),
         \/ Poll(x) \/ Scan(x) \/ EndScan(x) \/ Install(x) \/ ReadEnds(x)
         \/ CopyPage(x) \/ EndFault(x) \/ UnmapPage(x) \/ Inform(x)
  PROVE  Told(st)'
<1>0. daemon \in [Rank -> DaemonState] /\ ~Exit(x)
  BY NoExit DEF TypeOK, DaemonState
<1>1. chan' = chan
  BY PollSilent, EndSilent, CopySilent, UnmapSilent
<1>2. /\ \A k \in Rank \ {x} : daemon'[k] = daemon[k]
      /\ daemon'[x].pc = "inform" /\ daemon'[x].out # << >> =>
           Head(daemon'[x].out).fd # daemon'[x].slot
  <2>1. CASE Inform(x)
    <3>1. \A k \in Rank \ {x} : daemon'[k] = daemon[k]
      BY <2>1, Informs
    <3>2. ASSUME daemon'[x].pc = "inform", daemon'[x].out # << >>
          PROVE  Head(daemon'[x].out).fd # daemon'[x].slot
      <4>1. PICK p, s : p = daemon[x].page /\ s = daemon[x].slot
        OBVIOUS
      <4>2. daemon'[x].slot = s
        BY <2>1, <3>2, <4>1, Informs
      <4>3. PICK fd \in Fd : Informed(x, fd) /\
              daemon'[x].out = <<To(fd, Num(SEND_INFO)), To(fd, Num(p)), To(fd, Num(s))>>
        BY <2>1, <3>2, <4>1, Informs
      <4>4. Head(daemon'[x].out).fd = fd
        BY <4>3, Outs, Outgoing
      <4>5. fd # s
        <5>1. s \in Rank /\ daemon[x].index \in Index
          BY <1>0, <4>1 DEF DaemonState
        <5>2. daemon[x].index \in Rank => daemon[x].index % DSM_NODE_NUM = daemon[x].index
          BY AtHome
        <5>3. s # Stdin
          BY <5>1, NodeAssumption DEF Rank, Stdin
        <5> QED BY <4>1, <4>3, <5>1, <5>2, <5>3 DEF Informed, FdOf, Direct
      <4> QED BY <4>2, <4>4, <4>5
    <3> QED BY <3>1, <3>2
  <2>2. CASE Install(x)
    <3>1. daemon' = [daemon EXCEPT ![x] = Resume(x)]
      BY <1>0, <2>2 DEF Install
    <3> QED BY <3>1, Resumed
  <2>3. CASE Poll(x) \/ Scan(x) \/ EndScan(x) \/ EndFault(x)
    <3>1. CASE Scan(x)
      <4>1. daemon[x].pc = "scan"
        BY <3>1, Zenon DEF Scan
      <4>2. PICK s \in daemon[x].ready :
              \/ HangUp(x, s)
              \/ daemon' = [daemon EXCEPT ![x].pc = "type", ![x].slot = s, ![x].ready = @ \ {s}]
        BY <3>1, Zenon DEF Scan
      <4>3. CASE HangUp(x, s)
        BY <1>0, <4>1, <4>3 DEF HangUp, DaemonState
      <4>4. CASE daemon' = [daemon EXCEPT ![x].pc = "type", ![x].slot = s, ![x].ready = @ \ {s}]
        BY <1>0, <4>4 DEF DaemonState
      <4> QED BY <4>2, <4>3, <4>4
    <3>2. CASE Poll(x) \/ EndScan(x) \/ EndFault(x)
      BY <1>0, <3>2 DEF Poll, EndScan, EndFault, DaemonState
    <3> QED BY <2>3, <3>1, <3>2
  <2>4. CASE ReadEnds(x)
    <3>1. daemon'[x].pc = "eof"
      BY <2>4, EndSilent
    <3> QED BY <1>0, <2>4, <3>1 DEF ReadEnds
  <2>5. CASE CopyPage(x)
    <3>1. /\ \A k \in Rank \ {x} : daemon'[k] = daemon[k]
          /\ daemon'[x].pc = "unmap" \/ daemon'[x].pc = "fault"
      BY <2>5, Copies
    <3> QED BY <3>1
  <2>6. CASE UnmapPage(x)
    <3>1. daemon'[x].out = << >> /\ \A k \in Rank \ {x} : daemon'[k] = daemon[k]
      BY <1>0, <2>6 DEF UnmapPage, DaemonState
    <3> QED BY <3>1
  <2> QED BY <2>1, <2>2, <2>3, <2>4, <2>5, <2>6
<1> QED BY <1>1, <1>2, ToldSilent

\* An information goes to one process, and tells which page went where.
LEMMA InformsOne ==
  ASSUME Shaped, NEW x \in Rank, daemon[x].pc = "inform", daemon[x].out # << >>,
         daemon'[x].out = Tail(daemon[x].out)
  PROVE  \E fd : /\ Head(daemon[x].out).fd = fd
                 /\ daemon'[x].out # << >> => Head(daemon'[x].out).fd = fd
                 /\ Len(daemon[x].out) = 1 => Head(daemon[x].out).word = Num(daemon[x].slot)
                 /\ Len(daemon[x].out) = 2 => Head(daemon[x].out).word = Num(daemon[x].page)
<1>1. PICK p, s : p = daemon[x].page /\ s = daemon[x].slot
  OBVIOUS
<1>2. PICK fd : daemon[x].out \in {<<To(fd, Num(SEND_INFO)), To(fd, Num(p)), To(fd, Num(s))>>,
                                    <<To(fd, Num(p)), To(fd, Num(s))>>, <<To(fd, Num(s))>>}
  BY <1>1 DEF Shaped, DaemonOut
<1>3. PICK a, b, c : a = To(fd, Num(SEND_INFO)) /\ b = To(fd, Num(p)) /\ c = To(fd, Num(s))
  OBVIOUS
<1>4. a.fd = fd /\ b.fd = fd /\ c.fd = fd /\ c.word = Num(s) /\ b.word = Num(p)
  BY <1>3, Outgoing
<1>5. CASE daemon[x].out = <<a, b, c>>
  BY <1>4, <1>5, Outs
<1>6. CASE daemon[x].out = <<b, c>>
  BY <1>1, <1>4, <1>6, Outs
<1>7. CASE daemon[x].out = <<c>>
  BY <1>1, <1>4, <1>7, Outs
<1> QED BY <1>2, <1>3, <1>5, <1>6, <1>7

\* The end of an information names the process the page went to.
LEMMA DaemonWriteTold ==
  ASSUME TypeOK, Shaped, StreamsFramed, Together', Direct, NEW x \in Rank, DaemonWrite(x),
         NEW st \in Views, Framed(st), NEW st2, WroteFirst(x, st, st2, daemon[x].out), Told(st)
  PROVE  Told(st2)'
<1>0. daemon \in [Rank -> DaemonState] /\ ~Exit(x) /\ DaemonOut(x)
  BY NoExit DEF TypeOK, DaemonState, Shaped
<1>1. /\ daemon[x].out # << >>
      /\ daemon' = [daemon EXCEPT ![x].out = Tail(@)]
  BY <1>0 DEF DaemonWrite
<1>2. /\ daemon'[x].out = Tail(daemon[x].out) /\ daemon'[x].pc = daemon[x].pc
      /\ daemon'[x].slot = daemon[x].slot
      /\ \A k \in Rank \ {x} : daemon'[k] = daemon[k]
  BY <1>0, <1>1 DEF DaemonState
<1>3. PICK p, s : p = daemon[x].page /\ s = daemon[x].slot
  OBVIOUS
<1>4. ASSUME daemon[x].pc = "inform"
      PROVE  \E fd : /\ Head(daemon[x].out).fd = fd /\ fd # s
                     /\ daemon'[x].out # << >> => Head(daemon'[x].out).fd = fd
                     /\ Len(daemon[x].out) = 1 => Head(daemon[x].out).word = Num(s)
  BY <1>1, <1>2, <1>3, <1>4, InformsOne, Zenon DEF Told
<1>5. \A n \in Rank : daemon'[n].pc = "inform" /\ daemon'[n].out # << >> =>
        Head(daemon'[n].out).fd # daemon'[n].slot
  <2>1. daemon'[x].pc = "inform" /\ daemon'[x].out # << >> => Head(daemon'[x].out).fd # daemon'[x].slot
    BY <1>2, <1>3, <1>4
  <2> QED BY <1>2, <2>1 DEF Told
<1>6. CASE st2 = st /\ chan' = chan
  BY <1>2, <1>5, <1>6, ToldSilent
<1>7. CASE \E r, b : /\ r = Head(daemon[x].out).fd /\ Writes(x, st, r, Head(daemon[x].out).word, b)
                     /\ Extended(st, st2, x, Link[x][r], Len(chan[x][Link[x][r]]) + 1, b)
  <2>1. PICK r, b, w, y, l : /\ r = Head(daemon[x].out).fd /\ w = Head(daemon[x].out).word
                             /\ y = Link[x][r] /\ l = Len(chan[x][y])
                             /\ Writes(x, st, r, w, b) /\ Extended(st, st2, x, y, l + 1, b)
    BY <1>7, Zenon
  <2>2. r \in Rank \ {x} /\ y \in Rank \ {x} /\ Pushed(x, y, w)
    BY <2>1, Links, Zenon DEF Writes
  <2>3. ~Asked(x, r)
    <3>1. WritesTo(daemon[x].out, r)
      BY <1>0, <1>1, <2>1, HeadWrites, Zenon DEF DaemonState
    <3>2. ~WritesTo(main[x].out, r) /\ main[x].out \in Seq(Output)
      BY <2>2, <3>1 DEF StreamsFramed, TypeOK
    <3> QED BY <3>2, HeadWrites, Outs DEF Asked
  <2>4. st[x][y][l].at = DaemonOwed(x, r)
    <3>1. PICK a : a = st[x][y][l] /\ Ends(x, r, a)
      BY <2>1, <2>2, ViewEnds, Zenon
    <3> QED BY <2>3, <3>1 DEF Ends, Owed
  <2>5. ASSUME DaemonOwed(x, r) = "infoOwner" PROVE w.val # y
    <3>1. daemon[x].pc = "inform" /\ Len(daemon[x].out) = 1
      BY <2>5 DEF DaemonOwed, PageOwed, InfoOwed
    <3>2. r # s /\ w = Num(s)
      BY <1>4, <2>1, <3>1, Zenon
    <3>3. y = r
      BY <2>1, <2>2, Zenon DEF Direct
    <3> QED BY <3>2, <3>3 DEF Num
  <2>6. l = Len(chan[x][y]) /\ Extended(st, st2, x, y, l + 1, b)
    BY <2>1, Zenon
  <2> HIDE <2>1
  <2> QED BY <1>5, <2>2, <2>4, <2>5, <2>6, ToldPushed
<1> QED BY <1>6, <1>7 DEF WroteFirst

\* Reading a word is not the start of the loop over the pages.
LEMMA ReadEndsElsewhere ==
  ASSUME TypeOK, NEW x \in Rank,
         \/ RecvType(x) \/ RecvInfoPage(x) \/ RecvInfoOwner(x) \/ RecvPageRequest(x)
         \/ RecvPageNumber(x) \/ RecvLength(x) \/ RecvText(x)
  PROVE  daemon'[x].pc # "inform"
<1>0. daemon \in [Rank -> DaemonState]
  BY DEF TypeOK, DaemonState
<1>1. CASE RecvType(x)
  BY <1>0, <1>1 DEF RecvType, DaemonState, Resume
<1>2. CASE RecvInfoPage(x) \/ RecvPageRequest(x) \/ RecvPageNumber(x)
  BY <1>0, <1>2 DEF RecvInfoPage, RecvPageRequest, RecvPageNumber, DaemonState
<1>3. CASE RecvInfoOwner(x)
  BY <1>3, Resumed DEF RecvInfoOwner
<1>4. CASE RecvLength(x) \/ RecvText(x)
  BY <1>0, <1>4 DEF RecvLength, RecvText, DaemonState
<1> QED BY <1>1, <1>2, <1>3, <1>4

\* What is read has been told.
LEMMA DaemonReadTold ==
  ASSUME TypeOK, NEW x \in Rank, NEW st, NEW st2, ReadNext(x, st, st2), Told(st),
         daemon'[x].pc # "inform"
  PROVE  Told(st2)'
<1>1. PICK s, y : s = daemon[x].slot /\ y = Link[x][s] /\ Reads(x, st, s) /\ Shifted(st, st2, y, x)
  BY DEF ReadNext
<1>2. y \in Rank \ {x} /\ Popped(y, x) /\ (\A k \in Rank \ {x} : daemon'[k] = daemon[k])
  BY <1>1, Links DEF Reads, OthersStay
<1> QED BY <1>1, <1>2, ToldPopped

\* The daemon reads a word.
LEMMA DaemonReadTracked ==
  ASSUME TypeOK, Shaped, NEW x \in Rank, NEW st \in Views, Framed(st),
         NEW st2, ReadNext(x, st, st2), Tracked(st), Direct => Told(st),
         \A n \in Rank : Trapped(n) => Trapped(n)',
         \/ RecvType(x) \/ RecvInfoPage(x) \/ RecvInfoOwner(x) \/ RecvPageRequest(x)
         \/ RecvPageNumber(x) \/ RecvLength(x) \/ RecvText(x)
  PROVE  Tracked(st2)'
<1>0. daemon \in [Rank -> DaemonState] /\ mapped \in [Rank -> SUBSET Page]
  BY DEF TypeOK, DaemonState
<1>1. PICK s, y : s = daemon[x].slot /\ y = Link[x][s] /\ Reads(x, st, s) /\ Shifted(st, st2, y, x)
  BY DEF ReadNext
<1>2. s \in Rank \ {x} /\ y \in Rank \ {x} /\ Popped(y, x) /\ (\A k \in Rank \ {x} : daemon'[k] = daemon[k])
  BY <1>1, Links DEF Reads, OthersStay
<1>3. main' = main /\ \A k \in Rank \ {x} : mapped'[k] = mapped[k]
  BY <1>0 DEF RecvType, RecvInfoPage, RecvInfoOwner, RecvPageRequest, RecvPageNumber, RecvLength, RecvText
\* What is read tells nobody that a page it waits for is its own.
<1>w. ASSUME NEW n \in Rank, Awaits(n), mapped'[n] = mapped[n] PROVE Awaits(n)'
  <2>1. CASE ~RecvInfoOwner(x)
    <3>1. table' = table
      BY <2>1 DEF RecvType, RecvInfoPage, RecvPageRequest, RecvPageNumber, RecvLength, RecvText
    <3> QED BY <1>3, <1>w, <3>1 DEF Awaits
  <2>2. CASE RecvInfoOwner(x)
    <3>1. ASSUME Direct PROVE table'[n][main[n].page].owner # n
      <4>1. Takes(x, "infoOwner", "int") /\ "infoOwner" \in Reading
        BY <2>2 DEF RecvInfoOwner, Reading, ReadingInt
      <4>2. PICK v : v = NextWord(x)
        OBVIOUS
      <4>3. st[y][x][0].at = "infoOwner" /\ chan[y][x][1].val = v
        BY <1>1, <4>1, <4>2, ReadsLegal
      <4>4. v # x
        <5>1. 1 \in 1 .. Len(chan[y][x]) /\ 1 - 1 = 0
          BY <1>2 DEF Popped
        <5> QED BY <1>2, <3>1, <4>3, <5>1 DEF Told
      <4>5. table[n][main[n].page].owner # n /\ main[n].page \in Page
        BY <1>w, <3>1 DEF Awaits, TypeOK
      <4>6. table' = table \/ table' = [table EXCEPT ![x][daemon[x].page] = [status |-> "WRITE", owner |-> v]]
        BY <2>2, <4>2 DEF RecvInfoOwner
      <4>7. CASE table' = [table EXCEPT ![x][daemon[x].page] = [status |-> "WRITE", owner |-> v]]
        <5>1. \/ table'[n][main[n].page] = table[n][main[n].page]
              \/ n = x /\ table'[n][main[n].page].owner = v
          BY <4>5, <4>7 DEF TypeOK
        <5> QED BY <4>4, <4>5, <5>1
      <4> QED BY <4>5, <4>6, <4>7
    <3> QED BY <1>3, <1>w, <3>1 DEF Awaits
  <2> QED BY <2>1, <2>2
<1>4. CASE RecvPageRequest(x)
  <2>1. Takes(x, "wanted", "int") /\ mapped' = mapped
    BY <1>4 DEF RecvPageRequest
  <2>2. daemon'[x].pc = "copy" /\ daemon'[x].slot = s /\ daemon'[x].page = NextWord(x)
    BY <1>0, <1>1, <1>4 DEF RecvPageRequest, DaemonState
  <2>3. "wanted" \in Reading
    BY DEF Reading, ReadingInt
  <2>4. st[y][x][0].at = "wanted" /\ chan[y][x][1].val = NextWord(x)
    BY <1>1, <2>1, <2>3, ReadsLegal
  <2>5. SUFFICES ASSUME NEW n \in Rank, ~Trapped(n)' PROVE OneRequest(st2, n)'
    BY DEF Tracked
  <2>6. OneRequest(st, n) /\ daemon'[n].pc # "fault"
    BY <1>2, <2>2, <2>5 DEF Tracked, OneRequest
  <2>7. \A m \in Rank : m # x \/ n # y =>
          (Promises(m, n)' => Promises(m, n) /\ daemon'[m].page = daemon[m].page)
    BY <1>1, <1>2, <2>2 DEF Promises
  <2>8. CASE n # y
    <3>1. Awaits(n) => Awaits(n)'
      BY <1>w, <2>1
    <3>2. main'[n] = main[n] /\ \A m \in Rank :
            Promises(m, n)' => Promises(m, n) /\ daemon'[m].page = daemon[m].page
      BY <1>3, <2>7, <2>8
    <3> QED BY <1>1, <1>2, <2>6, <3>1, <3>2, OneShifted
  <2>9. CASE n = y
    <3>1. RequestAt(st, n, "wanted", x, 1, NextWord(x))
      <4>1. 1 \in 1 .. Len(chan[n][x]) /\ 1 - 1 = 0
        BY <1>2, <2>9 DEF Popped
      <4> QED BY <1>2, <2>4, <2>9, <4>1 DEF RequestAt
    <3>2. /\ \A k2, m2, i2, p2 : RequestAt(st, n, k2, m2, i2, p2) => k2 = "wanted" /\ m2 = x /\ i2 = 1
          /\ NextWord(x) = main[n].page /\ Awaits(n)
      BY <2>6, <3>1, FirstIsSole
    <3>3. ASSUME NEW k2, NEW m2, NEW i2, NEW p, RequestAt(st2, n, k2, m2, i2, p)'
          PROVE  k2 = "copy" /\ m2 = x /\ i2 = 0 /\ p = main'[n].page /\ Awaits(n)'
      <4>1. \/ Threads(n, k2, m2, i2, p)'
            \/ /\ k2 \in {"wanted", "page"} /\ RequestAt(st, n, k2, m2, i2, p)
               /\ ~(k2 = "wanted" /\ n = y /\ m2 = x) /\ ~(k2 = "page" /\ n = x /\ m2 = y)
            \/ /\ (k2 = "wanted" /\ n = y /\ m2 = x) \/ (k2 = "page" /\ n = x /\ m2 = y)
               /\ i2 \in Nat \ {0} /\ RequestAt(st, n, k2, m2, i2 + 1, p)
        BY <1>1, <1>2, <3>3, RequestsPopped
      <4>2. Threads(n, k2, m2, i2, p)'
        <5>1. i2 \in Nat \ {0} => i2 + 1 # 1
          OBVIOUS
        <5> QED BY <2>9, <3>2, <4>1, <5>1
      <4>3. ~(k2 = "ask" /\ Asks(n)')
        <5>1. ~Asks(n)
          BY <3>2 DEF RequestAt
        <5> QED BY <1>3, <5>1 DEF Asks
      <4>4. k2 = "copy" /\ m2 \in Rank \ {n} /\ i2 = 0 /\ Promises(m2, n)' /\ p = daemon'[m2].page
        BY <4>2, <4>3 DEF Threads
      <4>5. m2 = x
        <5>1. ASSUME m2 # x PROVE FALSE
          <6>1. Promises(m2, n) /\ daemon'[m2].page = daemon[m2].page
            BY <2>7, <4>4, <5>1
          <6>2. RequestAt(st, n, k2, m2, i2, p)
            BY <4>4, <6>1 DEF RequestAt
          <6> QED BY <3>2, <4>4, <6>2
        <5> QED BY <5>1
      <4>6. Awaits(n)'
        BY <1>w, <2>1, <3>2
      <4> QED BY <1>3, <2>2, <3>2, <4>4, <4>5, <4>6
    <3> QED BY <2>6, <3>3, StillSole
  <2> QED BY <2>8, <2>9
<1>5. CASE RecvPageNumber(x)
  <2>1. Takes(x, "page", "int") /\ "page" \in Reading
    BY <1>5 DEF RecvPageNumber, Reading, ReadingInt
  <2>2. daemon'[x].pc = "len"
    BY <1>0, <1>5 DEF RecvPageNumber, DaemonState
  <2>3. st[y][x][0].at = "page" /\ chan[y][x][1].val = NextWord(x)
    BY <1>1, <2>1, ReadsLegal
  <2>4. SUFFICES ASSUME NEW n \in Rank, ~Trapped(n)' PROVE OneRequest(st2, n)'
    BY DEF Tracked
  <2>5. OneRequest(st, n) /\ daemon'[n].pc # "fault"
    BY <1>2, <2>2, <2>4 DEF Tracked, OneRequest
  <2>6. \A m \in Rank : Promises(m, n)' => Promises(m, n) /\ daemon'[m].page = daemon[m].page
    BY <1>2, <2>2 DEF Promises
  <2>7. CASE n # x
    <3>1. (Awaits(n) => Awaits(n)') /\ main'[n] = main[n]
      BY <1>3, <1>w, <2>7
    <3> QED BY <1>1, <1>2, <2>5, <2>6, <3>1, OneShifted
  <2>8. CASE n = x
    <3>1. RequestAt(st, n, "page", y, 1, NextWord(x))
      <4>1. 1 \in 1 .. Len(chan[y][n]) /\ 1 - 1 = 0
        BY <1>2, <2>8 DEF Popped
      <4> QED BY <1>2, <2>3, <2>8, <4>1 DEF RequestAt
    <3>2. \A k2, m2, i2, p2 : RequestAt(st, n, k2, m2, i2, p2) => k2 = "page" /\ m2 = y /\ i2 = 1
      BY <2>5, <3>1, FirstIsSole
    <3>3. ASSUME NEW k2, NEW m2, NEW i2, NEW p, RequestAt(st2, n, k2, m2, i2, p)' PROVE FALSE
      <4>1. \/ Threads(n, k2, m2, i2, p)'
            \/ /\ k2 \in {"wanted", "page"} /\ RequestAt(st, n, k2, m2, i2, p)
               /\ ~(k2 = "wanted" /\ n = y /\ m2 = x) /\ ~(k2 = "page" /\ n = x /\ m2 = y)
            \/ /\ (k2 = "wanted" /\ n = y /\ m2 = x) \/ (k2 = "page" /\ n = x /\ m2 = y)
               /\ i2 \in Nat \ {0} /\ RequestAt(st, n, k2, m2, i2 + 1, p)
        BY <1>1, <1>2, <3>3, RequestsPopped
      <4>2. Threads(n, k2, m2, i2, p)'
        <5>1. i2 \in Nat \ {0} => i2 + 1 # 1
          OBVIOUS
        <5> QED BY <2>8, <3>2, <4>1, <5>1
      <4>3. RequestAt(st, n, k2, m2, i2, p) /\ k2 # "page"
        BY <1>3, <2>6, <4>2 DEF Threads, RequestAt, Asks
      <4> QED BY <3>2, <4>3
    <3> QED BY <2>5, <3>3, StillSole
  <2> QED BY <2>7, <2>8
<1>6. CASE RecvType(x) \/ RecvInfoPage(x) \/ RecvInfoOwner(x) \/ RecvLength(x) \/ RecvText(x)
  <2>1. mapped' = mapped
    BY <1>6 DEF RecvType, RecvInfoPage, RecvInfoOwner, RecvLength, RecvText
  <2>2. daemon'[x].pc \in {"page", "infoPage", "wanted", "scan", "infoOwner", "install", "text"}
    <3>1. CASE RecvType(x)
      BY <1>0, <3>1 DEF RecvType, DaemonState, Resume
    <3>2. CASE RecvInfoPage(x)
      BY <1>0, <3>2 DEF RecvInfoPage, DaemonState
    <3>3. CASE RecvInfoOwner(x)
      BY <3>3, Resumed DEF RecvInfoOwner
    <3>4. CASE RecvLength(x)
      BY <1>0, <3>4 DEF RecvLength, DaemonState
    <3>5. CASE RecvText(x)
      BY <1>0, <3>5 DEF RecvText, DaemonState
    <3> QED BY <1>6, <3>1, <3>2, <3>3, <3>4, <3>5
  <2>3. SUFFICES ASSUME NEW n \in Rank, ~Trapped(n)' PROVE OneRequest(st2, n)'
    BY DEF Tracked
  <2>4. OneRequest(st, n) /\ daemon'[n].pc # "fault"
    BY <1>2, <2>2, <2>3 DEF Tracked, OneRequest
  <2>5. \A m \in Rank : Promises(m, n)' => Promises(m, n) /\ daemon'[m].page = daemon[m].page
    BY <1>2, <2>2 DEF Promises
  <2>6. (Awaits(n) => Awaits(n)') /\ main'[n] = main[n]
    BY <1>3, <1>w, <2>1
  <2> QED BY <1>1, <1>2, <2>4, <2>5, <2>6, OneShifted
<1> QED BY <1>4, <1>5, <1>6

\* Only what one asked for arrives, while one does not have it.
LEMMA AnswerIsAwaited ==
  ASSUME TypeOK, Shaped, NEW st, st \in Views, Framed(st), Tracked(st), NEW n \in Rank, RecvPageNumber(n)
  PROVE  NextWord(n) = main[n].page /\ Awaits(n)
<1>1. PICK s, m : s = daemon[n].slot /\ m = Link[n][s]
  OBVIOUS
<1>2. Takes(n, "page", "int") /\ "page" \in Reading
  BY DEF RecvPageNumber, Reading, ReadingInt
<1>3. /\ m \in Rank \ {n} /\ Popped(m, n) /\ daemon[n].pc = "page"
      /\ chan[m][n][1].val = NextWord(n) /\ st[m][n][0].at = "page"
  BY <1>1, <1>2, ReadsLegal
<1>4. 1 \in 1 .. Len(chan[m][n]) /\ 1 - 1 = 0
  BY <1>3 DEF Popped
<1>5. RequestAt(st, n, "page", m, 1, NextWord(n))
  BY <1>3, <1>4 DEF RequestAt
<1>6. OneRequest(st, n)
  BY <1>3 DEF Tracked, Trapped
<1> QED BY <1>5, <1>6, FirstIsSole

\* A request that is asked for and answered is followed through the system.
Served == Shaped /\ \E st : Settled(st) /\ Tracked(st) /\ (Direct => Told(st))

LEMMA ServedAtFirst == Init => Served
<1> SUFFICES ASSUME Init PROVE Served
  OBVIOUS
<1>1. PICK st : Settled(st)
  BY PlacedAtFirst DEF Placed
<1>2. /\ \A n, m \in Rank : chan[n][m] = << >>
      /\ \A n \in Rank : main[n].out = << >> /\ daemon[n].pc = "poll"
  BY DEF Init, MainAt, DaemonAt
<1>3. ASSUME NEW n \in Rank PROVE OneRequest(st, n)
  <2>1. \A m \in Rank : \A i : i \notin 1 .. Len(chan[n][m]) /\ i \notin 1 .. Len(chan[m][n])
    BY <1>2, Outs
  <2>2. \A k, m, i, p : ~RequestAt(st, n, k, m, i, p)
    BY <1>2, <2>1 DEF RequestAt, Asks, Promises
  <2> QED BY <1>2, <2>2 DEF OneRequest, Sole
<1>4. Told(st)
  BY <1>2, Outs DEF Told
<1> QED BY <1>1, <1>3, <1>4, PlacedAtFirst DEF Served, Tracked, Placed

\* What a step makes of the view that follows the requests.
Carried(st, st2) ==
  \/ UNCHANGED vars /\ st2 = st
  \/ \E n \in Rank :
       \/ MainWrite(n) /\ WroteFirst(n, st, st2, main[n].out)
       \/ (EndWait(n) \/ Retry(n) \/ CloseNext(n) \/ Choice(n)) /\ st2 = st /\ chan' = chan
       \/ DaemonWrite(n) /\ WroteFirst(n, st, st2, daemon[n].out)
       \/ /\ \/ Poll(n) \/ Scan(n) \/ EndScan(n) \/ Install(n) \/ ReadEnds(n)
             \/ CopyPage(n) \/ EndFault(n) \/ UnmapPage(n) \/ Inform(n)
          /\ st2 = st
       \/ /\ \/ RecvType(n) \/ RecvInfoPage(n) \/ RecvInfoOwner(n) \/ RecvPageRequest(n)
             \/ RecvPageNumber(n) \/ RecvLength(n) \/ RecvText(n)
          /\ ReadNext(n, st, st2)

LEMMA FollowedStep ==
  ASSUME PromptReplies, TypeOK, Shaped, NEW st, Settled(st), Tracked(st), Direct => Told(st),
         StreamsFramed, Together, Together', [Next]_vars
  PROVE  \E st2 : /\ Shaped' /\ Settled(st2)' /\ Tracked(st2)' /\ (Direct => Told(st2)')
                  /\ Carried(st, st2)
<1>1. st \in Views /\ Framed(st)
  BY DEF Settled
<1>2. CASE UNCHANGED vars
  <2>1. Shaped'
    BY <1>2 DEF vars, Shaped, MainOut, DaemonOut, DaemonPlace
  <2>2. 0 \in Rank
    BY Ranks
  <2>3. Silent(0) /\ Elsewhere(0) /\ \A p : Keeps(0, p)
    BY <1>2 DEF vars, Silent, BeginsStay, EndsStay, OthersStay, Begins, Ends, Owed, Asked, DaemonOwed,
                PageOwed, InfoOwed, Elsewhere, Keeps, Holds, Installs, Filling, Sent
  <2>4. Tracked(st)'
    <3>1. UNCHANGED <<main, daemon, mapped, table, chan>>
      BY <1>2 DEF vars
    <3>2. ASSUME NEW n \in Rank, OneRequest(st, n) PROVE OneRequest(st, n)'
      BY <3>1, <3>2, OneSilent DEF OneRequest, Asks, Promises, Awaits
    <3> QED BY <3>1, <3>2 DEF Tracked, Trapped
  <2>5. Told(st) => Told(st)'
    BY <1>2 DEF vars, Told
  <2>6. Settled(st)'
    BY <2>2, <2>3, SettledSilent
  <2> QED BY <1>2, <2>1, <2>4, <2>5, <2>6 DEF Carried
<1>t. ASSUME Next PROVE \A n \in Rank : Trapped(n) => Trapped(n)'
  BY <1>t, StillTrapped
<1>3. ASSUME NEW n \in Rank, MainStep(n) \/ Choice(n)
      PROVE  \E st2 : /\ Shaped' /\ Settled(st2)' /\ Tracked(st2)' /\ (Direct => Told(st2)')
                      /\ Carried(st, st2)
  <2>0. \A k \in Rank : Trapped(k) => Trapped(k)'
    BY <1>3, <1>t DEF Next
  <2>1. PICK st2 : /\ Shaped' /\ Settled(st2)'
                   /\ IF MainWrite(n) THEN WroteFirst(n, st, st2, main[n].out)
                                      ELSE st2 = st /\ chan' = chan
    BY <1>1, <1>3, MainSettled
  <2>2. CASE MainWrite(n)
    <3>1. Tracked(st2)'
      BY <1>1, <2>0, <2>1, <2>2, MainWriteTracked
    <3>2. Direct => Told(st2)'
      BY <1>1, <2>1, <2>2, MainWriteTold
    <3> QED BY <2>1, <2>2, <3>1, <3>2 DEF Carried
  <2>3. CASE ~MainWrite(n)
    <3>1. EndWait(n) \/ Retry(n) \/ CloseNext(n) \/ Choice(n)
      BY <1>3, <2>3 DEF MainStep
    <3>2. Tracked(st)'
      BY <1>1, <2>0, <2>1, <2>3, <3>1, MainSilentTracked
    <3>3. Told(st) => Told(st)'
      <4>1. daemon' = daemon /\ chan' = chan
        BY <2>1, <2>3, <3>1 DEF EndWait, Retry, CloseNext, Choice, Fault, Finalize, StdinEnd, Ask
      <4> QED BY <4>1 DEF Told
    <3> QED BY <2>1, <2>3, <3>1, <3>2, <3>3 DEF Carried
  <2> QED BY <2>2, <2>3
<1>4. ASSUME NEW n \in Rank, DaemonStep(n)
      PROVE  \E st2 : /\ Shaped' /\ Settled(st2)' /\ Tracked(st2)' /\ (Direct => Told(st2)')
                      /\ Carried(st, st2)
  <2>0. \A k \in Rank : Trapped(k) => Trapped(k)'
    BY <1>4, <1>t DEF Next
  <2>1. CASE DaemonWrite(n)
    <3>1. PICK st2 : Shaped' /\ Settled(st2)' /\ WroteFirst(n, st, st2, daemon[n].out)
      BY <1>1, <2>1, DaemonWriteSettled
    <3>2. Tracked(st2)'
      BY <1>1, <2>0, <2>1, <3>1, DaemonWriteTracked
    <3>3. Direct => Told(st2)'
      BY <1>1, <2>1, <3>1, DaemonWriteTold
    <3> QED BY <2>1, <3>1, <3>2, <3>3 DEF Carried
  <2>2. CASE \/ Poll(n) \/ Scan(n) \/ EndScan(n) \/ Install(n) \/ ReadEnds(n)
             \/ CopyPage(n) \/ EndFault(n) \/ UnmapPage(n) \/ Inform(n)
    <3>1. Shaped' /\ Settled(st)'
      BY <1>1, <2>2, DaemonSettled
    <3>2. Tracked(st)'
      BY <1>1, <2>0, <2>2, DaemonSilentTracked
    <3>3. Direct => Told(st)'
      BY <1>1, <2>2, DaemonSilentTold
    <3> QED BY <2>2, <3>1, <3>2, <3>3 DEF Carried
  <2>3. CASE \/ RecvType(n) \/ RecvInfoPage(n) \/ RecvInfoOwner(n) \/ RecvPageRequest(n)
             \/ RecvPageNumber(n) \/ RecvLength(n) \/ RecvText(n)
    <3>1. RecvPageNumber(n) => NumberIsNews(n)
      BY <1>1, AnswerIsAwaited DEF Awaits, NumberIsNews, Holds
    <3>2. PICK st2 : Shaped' /\ Settled(st2)' /\ ReadNext(n, st, st2)
      BY <1>1, <2>3, <3>1, DaemonReadSettled
    <3>3. Tracked(st2)'
      BY <1>1, <2>0, <2>3, <3>2, DaemonReadTracked
    <3>4. Direct => Told(st2)'
      BY <1>1, <2>3, <3>2, ReadEndsElsewhere, DaemonReadTold
    <3> QED BY <2>3, <3>2, <3>3, <3>4 DEF Carried
  <2>4. CASE Misframed(n)
    BY <1>1, <2>4, NeverMisframed
  <2> QED BY <1>4, <2>1, <2>2, <2>3, <2>4 DEF DaemonStep
<1> QED BY <1>2, <1>3, <1>4 DEF Next

LEMMA ServedStep ==
  ASSUME PromptReplies, TypeOK, Served, StreamsFramed, Together, Together', [Next]_vars
  PROVE  Served'
<1>1. PICK st : Shaped /\ Settled(st) /\ Tracked(st) /\ (Direct => Told(st))
  BY DEF Served
<1>2. PICK st2 : Shaped' /\ Settled(st2)' /\ Tracked(st2)' /\ (Direct => Told(st2)')
  BY <1>1, FollowedStep
<1> QED BY <1>2 DEF Served

\* When no answer is late, a process only asks once for a page; then the
\* content of every page is in one place even when a process is asked for a
\* page it no longer has, and nobody runs on an empty page but for a daemon
\* trapped by such a request, as long as messages stay whole and nobody leaves.
THEOREM PagesConservedWhenPrompt ==
  PromptReplies => (Spec /\ []StreamsFramed /\ []Together => []PageConserved)
<1> SUFFICES ASSUME PromptReplies PROVE Spec /\ []StreamsFramed /\ []Together => []PageConserved
  OBVIOUS
<1>1. Spec => []TypeOK
  BY Typed
<1>2. Init => Served
  BY ServedAtFirst
<1>3. TypeOK /\ Served /\ StreamsFramed /\ Together /\ Together' /\ [Next]_vars => Served'
  BY ServedStep
<1>4. TypeOK /\ Served => PageConserved
  BY PlacedConserved DEF Served, Placed
<1> QED BY <1>1, <1>2, <1>3, <1>4, PTL DEF Spec

\* A page is only mapped when its number arrives.
LEMMA OnlyArrivalMaps ==
  ASSUME TypeOK, Together', Next, NEW n \in Rank, NEW p, p \notin mapped[n], p \in mapped'[n]
  PROVE  RecvPageNumber(n) /\ p = NextWord(n)
<1>0. mapped \in [Rank -> SUBSET Page]
  BY DEF TypeOK
<1>1. PICK x \in Rank : MainStep(x) \/ DaemonStep(x) \/ Choice(x)
  BY DEF Next
<1>2. ~Exit(x)
  BY NoExit
<1>3. CASE MainStep(x) \/ Choice(x)
  BY <1>2, <1>3 DEF MainStep, Choice, MainWrite, EndWait, Retry, CloseNext, Fault, Finalize, StdinEnd, Ask
<1>4. CASE RecvPageNumber(x)
  BY <1>0, <1>4, Zenon DEF RecvPageNumber
<1>5. CASE UnmapPage(x)
  BY <1>0, <1>5 DEF UnmapPage
<1>6. CASE DaemonWrite(x) \/ Poll(x) \/ Scan(x) \/ EndScan(x) \/ Install(x) \/ Misframed(x) \/ ReadEnds(x)
           \/ CopyPage(x) \/ EndFault(x) \/ Inform(x)
  BY <1>2, <1>6, Zenon DEF DaemonWrite, Poll, Scan, EndScan, Install, Misframed, ReadEnds, CopyPage,
                              EndFault, Inform
<1>7. CASE RecvType(x) \/ RecvInfoPage(x) \/ RecvInfoOwner(x) \/ RecvPageRequest(x)
           \/ RecvLength(x) \/ RecvText(x)
  BY <1>7 DEF RecvType, RecvInfoPage, RecvInfoOwner, RecvPageRequest, RecvLength, RecvText
<1> QED BY <1>1, <1>3, <1>4, <1>5, <1>6, <1>7 DEF DaemonStep

\* On direct connections and with prompt answers, a process that has given a
\* page away, and still takes itself for its owner, does not get the page
\* back: nobody sends it what it never asks for.
THEOREM GivenAwayIsLost ==
  PromptReplies /\ Direct => (Spec /\ []StreamsFramed /\ []Together => LostUntilTold)
<1> SUFFICES ASSUME PromptReplies, Direct
             PROVE  Spec /\ []StreamsFramed /\ []Together => LostUntilTold
  OBVIOUS
<1>1. Spec => []TypeOK
  BY Typed
<1>2. Init => Served
  BY ServedAtFirst
<1>3. TypeOK /\ Served /\ StreamsFramed /\ Together /\ Together' /\ [Next]_vars => Served'
  BY ServedStep
<1>4. TypeOK /\ Served /\ Together' /\ [Next]_vars =>
        [\A n \in Rank, p \in Page :
           p \notin mapped[n] /\ table[n][p].owner = n => p \notin mapped'[n]]_vars
  <2> SUFFICES ASSUME TypeOK, Served, Together', Next, NEW n \in Rank, NEW p \in Page,
                      p \notin mapped[n], table[n][p].owner = n, p \in mapped'[n]
               PROVE  FALSE
    OBVIOUS
  <2>1. RecvPageNumber(n) /\ p = NextWord(n)
    BY OnlyArrivalMaps
  <2>2. PICK st : Settled(st) /\ Tracked(st) /\ Shaped
    BY DEF Served
  <2>3. NextWord(n) = main[n].page /\ Awaits(n)
    BY <2>1, <2>2, AnswerIsAwaited DEF Settled
  <2> QED BY <2>1, <2>3 DEF Awaits
<1> QED BY <1>1, <1>2, <1>3, <1>4, PTL DEF Spec, LostUntilTold

----------------------------------------------------------------------------
(* Where the pages are, as the abstract specification sees it              *)

\* The place of a page in the terms of At.
Located ==
  \A st : \A p \in Page : \A x, y \in Rank : \A j \in Nat :
    TypeOK /\ Settled(st) /\ At(st, p, x, y, j) =>
      Place(p) = [node |-> y, there |-> (x = y /\ j = 0)]

LEMMA PlaceOf == Located
<1> SUFFICES ASSUME NEW st, NEW p \in Page, NEW x \in Rank, NEW y \in Rank, NEW j \in Nat,
                    TypeOK, Settled(st), At(st, p, x, y, j)
             PROVE  Place(p) = [node |-> y, there |-> (x = y /\ j = 0)]
  BY DEF Located
<1>1. st \in Views /\ Framed(st) /\ Once(st, p)
  BY DEF Settled
<1>2. \A x2, y2 \in Rank : \A j2 \in Nat : At(st, p, x2, y2, j2) <=> (x2 = x /\ y2 = y /\ j2 = j)
  BY <1>1 DEF Once, Only
<1>3. /\ \A n \in Rank : n \in Keepers(p) <=> At(st, p, n, n, 0)
      /\ \A n \in Rank : n \in Receivers(p) <=>
              \/ At(st, p, n, n, 1)
              \/ \E m \in Rank \ {n} : \E i \in Nat : At(st, p, m, n, i)
  BY <1>1, WhoHasPage
<1>4. Keepers(p) \subseteq Rank
  BY DEF Keepers
<1>5. CASE x = y /\ j = 0
  <2>1. Keepers(p) = {y}
    BY <1>2, <1>3, <1>4, <1>5
  <2> QED BY <1>5, <2>1 DEF Place
<1>6. CASE ~(x = y /\ j = 0)
  <2>1. Keepers(p) = {}
    BY <1>2, <1>3, <1>4, <1>6
  <2>2. y \in Receivers(p)
    <3>1. CASE x = y
      <4>1. j = 1
        BY <1>6, <3>1 DEF At
      <4> QED BY <1>3, <3>1, <4>1
    <3>2. CASE x # y
      BY <1>3, <3>2
    <3> QED BY <3>1, <3>2
  <2>3. \A n \in Rank : n \in Receivers(p) => n = y
    BY <1>2, <1>3
  <2>4. \A n \in Rank : Receives(n, p) <=> n = y
    BY <2>2, <2>3 DEF Receivers
  <2>5. (CHOOSE n \in Rank : Receives(n, p)) = y
    BY <2>4
  <2> QED BY <1>6, <2>1, <2>5 DEF Place
<1> QED BY <1>5, <1>6

LEMMA PlaceNext == Located'
BY PlaceOf, PTL

\* The page was at i, on the way from x to y, and is there at j now.
LEMMA PlaceMoved ==
  ASSUME TypeOK, TypeOK', NEW st, NEW st2, Settled(st), Settled(st2)', NEW p \in Page,
         NEW x \in Rank, NEW y \in Rank, NEW i \in Nat, At(st, p, x, y, i),
         NEW u \in Rank, NEW v \in Rank, NEW j \in Nat, At(st2, p, u, v, j)'
  PROVE  /\ Place(p) = [node |-> y, there |-> (x = y /\ i = 0)]
         /\ Place(p)' = [node |-> v, there |-> (u = v /\ j = 0)]
<1>1. Place(p) = [node |-> y, there |-> (x = y /\ i = 0)]
  BY PlaceOf DEF Located
<1>2. Place(p)' = [node |-> v, there |-> (u = v /\ j = 0)]
  BY PlaceNext DEF Located
<1> QED BY <1>1, <1>2

\* A step that moves no word and no page.
LEMMA PlaceKept ==
  ASSUME TypeOK, TypeOK', NEW st, Settled(st), Settled(st)', NEW p \in Page,
         chan' = chan, \A k \in Rank : Keeps(k, p)
  PROVE  Place(p)' = Place(p)
<1>1. PICK x \in Rank, y \in Rank, i \in Nat : At(st, p, x, y, i)
  BY DEF Settled, Once, Only
<1>2. At(st, p, x, y, i)'
  BY <1>1 DEF At, Keeps
<1> QED BY <1>1, <1>2, PlaceMoved

LEMMA PlaceInstalled ==
  ASSUME TypeOK, TypeOK', NEW st, Settled(st), Settled(st)', NEW p \in Page, NEW n \in Rank,
         Installed(n, p)
  PROVE  Place(p) = [node |-> n, there |-> FALSE] /\ Place(p)' = [node |-> n, there |-> TRUE]
<1>1. PICK i \in Nat : i = 1
  OBVIOUS
<1>2. At(st, p, n, n, i) /\ At(st, p, n, n, 0)' /\ i # 0
  BY <1>1 DEF Installed, At
<1>3. Place(p) = [node |-> n, there |-> (n = n /\ i = 0)] /\ Place(p)' = [node |-> n, there |-> (n = n /\ 0 = 0)]
  BY <1>2, PlaceMoved
<1> QED BY <1>2, <1>3

\* A word is written: the page is under way with the last word of a message.
LEMMA PlaceWritten ==
  ASSUME TypeOK, TypeOK', NEW st, NEW st2, Settled(st), Settled(st2)', NEW p \in Page,
         NEW n \in Rank, NEW m \in Rank \ {n}, NEW w, Pushed(n, m, w), NEW k, k = Len(chan[n][m]) + 1,
         NEW b, Extended(st, st2, n, m, k, b), Elsewhere(n), NEW a, a = st[n][m][Len(chan[n][m])],
         Leaves(n, a, b, p)
  PROVE  \/ ~Completes(a, b, p) /\ Place(p)' = Place(p)
         \/ /\ Completes(a, b, p) /\ Place(p) = [node |-> n, there |-> TRUE]
            /\ Place(p)' = [node |-> m, there |-> FALSE]
<1>0. PICK l : l = Len(chan[n][m]) /\ k = l + 1 /\ a = st[n][m][l]
  OBVIOUS
<1>1. /\ l \in Nat /\ Len(chan'[n][m]) = l + 1
      /\ \A x, y \in Rank : x # n \/ y # m => chan'[x][y] = chan[x][y]
  BY <1>0 DEF Pushed
<1>2. /\ \A x, y \in Rank : x # n \/ y # m => st2[x][y] = st[x][y]
      /\ \A i \in Nat : i # l + 1 => st2[n][m][i] = st[n][m][i]
      /\ st2[n][m][l + 1] = b
  BY <1>0 DEF Extended
<1>3. CASE Completes(a, b, p) /\ Holds(n, p) /\ ~Holds(n, p)' /\ ~Installs(n, p)'
  <2>1. At(st, p, n, n, 0)
    BY <1>3 DEF At
  <2>2. l + 1 \in 1 .. l + 1 /\ (l + 1) - 1 = l /\ l # l + 1 /\ l + 1 \in Nat /\ l + 1 # 0
    BY <1>1
  <2>3. At(st2, p, n, m, l + 1)'
    BY <1>0, <1>1, <1>2, <1>3, <2>2 DEF At
  <2>4. Place(p) = [node |-> n, there |-> (n = n /\ 0 = 0)] /\ Place(p)' = [node |-> m, there |-> (n = m /\ l + 1 = 0)]
    BY <2>1, <2>2, <2>3, PlaceMoved
  <2> QED BY <1>3, <2>4
<1>4. CASE ~Completes(a, b, p) /\ Keeps(n, p)
  <2>1. \A c \in Rank : Keeps(c, p)
    BY <1>4, KeepsAll
  <2>2. PICK x \in Rank, y \in Rank, i \in Nat : At(st, p, x, y, i)
    BY DEF Settled, Once, Only
  <2>3. At(st2, p, x, y, i)'
    <3>1. CASE x = y
      BY <2>1, <2>2, <3>1 DEF At, Keeps
    <3>2. CASE x = n /\ y = m
      <4>1. i \in 1 .. l /\ Completes(st[n][m][i - 1], st[n][m][i], p)
        BY <1>0, <2>2, <3>2 DEF At
      <4>2. i \in 1 .. l + 1 /\ i - 1 \in Nat /\ i - 1 # l + 1 /\ i # l + 1
        BY <1>1, <4>1
      <4> QED BY <1>1, <1>2, <3>2, <4>1, <4>2 DEF At
    <3>3. CASE x # y /\ ~(x = n /\ y = m)
      BY <1>1, <1>2, <2>2, <3>3 DEF At
    <3> QED BY <3>1, <3>2, <3>3
  <2> QED BY <1>4, <2>2, <2>3, PlaceMoved
<1> QED BY <1>3, <1>4 DEF Leaves

\* A word is read: a page that was on its way to the reader still is.
LEMMA PlaceRead ==
  ASSUME TypeOK, TypeOK', NEW st, NEW st2, Settled(st), Settled(st2)', NEW p \in Page,
         NEW n \in Rank, NEW m \in Rank \ {n}, Popped(m, n), Shifted(st, st2, m, n), Elsewhere(n),
         Enters(n, st[m][n][0], st[m][n][1], p)
  PROVE  Place(p)' = Place(p)
<1>1. PICK l \in Nat \ {0} : l = Len(chan[m][n])
  BY DEF Popped
<1>2. /\ Len(chan'[m][n]) = l - 1
      /\ \A x, y \in Rank : x # m \/ y # n => chan'[x][y] = chan[x][y]
  BY <1>1 DEF Popped
<1>3. /\ \A x, y \in Rank : x # m \/ y # n => st2[x][y] = st[x][y]
      /\ \A i \in Nat : st2[m][n][i] = st[m][n][i + 1]
  BY DEF Shifted
<1>4. CASE Completes(st[m][n][0], st[m][n][1], p) /\ Installs(n, p)' /\ ~Holds(n, p)'
  <2>1. 1 \in 1 .. l /\ 1 - 1 = 0 /\ 1 \in Nat /\ 1 # 0
    BY <1>1
  <2>2. At(st, p, m, n, 1)
    BY <1>1, <1>4, <2>1 DEF At
  <2>3. At(st2, p, n, n, 1)'
    BY <1>4 DEF At
  <2> QED BY <2>1, <2>2, <2>3, PlaceMoved
<1>5. CASE ~Completes(st[m][n][0], st[m][n][1], p) /\ Keeps(n, p)
  <2>1. \A k \in Rank : Keeps(k, p)
    BY <1>5, KeepsAll
  <2>2. PICK x \in Rank, y \in Rank, i \in Nat : At(st, p, x, y, i)
    BY DEF Settled, Once, Only
  <2>3. CASE x = y
    <3>1. At(st2, p, x, y, i)'
      BY <2>1, <2>2, <2>3 DEF At, Keeps
    <3> QED BY <2>2, <3>1, PlaceMoved
  <2>4. CASE x # y /\ ~(x = m /\ y = n)
    <3>1. At(st2, p, x, y, i)'
      BY <1>2, <1>3, <2>2, <2>4 DEF At
    <3> QED BY <2>2, <3>1, PlaceMoved
  <2>5. CASE x = m /\ y = n
    <3>1. i \in 1 .. l /\ Completes(st[m][n][i - 1], st[m][n][i], p)
      BY <1>1, <2>2, <2>5 DEF At
    <3>2. i # 1
      <4>1. 1 - 1 = 0
        OBVIOUS
      <4> QED BY <1>5, <3>1, <4>1
    <3>3. PICK j \in Nat : i = j + 1 /\ j \in 1 .. l - 1
      <4>1. i - 1 \in Nat /\ i = (i - 1) + 1 /\ i - 1 \in 1 .. l - 1
        BY <3>1, <3>2, <1>1
      <4> QED BY <4>1
    <3>4. j - 1 \in Nat /\ (j - 1) + 1 = j /\ (j + 1) - 1 = j
      BY <3>3
    <3>5. st2[m][n][j - 1] = st[m][n][j] /\ st2[m][n][j] = st[m][n][j + 1]
      BY <1>3, <3>4
    <3>6. At(st2, p, m, n, j)'
      BY <1>2, <3>1, <3>3, <3>4, <3>5 DEF At
    <3> QED BY <2>2, <2>5, <3>6, PlaceMoved
  <2> QED BY <2>3, <2>4, <2>5
<1> QED BY <1>4, <1>5 DEF Enters


\* The steps of the abstract specification in terms of the state of DsmNode.
LEMMA SharedPages == Shared \subseteq Page /\ Shared' = Shared
BY NodeAssumption DEF Shared

LEMMA NotSeen ==
  ASSUME \A p \in Shared : Place(p)' = Place(p), \A n \in Rank : Asking(n)' = Asking(n)
  PROVE  Ownership!AbsNext
BY SharedPages DEF Ownership!AbsNext, Ownership!avars

LEMMA SeenAsking ==
  ASSUME \A q \in Shared : Place(q)' = Place(q), NEW n \in Rank, NEW p \in Shared,
         Place(p) # [node |-> n, there |-> TRUE], p \notin Asking(n),
         Asking(n)' = Asking(n) \cup {p}, \A k \in Rank \ {n} : Asking(k)' = Asking(k)
  PROVE  Ownership!AbsNext
<1>1. Ownership!Ask(n, p)
  BY SharedPages DEF Ownership!Ask, Ownership!At
<1> QED BY <1>1 DEF Ownership!AbsNext

LEMMA SeenGiving ==
  ASSUME NEW n \in Rank, NEW m \in Rank \ {n}, NEW p \in Shared, p \in Asking(m),
         Place(p) = [node |-> n, there |-> TRUE], Place(p)' = [node |-> m, there |-> FALSE],
         \A q \in Shared \ {p} : Place(q)' = Place(q), \A k \in Rank : Asking(k)' = Asking(k)
  PROVE  Ownership!AbsNext
<1> DEFINE was == [q \in Shared |-> Place(q)]
           asks == [k \in Rank |-> Asking(k)]
<1>1. Ownership!Give(m, p)
  <2>1. p \in asks[m] /\ was[p] = [node |-> n, there |-> TRUE]
    OBVIOUS
  <2>2. was[p].there = TRUE /\ was[p].node = n
    BY <2>1
  <2>3. was' = [was EXCEPT ![p] = [node |-> m, there |-> FALSE]]
    BY SharedPages
  <2>4. asks' = asks
    OBVIOUS
  <2> HIDE DEF was, asks
  <2>5. p \in asks[m] /\ was[p].there /\ was[p].node # m
    BY <2>1, <2>2
  <2> USE DEF was, asks
  <2> QED BY ONLY <2>3, <2>4, <2>5 DEF Ownership!Give
<1> QED BY <1>1 DEF Ownership!AbsNext

LEMMA SeenArriving ==
  ASSUME NEW n \in Rank, NEW p \in Shared,
         Place(p) = [node |-> n, there |-> FALSE], Place(p)' = [node |-> n, there |-> TRUE],
         \A q \in Shared \ {p} : Place(q)' = Place(q),
         Asking(n)' \in {Asking(n), Asking(n) \ {p}}, \A k \in Rank \ {n} : Asking(k)' = Asking(k)
  PROVE  Ownership!AbsNext
<1> DEFINE was == [q \in Shared |-> Place(q)]
           asks == [k \in Rank |-> Asking(k)]
<1>1. Ownership!Arrive(n, p)
  <2>1. was[p] = [node |-> n, there |-> FALSE]
    OBVIOUS
  <2>2. [was[p] EXCEPT !.there = TRUE] = [node |-> n, there |-> TRUE]
    <3>1. \A old, x, y : old = [node |-> n, there |-> x] =>
            [old EXCEPT !.there = y] = [node |-> n, there |-> y]
      BY ONLY TRUE
    <3> HIDE DEF was
    <3> QED BY <2>1, <3>1
  <2>3. was' = [was EXCEPT ![p] = [node |-> n, there |-> TRUE]]
    BY SharedPages
  <2>4. was' = [was EXCEPT ![p].there = TRUE]
    <3>1. was' = [was EXCEPT ![p] = [was[p] EXCEPT !.there = TRUE]]
      BY <2>2, <2>3
    <3> HIDE DEF was
    <3> QED BY <3>1
  <2>5. asks' \in {asks, [asks EXCEPT ![n] = @ \ {p}]}
    OBVIOUS
  <2> QED BY ONLY <2>1, <2>4, <2>5 DEF Ownership!Arrive
<1> QED BY <1>1 DEF Ownership!AbsNext

LEMMA SeenForgetting ==
  ASSUME \A q \in Shared : Place(q)' = Place(q), NEW n \in Rank, NEW p \in Shared, p \in Asking(n),
         Asking(n)' = Asking(n) \ {p}, \A k \in Rank \ {n} : Asking(k)' = Asking(k)
  PROVE  Ownership!AbsNext
<1>1. Ownership!Forget(n, p)
  BY SharedPages DEF Ownership!Forget
<1> QED BY <1>1 DEF Ownership!AbsNext

\* The user thread only waits for pages that its program accesses.
Waited == \A n \in Rank : main[n].pc \in {"wait", "sleep"} => main[n].page \in Touches[n]

LEMMA WaitedStep ==
  ASSUME TypeOK, Waited, [Next]_vars
  PROVE  Waited'
<1>0. main \in [Rank -> MainState]
  BY DEF TypeOK, MainState
<1>1. CASE UNCHANGED main
  BY <1>1 DEF Waited
<1>2. ASSUME NEW n \in Rank, Exit(n) PROVE Waited'
  BY <1>0, <1>2 DEF Exit, MainAt, Waited, MainState
<1>3. ASSUME NEW n \in Rank, NEW p \in Touches[n], Ask(n, p) PROVE Waited'
  BY <1>0, <1>3 DEF Ask, Waited, MainState
<1>4. ASSUME NEW n \in Rank, MainStep(n) \/ Choice(n) PROVE Waited'
  <2>1. CASE MainWrite(n)
    BY <1>0, <1>2, <2>1 DEF MainWrite, Waited, MainState
  <2>2. CASE EndWait(n)
    BY <1>0, <2>2 DEF EndWait, Waited, MainState
  <2>3. CASE Retry(n)
    <3>1. CASE Ask(n, main[n].page)
      <4>1. PICK p \in Touches[n] : p = main[n].page
        BY <2>3 DEF Retry, Waited
      <4> QED BY <1>3, <3>1, <4>1
    <3>2. CASE main' = [main EXCEPT ![n] = MainAt("run")]
      BY <1>0, <3>2 DEF MainAt, Waited, MainState
    <3> QED BY <2>3, <3>1, <3>2 DEF Retry
  <2>4. CASE CloseNext(n)
    BY <1>0, <1>1, <2>4 DEF CloseNext, Waited, MainState
  <2>5. CASE Fault(n)
    BY <1>3, <2>5 DEF Fault
  <2>6. CASE Finalize(n)
    BY <1>0, <2>6 DEF Finalize, Waited, MainState
  <2>7. CASE StdinEnd(n)
    BY <1>1, <2>7 DEF StdinEnd
  <2> QED BY <1>4, <2>1, <2>2, <2>3, <2>4, <2>5, <2>6, <2>7 DEF MainStep, Choice
<1>5. ASSUME NEW n \in Rank, DaemonStep(n) PROVE Waited'
  <2>1. \/ Exit(n) \/ UNCHANGED main
    BY <1>5, Zenon DEF DaemonStep, DaemonWrite, Poll, Scan, EndScan, RecvType, RecvPageNumber,
                       RecvLength, RecvText, Install, RecvInfoPage, RecvInfoOwner, RecvPageRequest,
                       Misframed, ReadEnds, CopyPage, EndFault, UnmapPage, Inform
  <2> QED BY <1>1, <1>2, <2>1
<1> QED BY <1>1, <1>4, <1>5 DEF Next, vars

\* The page that a process is in the middle of sending is one that the other
\* process asks for.
LEMMA SentIsAsked ==
  ASSUME TypeOK, NEW st, Settled(st), NEW n \in Rank, NEW m \in Rank \ {n}, OneRequest(st, m), Waited,
         NEW a, a = st[n][m][Len(chan[n][m])], a.at \in {"len", "text"}, a.page \in Shared
  PROVE  a.page \in Asking(m)
<1>0. st \in Views /\ Framed(st)
  BY DEF Settled
<1>1. PICK l \in Nat : l = Len(chan[n][m])
  BY Channels
<1>2. PICK p \in Shared : p = a.page
  OBVIOUS
\* The reader of m has read up to there.
<1>3. ASSUME NEW e, e = st[n][m][0], e.at \in {"len", "text"}, e.page = p
      PROVE  Filling(m, p)
  <2>1. PICK s \in Rank \ {m} : Link[m][s] = n
    BY Links
  <2>2. Begins(m, s, e)
    BY <1>0, <1>3, <2>1 DEF Framed
  <2> QED BY <1>3, <2>2 DEF Begins, Filling
\* The number of the page is on its way.
<1>4. ASSUME NEW i \in 1 .. l, st[n][m][i].at = "len", st[n][m][i].page = p
      PROVE  p \in Asking(m)
  <2>1. Legal(st[n][m][i - 1], chan[n][m][i], st[n][m][i])
    BY <1>0, <1>1 DEF Framed
  <2>2. st[n][m][i - 1].at = "page" /\ chan[n][m][i].val = p
    BY <1>4, <2>1 DEF Legal
  <2>3. RequestAt(st, m, "page", n, i, p)
    BY <1>1, <2>2 DEF RequestAt
  <2>4. p = main[m].page /\ Awaits(m)
    BY <2>3 DEF OneRequest, Sole
  <2> QED BY <2>4 DEF Awaits, Asking
<1>5. CASE l = 0
  BY <1>1, <1>2, <1>3, <1>5 DEF Asking
<1>6. CASE l # 0 /\ a.at = "len"
  <2>1. l \in 1 .. l
    BY <1>6
  <2> QED BY <1>1, <1>2, <1>4, <1>6, <2>1
<1>7. CASE l # 0 /\ a.at = "text"
  <2>1. l \in 1 .. l /\ l - 1 \in Nat
    BY <1>7
  <2>2. Legal(st[n][m][l - 1], chan[n][m][l], a)
    BY <1>0, <1>1, <2>1 DEF Framed
  <2>3. st[n][m][l - 1].at = "len" /\ st[n][m][l - 1].page = p
    BY <1>2, <1>7, <2>2 DEF Legal
  <2>4. CASE l = 1
    <3>1. l - 1 = 0
      BY <2>4
    <3> QED BY <1>2, <1>3, <2>3, <3>1 DEF Asking
  <2>5. CASE l # 1
    <3>1. l - 1 \in 1 .. l
      BY <1>7, <2>5
    <3> QED BY <1>2, <1>4, <2>3, <3>1
  <2> QED BY <2>4, <2>5
<1> QED BY <1>5, <1>6, <1>7


LEMMA ThereIsMapped ==
  ASSUME TypeOK, NEW st, Settled(st), NEW n \in Rank, NEW p \in Page, Place(p) = [node |-> n, there |-> TRUE]
  PROVE  p \in mapped[n]
<1>1. PICK x \in Rank, y \in Rank, i \in Nat : At(st, p, x, y, i)
  BY DEF Settled, Once, Only
<1>2. Place(p) = [node |-> y, there |-> (x = y /\ i = 0)]
  BY <1>1, PlaceOf DEF Located
<1>3. \A c : Place(p) = [node |-> y, there |-> c] => y = n /\ c = TRUE
  OBVIOUS
<1>4. y = n /\ (x = y /\ i = 0) = TRUE
  BY <1>2, <1>3
<1> QED BY <1>1, <1>4 DEF At, Holds

\* The other processes ask for what they asked for.
LEMMA AskingOfOthers ==
  ASSUME NEW n \in Rank, main'[n].page = main[n].page,
         main'[n].pc \in {"wait", "sleep"} <=> main[n].pc \in {"wait", "sleep"},
         \A p : Filling(n, p)' <=> Filling(n, p)
  PROVE  Asking(n)' = Asking(n)
<1>1. Shared' = Shared
  BY SharedPages
<1>2. \A p : p \in Asking(n)' <=> p \in Asking(n)
  BY <1>1 DEF Asking
<1> QED BY <1>2

\* The user thread asks for a page, or goes on.
LEMMA MainOwnership ==
  ASSUME TypeOK, TypeOK', Shaped, Waited, Together, Together', NEW n \in Rank,
         EndWait(n) \/ Retry(n) \/ CloseNext(n) \/ Choice(n),
         NEW st, Settled(st), Settled(st)', chan' = chan
  PROVE  Ownership!AbsNext
<1>0. main \in [Rank -> MainState]
  BY DEF TypeOK, MainState
<1>1. UNCHANGED <<daemon, mapped>>
  BY DEF EndWait, Retry, CloseNext, Choice, Fault, Finalize, StdinEnd, Ask
<1>2. \A k \in Rank \ {n} : main'[k] = main[k]
  BY <1>0 DEF EndWait, Retry, CloseNext, Choice, Fault, Finalize, StdinEnd, Ask
<1>3. \A k \in Rank : \A p : (Filling(k, p)' <=> Filling(k, p)) /\ Keeps(k, p)
  BY <1>1 DEF Filling, Keeps, Holds, Sent, Installs
<1>4. \A p \in Shared : Place(p)' = Place(p)
  BY <1>3, PlaceKept, SharedPages
<1>5. \A k \in Rank \ {n} : Asking(k)' = Asking(k)
  BY <1>2, <1>3, AskingOfOthers
<1>6. ASSUME main'[n].page = main[n].page, main'[n].pc \in {"wait", "sleep"} <=> main[n].pc \in {"wait", "sleep"}
      PROVE  Ownership!AbsNext
  BY <1>3, <1>4, <1>5, <1>6, AskingOfOthers, NotSeen
<1>7. ASSUME NEW p \in Page, Ask(n, p) PROVE main'[n].pc = "wait" /\ main'[n].page = p
  BY <1>0, <1>7 DEF Ask
<1>8. CASE EndWait(n)
  <2>1. main'[n].pc = "sleep" /\ main'[n].page = main[n].page /\ main[n].pc = "wait"
    BY <1>0, <1>8 DEF EndWait, MainState
  <2> QED BY <1>6, <2>1
<1>9. CASE Retry(n)
  <2>1. main[n].pc = "sleep" /\ main[n].page \in Page
    BY <1>0, <1>9 DEF Retry, MainState
  <2>2. CASE Ask(n, main[n].page)
    BY <1>6, <1>7, <2>1, <2>2
  <2>3. CASE main' = [main EXCEPT ![n] = MainAt("run")]
    <3>1. PICK p \in Shared : p = main[n].page
      BY <2>1 DEF Waited, Shared
    <3>2. main'[n].pc = "run"
      BY <1>0, <2>3 DEF MainAt
    <3>3. p \in Asking(n)
      BY <2>1, <3>1 DEF Asking
    <3>4. \A q : q \in Asking(n)' <=> q \in Asking(n) /\ (q # p \/ Filling(n, p))
      BY <1>3, <2>1, <3>1, <3>2, SharedPages DEF Asking
    <3>5. CASE Filling(n, p)
      <4>1. Asking(n)' = Asking(n)
        BY <3>4, <3>5
      <4> QED BY <1>4, <1>5, <4>1, NotSeen
    <3>6. CASE ~Filling(n, p)
      <4>1. Asking(n)' = Asking(n) \ {p}
        BY <3>4, <3>6
      <4> QED BY <1>4, <1>5, <3>3, <4>1, SeenForgetting
    <3> QED BY <3>5, <3>6
  <2> QED BY <1>9, <2>2, <2>3 DEF Retry
<1>10. CASE Fault(n)
  <2>1. PICK p \in Touches[n] \ mapped[n] : Ask(n, p)
    BY <1>10 DEF Fault
  <2>2. p \in Shared /\ p \in Page
    BY <2>1, SharedPages DEF Shared
  <2>3. main[n].pc = "run" /\ main'[n].pc = "wait" /\ main'[n].page = p
    BY <1>7, <1>10, <2>1, <2>2 DEF Fault
  <2>4. ~Filling(n, p)
    BY <2>1, <2>2 DEF Shaped, DaemonPlace, Filling
  <2>5. p \notin Asking(n)
    BY <2>3, <2>4 DEF Asking
  <2>6. \A q : q \in Asking(n)' <=> q \in Asking(n) \/ q = p
    BY <1>3, <2>2, <2>3, SharedPages DEF Asking
  <2>7. Asking(n)' = Asking(n) \cup {p}
    BY <2>6
  <2>8. Place(p) # [node |-> n, there |-> TRUE]
    BY <2>1, <2>2, ThereIsMapped
  <2> QED BY <1>4, <1>5, <2>2, <2>5, <2>7, <2>8, SeenAsking
<1>11. CASE CloseNext(n)
  BY <1>11 DEF CloseNext, Together
<1>12. CASE Finalize(n)
  <2>1. main'[n].pc = "closing"
    BY <1>0, <1>12 DEF Finalize, MainState
  <2> QED BY <2>1 DEF Together
<1>13. CASE StdinEnd(n)
  <2>1. main' = main
    BY <1>13 DEF StdinEnd
  <2> QED BY <1>6, <2>1
<1> QED BY <1>8, <1>9, <1>10, <1>11, <1>12, <1>13 DEF Choice

\* A thread writes: with the last word of a page message the page is given
\* to the process that asks for it.
LEMMA WriteOwnership ==
  ASSUME TypeOK, TypeOK', Waited, NobodyTrapped, NEW n \in Rank,
         NEW st, NEW st2, NEW out, Settled(st), Settled(st2)', Tracked(st), WroteFirst(n, st, st2, out),
         \A k \in Rank : Asking(k)' = Asking(k)
  PROVE  Ownership!AbsNext
<1>1. CASE st2 = st /\ chan' = chan /\ \A p \in Page : Keeps(n, p)
  <2>1. Elsewhere(n)
    BY DEF WroteFirst
  <2>2. ASSUME NEW p \in Shared PROVE Place(p)' = Place(p)
    <3>1. p \in Page
      BY SharedPages
    <3>2. \A k \in Rank : Keeps(k, p)
      BY <1>1, <2>1, <3>1, KeepsAll
    <3> QED BY <1>1, <3>1, <3>2, PlaceKept
  <2> QED BY <2>2, NotSeen
<1>2. ASSUME NEW r, NEW b, Writes(n, st, r, Head(out).word, b),
             Extended(st, st2, n, Link[n][r], Len(chan[n][Link[n][r]]) + 1, b),
             \A p \in Page : Leaves(n, st[n][Link[n][r]][Len(chan[n][Link[n][r]])], b, p)
      PROVE  Ownership!AbsNext
  <2>0. PICK m, w, k : m = Link[n][r] /\ w = Head(out).word /\ k = Len(chan[n][m]) + 1
    OBVIOUS
  <2>1. PICK a : a = st[n][m][Len(chan[n][m])]
    OBVIOUS
  <2>2. m \in Rank \ {n} /\ Pushed(n, m, w) /\ Elsewhere(n) /\ Extended(st, st2, n, m, k, b)
    BY <1>2, <2>0, Links, Zenon DEF Writes, WroteFirst
  <2>3. \A p \in Page : Leaves(n, a, b, p)
    BY <1>2, <2>0, <2>1
  <2>4. ASSUME NEW p \in Page
        PROVE  \/ ~Completes(a, b, p) /\ Place(p)' = Place(p)
               \/ /\ Completes(a, b, p) /\ Place(p) = [node |-> n, there |-> TRUE]
                  /\ Place(p)' = [node |-> m, there |-> FALSE]
    <3>1. Leaves(n, a, b, p)
      BY <2>3
    <3> HIDE <2>3, <1>2
    <3> QED BY <2>0, <2>1, <2>2, <3>1, PlaceWritten, Zenon
  <2>5. CASE \A p \in Shared : ~Completes(a, b, p)
    <3>1. \A p \in Shared : Place(p)' = Place(p)
      BY <2>4, <2>5, SharedPages
    <3> QED BY <3>1, NotSeen
  <2>6. ASSUME NEW p \in Shared, Completes(a, b, p) PROVE Ownership!AbsNext
    <3>1. p = a.page /\ a.at \in {"len", "text"} /\ \A q \in Shared \ {p} : ~Completes(a, b, q)
      BY <2>6 DEF Completes
    <3>2. OneRequest(st, m)
      BY <2>2 DEF Tracked, NobodyTrapped
    <3>3. p \in Asking(m)
      BY <2>0, <2>1, <2>2, <3>1, <3>2, SentIsAsked, Zenon
    <3>4. Place(p) = [node |-> n, there |-> TRUE] /\ Place(p)' = [node |-> m, there |-> FALSE]
      BY <2>4, <2>6, SharedPages
    <3>5. \A q \in Shared \ {p} : Place(q)' = Place(q)
      BY <2>4, <3>1, SharedPages
    <3> QED BY <2>2, <3>3, <3>4, <3>5, SeenGiving
  <2> QED BY <2>5, <2>6
<1> QED BY <1>1, <1>2, Zenon DEF WroteFirst


\* The daemon, when it neither reads nor writes: a page arrives with Install.
LEMMA SilentOwnership ==
  ASSUME TypeOK, TypeOK', Shaped, Together', NEW n \in Rank, NEW st, Settled(st),
         \/ Poll(n) \/ Scan(n) \/ EndScan(n) \/ Install(n) \/ ReadEnds(n)
         \/ CopyPage(n) \/ EndFault(n) \/ UnmapPage(n) \/ Inform(n)
  PROVE  Ownership!AbsNext
<1>0. UNCHANGED <<main, chan>> /\ ~Exit(n) /\ daemon \in [Rank -> DaemonState]
  BY PollSilent, EndSilent, CopySilent, UnmapSilent, NoExit DEF TypeOK, DaemonState
<1>1. /\ Settled(st)' /\ Elsewhere(n)
      /\ \A p \in Page : Keeps(n, p) \/ (Install(n) /\ Installed(n, p))
      /\ Install(n) \/ (daemon[n].pc \notin Fills /\ daemon'[n].pc \notin Fills)
  BY DaemonSettled
<1>2. \A k \in Rank \ {n} : Asking(k)' = Asking(k)
  <2>1. ASSUME NEW k \in Rank \ {n} PROVE Asking(k)' = Asking(k)
    <3>1. daemon'[k] = daemon[k]
      BY <1>1 DEF Elsewhere
    <3> QED BY <1>0, <3>1, AskingOfOthers DEF Filling
  <2> QED BY <2>1
<1>3. ASSUME NEW p \in Page, Keeps(n, p) PROVE Place(p)' = Place(p)
  <2>1. \A k \in Rank : Keeps(k, p)
    BY <1>1, <1>3, KeepsAll
  <2> QED BY <1>0, <1>1, <2>1, PlaceKept
<1>4. CASE ~Install(n)
  <2>1. \A p \in Shared : Place(p)' = Place(p)
    BY <1>1, <1>3, <1>4, SharedPages
  <2>2. Asking(n)' = Asking(n)
    BY <1>0, <1>1, <1>4, AskingOfOthers DEF Filling, Fills
  <2> QED BY <1>2, <2>1, <2>2, NotSeen
<1>5. CASE Install(n)
  <2>1. daemon[n].pc = "install" /\ daemon' = [daemon EXCEPT ![n] = Resume(n)]
    BY <1>0, <1>5 DEF Install
  <2>2. daemon'[n].pc = "scan"
    BY <2>1, Resumed
  <2>3. PICK p : p = daemon[n].page
    OBVIOUS
  <2>4. \A q : ~Filling(n, q)' /\ (Filling(n, q) <=> q = p) /\ (Installs(n, q) => q = p)
    BY <2>1, <2>2, <2>3 DEF Filling, Installs
  <2>5. \A q \in Page \ {p} : Place(q)' = Place(q)
    BY <1>1, <1>3, <2>4 DEF Installed
  <2>6. \A q : q \in Asking(n)' <=> q \in Shared /\ main[n].pc \in {"wait", "sleep"} /\ main[n].page = q
    BY <1>0, <2>4, SharedPages DEF Asking
  <2>7. \A q : q \in Asking(n) <=> q \in Shared /\ (q = p \/ (main[n].pc \in {"wait", "sleep"} /\ main[n].page = q))
    BY <2>4 DEF Asking
  <2>8. CASE p \in Shared
    <3>1. p \in Page
      BY <2>8, SharedPages
    <3>2. ~Keeps(n, p)
      BY <2>1, <2>2, <2>3 DEF Keeps, Installs
    <3>3. Place(p) = [node |-> n, there |-> FALSE] /\ Place(p)' = [node |-> n, there |-> TRUE]
      BY <1>0, <1>1, <3>1, <3>2, PlaceInstalled
    <3>4. Asking(n)' \in {Asking(n), Asking(n) \ {p}}
      <4>1. CASE main[n].pc \in {"wait", "sleep"} /\ main[n].page = p
        <5>1. Asking(n)' = Asking(n)
          BY <2>6, <2>7, <4>1
        <5> QED BY <5>1
      <4>2. CASE ~(main[n].pc \in {"wait", "sleep"} /\ main[n].page = p)
        <5>1. Asking(n)' = Asking(n) \ {p}
          BY <2>6, <2>7, <4>2
        <5> QED BY <5>1
      <4> QED BY <4>1, <4>2
    <3>5. \A q \in Shared \ {p} : Place(q)' = Place(q)
      BY <2>5, SharedPages
    <3> QED BY <1>2, <2>8, <3>3, <3>4, <3>5, SeenArriving
  <2>9. CASE p \notin Shared
    <3>1. \A q \in Shared : Place(q)' = Place(q)
      BY <2>5, <2>9, SharedPages
    <3>2. Asking(n)' = Asking(n)
      BY <2>6, <2>7, <2>9
    <3> QED BY <1>2, <3>1, <3>2, NotSeen
  <2> QED BY <2>8, <2>9
<1> QED BY <1>4, <1>5

\* The daemon reads: the page whose number it reads is one that n asks for.
LEMMA ReadOwnership ==
  ASSUME TypeOK, TypeOK', Shaped, NEW n \in Rank, NEW st, NEW st2, Settled(st), Settled(st2)',
         Tracked(st), ReadNext(n, st, st2),
         \/ RecvType(n) \/ RecvInfoPage(n) \/ RecvInfoOwner(n) \/ RecvPageRequest(n)
         \/ RecvPageNumber(n) \/ RecvLength(n) \/ RecvText(n)
  PROVE  Ownership!AbsNext
<1>0. daemon \in [Rank -> DaemonState] /\ st \in Views /\ Framed(st)
  BY DEF TypeOK, DaemonState, Settled
<1>1. PICK s, m : s = daemon[n].slot /\ m = Link[n][s] /\ Reads(n, st, s) /\ Shifted(st, st2, m, n)
                  /\ \A p \in Page : Enters(n, st[m][n][0], st[m][n][1], p)
  BY DEF ReadNext
<1>2. s \in Rank \ {n} /\ m \in Rank \ {n} /\ Popped(m, n) /\ Elsewhere(n)
  BY <1>1, Links, Zenon DEF Reads, ReadNext
<1>3. main' = main
  BY DEF RecvType, RecvInfoPage, RecvInfoOwner, RecvPageRequest, RecvPageNumber, RecvLength, RecvText
<1>4. \A p \in Shared : Place(p)' = Place(p)
  BY <1>1, <1>2, PlaceRead, SharedPages
<1>5. \A k \in Rank \ {n} : Asking(k)' = Asking(k)
  <2>1. ASSUME NEW k \in Rank \ {n} PROVE Asking(k)' = Asking(k)
    <3>1. daemon'[k] = daemon[k]
      BY <1>2 DEF Elsewhere
    <3> QED BY <1>3, <3>1, AskingOfOthers DEF Filling
  <2> QED BY <2>1
<1>6. Asking(n)' = Asking(n)
  <2>1. CASE RecvType(n) \/ RecvInfoPage(n) \/ RecvInfoOwner(n) \/ RecvPageRequest(n)
    <3>1. /\ daemon'[n].pc \in {"page", "infoPage", "wanted", "infoOwner", "scan", "copy"}
          /\ daemon[n].pc \in {"type", "infoPage", "infoOwner", "wanted"}
      BY <1>0, <1>1, <2>1, MessageRead
    <3> QED BY <1>3, <3>1, AskingOfOthers DEF Filling
  <2>2. CASE RecvPageNumber(n)
    <3>1. PICK p : p = NextWord(n) /\ p = main[n].page /\ Awaits(n)
      BY <1>0, <2>2, AnswerIsAwaited
    <3>2. daemon[n].pc = "page" /\ daemon'[n].pc = "len" /\ daemon'[n].page = p
      BY <1>0, <2>2, <3>1 DEF RecvPageNumber, Takes, DaemonState
    <3>3. \A q : ~Filling(n, q) /\ (Filling(n, q)' => q = p)
      BY <3>2 DEF Filling
    <3>4. \A q : q \in Asking(n)' <=> q \in Asking(n)
      BY <1>3, <3>1, <3>3, SharedPages DEF Asking, Awaits
    <3> QED BY <3>4
  <2>3. CASE RecvLength(n) \/ RecvText(n)
    <3>1. /\ daemon[n].pc \in {"len", "text"} /\ daemon'[n].pc \in {"text", "install"}
          /\ daemon'[n].page = daemon[n].page
      BY <1>0, <2>3 DEF RecvLength, RecvText, Takes, DaemonState
    <3> QED BY <1>3, <3>1, AskingOfOthers DEF Filling
  <2> QED BY <2>1, <2>2, <2>3
<1> QED BY <1>4, <1>5, <1>6, NotSeen

\* What the threads ask for does not depend on what they have yet to write.
LEMMA AskingWhileWriting ==
  ASSUME TypeOK, Together', NEW n \in Rank, MainWrite(n) \/ DaemonWrite(n)
  PROVE  \A k \in Rank : Asking(k)' = Asking(k)
<1>0. main \in [Rank -> MainState] /\ daemon \in [Rank -> DaemonState] /\ ~Exit(n)
  BY NoExit DEF TypeOK, MainState, DaemonState
<1>1. ASSUME NEW k \in Rank
      PROVE  /\ main'[k].pc = main[k].pc /\ main'[k].page = main[k].page
             /\ daemon'[k].pc = daemon[k].pc /\ daemon'[k].page = daemon[k].page
  <2>1. CASE MainWrite(n)
    <3>1. daemon' = daemon /\ main' = [main EXCEPT ![n].out = Tail(@)]
      BY <1>0, <2>1 DEF MainWrite
    <3> QED BY <1>0, <3>1 DEF MainState
  <2>2. CASE DaemonWrite(n)
    <3>1. main' = main /\ daemon' = [daemon EXCEPT ![n].out = Tail(@)]
      BY <1>0, <2>2 DEF DaemonWrite
    <3> QED BY <1>0, <3>1 DEF DaemonState
  <2> QED BY <2>1, <2>2
<1>2. ASSUME NEW k \in Rank PROVE Asking(k)' = Asking(k)
  BY <1>1, AskingOfOthers DEF Filling
<1> QED BY <1>2

LEMMA OwnershipStep ==
  ASSUME PromptReplies, TypeOK, TypeOK', Served, Waited, StreamsFramed, NobodyTrapped,
         Together, Together', [Next]_vars, ~UNCHANGED vars
  PROVE  Ownership!AbsNext
<1>1. PICK st : Shaped /\ Settled(st) /\ Tracked(st) /\ (Direct => Told(st))
  BY DEF Served
<1>2. st \in Views /\ Framed(st)
  BY <1>1 DEF Settled
<1>3. PICK st2 : Shaped' /\ Settled(st2)' /\ Carried(st, st2)
  BY <1>1, FollowedStep
<1>4. PICK n \in Rank :
       \/ MainWrite(n) /\ WroteFirst(n, st, st2, main[n].out)
       \/ (EndWait(n) \/ Retry(n) \/ CloseNext(n) \/ Choice(n)) /\ st2 = st /\ chan' = chan
       \/ DaemonWrite(n) /\ WroteFirst(n, st, st2, daemon[n].out)
       \/ /\ \/ Poll(n) \/ Scan(n) \/ EndScan(n) \/ Install(n) \/ ReadEnds(n)
             \/ CopyPage(n) \/ EndFault(n) \/ UnmapPage(n) \/ Inform(n)
          /\ st2 = st
       \/ /\ \/ RecvType(n) \/ RecvInfoPage(n) \/ RecvInfoOwner(n) \/ RecvPageRequest(n)
             \/ RecvPageNumber(n) \/ RecvLength(n) \/ RecvText(n)
          /\ ReadNext(n, st, st2)
  BY <1>3 DEF Carried
<1>5. CASE MainWrite(n) /\ WroteFirst(n, st, st2, main[n].out)
  BY <1>1, <1>3, <1>5, AskingWhileWriting, WriteOwnership
<1>6. CASE (EndWait(n) \/ Retry(n) \/ CloseNext(n) \/ Choice(n)) /\ st2 = st /\ chan' = chan
  BY <1>1, <1>2, <1>3, <1>6, MainOwnership
<1>7. CASE DaemonWrite(n) /\ WroteFirst(n, st, st2, daemon[n].out)
  BY <1>1, <1>3, <1>7, AskingWhileWriting, WriteOwnership
<1>8. CASE \/ Poll(n) \/ Scan(n) \/ EndScan(n) \/ Install(n) \/ ReadEnds(n)
           \/ CopyPage(n) \/ EndFault(n) \/ UnmapPage(n) \/ Inform(n)
  BY <1>1, <1>2, <1>8, SilentOwnership
<1>9. CASE /\ \/ RecvType(n) \/ RecvInfoPage(n) \/ RecvInfoOwner(n) \/ RecvPageRequest(n)
              \/ RecvPageNumber(n) \/ RecvLength(n) \/ RecvText(n)
           /\ ReadNext(n, st, st2)
  BY <1>1, <1>2, <1>3, <1>9, ReadOwnership
<1> QED BY <1>4, <1>5, <1>6, <1>7, <1>8, <1>9

LEMMA OwnershipStutters ==
  ASSUME TypeOK, TypeOK', Served, UNCHANGED vars
  PROVE  UNCHANGED Ownership!avars
<1>1. PICK st : Settled(st)
  BY DEF Served
<1>2. UNCHANGED <<main, daemon, mapped, chan>>
  BY DEF vars
<1>3. \A k \in Rank : \A p : (Filling(k, p)' <=> Filling(k, p)) /\ Keeps(k, p)
  BY <1>2 DEF Filling, Keeps, Holds, Sent, Installs
<1>4. Settled(st)'
  <2>1. 0 \in Rank
    BY Ranks
  <2>2. Silent(0) /\ Elsewhere(0)
    BY <1>2 DEF Silent, BeginsStay, EndsStay, OthersStay, Begins, Ends, Owed, Asked, DaemonOwed,
                PageOwed, InfoOwed, Elsewhere
  <2> QED BY <1>1, <1>3, <2>1, <2>2, SettledSilent
<1>5. \A p \in Shared : Place(p)' = Place(p)
  BY <1>1, <1>2, <1>3, <1>4, PlaceKept, SharedPages
<1>6. \A k \in Rank : Asking(k)' = Asking(k)
  BY <1>2, <1>3, AskingOfOthers
<1> QED BY <1>5, <1>6, SharedPages DEF Ownership!avars

LEMMA OwnershipAtFirst == TypeOK /\ Init => Ownership!AbsInit /\ Waited
<1> SUFFICES ASSUME TypeOK, Init PROVE Ownership!AbsInit /\ Waited
  OBVIOUS
<1>1. PICK st : Settled(st)
  BY PlacedAtFirst DEF Placed
<1>2. \A n \in Rank : /\ main[n].pc = "run" /\ daemon[n].pc = "poll"
                      /\ mapped[n] = {p \in Page : p % DSM_NODE_NUM = n}
  BY DEF Init, MainAt, DaemonAt
<1>3. ASSUME NEW p \in Shared PROVE Place(p) = [node |-> p % DSM_NODE_NUM, there |-> TRUE]
  <2>1. p \in Page
    BY SharedPages
  <2>2. PICK h \in Rank : h = p % DSM_NODE_NUM
    BY <2>1, Homes
  <2>3. At(st, p, h, h, 0)
    BY <1>2, <2>1, <2>2 DEF At, Holds, Filling, Sent
  <2>4. Place(p) = [node |-> h, there |-> (h = h /\ 0 = 0)]
    BY <1>1, <2>1, <2>3, PlaceOf DEF Located
  <2> QED BY <2>2, <2>4
<1>4. \A n \in Rank : Asking(n) = {}
  BY <1>2 DEF Asking, Filling
<1>5. Ownership!AbsInit
  BY <1>3, <1>4 DEF Ownership!AbsInit
<1>6. Waited
  BY <1>2 DEF Waited
<1> QED BY <1>5, <1>6

\* The message exchange implements the promise of PageOwnership: when no
\* answer is late, and as long as messages stay whole, nobody leaves and
\* nobody is asked for a page it no longer has, a page moves only from its
\* owner to a process that asks for it, and arrives there.
THEOREM OwnershipImplemented ==
  PromptReplies =>
    (Spec /\ []StreamsFramed /\ []NobodyTrapped /\ []Together => ImplementsOwnership)
<1> SUFFICES ASSUME PromptReplies
             PROVE  Spec /\ []StreamsFramed /\ []NobodyTrapped /\ []Together => ImplementsOwnership
  OBVIOUS
<1>1. Spec => []TypeOK
  BY Typed
<1>2. Init => Served
  BY ServedAtFirst
<1>3. TypeOK /\ Served /\ StreamsFramed /\ Together /\ Together' /\ [Next]_vars => Served'
  BY ServedStep
<1>4. TypeOK /\ Init => Ownership!AbsInit /\ Waited
  BY OwnershipAtFirst
<1>5. TypeOK /\ Waited /\ [Next]_vars => Waited'
  BY WaitedStep
<1>6. TypeOK /\ TypeOK' /\ Served /\ Waited /\ StreamsFramed /\ NobodyTrapped /\ Together /\ Together'
      /\ [Next]_vars => [Ownership!AbsNext]_(Ownership!avars)
  BY OwnershipStep, OwnershipStutters
<1> QED BY <1>1, <1>2, <1>3, <1>4, <1>5, <1>6, PTL DEF Spec, ImplementsOwnership, Ownership!AbsSpec


----------------------------------------------------------------------------
(* Programs for which messages always stay whole                           *)

\* The pages of the other processes that the program of n accesses.
Borrows(n) == {p \in Touches[n] : p % DSM_NODE_NUM # n}

\* No page is accessed by two programs, and a process from which pages are
\* borrowed borrows none itself; no answer is late, every connection is the one
\* it is taken for, what is read beyond the array is no descriptor that kills,
\* and no program ends.
Apart ==
  /\ PromptReplies /\ Direct /\ BadFd \notin WildFds /\ Finalizers = {}
  /\ \A m, n \in Rank : m # n => Touches[m] \cap Touches[n] = {}
  /\ \A n \in Rank : \A p \in Borrows(n) : Borrows(p % DSM_NODE_NUM) = {}

\* The user thread asks for pages it borrows, and asks the process that they
\* were allotted to.
Borrowing(n) ==
  /\ main[n].pc \in {"run", "wait", "sleep"}
  /\ main[n].pc # "run" =>
       main[n].page \in Borrows(n) /\ main[n].asked = main[n].page % DSM_NODE_NUM
  /\ \A p \in Touches[n] \ mapped[n] :
       p % DSM_NODE_NUM # n /\ table[n][p].owner = p % DSM_NODE_NUM

\* The daemon gives away the pages of its own process, to the process whose
\* program accesses them, and receives those that its own program borrows.
Lending(n) ==
  LET d == daemon[n]
  IN  /\ d.pc # "fault"
      /\ d.pc \in {"copy", "unmap", "inform"} =>
           d.page % DSM_NODE_NUM = n /\ d.page \in Touches[d.slot]
      /\ d.pc = "copy" => d.page \in mapped[n]
      /\ d.pc \in {"len", "text", "install"} => d.page \in Borrows(n)
      /\ d.pc = "infoOwner" => d.page \notin Touches[n]
      /\ d.pc = "inform" /\ d.out # << >> => Head(d.out).fd \in (Rank \ {n}) \cup {Stdin}

\* The connection from x to y carries the value v where the view reads at.
Carries(st, x, y, at, v) ==
  \E i \in 1 .. Len(chan[x][y]) : st[x][y][i - 1].at = at /\ chan[x][y][i].val = v

\* Requests go to the process that the page was allotted to, answers come from
\* it, and nobody is informed of a page that its program accesses.
Marked(st) ==
  \A x, y \in Rank : \A v :
    /\ Carries(st, x, y, "wanted", v) => v % DSM_NODE_NUM = y
    /\ Carries(st, x, y, "page", v) => v % DSM_NODE_NUM = x
    /\ Carries(st, x, y, "infoPage", v) => v \notin Touches[y]

\* Page p is at n, which borrows it, or is announced to n.
Coming(st, n, p) == p \in mapped[n] \/ Carries(st, p % DSM_NODE_NUM, n, "page", p)

\* The daemon of h has announced the page that it gives away.
Lent(h) == daemon[h].pc = "unmap" \/ (daemon[h].pc = "copy" /\ daemon[h].out = << >>)

Announced(st) == \A h \in Rank : Lent(h) => Coming(st, daemon[h].slot, daemon[h].page)

\* A page that is borrowed is at home until it is on its way.
Homeward(st) ==
  \A n \in Rank : \A p \in Borrows(n) : p \in mapped[p % DSM_NODE_NUM] \/ Coming(st, n, p)

Sheltered(st) ==
  /\ \A n \in Rank : Borrowing(n) /\ Lending(n)
  /\ Marked(st) /\ Announced(st) /\ Homeward(st)

\* Who lends a page that n borrows, and who accesses it.
LEMMA Lenders ==
  ASSUME Apart, NEW n \in Rank, NEW p \in Borrows(n)
  PROVE  /\ p \in Page /\ p \in Touches[n] /\ p % DSM_NODE_NUM \in Rank \ {n}
         /\ Borrows(p % DSM_NODE_NUM) = {} /\ \A m \in Rank : p \in Touches[m] => m = n
<1>1. p \in Touches[n] /\ p % DSM_NODE_NUM # n /\ Touches \in [Rank -> SUBSET Page]
  BY NodeAssumption DEF Borrows
<1> QED BY <1>1, Homes DEF Apart

\* The page that a daemon gives away is one that the process on its slot
\* borrows; its own process borrows nothing.
LEMMA Giving ==
  ASSUME Apart, TypeOK, Shaped, NEW n \in Rank, Lending(n), daemon[n].pc \in {"copy", "unmap", "inform"}
  PROVE  /\ daemon[n].slot \in Rank \ {n} /\ daemon[n].page \in Borrows(daemon[n].slot)
         /\ Borrows(n) = {} /\ daemon[n].page % DSM_NODE_NUM = n /\ daemon[n].page \in Page
<1>1. daemon[n].slot \in Rank \ {n}
  <2>1. daemon \in [Rank -> DaemonState]
    BY DEF TypeOK, DaemonState
  <2>2. daemon[n].slot # n
    BY DEF Shaped, DaemonPlace, Busy
  <2> QED BY <2>1, <2>2 DEF DaemonState
<1>2. daemon[n].page % DSM_NODE_NUM = n /\ daemon[n].page \in Touches[daemon[n].slot]
  BY DEF Lending
<1>3. daemon[n].page \in Borrows(daemon[n].slot)
  BY <1>1, <1>2 DEF Borrows
<1> QED BY <1>1, <1>2, <1>3, Lenders

\* Only one thread of a process ever has something to write.
LEMMA OneThread ==
  ASSUME Apart, TypeOK, Shaped, NEW n \in Rank, Borrowing(n), Lending(n)
  PROVE  /\ main[n].out # << >> => daemon[n].pc \notin {"copy", "unmap", "fault", "inform"} /\ daemon[n].out = << >>
         /\ daemon[n].out # << >> => main[n].out = << >> /\ daemon[n].pc \in {"copy", "unmap", "inform"}
<1>1. MainOut(n) /\ DaemonOut(n)
  BY DEF Shaped
<1>2. main[n].out # << >> => main[n].page \in Borrows(n)
  BY <1>1 DEF MainOut, Borrowing
<1>3. daemon[n].pc # "fault"
  BY DEF Lending
<1>4. daemon[n].out # << >> => daemon[n].pc \in {"copy", "unmap", "inform"}
  BY <1>1, <1>3 DEF DaemonOut
<1>5. main[n].out # << >> => daemon[n].pc \notin {"copy", "unmap", "inform"}
  BY <1>2, Giving
<1> QED BY <1>3, <1>4, <1>5

\* That is why messages stay whole; and nobody leaves, or is asked for a page
\* that it no longer has.
LEMMA ShelterFramed ==
  ASSUME Apart, TypeOK, Shaped, \A n \in Rank : Borrowing(n) /\ Lending(n)
  PROVE  StreamsFramed /\ NobodyTrapped /\ Together
<1>1. Together
  BY DEF Together, Borrowing
<1>2. NobodyTrapped
  BY DEF NobodyTrapped, Trapped, Lending
<1>3. ASSUME NEW n \in Rank, NEW s \in Rank \ {n}
      PROVE  /\ ~(WritesTo(main[n].out, s) /\ (WritesTo(daemon[n].out, s) \/ Answering(n, s)))
             /\ ~(WritesTo(daemon[n].out, s) /\ daemon[n].pc = "fault" /\ daemon[n].slot = s)
  <2>1. daemon[n].pc # "fault"
    BY DEF Lending
  <2>2. main[n].out # << >> => daemon[n].pc \notin {"copy", "fault"} /\ daemon[n].out = << >>
    BY OneThread
  <2> QED BY <2>1, <2>2, OutWrites DEF Answering
<1> QED BY <1>1, <1>2, <1>3 DEF StreamsFramed

\* What a step makes of what the connections carry: nothing, a word more from
\* x to y, or a word less.
LEMMA CarriesStays ==
  ASSUME chan' = chan, NEW st
  PROVE  \A x, y, at, v : Carries(st, x, y, at, v)' <=> Carries(st, x, y, at, v)
BY DEF Carries

\* The connection from x to y carries one word more than it did.
Gains(st, st2, x, y, val) ==
  \A c, d \in Rank : \A at, v :
    Carries(st2, c, d, at, v)' <=>
      \/ Carries(st, c, d, at, v)
      \/ c = x /\ d = y /\ at = st[x][y][Len(chan[x][y])].at /\ v = val

LEMMA CarriesPushed ==
  ASSUME NEW x \in Rank, NEW y \in Rank, NEW w, Pushed(x, y, w), NEW st, NEW st2, NEW b, NEW k,
         k = Len(chan[x][y]) + 1, Extended(st, st2, x, y, k, b)
  PROVE  Gains(st, st2, x, y, w.val)
<1>l. PICK l : l = Len(chan[x][y])
  OBVIOUS
<1>0. l \in Nat /\ Len(chan'[x][y]) = l + 1 /\ chan'[x][y][l + 1] = w
      /\ (\A j \in 1 .. l : chan'[x][y][j] = chan[x][y][j])
      /\ (\A c, d \in Rank : c # x \/ d # y => chan'[c][d] = chan[c][d])
  BY <1>l DEF Pushed
<1>1. (\A c, d \in Rank : c # x \/ d # y => st2[c][d] = st[c][d])
      /\ (\A j \in Nat : j # l + 1 => st2[x][y][j] = st[x][y][j])
  BY <1>l DEF Extended
<1>2. \A j \in 1 .. l : j - 1 \in Nat /\ j - 1 # l + 1
  BY <1>0
<1>3. ASSUME NEW c \in Rank, NEW d \in Rank, NEW at, NEW v
      PROVE  Carries(st2, c, d, at, v)' <=>
               \/ Carries(st, c, d, at, v)
               \/ c = x /\ d = y /\ at = st[x][y][Len(chan[x][y])].at /\ v = w.val
  <2>1. CASE c # x \/ d # y
    BY <1>0, <1>1, <2>1 DEF Carries
  <2>2. CASE c = x /\ d = y
    <3>1. ASSUME NEW j \in 1 .. l
          PROVE  (st2[x][y][j - 1].at = at /\ chan'[x][y][j].val = v) <=>
                 (st[x][y][j - 1].at = at /\ chan[x][y][j].val = v)
      BY <1>0, <1>1, <1>2
    <3>2. (l + 1) - 1 = l /\ l # l + 1 /\ l \in Nat
      BY <1>0
    <3>3. (st2[x][y][(l + 1) - 1].at = at /\ chan'[x][y][l + 1].val = v) <=>
          (st[x][y][l].at = at /\ w.val = v)
      BY <1>0, <1>1, <3>2
    <3>4. \A j : j \in 1 .. l + 1 <=> (j \in 1 .. l \/ j = l + 1)
      BY <1>0
    <3> QED BY <1>l, <1>0, <2>2, <3>1, <3>3, <3>4 DEF Carries
  <2> QED BY <2>1, <2>2
<1> QED BY <1>3 DEF Gains

LEMMA CarriesPopped ==
  ASSUME NEW x \in Rank, NEW y \in Rank \ {x}, Popped(y, x), NEW st, NEW st2, Shifted(st, st2, y, x)
  PROVE  \A c, d \in Rank : \A at, v :
           /\ Carries(st2, c, d, at, v)' => Carries(st, c, d, at, v)
           /\ Carries(st, c, d, at, v) =>
                \/ Carries(st2, c, d, at, v)'
                \/ c = y /\ d = x /\ at = st[y][x][0].at /\ v = chan[y][x][1].val
<1>0. PICK l \in Nat \ {0} : l = Len(chan[y][x])
  BY DEF Popped
<1>1. Len(chan'[y][x]) = l - 1
      /\ (\A j \in 1 .. l - 1 : chan'[y][x][j] = chan[y][x][j + 1])
      /\ (\A c, d \in Rank : c # y \/ d # x => chan'[c][d] = chan[c][d])
  BY <1>0 DEF Popped
<1>2. (\A c, d \in Rank : c # y \/ d # x => st2[c][d] = st[c][d])
      /\ (\A j \in Nat : st2[y][x][j] = st[y][x][j + 1])
  BY DEF Shifted
<1>3. ASSUME NEW c \in Rank, NEW d \in Rank, NEW at, NEW v
      PROVE  /\ Carries(st2, c, d, at, v)' => Carries(st, c, d, at, v)
             /\ Carries(st, c, d, at, v) =>
                  \/ Carries(st2, c, d, at, v)'
                  \/ c = y /\ d = x /\ at = st[y][x][0].at /\ v = chan[y][x][1].val
  <2>1. CASE c # y \/ d # x
    BY <1>1, <1>2, <2>1 DEF Carries
  <2>2. CASE c = y /\ d = x
    <3>1. ASSUME NEW j \in 1 .. l - 1
          PROVE  /\ j + 1 \in 1 .. l
                 /\ (st2[y][x][j - 1].at = at /\ chan'[y][x][j].val = v) <=>
                    (st[y][x][(j + 1) - 1].at = at /\ chan[y][x][j + 1].val = v)
      <4>1. j - 1 \in Nat /\ (j - 1) + 1 = (j + 1) - 1 /\ j + 1 \in 1 .. l
        BY <1>0
      <4>2. st2[y][x][j - 1] = st[y][x][(j - 1) + 1]
        BY <1>2, <4>1
      <4> QED BY <1>1, <4>1, <4>2
    <3>2. ASSUME NEW j \in 1 .. l, j # 1
          PROVE  \E i \in 1 .. l - 1 : j = i + 1
      <4>1. j - 1 \in 1 .. l - 1 /\ j = (j - 1) + 1
        BY <1>0, <3>2
      <4> QED BY <4>1
    <3>3. Carries(st2, c, d, at, v)' => Carries(st, c, d, at, v)
      BY <1>0, <1>1, <2>2, <3>1 DEF Carries
    <3>4. ASSUME NEW j \in 1 .. l, st[y][x][j - 1].at = at, chan[y][x][j].val = v
          PROVE  Carries(st2, c, d, at, v)' \/ (at = st[y][x][0].at /\ v = chan[y][x][1].val)
      <4>1. CASE j = 1
        BY <3>4, <4>1
      <4>2. CASE j # 1
        <5>1. PICK i \in 1 .. l - 1 : j = i + 1
          BY <3>2, <4>2
        <5>2. st2[y][x][i - 1].at = at /\ chan'[y][x][i].val = v
          BY <3>1, <3>4, <5>1
        <5> QED BY <1>1, <2>2, <5>2 DEF Carries
      <4> QED BY <4>1, <4>2
    <3> QED BY <1>0, <2>2, <3>3, <3>4 DEF Carries
  <2> QED BY <2>1, <2>2
<1> QED BY <1>3

\* A step keeps the pages that are borrowed on their way if it neither takes
\* back what was announced, nor unmaps a page that was not.
LEMMA HomewardKept ==
  ASSUME NEW st, NEW st2, Homeward(st),
         \A n \in Rank : \A p \in Borrows(n) :
           /\ Coming(st, n, p) => Coming(st2, n, p)'
           /\ p \in mapped[p % DSM_NODE_NUM] => p \in mapped'[p % DSM_NODE_NUM] \/ Coming(st, n, p)
  PROVE  Homeward(st2)'
<1>1. \A n \in Rank : \A p \in Borrows(n) : p \in mapped'[p % DSM_NODE_NUM] \/ Coming(st2, n, p)'
  BY DEF Homeward
<1>2. \A n : Borrows(n)' = Borrows(n)
  BY DEF Borrows
<1> QED BY <1>1, <1>2 DEF Homeward


\* Where the next words of the threads go.
LEMMA Addressed ==
  ASSUME Apart, TypeOK, Shaped, NEW n \in Rank, Borrowing(n), Lending(n)
  PROVE  /\ main[n].out # << >> => Head(main[n].out).fd \in Rank \ {n}
         /\ daemon[n].out # << >> => Head(daemon[n].out).fd \in (Rank \ {n}) \cup {Stdin}
         /\ daemon[n].out # << >> /\ daemon[n].pc \in {"copy", "unmap"} =>
              Head(daemon[n].out).fd = daemon[n].slot
<1>1. ASSUME main[n].out # << >> PROVE Head(main[n].out).fd \in Rank \ {n}
  <2>1. Head(main[n].out).fd = main[n].asked /\ main[n].pc = "wait"
    BY <1>1, MainHead
  <2> QED BY <2>1, Lenders DEF Borrowing
<1>2. ASSUME daemon[n].out # << >>, daemon[n].pc \in {"copy", "unmap"}
      PROVE  Head(daemon[n].out).fd = daemon[n].slot
  <2>1. PICK s, p : s = daemon[n].slot /\ p = daemon[n].page
    OBVIOUS
  <2>2. DaemonOut(n)
    BY DEF Shaped
  <2>3. CASE daemon[n].pc = "copy"
    <3>1. daemon[n].out \in {<<To(s, Num(SEND_PAGE)), To(s, Num(p))>>, <<To(s, Num(p))>>}
      BY <1>2, <2>1, <2>2, <2>3 DEF DaemonOut
    <3> QED BY <2>1, <3>1, Outs, Outgoing
  <2>4. CASE daemon[n].pc = "unmap"
    <3>1. \/ daemon[n].out = <<To(s, Num(0))>>
          \/ \E l \in Nat \ {0} : daemon[n].out \in {<<To(s, Num(l)), To(s, Text(l))>>, <<To(s, Text(l))>>}
      BY <1>2, <2>1, <2>2, <2>4 DEF DaemonOut
    <3> QED BY <2>1, <3>1, Outs, Outgoing
  <2> QED BY <1>2, <2>3, <2>4
<1>3. ASSUME daemon[n].out # << >> PROVE Head(daemon[n].out).fd \in (Rank \ {n}) \cup {Stdin}
  <2>1. daemon[n].pc \in {"copy", "unmap", "inform"}
    BY <1>3, OneThread
  <2>2. CASE daemon[n].pc = "inform"
    BY <1>3, <2>2 DEF Lending
  <2> QED BY <1>2, <1>3, <2>1, <2>2, Giving
<1> QED BY <1>1, <1>2, <1>3

\* Nobody writes to a socket that is closed, or to a pipe.
LEMMA WritesSafe ==
  ASSUME Apart, Shaped, NEW n \in Rank, NEW fd, fd \in (Rank \ {n}) \cup {Stdin}
  PROVE  ~WriteKills(n, fd)
<1>1. \A k \in Rank : open[k] = Rank \ {k} /\ Stdin \notin open[k]
  BY NodeAssumption DEF Shaped, Rank, Stdin
<1>2. ASSUME fd \in Rank \ {n} PROVE fd \in open[n] /\ Connected(n, fd)
  BY <1>1, <1>2 DEF Connected, Apart, Direct
<1>3. StdinKind[n] # "pipe"
  BY DEF Apart, Direct
<1> QED BY <1>1, <1>2, <1>3 DEF WriteKills

\* Nobody leaves the others.
LEMMA StayTogether ==
  ASSUME Apart, TypeOK, Shaped, \A n \in Rank : Borrowing(n) /\ Lending(n), [Next]_vars
  PROVE  Together'
<1>0. main \in [Rank -> MainState] /\ (\A n \in Rank : main[n].pc \in {"run", "wait", "sleep"})
  BY DEF TypeOK, MainState, Borrowing
<1>1. ASSUME NEW x \in Rank, MainStep(x) \/ Choice(x)
      PROVE  \/ main' = main
             \/ \E r : main' = [main EXCEPT ![x] = r] /\ r.pc \in {"run", "wait", "sleep"}
  <2>1. CASE MainWrite(x)
    <3>1. ~WriteKills(x, Head(main[x].out).fd)
      BY <2>1, Addressed, WritesSafe DEF MainWrite
    <3>2. main' = [main EXCEPT ![x].out = Tail(@)]
      BY <2>1, <3>1 DEF MainWrite
    <3>3. PICK r : r = [main[x] EXCEPT !.out = Tail(@)]
      OBVIOUS
    <3>4. main' = [main EXCEPT ![x] = r] /\ r.pc = main[x].pc
      BY <1>0, <3>2, <3>3 DEF MainState
    <3> QED BY <1>0, <3>4
  <2>2. CASE EndWait(x)
    <3>1. PICK r : r = [main[x] EXCEPT !.pc = "sleep"]
      OBVIOUS
    <3>2. main' = [main EXCEPT ![x] = r] /\ r.pc = "sleep"
      BY <1>0, <2>2, <3>1 DEF EndWait, MainState
    <3> QED BY <3>2
  <2>3. ASSUME NEW p, Ask(x, p)
        PROVE  \E r : main' = [main EXCEPT ![x] = r] /\ r.pc \in {"run", "wait", "sleep"}
    <3>1. PICK fd, r : /\ main' = [main EXCEPT ![x] = r]
                       /\ r = [pc |-> "wait", page |-> p, asked |-> fd, out |-> Request(fd, p)]
      BY <2>3 DEF Ask
    <3>2. r.pc = "wait"
      BY <3>1
    <3> QED BY <3>1, <3>2
  <2>4. CASE Retry(x) \/ Fault(x)
    BY <2>3, <2>4 DEF Retry, Fault, MainAt
  <2>5. ~CloseNext(x) /\ ~Finalize(x)
    BY <1>0 DEF CloseNext, Finalize, Apart
  <2>6. CASE StdinEnd(x)
    BY <2>6 DEF StdinEnd
  <2> QED BY <1>1, <2>1, <2>2, <2>4, <2>5, <2>6 DEF MainStep, Choice
<1>2. ASSUME NEW x \in Rank, DaemonStep(x)
      PROVE  main' = main
  <2>1. CASE DaemonWrite(x)
    <3>1. ~WriteKills(x, Head(daemon[x].out).fd)
      BY <2>1, Addressed, WritesSafe DEF DaemonWrite
    <3> QED BY <2>1, <3>1 DEF DaemonWrite
  <2>2. CASE Poll(x) \/ Scan(x) \/ EndScan(x)
    BY <2>2, Zenon DEF Poll, Scan, EndScan, Apart
  <2>3. CASE Install(x)
    <3>1. daemon[x].page \in Page
      BY <2>3, Lenders DEF Install, Lending
    <3> QED BY <2>3, <3>1 DEF Install
  <2>4. CASE ReadEnds(x)
    <3>1. daemon[x].slot \in Rank /\ open[x] = Rank \ {x}
      BY DEF TypeOK, Shaped
    <3>2. daemon[x].slot # x => daemon[x].slot \in open[x] /\ Connected(x, daemon[x].slot)
      BY <3>1 DEF Connected, Shaped, Apart, Direct
    <3> QED BY <2>4, <3>2 DEF ReadEnds
  <2>5. CASE CopyPage(x)
    <3>1. daemon[x].page \in mapped[x] /\ mapped[x] \subseteq Page
      BY <2>5 DEF CopyPage, Lending, TypeOK
    <3> QED BY <2>5, <3>1 DEF CopyPage
  <2>6. CASE \/ RecvType(x) \/ RecvPageNumber(x) \/ RecvLength(x) \/ RecvText(x)
             \/ RecvInfoPage(x) \/ RecvInfoOwner(x) \/ RecvPageRequest(x) \/ Misframed(x)
             \/ EndFault(x) \/ UnmapPage(x) \/ Inform(x)
    BY <2>6, Zenon DEF RecvType, RecvPageNumber, RecvLength, RecvText, RecvInfoPage, RecvInfoOwner,
                RecvPageRequest, Misframed, EndFault, UnmapPage, Inform
  <2> QED BY <1>2, <2>1, <2>2, <2>3, <2>4, <2>5, <2>6 DEF DaemonStep
<1>3. CASE UNCHANGED vars
  BY <1>0, <1>3 DEF vars, Together
<1>4. CASE Next
  <2>1. PICK x \in Rank : MainStep(x) \/ DaemonStep(x) \/ Choice(x)
    BY <1>4 DEF Next
  <2>2. main' = main \/ \E r : main' = [main EXCEPT ![x] = r] /\ r.pc \in {"run", "wait", "sleep"}
    BY <1>1, <1>2, <2>1
  <2>3. \A n \in Rank : main'[n].pc \in {"run", "wait", "sleep"}
    BY <1>0, <2>2
  <2> QED BY <2>3 DEF Together
<1> QED BY <1>3, <1>4

\* The page that a daemon has announced is one that the other process borrows.
LEMMA LentBorrowed ==
  ASSUME Apart, TypeOK, Shaped, NEW h \in Rank, Lending(h), Lent(h)
  PROVE  daemon[h].slot \in Rank \ {h} /\ daemon[h].page \in Borrows(daemon[h].slot)
BY Giving DEF Lent

LEMMA AnnouncedKept ==
  ASSUME Apart, TypeOK, Shaped, NEW st, NEW st2, Announced(st), \A n \in Rank : Lending(n),
         \A n \in Rank : \A p \in Borrows(n) : Coming(st, n, p) => Coming(st2, n, p)',
         NEW h \in Rank, Lent(h), daemon'[h].slot = daemon[h].slot, daemon'[h].page = daemon[h].page
  PROVE  Coming(st2, daemon[h].slot, daemon[h].page)'
<1>1. PICK s, p : s = daemon[h].slot /\ p = daemon[h].page
  OBVIOUS
<1>2. s \in Rank /\ p \in Borrows(s) /\ Coming(st, s, p)
  BY <1>1, LentBorrowed DEF Announced
<1>3. Coming(st2, s, p)'
  BY <1>2
<1>4. daemon'[h].slot = s /\ daemon'[h].page = p
  BY <1>1
<1> QED BY <1>3, <1>4 DEF Coming

\* A step that touches no channel.
LEMMA ShelterStays ==
  ASSUME Apart, TypeOK, Shaped, NEW st, Sheltered(st), chan' = chan,
         \A n \in Rank : Borrowing(n)' /\ Lending(n)',
         \A n \in Rank : \A p \in Borrows(n) :
           /\ p \in mapped[n] => p \in mapped'[n]
           /\ p \in mapped[p % DSM_NODE_NUM] => p \in mapped'[p % DSM_NODE_NUM] \/ Coming(st, n, p),
         \A h \in Rank : Lent(h)' =>
           Lent(h) /\ daemon'[h].slot = daemon[h].slot /\ daemon'[h].page = daemon[h].page
  PROVE  Sheltered(st)'
<1>1. \A x, y, at, v : Carries(st, x, y, at, v)' <=> Carries(st, x, y, at, v)
  BY CarriesStays
<1>2. \A n \in Rank : \A p \in Borrows(n) : Coming(st, n, p) => Coming(st, n, p)'
  BY <1>1 DEF Coming
<1>3. Marked(st)'
  BY <1>1 DEF Sheltered, Marked
<1>4. Homeward(st)'
  BY <1>2, HomewardKept DEF Sheltered
<1>5. Announced(st)'
  <2>1. ASSUME NEW h \in Rank, Lent(h)' PROVE Coming(st, daemon[h].slot, daemon[h].page)'
    BY <1>2, <2>1, AnnouncedKept DEF Sheltered
  <2> QED BY <2>1 DEF Announced
<1> QED BY <1>3, <1>4, <1>5 DEF Sheltered

\* Word v goes from x to y where the view reads at; it may announce a page.
Fits(x, y, at, v) ==
  /\ at = "wanted" => v % DSM_NODE_NUM = y
  /\ at = "page" => v % DSM_NODE_NUM = x
  /\ at = "infoPage" => v \notin Touches[y]
Announces(x, y, at, v) ==
  \A h \in Rank : Lent(h)' =>
    /\ daemon'[h].slot = daemon[h].slot /\ daemon'[h].page = daemon[h].page
    /\ \/ Lent(h)
       \/ /\ h = x /\ daemon[h].slot = y /\ daemon[h].page % DSM_NODE_NUM = x
          /\ at = "page" /\ v = daemon[h].page
StillApart == \A n \in Rank : Borrowing(n)' /\ Lending(n)'

\* A word is written from x to y.
LEMMA ShelterPushed ==
  ASSUME Apart, TypeOK, Shaped, NEW x \in Rank, NEW y \in Rank, NEW w, Pushed(x, y, w),
         NEW st, NEW st2, NEW b, NEW k, k = Len(chan[x][y]) + 1, Extended(st, st2, x, y, k, b),
         NEW a, a = st[x][y][Len(chan[x][y])].at,
         Sheltered(st), mapped' = mapped, StillApart, Fits(x, y, a, w.val), Announces(x, y, a, w.val)
  PROVE  Sheltered(st2)'
<1>1. \A c, d \in Rank : \A at, v :
        Carries(st2, c, d, at, v)' <=>
          \/ Carries(st, c, d, at, v)
          \/ c = x /\ d = y /\ at = a /\ v = w.val
  <2>1. Gains(st, st2, x, y, w.val)
    BY ONLY CarriesPushed, x \in Rank, y \in Rank, Pushed(x, y, w), k = Len(chan[x][y]) + 1,
            Extended(st, st2, x, y, k, b)
  <2> QED BY <2>1 DEF Gains
<1>2. Marked(st2)'
  BY <1>1 DEF Sheltered, Marked, Fits
<1>3. \A n \in Rank : \A p \in Borrows(n) : Coming(st, n, p) => Coming(st2, n, p)'
  BY <1>1, Lenders DEF Coming
<1>4. Homeward(st2)'
  BY <1>3, HomewardKept DEF Sheltered
<1>5. ASSUME NEW h \in Rank, Lent(h)'
      PROVE  Coming(st2, daemon[h].slot, daemon[h].page)'
  <2>1. daemon'[h].slot = daemon[h].slot /\ daemon'[h].page = daemon[h].page
    BY <1>5 DEF Announces
  <2>2. CASE Lent(h)
    BY <1>3, <2>1, <2>2, AnnouncedKept DEF Sheltered
  <2>3. CASE /\ h = x /\ daemon[h].slot = y /\ daemon[h].page % DSM_NODE_NUM = x
             /\ a = "page" /\ w.val = daemon[h].page
    <3>1. PICK p : p = w.val
      OBVIOUS
    <3>2. Carries(st2, x, y, "page", p)'
      BY <1>1, <2>3, <3>1
    <3> QED BY <2>1, <2>3, <3>1, <3>2 DEF Coming
  <2> QED BY <1>5, <2>2, <2>3 DEF Announces
<1>6. Announced(st2)'
  BY <1>5 DEF Announced
<1> QED BY <1>2, <1>4, <1>6 DEF Sheltered, StillApart

\* The user thread asks the process that the page was allotted to.
LEMMA AskBorrows ==
  ASSUME Apart, TypeOK, NEW n \in Rank, Borrowing(n), NEW p \in Touches[n] \ mapped[n], Ask(n, p)
  PROVE  Borrowing(n)' /\ \A k \in Rank \ {n} : main'[k] = main[k]
<1>0. main \in [Rank -> MainState] /\ Touches[n] \in SUBSET Page
  BY NodeAssumption DEF TypeOK, MainState
<1>1. p \in Borrows(n) /\ p % DSM_NODE_NUM \in Rank \ {n} /\ table[n][p].owner = p % DSM_NODE_NUM
  BY <1>0, Homes DEF Borrowing, Borrows
<1>2. FdOf(n, table[n][p].owner) = {p % DSM_NODE_NUM}
  BY <1>1 DEF FdOf
<1>3. PICK r : /\ main' = [main EXCEPT ![n] = r]
               /\ r = [pc |-> "wait", page |-> p, asked |-> p % DSM_NODE_NUM,
                       out |-> Request(p % DSM_NODE_NUM, p)]
  BY <1>2 DEF Ask
<1>4. r.pc = "wait" /\ r.page = p /\ r.asked = p % DSM_NODE_NUM
  BY <1>3
<1>5. main'[n] = r /\ \A k \in Rank \ {n} : main'[k] = main[k]
  BY <1>0, <1>3
<1>6. mapped' = mapped /\ table' = table
  BY DEF Ask
<1>7. Borrowing(n)'
  BY <1>1, <1>4, <1>5, <1>6 DEF Borrowing, Borrows
<1> QED BY <1>5, <1>7

\* What the user thread of another process asks for.
LEMMA BorrowingOfOther ==
  ASSUME NEW k, Borrowing(k), main'[k].pc = main[k].pc, main'[k].page = main[k].page,
         main'[k].asked = main[k].asked, mapped'[k] = mapped[k], table'[k] = table[k]
  PROVE  Borrowing(k)'
BY DEF Borrowing, Borrows

\* The user thread, when it does not write.
LEMMA MainSilentSheltered ==
  ASSUME Apart, TypeOK, Shaped, Together, Together', NEW x \in Rank, NEW st, Sheltered(st),
         EndWait(x) \/ Retry(x) \/ CloseNext(x) \/ Choice(x)
  PROVE  Sheltered(st)'
<1>0. main \in [Rank -> MainState] /\ Borrowing(x) /\ \A k \in Rank : Borrowing(k)
  BY DEF TypeOK, MainState, Sheltered
<1>1. UNCHANGED <<daemon, mapped, chan>>
  BY MainSilent DEF Choice
<1>2. table' = table
  BY DEF EndWait, Retry, CloseNext, Choice, Fault, Finalize, StdinEnd, Ask
<1>3. (\A k \in Rank \ {x} : main'[k] = main[k]) /\ Borrowing(x)'
  <2>1. CASE EndWait(x)
    <3>1. /\ \A k \in Rank \ {x} : main'[k] = main[k]
          /\ main'[x].pc = "sleep" /\ main'[x].page = main[x].page /\ main'[x].asked = main[x].asked
          /\ main[x].pc = "wait"
      BY <1>0, <2>1 DEF EndWait, MainState
    <3> QED BY <1>0, <1>1, <1>2, <3>1 DEF Borrowing, Borrows
  <2>2. CASE Fault(x)
    BY <1>0, <2>2, AskBorrows DEF Fault
  <2>3. CASE Retry(x)
    <3>1. main[x].asked # Stdin
      <4>1. main[x].asked \in Rank
        BY <1>0, <2>3, Lenders DEF Borrowing, Retry
      <4> QED BY <4>1, NodeAssumption DEF Rank, Stdin
    <3>2. PICK r : main' = [main EXCEPT ![x] = r] /\ r = MainAt("run")
      BY <2>3, <3>1 DEF Retry, Apart
    <3>3. r.pc = "run"
      BY <3>2 DEF MainAt
    <3>4. main'[x] = r /\ \A k \in Rank \ {x} : main'[k] = main[k]
      BY <1>0, <3>2
    <3> QED BY <1>0, <1>1, <1>2, <3>3, <3>4 DEF Borrowing
  <2>4. CASE StdinEnd(x)
    BY <1>0, <1>1, <1>2, <2>4, BorrowingOfOther DEF StdinEnd
  <2>5. ~CloseNext(x) /\ ~Finalize(x)
    BY <1>0 DEF Borrowing, CloseNext, Finalize, Apart
  <2> QED BY <2>1, <2>2, <2>3, <2>4, <2>5 DEF Choice
<1>4. \A k \in Rank : Borrowing(k)'
  BY <1>0, <1>1, <1>2, <1>3, BorrowingOfOther
<1>5. \A k \in Rank : Lending(k)'
  BY <1>1 DEF Sheltered, Lending, Borrows
<1>6. \A h \in Rank : Lent(h)' =>
        Lent(h) /\ daemon'[h].slot = daemon[h].slot /\ daemon'[h].page = daemon[h].page
  BY <1>1 DEF Lent
<1> QED BY <1>1, <1>4, <1>5, <1>6, ShelterStays

\* The user thread writes a word of a request.
LEMMA MainWriteSheltered ==
  ASSUME Apart, TypeOK, Shaped, StreamsFramed, Together', NEW x \in Rank, MainWrite(x),
         NEW st \in Views, Framed(st), NEW st2, WroteFirst(x, st, st2, main[x].out), Sheltered(st)
  PROVE  Sheltered(st2)'
<1>0. main \in [Rank -> MainState] /\ ~Exit(x)
  BY NoExit DEF TypeOK, MainState
<1>1. /\ main[x].out # << >> /\ main' = [main EXCEPT ![x].out = Tail(@)]
      /\ UNCHANGED <<daemon, mapped, table>>
  BY <1>0 DEF MainWrite
<1>2. \A k \in Rank : /\ main'[k].pc = main[k].pc /\ main'[k].page = main[k].page
                      /\ main'[k].asked = main[k].asked
  BY <1>0, <1>1 DEF MainState
<1>3. \A k \in Rank : Borrowing(k)' /\ Lending(k)'
  <2>1. ASSUME NEW k \in Rank PROVE Borrowing(k)'
    BY <1>1, <1>2, BorrowingOfOther DEF Sheltered
  <2> QED BY <1>1, <2>1 DEF Sheltered, Lending, Borrows
<1>4. \A h \in Rank : Lent(h)' =>
        Lent(h) /\ daemon'[h].slot = daemon[h].slot /\ daemon'[h].page = daemon[h].page
  BY <1>1 DEF Lent
<1>5. CASE st2 = st /\ chan' = chan
  BY <1>1, <1>3, <1>4, <1>5, ShelterStays
<1>6. CASE \E r, b : /\ r = Head(main[x].out).fd /\ Writes(x, st, r, Head(main[x].out).word, b)
                     /\ Extended(st, st2, x, Link[x][r], Len(chan[x][Link[x][r]]) + 1, b)
  <2>1. PICK r, b, w, y, l : /\ r = Head(main[x].out).fd /\ w = Head(main[x].out).word
                             /\ y = Link[x][r] /\ l = Len(chan[x][y])
                             /\ Writes(x, st, r, w, b) /\ Extended(st, st2, x, y, l + 1, b)
    BY <1>6, Zenon
  <2>2. r \in Rank \ {x} /\ y \in Rank \ {x} /\ y = r /\ Pushed(x, y, w)
    <3>1. r \in Rank \ {x} /\ y \in Rank \ {x} /\ Pushed(x, y, w)
      BY <2>1, Links, Zenon DEF Writes
    <3>2. Link[x][r] = r
      BY <3>1 DEF Apart, Direct
    <3> QED BY <2>1, <3>1, <3>2
  <2>3. DaemonOwed(x, r) = "type"
    BY <1>1, <2>1, <2>2, MainHead, DaemonSilent
  <2>4. PICK a : a = st[x][y][l] /\ Ends(x, r, a)
    BY <2>1, <2>2, ViewEnds, Zenon
  <2>5. a.at \notin {"page", "infoPage"}
    BY <2>3, <2>4 DEF Ends, Owed
  <2>6. ASSUME a.at = "wanted" PROVE w.val % DSM_NODE_NUM = y
    <3>1. Len(main[x].out) = 1
      BY <2>3, <2>4, <2>6 DEF Ends, Owed, Asked
    <3>2. /\ Head(main[x].out).word = Num(main[x].page) /\ Head(main[x].out).fd = main[x].asked
          /\ main[x].pc = "wait"
      BY <1>1, <3>1, MainHead
    <3>3. w.val = main[x].page /\ y = main[x].asked
      BY <2>1, <2>2, <3>2, Outgoing
    <3> QED BY <3>2, <3>3 DEF Sheltered, Borrowing
  <2>7. PICK k, at : /\ k = Len(chan[x][y]) + 1 /\ Extended(st, st2, x, y, k, b) /\ y \in Rank
                     /\ at = st[x][y][Len(chan[x][y])].at /\ Pushed(x, y, w)
    BY <2>1, <2>2, Zenon
  <2>8. Fits(x, y, at, w.val) /\ StillApart
    BY <1>3, <2>1, <2>4, <2>5, <2>6, <2>7, Zenon DEF Fits, StillApart
  <2>9. mapped' = mapped /\ Announces(x, y, at, w.val)
    BY <1>1, <1>4 DEF Announces
  <2> QED BY ONLY Apart, TypeOK, Shaped, x \in Rank, Sheltered(st), <2>7, <2>8, <2>9, ShelterPushed
<1> QED BY <1>5, <1>6 DEF WroteFirst

\* The daemon writes a word of an answer or of an information.
LEMMA DaemonWriteSheltered ==
  ASSUME Apart, TypeOK, Shaped, StreamsFramed, Together', NEW x \in Rank, DaemonWrite(x),
         NEW st \in Views, Framed(st), NEW st2, WroteFirst(x, st, st2, daemon[x].out), Told(st),
         Sheltered(st)
  PROVE  Sheltered(st2)'
<1>0. daemon \in [Rank -> DaemonState] /\ ~Exit(x) /\ DaemonOut(x)
  BY NoExit DEF TypeOK, DaemonState, Shaped
<1>1. /\ daemon[x].out # << >> /\ daemon' = [daemon EXCEPT ![x].out = Tail(@)]
      /\ Delivers(x, Head(daemon[x].out).fd, Head(daemon[x].out).word)
      /\ UNCHANGED <<main, mapped, table>>
  BY <1>0 DEF DaemonWrite
<1>2. /\ daemon'[x].out = Tail(daemon[x].out)
      /\ \A k \in Rank : /\ daemon'[k].pc = daemon[k].pc /\ daemon'[k].slot = daemon[k].slot
                         /\ daemon'[k].page = daemon[k].page
      /\ \A k \in Rank \ {x} : daemon'[k] = daemon[k]
  BY <1>0, <1>1 DEF DaemonState
<1>3. PICK p, s : p = daemon[x].page /\ s = daemon[x].slot
  OBVIOUS
<1>p. /\ daemon[x].pc \in {"copy", "unmap", "inform"} /\ main[x].out = << >>
      /\ s \in Rank \ {x} /\ p \in Borrows(s) /\ p % DSM_NODE_NUM = x
  BY <1>1, <1>3, OneThread, Giving DEF Sheltered
<1>4. \A k \in Rank : Borrowing(k)' /\ Lending(k)'
  <2>1. ASSUME NEW k \in Rank PROVE Borrowing(k)'
    BY <1>1, BorrowingOfOther DEF Sheltered
  <2>2. ASSUME daemon[x].pc = "inform", daemon'[x].out # << >>
        PROVE  Head(daemon'[x].out).fd \in (Rank \ {x}) \cup {Stdin}
    BY <1>1, <1>2, <2>2, InformsOne DEF Sheltered, Lending
  <2>3. Lending(x)'
    BY <1>1, <1>2, <2>2 DEF Sheltered, Lending, Borrows
  <2>4. ASSUME NEW k \in Rank \ {x} PROVE Lending(k)'
    BY <1>1, <1>2 DEF Sheltered, Lending, Borrows
  <2> QED BY <2>1, <2>3, <2>4
\* An announcement is its number of the page.
<1>5. ASSUME daemon[x].pc = "copy"
      PROVE  /\ Len(daemon[x].out) = 1 => Head(daemon[x].out).word = Num(p)
             /\ daemon'[x].out = << >> => Len(daemon[x].out) = 1
  <2>1. PICK a, b : a = To(s, Num(SEND_PAGE)) /\ b = To(s, Num(p))
    OBVIOUS
  <2>2. daemon[x].out \in {<<a, b>>, <<b>>}
    BY <1>0, <1>1, <1>3, <1>5, <2>1 DEF DaemonOut
  <2>3. b.word = Num(p)
    BY <2>1, Outgoing
  <2> QED BY <1>2, <2>2, <2>3, Outs
<1>6. \A h \in Rank : Lent(h)' =>
        /\ daemon'[h].slot = daemon[h].slot /\ daemon'[h].page = daemon[h].page
        /\ Lent(h) \/ (h = x /\ daemon[x].pc = "copy" /\ Len(daemon[x].out) = 1)
  <2>1. Lent(x)' => Lent(x) \/ (daemon[x].pc = "copy" /\ Len(daemon[x].out) = 1)
    BY <1>2, <1>5 DEF Lent
  <2>2. \A h \in Rank \ {x} : Lent(h)' => Lent(h)
    BY <1>2 DEF Lent
  <2> QED BY <1>2, <2>1, <2>2
<1>7. CASE st2 = st /\ chan' = chan
  <2>1. ASSUME daemon[x].pc \in {"copy", "unmap"} PROVE FALSE
    <3>1. Head(daemon[x].out).fd = s
      BY <1>1, <1>3, <2>1, Addressed DEF Sheltered
    <3>2. PICK w \in Word : w = Head(daemon[x].out).word /\ Delivers(x, s, w)
      <4>1. Head(daemon[x].out) \in Output
        BY <1>0, <1>1 DEF DaemonState
      <4> QED BY <1>1, <3>1, <4>1 DEF Output
    <3>3. chan' = [chan EXCEPT ![x][Link[x][s]] = Append(@, w)] /\ Link[x][s] \in Rank
      <4>1. s # Stdin /\ Link[x][s] \in Rank
        <5>1. s # Stdin
          BY <1>p, NodeAssumption DEF Rank, Stdin
        <5> QED BY <1>p, <5>1, Links
      <4>2. open = [k \in Rank |-> Rank \ {k}]
        BY DEF Shaped
      <4>3. s = Stdin \/ chan' = [chan EXCEPT ![x][Link[x][s]] = Append(@, w)]
        BY ONLY <3>2, <4>2, TypeOK, x \in Rank, DeliversTo
      <4> QED BY <4>1, <4>3
    <3>4. Pushed(x, Link[x][s], w)
      BY <3>2, <3>3, Appended
    <3> QED BY <1>7, <3>4 DEF Pushed
  <2>2. \A h \in Rank : Lent(h)' =>
          Lent(h) /\ daemon'[h].slot = daemon[h].slot /\ daemon'[h].page = daemon[h].page
    BY <1>6, <2>1
  <2> QED BY <1>1, <1>4, <1>7, <2>2, ShelterStays
<1>8. CASE \E r, b : /\ r = Head(daemon[x].out).fd /\ Writes(x, st, r, Head(daemon[x].out).word, b)
                     /\ Extended(st, st2, x, Link[x][r], Len(chan[x][Link[x][r]]) + 1, b)
  <2>1. PICK r, b, w, y, l : /\ r = Head(daemon[x].out).fd /\ w = Head(daemon[x].out).word
                             /\ y = Link[x][r] /\ l = Len(chan[x][y])
                             /\ Writes(x, st, r, w, b) /\ Extended(st, st2, x, y, l + 1, b)
    BY <1>8, Zenon
  <2>2. r \in Rank \ {x} /\ y \in Rank \ {x} /\ y = r /\ Pushed(x, y, w)
    <3>1. r \in Rank \ {x} /\ y \in Rank \ {x} /\ Pushed(x, y, w)
      BY <2>1, Links, Zenon DEF Writes
    <3>2. Link[x][r] = r
      BY <3>1 DEF Apart, Direct
    <3> QED BY <2>1, <3>1, <3>2
  <2>3. st[x][y][l].at = DaemonOwed(x, r)
    <3>1. PICK a : a = st[x][y][l] /\ Ends(x, r, a)
      BY <2>1, <2>2, ViewEnds, Zenon
    <3> QED BY <1>p, <3>1, Outs DEF Ends, Owed, Asked
  <2>4. st[x][y][l].at # "wanted"
    BY <1>p, <2>3 DEF DaemonOwed, PageOwed, InfoOwed
  <2>5. st[x][y][l].at = "page" => w.val % DSM_NODE_NUM = x
    <3>1. DaemonOwed(x, r) = "page" => daemon[x].pc = "copy" /\ Len(daemon[x].out) = 1
      BY <1>p DEF DaemonOwed, PageOwed, InfoOwed
    <3>2. daemon[x].pc = "copy" /\ Len(daemon[x].out) = 1 => w.val = p
      BY <1>5, <2>1, Outgoing, Zenon
    <3> QED BY <1>p, <2>3, <3>1, <3>2
  <2>6. st[x][y][l].at = "infoPage" => w.val \notin Touches[y]
    <3>1. DaemonOwed(x, r) = "infoPage" => daemon[x].pc = "inform" /\ Len(daemon[x].out) = 2
      BY <1>p DEF DaemonOwed, PageOwed, InfoOwed
    <3>2. ASSUME daemon[x].pc = "inform", Len(daemon[x].out) = 2
          PROVE  w.val = p /\ r # s
      <4>1. w = Num(p)
        BY <1>1, <1>2, <1>3, <2>1, <3>2, InformsOne, Zenon
      <4>2. r # s
        BY <1>1, <1>3, <2>1, <3>2, Zenon DEF Told
      <4> QED BY <4>1, <4>2, Outgoing
    <3> QED BY <1>p, <2>2, <2>3, <3>1, <3>2, Lenders
  <2>7. \A h \in Rank : Lent(h)' =>
          /\ daemon'[h].slot = daemon[h].slot /\ daemon'[h].page = daemon[h].page
          /\ \/ Lent(h)
             \/ /\ h = x /\ daemon[h].slot = y /\ daemon[h].page % DSM_NODE_NUM = x
                /\ st[x][y][l].at = "page" /\ w.val = daemon[h].page
    <3>1. ASSUME daemon[x].pc = "copy", Len(daemon[x].out) = 1
          PROVE  /\ daemon[x].slot = y /\ daemon[x].page % DSM_NODE_NUM = x
                 /\ st[x][y][l].at = "page" /\ w.val = daemon[x].page
      <4>1. r = s
        BY <1>1, <1>3, <2>1, <3>1, Addressed, Zenon DEF Sheltered
      <4>2. DaemonOwed(x, r) = "page"
        BY <1>3, <3>1, <4>1, Outs DEF DaemonOwed, PageOwed
      <4>3. w.val = p
        BY <1>5, <2>1, <3>1, Outgoing, Zenon
      <4> QED BY <1>3, <1>p, <2>2, <2>3, <4>1, <4>2, <4>3
    <3> QED BY <1>6, <3>1
  <2>8. PICK k, at : /\ k = Len(chan[x][y]) + 1 /\ Extended(st, st2, x, y, k, b) /\ y \in Rank
                     /\ at = st[x][y][Len(chan[x][y])].at /\ at = st[x][y][l].at /\ Pushed(x, y, w)
    BY <2>1, <2>2, Zenon
  <2>9. Fits(x, y, at, w.val) /\ StillApart /\ mapped' = mapped /\ Announces(x, y, at, w.val)
    BY <1>1, <1>4, <2>4, <2>5, <2>6, <2>7, <2>8 DEF Fits, StillApart, Announces
  <2> QED BY ONLY Apart, TypeOK, Shaped, x \in Rank, Sheltered(st), <2>8, <2>9, ShelterPushed
<1> QED BY <1>7, <1>8 DEF WroteFirst

\* The daemon, when it neither reads nor writes.
LEMMA DaemonSilentSheltered ==
  ASSUME Apart, TypeOK, Shaped, Together', NEW x \in Rank, NEW st, Sheltered(st),
         \/ Poll(x) \/ Scan(x) \/ EndScan(x) \/ Install(x) \/ ReadEnds(x)
         \/ CopyPage(x) \/ EndFault(x) \/ UnmapPage(x) \/ Inform(x)
  PROVE  Sheltered(st)'
<1>0. /\ daemon \in [Rank -> DaemonState] /\ mapped \in [Rank -> SUBSET Page] /\ ~Exit(x)
      /\ \A k \in Rank : Borrowing(k) /\ Lending(k)
  BY NoExit DEF TypeOK, DaemonState, Sheltered
<1>d. Direct /\ BadFd \notin WildFds
  BY DEF Apart
<1>1. UNCHANGED <<main, chan>>
  BY PollSilent, EndSilent, CopySilent, UnmapSilent
<1>2. \/ mapped' = mapped
      \/ UnmapPage(x)
  <2>1. CASE Poll(x) \/ Scan(x) \/ EndScan(x) \/ Install(x) \/ ReadEnds(x) \/ CopyPage(x) \/ EndFault(x)
    BY <2>1, PollSilent, EndSilent, CopySilent
  <2>2. CASE Inform(x)
    BY <2>2, Zenon DEF Inform
  <2> QED BY <2>1, <2>2
<1>3. /\ \A k \in Rank \ {x} : daemon'[k] = daemon[k]
      /\ Lending(x)'
      /\ Lent(x)' => Lent(x) /\ daemon'[x].slot = daemon[x].slot /\ daemon'[x].page = daemon[x].page
  <2>1. ASSUME daemon'[x].pc \in {"poll", "scan", "type", "eof"} PROVE Lending(x)' /\ ~Lent(x)'
    BY <2>1 DEF Lending, Lent
  <2>2. CASE Poll(x)
    BY <1>0, <2>1, <2>2 DEF Poll, DaemonState
  <2>3. CASE EndScan(x)
    BY <1>0, <2>1, <2>3 DEF EndScan, DaemonState
  <2>4. CASE Scan(x)
    <3>1. daemon[x].pc = "scan"
      BY <2>4, Zenon DEF Scan
    <3>2. PICK s \in daemon[x].ready :
            \/ HangUp(x, s)
            \/ daemon' = [daemon EXCEPT ![x].pc = "type", ![x].slot = s, ![x].ready = @ \ {s}]
      BY <2>4, Zenon DEF Scan
    <3>3. CASE HangUp(x, s)
      BY <1>0, <2>1, <3>1, <3>3 DEF HangUp, DaemonState
    <3>4. CASE daemon' = [daemon EXCEPT ![x].pc = "type", ![x].slot = s, ![x].ready = @ \ {s}]
      BY <1>0, <2>1, <3>4 DEF DaemonState
    <3> QED BY <3>2, <3>3, <3>4
  <2>5. CASE Install(x)
    <3>1. daemon' = [daemon EXCEPT ![x] = Resume(x)]
      BY <1>0, <2>5 DEF Install
    <3> QED BY <2>1, <3>1, Resumed
  <2>6. CASE ReadEnds(x)
    <3>1. daemon'[x].pc = "eof"
      BY <2>6, EndSilent
    <3> QED BY <1>0, <2>1, <2>6, <3>1 DEF ReadEnds
  <2>7. CASE CopyPage(x)
    <3>1. PICK p, s : p = daemon[x].page /\ s = daemon[x].slot
      OBVIOUS
    <3>2. /\ daemon[x].pc = "copy" /\ daemon[x].out = << >> /\ \A k \in Rank \ {x} : daemon'[k] = daemon[k]
          /\ daemon'[x].slot = s /\ daemon'[x].page = p
          /\ daemon'[x].pc = "unmap" \/ (daemon'[x].pc = "fault" /\ p \in Page \ mapped[x])
      BY <2>7, <3>1, Copies
    <3>3. p \in mapped[x] /\ p % DSM_NODE_NUM = x /\ p \in Touches[s]
      BY <1>0, <3>1, <3>2 DEF Lending
    <3>4. daemon'[x].pc = "unmap"
      BY <3>2, <3>3
    <3>5. Lending(x)'
      BY <3>2, <3>3, <3>4 DEF Lending
    <3> QED BY <3>1, <3>2, <3>5 DEF Lent
  <2>8. ~EndFault(x)
    BY <1>0 DEF EndFault, Lending
  <2>9. CASE UnmapPage(x)
    <3>1. /\ daemon[x].pc = "unmap" /\ daemon[x].out = << >> /\ \A k \in Rank \ {x} : daemon'[k] = daemon[k]
          /\ daemon'[x].slot = daemon[x].slot /\ daemon'[x].page = daemon[x].page
          /\ daemon'[x].pc = "inform" /\ daemon'[x].out = << >>
      BY <1>0, <2>9 DEF UnmapPage, DaemonState
    <3>2. daemon[x].page % DSM_NODE_NUM = x /\ daemon[x].page \in Touches[daemon[x].slot]
      BY <1>0, <3>1 DEF Lending
    <3> QED BY <3>1, <3>2 DEF Lending, Lent
  <2>10. CASE Inform(x)
    <3>1. PICK p, s : p = daemon[x].page /\ s = daemon[x].slot
      OBVIOUS
    <3>2. /\ daemon[x].pc = "inform" /\ \A k \in Rank \ {x} : daemon'[k] = daemon[k]
          /\ daemon'[x].pc \in {"scan", "inform"}
          /\ daemon'[x].pc = "inform" => daemon'[x].slot = s /\ daemon'[x].page = p
      BY <2>10, <3>1, Informs
    <3>3. ASSUME daemon'[x].pc = "inform", daemon'[x].out # << >>
          PROVE  Head(daemon'[x].out).fd \in (Rank \ {x}) \cup {Stdin}
      <4>1. PICK fd \in Fd : Informed(x, fd) /\
              daemon'[x].out = <<To(fd, Num(SEND_INFO)), To(fd, Num(p)), To(fd, Num(s))>>
        BY <2>10, <3>1, <3>3, Informs
      <4>2. Head(daemon'[x].out).fd = fd
        BY <4>1, Outs, Outgoing
      <4>3. fd # x /\ fd # BadFd
        <5>1. daemon[x].index \in Rank => daemon[x].index % DSM_NODE_NUM = daemon[x].index
          BY AtHome
        <5>2. x # BadFd /\ Stdin # BadFd /\ BadFd \notin Rank /\ x # Stdin
          BY NodeAssumption DEF Rank, BadFd, Stdin
        <5>3. x \notin WildFds /\ BadFd \notin WildFds
          BY <1>d DEF Direct
        <5> QED BY <4>1, <5>1, <5>2, <5>3 DEF Informed, FdOf
      <4>4. fd \in (Rank \ {x}) \cup {Stdin}
        BY <4>1, <4>3, NodeAssumption DEF Fd, Rank, Stdin, BadFd
      <4> QED BY <4>2, <4>4
    <3>4. p % DSM_NODE_NUM = x /\ p \in Touches[s]
      BY <1>0, <3>1, <3>2 DEF Lending
    <3> QED BY <2>1, <3>2, <3>3, <3>4 DEF Lending, Lent
  <2> QED BY <2>2, <2>3, <2>4, <2>5, <2>6, <2>7, <2>8, <2>9, <2>10
<1>4. /\ \A k \in Rank \ {x} : mapped'[k] = mapped[k]
      /\ \A p \in mapped[x] \ mapped'[x] : daemon[x].pc = "unmap" /\ p = daemon[x].page
      /\ mapped'[x] \subseteq mapped[x]
  <2>1. CASE UnmapPage(x)
    BY <1>0, <2>1 DEF UnmapPage
  <2> QED BY <1>2, <2>1
<1>5. \A n \in Rank : \A p \in Borrows(n) :
        /\ p \in mapped[n] => p \in mapped'[n]
        /\ p \in mapped[p % DSM_NODE_NUM] => p \in mapped'[p % DSM_NODE_NUM] \/ Coming(st, n, p)
  <2> SUFFICES ASSUME NEW n \in Rank, NEW p \in Borrows(n)
               PROVE  /\ p \in mapped[n] => p \in mapped'[n]
                      /\ p \in mapped[p % DSM_NODE_NUM] =>
                           p \in mapped'[p % DSM_NODE_NUM] \/ Coming(st, n, p)
    OBVIOUS
  <2>1. CASE daemon[x].pc = "unmap"
    <3>1. PICK q, s : q = daemon[x].page /\ s = daemon[x].slot
      OBVIOUS
    <3>2. s \in Rank \ {x} /\ q \in Borrows(s) /\ Borrows(x) = {} /\ q % DSM_NODE_NUM = x
      BY <1>0, <2>1, <3>1, Giving
    <3>3. Coming(st, s, q)
      BY <2>1, <3>1 DEF Sheltered, Announced, Lent
    <3>4. n # x /\ (p = q => n = s)
      BY <3>2, Lenders
    <3> QED BY <1>4, <3>1, <3>2, <3>3, <3>4, Lenders
  <2>2. CASE daemon[x].pc # "unmap"
    BY <1>4, <2>2, Lenders
  <2> QED BY <2>1, <2>2
<1>6. \A k \in Rank : Borrowing(k)'
  <2>1. ASSUME NEW k \in Rank, NEW p \in Touches[k] \ mapped'[k]
        PROVE  p % DSM_NODE_NUM # k /\ table'[k][p].owner = p % DSM_NODE_NUM
    <3>1. p \notin mapped[k]
      <4>1. ASSUME k = x, p \in mapped[x] PROVE FALSE
        <5>1. daemon[x].pc = "unmap" /\ p = daemon[x].page
          BY <1>4, <2>1, <4>1
        <5>2. p \in Borrows(daemon[x].slot) /\ daemon[x].slot \in Rank \ {x}
          BY <1>0, <5>1, Giving
        <5> QED BY <2>1, <4>1, <5>2, Lenders
      <4> QED BY <1>4, <4>1
    <3>2. table'[k][p] = table[k][p]
      BY <1>0, <1>d, <3>1, OwnerOfMissing
    <3> QED BY <1>0, <2>1, <3>1, <3>2 DEF Borrowing
  <2>2. ASSUME NEW k \in Rank
        PROVE  /\ main'[k].pc \in {"run", "wait", "sleep"}
               /\ main'[k].pc # "run" =>
                    main'[k].page \in Borrows(k) /\ main'[k].asked = main'[k].page % DSM_NODE_NUM
    BY <1>0, <1>1 DEF Borrowing
  <2> QED BY <2>1, <2>2 DEF Borrowing, Borrows
<1>7. \A k \in Rank : Lending(k)'
  BY <1>0, <1>3, <1>4 DEF Lending, Borrows
<1>8. \A h \in Rank : Lent(h)' =>
        Lent(h) /\ daemon'[h].slot = daemon[h].slot /\ daemon'[h].page = daemon[h].page
  BY <1>3 DEF Lent
<1> QED BY <1>1, <1>5, <1>6, <1>7, <1>8, ShelterStays

\* A word is read by x from y.
LEMMA ShelterPopped ==
  ASSUME Apart, TypeOK, Shaped, NEW x \in Rank, NEW y \in Rank \ {x}, Popped(y, x),
         NEW st, NEW st2, Shifted(st, st2, y, x), Sheltered(st), StillApart,
         \A k \in Rank : mapped[k] \subseteq mapped'[k],
         st[y][x][0].at = "page" => chan[y][x][1].val \in mapped'[x],
         \A h \in Rank : Lent(h)' =>
           Lent(h) /\ daemon'[h].slot = daemon[h].slot /\ daemon'[h].page = daemon[h].page
  PROVE  Sheltered(st2)'
<1>1. \A c, d \in Rank : \A at, v :
        /\ Carries(st2, c, d, at, v)' => Carries(st, c, d, at, v)
        /\ Carries(st, c, d, at, v) =>
             \/ Carries(st2, c, d, at, v)'
             \/ c = y /\ d = x /\ at = st[y][x][0].at /\ v = chan[y][x][1].val
  BY ONLY CarriesPopped, x \in Rank, y \in Rank \ {x}, Popped(y, x), Shifted(st, st2, y, x)
<1>2. Marked(st2)'
  BY <1>1 DEF Sheltered, Marked
<1>3. \A n \in Rank : \A p \in Borrows(n) : Coming(st, n, p) => Coming(st2, n, p)'
  BY <1>1, Lenders DEF Coming
<1>4. Homeward(st2)'
  <2>1. \A n \in Rank : \A p \in Borrows(n) :
          p \in mapped[p % DSM_NODE_NUM] => p \in mapped'[p % DSM_NODE_NUM]
    BY Lenders
  <2> QED BY <1>3, <2>1, HomewardKept DEF Sheltered
<1>5. Announced(st2)'
  <2>1. ASSUME NEW h \in Rank, Lent(h)' PROVE Coming(st2, daemon[h].slot, daemon[h].page)'
    BY <1>3, <2>1, AnnouncedKept DEF Sheltered
  <2> QED BY <2>1 DEF Announced
<1> QED BY <1>2, <1>4, <1>5 DEF Sheltered, StillApart

\* Where the first word from y to x is read.
LEMMA FirstCarried ==
  ASSUME NEW x \in Rank, NEW y \in Rank \ {x}, Popped(y, x), NEW st
  PROVE  /\ Carries(st, y, x, st[y][x][0].at, chan[y][x][1].val)
         /\ st[y][x][0].at = "wanted" => RequestAt(st, y, "wanted", x, 1, chan[y][x][1].val)
<1>1. 1 \in 1 .. Len(chan[y][x]) /\ 1 - 1 = 0
  BY DEF Popped
<1> QED BY <1>1 DEF Carries, RequestAt

\* The page that is asked for is still at home.
LEMMA WantedIsHome ==
  ASSUME Apart, TypeOK, Shaped, NEW x \in Rank, NEW y \in Rank \ {x}, Popped(y, x),
         NEW st, Tracked(st), Sheltered(st), st[y][x][0].at = "wanted"
  PROVE  chan[y][x][1].val \in Borrows(y) \cap mapped[x] /\ chan[y][x][1].val % DSM_NODE_NUM = x
<1>1. PICK v : v = chan[y][x][1].val
  OBVIOUS
<1>2. Carries(st, y, x, "wanted", v) /\ RequestAt(st, y, "wanted", x, 1, v)
  BY <1>1, FirstCarried
<1>3. v % DSM_NODE_NUM = x
  BY <1>2 DEF Sheltered, Marked
<1>4. OneRequest(st, y)
  <2>1. NobodyTrapped
    BY ShelterFramed DEF Sheltered
  <2> QED BY <2>1 DEF Tracked, NobodyTrapped
<1>5. /\ v = main[y].page /\ Awaits(y)
      /\ \A k, m, i, p : RequestAt(st, y, k, m, i, p) => k = "wanted"
  BY <1>2, <1>4, FirstIsSole
<1>6. v \in Borrows(y) /\ v \notin mapped[y]
  BY <1>5 DEF Sheltered, Borrowing, Awaits
<1>7. ~Carries(st, x, y, "page", v)
  <2>1. \A i \in 1 .. Len(chan[x][y]) :
          st[x][y][i - 1].at = "page" /\ chan[x][y][i].val = v => RequestAt(st, y, "page", x, i, v)
    BY DEF RequestAt
  <2> QED BY <1>5, <2>1 DEF Carries
<1>8. v \in mapped[x]
  BY <1>3, <1>6, <1>7 DEF Sheltered, Homeward, Coming
<1> QED BY <1>1, <1>3, <1>6, <1>8

\* The daemon reads a word.
LEMMA DaemonReadSheltered ==
  ASSUME Apart, TypeOK, Shaped, NEW x \in Rank, NEW st \in Views, Framed(st), Tracked(st),
         NEW st2, ReadNext(x, st, st2), Sheltered(st),
         \/ RecvType(x) \/ RecvInfoPage(x) \/ RecvInfoOwner(x) \/ RecvPageRequest(x)
         \/ RecvPageNumber(x) \/ RecvLength(x) \/ RecvText(x)
  PROVE  Sheltered(st2)'
<1>0. /\ daemon \in [Rank -> DaemonState] /\ mapped \in [Rank -> SUBSET Page]
      /\ \A k \in Rank : Borrowing(k) /\ Lending(k)
  BY DEF TypeOK, DaemonState, Sheltered
<1>1. PICK s, y : s = daemon[x].slot /\ y = Link[x][s] /\ Reads(x, st, s) /\ Shifted(st, st2, y, x)
  BY DEF ReadNext
<1>2. s \in Rank \ {x} /\ y \in Rank \ {x} /\ Popped(y, x) /\ (\A k \in Rank \ {x} : daemon'[k] = daemon[k])
  BY <1>1, Links DEF Reads, OthersStay
<1>3. s = y
  BY <1>1, <1>2 DEF Apart, Direct
<1>4. main' = main /\ \A k \in Rank \ {x} : mapped'[k] = mapped[k] /\ table'[k] = table[k]
  <2>1. main' = main /\ (mapped' = mapped \/ mapped' = [mapped EXCEPT ![x] = @ \cup ({NextWord(x)} \cap Page)])
    BY DEF RecvType, RecvInfoPage, RecvInfoOwner, RecvPageRequest, RecvPageNumber, RecvLength, RecvText
  <2>2. \/ table' = table
        \/ table' = [table EXCEPT ![x][daemon[x].page] = [status |-> "WRITE", owner |-> NextWord(x)]]
    BY DEF RecvType, RecvInfoPage, RecvInfoOwner, RecvPageRequest, RecvPageNumber, RecvLength, RecvText
  <2> QED BY <1>0, <2>1, <2>2 DEF TypeOK
<1>5. PICK v : v = chan[y][x][1].val
  OBVIOUS
<1>6. Carries(st, y, x, st[y][x][0].at, v)
  BY <1>1, <1>2, <1>5, FirstCarried
<1>7. ASSUME NEW at \in Reading, NEW kind, Takes(x, at, kind)
      PROVE  st[y][x][0].at = at /\ v = NextWord(x) /\ daemon[x].pc = at
  BY <1>1, <1>5, <1>7, ReadsLegal
<1>r. {"type", "page", "len", "text", "infoPage", "infoOwner", "wanted"} \subseteq Reading
  BY DEF Reading, ReadingInt
<1>8. /\ Lending(x)' /\ ~Lent(x)' /\ mapped[x] \subseteq mapped'[x]
      /\ st[y][x][0].at = "page" => v \in mapped'[x]
      /\ \A p \in Touches[x] : table'[x][p] = table[x][p]
  <2>1. CASE RecvType(x)
    <3>1. daemon'[x].pc \in {"page", "infoPage", "wanted", "scan"} /\ mapped' = mapped /\ table' = table
      BY <1>0, <2>1 DEF RecvType, DaemonState, Resume
    <3>2. st[y][x][0].at = "type"
      BY <1>7, <1>r, <2>1 DEF RecvType
    <3> QED BY <3>1, <3>2 DEF Lending, Lent
  <2>2. CASE RecvInfoPage(x)
    <3>1. daemon'[x].pc = "infoOwner" /\ daemon'[x].page = NextWord(x) /\ mapped' = mapped /\ table' = table
      BY <1>0, <2>2 DEF RecvInfoPage, DaemonState
    <3>2. st[y][x][0].at = "infoPage" /\ v = NextWord(x)
      BY <1>7, <1>r, <2>2 DEF RecvInfoPage
    <3>3. v \notin Touches[x]
      BY <1>2, <1>6, <3>2 DEF Sheltered, Marked
    <3> QED BY <3>1, <3>2, <3>3 DEF Lending, Lent
  <2>3. CASE RecvInfoOwner(x)
    <3>1. daemon'[x].pc = "scan" /\ mapped' = mapped
      BY <2>3, Resumed DEF RecvInfoOwner
    <3>2. st[y][x][0].at = "infoOwner" /\ daemon[x].pc = "infoOwner"
      BY <1>7, <1>r, <2>3 DEF RecvInfoOwner
    <3>3. daemon[x].page \notin Touches[x]
      BY <1>0, <3>2 DEF Lending
    <3>4. \/ table' = table
          \/ table' = [table EXCEPT ![x][daemon[x].page] = [status |-> "WRITE", owner |-> NextWord(x)]]
      BY <2>3 DEF RecvInfoOwner
    <3>5. \A p \in Touches[x] : table'[x][p] = table[x][p]
      <4>1. PICK q, e : q = daemon[x].page /\ e = [status |-> "WRITE", owner |-> NextWord(x)]
        OBVIOUS
      <4>2. table' = table \/ table' = [table EXCEPT ![x][q] = e]
        BY <3>4, <4>1
      <4>3. q \notin Touches[x] /\ Touches[x] \subseteq Page
        BY <3>3, <4>1, NodeAssumption
      <4> QED BY <4>2, <4>3 DEF TypeOK
    <3> QED BY <3>1, <3>2, <3>5 DEF Lending, Lent
  <2>4. CASE RecvPageRequest(x)
    <3>1. daemon'[x].pc = "copy" /\ daemon'[x].page = NextWord(x) /\ daemon'[x].slot = s
          /\ mapped' = mapped /\ table' = table
      BY <1>0, <1>1, <2>4 DEF RecvPageRequest, DaemonState
    <3>2. daemon'[x].out # << >>
      BY <1>0, <2>4, Outs DEF RecvPageRequest, DaemonState
    <3>3. st[y][x][0].at = "wanted" /\ v = NextWord(x)
      BY <1>7, <1>r, <2>4 DEF RecvPageRequest
    <3>4. v \in Borrows(y) \cap mapped[x] /\ v % DSM_NODE_NUM = x
      <4>1. chan[y][x][1].val \in Borrows(y) \cap mapped[x] /\ chan[y][x][1].val % DSM_NODE_NUM = x
        BY ONLY Apart, TypeOK, Shaped, x \in Rank, <1>2, Tracked(st), Sheltered(st), <3>3, WantedIsHome
      <4> QED BY <1>5, <4>1
    <3>5. v \in Touches[y]
      BY <3>4 DEF Borrows
    <3> QED BY <1>3, <3>1, <3>2, <3>3, <3>4, <3>5 DEF Lending, Lent
  <2>5. CASE RecvPageNumber(x)
    <3>1. daemon'[x].pc = "len" /\ daemon'[x].page = NextWord(x) /\ table' = table
          /\ mapped'[x] = mapped[x] \cup ({NextWord(x)} \cap Page)
      BY <1>0, <2>5 DEF RecvPageNumber, DaemonState
    <3>2. v = NextWord(x)
      BY <1>7, <1>r, <2>5 DEF RecvPageNumber
    <3>3. v \in Borrows(x)
      <4>1. NextWord(x) = main[x].page /\ Awaits(x)
        BY <2>5, AnswerIsAwaited
      <4> QED BY <1>0, <3>2, <4>1 DEF Borrowing, Awaits
    <3>4. v \in Page
      BY <3>3, Lenders
    <3>5. Lending(x)'
      BY <3>1, <3>2, <3>3 DEF Lending, Borrows
    <3> QED BY <3>1, <3>2, <3>4, <3>5 DEF Lent
  <2>6. CASE RecvLength(x)
    <3>1. daemon'[x].pc \in {"install", "text"} /\ daemon'[x].page = daemon[x].page
          /\ mapped' = mapped /\ table' = table
      BY <1>0, <2>6 DEF RecvLength, DaemonState
    <3>2. st[y][x][0].at = "len" /\ daemon[x].pc = "len"
      BY <1>7, <1>r, <2>6 DEF RecvLength
    <3>3. daemon[x].page \in Borrows(x)
      BY <1>0, <3>2 DEF Lending
    <3>4. Lending(x)'
      BY <3>1, <3>3 DEF Lending, Borrows
    <3> QED BY <3>1, <3>2, <3>4 DEF Lent
  <2>7. CASE RecvText(x)
    <3>1. daemon'[x].pc = "install" /\ daemon'[x].page = daemon[x].page
          /\ mapped' = mapped /\ table' = table
      BY <1>0, <2>7 DEF RecvText, DaemonState
    <3>2. st[y][x][0].at = "text" /\ daemon[x].pc = "text"
      BY <1>7, <1>r, <2>7 DEF RecvText
    <3>3. daemon[x].page \in Borrows(x)
      BY <1>0, <3>2 DEF Lending
    <3>4. Lending(x)'
      BY <3>1, <3>3 DEF Lending, Borrows
    <3> QED BY <3>1, <3>2, <3>4 DEF Lent
  <2> QED BY <2>1, <2>2, <2>3, <2>4, <2>5, <2>6, <2>7
<1>9. StillApart
  <2>1. ASSUME NEW k \in Rank PROVE Borrowing(k)'
    <3>1. \A p \in Touches[k] : table'[k][p] = table[k][p]
      BY <1>4, <1>8
    <3>2. mapped[k] \subseteq mapped'[k]
      BY <1>4, <1>8
    <3>3. main'[k] = main[k]
      BY <1>4
    <3> QED BY <1>0, <3>1, <3>2, <3>3 DEF Borrowing, Borrows
  <2>2. ASSUME NEW k \in Rank PROVE Lending(k)'
    <3>1. CASE k = x
      BY <1>8, <3>1
    <3>2. CASE k # x
      <4>1. daemon'[k] = daemon[k] /\ mapped'[k] = mapped[k]
        BY <1>2, <1>4, <3>2
      <4> QED BY <1>0, <4>1 DEF Lending, Borrows
    <3> QED BY <3>1, <3>2
  <2> QED BY <2>1, <2>2 DEF StillApart
<1>10. \A h \in Rank : Lent(h)' =>
         Lent(h) /\ daemon'[h].slot = daemon[h].slot /\ daemon'[h].page = daemon[h].page
  BY <1>2, <1>8 DEF Lent
<1>11. /\ \A k \in Rank : mapped[k] \subseteq mapped'[k]
       /\ st[y][x][0].at = "page" => chan[y][x][1].val \in mapped'[x]
  BY <1>4, <1>5, <1>8
<1> QED BY <1>1, <1>2, <1>9, <1>10, <1>11, ShelterPopped

\* Every page is at home, and nothing is under way.
LEMMA ShelteredAtFirst ==
  ASSUME Apart, Init, NEW st
  PROVE  Sheltered(st)
<1>1. /\ \A n \in Rank : main[n].pc = "run" /\ daemon[n].pc = "poll"
      /\ \A x, y \in Rank : chan[x][y] = << >>
      /\ \A n \in Rank : mapped[n] = {p \in Page : p % DSM_NODE_NUM = n}
      /\ \A n \in Rank : \A p \in Page : table[n][p].owner = p % DSM_NODE_NUM
  BY DEF Init, MainAt, DaemonAt
<1>2. \A n \in Rank : Touches[n] \subseteq Page
  BY NodeAssumption
<1>3. \A n \in Rank : Borrowing(n) /\ Lending(n) /\ ~Lent(n)
  BY <1>1, <1>2 DEF Borrowing, Lending, Lent
<1>4. \A x, y \in Rank : \A at, v : ~Carries(st, x, y, at, v)
  BY <1>1, Outs DEF Carries
<1>5. Marked(st) /\ Announced(st)
  BY <1>3, <1>4 DEF Marked, Announced
<1>6. Homeward(st)
  BY <1>1, Lenders DEF Homeward
<1> QED BY <1>3, <1>5, <1>6 DEF Sheltered

\* A step keeps it so.
LEMMA ShelterStep ==
  ASSUME Apart, TypeOK, Shaped, NEW st, Settled(st), Tracked(st), Told(st), Sheltered(st), [Next]_vars
  PROVE  \E st2 : /\ Shaped' /\ Settled(st2)' /\ Tracked(st2)' /\ Told(st2)' /\ Sheltered(st2)'
                 /\ Carried(st, st2)
<1>1. StreamsFramed /\ NobodyTrapped /\ Together /\ Together'
  BY ShelterFramed, StayTogether DEF Sheltered
<1>2. PromptReplies /\ Direct
  BY DEF Apart
<1>3. st \in Views /\ Framed(st)
  BY DEF Settled
<1>4. PICK st2 : Shaped' /\ Settled(st2)' /\ Tracked(st2)' /\ Told(st2)' /\ Carried(st, st2)
  BY ONLY TypeOK, Shaped, Settled(st), Tracked(st), Told(st), [Next]_vars, <1>1, <1>2, FollowedStep
<1>5. ASSUME UNCHANGED vars, st2 = st PROVE Sheltered(st2)'
  <2>1. \A x, y, at, v : Carries(st, x, y, at, v)' <=> Carries(st, x, y, at, v)
    BY <1>5, CarriesStays DEF vars
  <2>2. \A n, p : Coming(st, n, p)' <=> Coming(st, n, p)
    BY <1>5, <2>1 DEF Coming, vars
  <2>3. \A n \in Rank : Borrowing(n)' /\ Lending(n)'
    BY <1>5 DEF vars, Sheltered, Borrowing, Lending, Borrows
  <2>4. \A n \in Rank : \A p \in Borrows(n) :
          /\ p \in mapped[n] => p \in mapped'[n]
          /\ p \in mapped[p % DSM_NODE_NUM] => p \in mapped'[p % DSM_NODE_NUM] \/ Coming(st, n, p)
    BY <1>5 DEF vars
  <2>5. \A h \in Rank : Lent(h)' =>
          Lent(h) /\ daemon'[h].slot = daemon[h].slot /\ daemon'[h].page = daemon[h].page
    BY <1>5 DEF vars, Lent
  <2>6. chan' = chan
    BY <1>5 DEF vars
  <2>7. Sheltered(st)'
    BY ONLY Apart, TypeOK, Shaped, Sheltered(st), <2>3, <2>4, <2>5, <2>6, ShelterStays
  <2> QED BY <1>5, <2>7
<1>6. ASSUME NEW n \in Rank, MainWrite(n), WroteFirst(n, st, st2, main[n].out) PROVE Sheltered(st2)'
  BY <1>1, <1>3, <1>6, MainWriteSheltered
<1>7. ASSUME NEW n \in Rank, EndWait(n) \/ Retry(n) \/ CloseNext(n) \/ Choice(n) PROVE Sheltered(st)'
  BY <1>1, <1>7, MainSilentSheltered
<1>8. ASSUME NEW n \in Rank, DaemonWrite(n), WroteFirst(n, st, st2, daemon[n].out) PROVE Sheltered(st2)'
  BY <1>1, <1>3, <1>8, DaemonWriteSheltered
<1>9. ASSUME NEW n \in Rank,
             \/ Poll(n) \/ Scan(n) \/ EndScan(n) \/ Install(n) \/ ReadEnds(n)
             \/ CopyPage(n) \/ EndFault(n) \/ UnmapPage(n) \/ Inform(n)
      PROVE  Sheltered(st)'
  BY <1>1, <1>9, DaemonSilentSheltered
<1>10. ASSUME NEW n \in Rank, ReadNext(n, st, st2),
              \/ RecvType(n) \/ RecvInfoPage(n) \/ RecvInfoOwner(n) \/ RecvPageRequest(n)
              \/ RecvPageNumber(n) \/ RecvLength(n) \/ RecvText(n)
       PROVE  Sheltered(st2)'
  BY <1>3, <1>10, DaemonReadSheltered
<1>11. Sheltered(st2)'
  <2>1. CASE UNCHANGED vars /\ st2 = st
    BY <1>5, <2>1
  <2>2. CASE \E n \in Rank : MainWrite(n) /\ WroteFirst(n, st, st2, main[n].out)
    BY <1>6, <2>2
  <2>3. CASE \E n \in Rank : (EndWait(n) \/ Retry(n) \/ CloseNext(n) \/ Choice(n)) /\ st2 = st
    BY <1>7, <2>3
  <2>4. CASE \E n \in Rank : DaemonWrite(n) /\ WroteFirst(n, st, st2, daemon[n].out)
    BY <1>8, <2>4
  <2>5. CASE \E n \in Rank : /\ \/ Poll(n) \/ Scan(n) \/ EndScan(n) \/ Install(n) \/ ReadEnds(n)
                               \/ CopyPage(n) \/ EndFault(n) \/ UnmapPage(n) \/ Inform(n)
                            /\ st2 = st
    BY <1>9, <2>5
  <2>6. CASE \E n \in Rank : /\ \/ RecvType(n) \/ RecvInfoPage(n) \/ RecvInfoOwner(n) \/ RecvPageRequest(n)
                               \/ RecvPageNumber(n) \/ RecvLength(n) \/ RecvText(n)
                            /\ ReadNext(n, st, st2)
    BY <1>10, <2>6
  <2> QED BY ONLY <1>4, <2>1, <2>2, <2>3, <2>4, <2>5, <2>6 DEF Carried
<1> QED BY <1>4, <1>11

\* The strengthened invariant of such a program.
Safe == Shaped /\ \E st : Settled(st) /\ Tracked(st) /\ Told(st) /\ Sheltered(st)

LEMMA SafeAtFirst == Apart /\ Init => Safe
<1> SUFFICES ASSUME Apart, Init PROVE Safe
  OBVIOUS
<1>1. Direct
  BY DEF Apart
<1>2. PICK st : Shaped /\ Settled(st) /\ Tracked(st) /\ Told(st)
  BY <1>1, ServedAtFirst DEF Served
<1>3. Sheltered(st)
  BY ShelteredAtFirst
<1> QED BY <1>2, <1>3 DEF Safe

LEMMA SafeStep ==
  ASSUME Apart, TypeOK, Safe, [Next]_vars
  PROVE  Safe'
<1>1. PICK st : Shaped /\ Settled(st) /\ Tracked(st) /\ Told(st) /\ Sheltered(st)
  BY DEF Safe
<1>2. PICK st2 : Shaped' /\ Settled(st2)' /\ Tracked(st2)' /\ Told(st2)' /\ Sheltered(st2)'
  BY <1>1, ShelterStep
<1> QED BY <1>2 DEF Safe

LEMMA SafeMeans ==
  ASSUME Apart, TypeOK, Safe
  PROVE  StreamsFramed /\ NobodyTrapped /\ Together
BY ShelterFramed DEF Safe, Sheltered

\* When every page has one borrower at most, and no borrower lends, the two
\* threads of a process never have something to say to the same process: every
\* message stays whole and nobody leaves.  No lock, no other order of the
\* threads is needed for such programs.
THEOREM WholeWhenApart ==
  Apart => (Spec => []StreamsFramed /\ []Together)
<1> SUFFICES ASSUME Apart PROVE Spec => []StreamsFramed /\ []Together
  OBVIOUS
<1>1. Spec => []TypeOK
  BY Typed
<1>2. Init => Safe
  BY SafeAtFirst
<1>3. TypeOK /\ Safe /\ [Next]_vars => Safe'
  BY SafeStep
<1>4. TypeOK /\ Safe => StreamsFramed /\ Together
  BY SafeMeans
<1> QED BY <1>1, <1>2, <1>3, <1>4, PTL DEF Spec

\* In those programs no daemon is asked for a page that its process has given
\* away: the request for a page always finds it at home.
THEOREM ServedWhenApart ==
  Apart => (Spec => []NobodyTrapped)
<1> SUFFICES ASSUME Apart PROVE Spec => []NobodyTrapped
  OBVIOUS
<1>1. Spec => []TypeOK
  BY Typed
<1>2. Init => Safe
  BY SafeAtFirst
<1>3. TypeOK /\ Safe /\ [Next]_vars => Safe'
  BY SafeStep
<1>4. TypeOK /\ Safe => NobodyTrapped
  BY SafeMeans
<1> QED BY <1>1, <1>2, <1>3, <1>4, PTL DEF Spec

\* For those programs nothing is left to assume: a page is in one place (no
\* daemon is trapped, so there are no empty pages either), the messages
\* implement a transfer of ownership, and a process that has given a page away
\* is without it until it is told.
THEOREM ApartIsSafe ==
  Apart => (Spec => []PageConserved /\ ImplementsOwnership /\ LostUntilTold)
<1> SUFFICES ASSUME Apart PROVE Spec => []PageConserved /\ ImplementsOwnership /\ LostUntilTold
  OBVIOUS
<1>1. PromptReplies /\ Direct
  BY DEF Apart
<1>2. Spec => []StreamsFramed /\ []Together
  BY WholeWhenApart
<1>t. Spec => []NobodyTrapped
  BY ServedWhenApart
<1>3. Spec /\ []StreamsFramed /\ []Together => []PageConserved
  BY <1>1, PagesConservedWhenPrompt
<1>4. Spec /\ []StreamsFramed /\ []Together => LostUntilTold
  BY <1>1, GivenAwayIsLost
<1>5. Spec /\ []StreamsFramed /\ []NobodyTrapped /\ []Together => ImplementsOwnership
  BY <1>1, OwnershipImplemented
<1> QED BY <1>2, <1>t, <1>3, <1>4, <1>5, PTL
----------------------------------------------------------------------------
(* What the page tables of such programs come to                           *)

\* The page has left the process that it was allotted to.
Gone(p) == p \notin mapped[p % DSM_NODE_NUM]

\* What n has in its table: a page belongs to the process it was allotted to,
\* or to the one that borrows it, once it has left; and a page that n borrows
\* and has is its own, as soon as the content is there.
Aware(n) ==
  /\ \A p \in Page :
       \/ table[n][p].owner = p % DSM_NODE_NUM
       \/ /\ table[n][p].owner \in Rank /\ p \in Borrows(table[n][p].owner)
          /\ table[n][p].owner = n \/ Gone(p)
  /\ \A p \in mapped[n] : p % DSM_NODE_NUM = n \/ p \in Borrows(n)
  /\ \A p \in Borrows(n) \cap mapped[n] : table[n][p].owner = n \/ Filling(n, p)

\* The daemon of n listens to everybody; it starts telling the others from the
\* first page on, and tells, or is told, only of pages that have left.
Watchful(n) ==
  /\ Rank \ {n} \subseteq daemon[n].polled
  /\ daemon[n].pc # "inform" => daemon[n].index = 0
  /\ daemon[n].pc \in {"inform", "infoOwner"} => Gone(daemon[n].page)

News(st) == \A x, y \in Rank : \A v \in Nat : Carries(st, x, y, "infoPage", v) => Gone(v)

\* An information that names a page names the process that borrows it; what is
\* not written yet is what the daemon of the sender is about to write.
Names(p, v) == v \in Rank /\ p \in Borrows(v)
PageBefore(x, y, i) == IF i = 0 THEN daemon[y].page ELSE chan[x][y][i].val
Paired(st) ==
  \A x \in Rank : \A y \in Rank \ {x} : \A i \in 0 .. Len(chan[x][y]) :
    st[x][y][i].at = "infoOwner" =>
      IF i = Len(chan[x][y]) THEN PageBefore(x, y, i) = daemon[x].page
                             ELSE Names(PageBefore(x, y, i), chan[x][y][i + 1].val)

\* The daemon of h has not yet written to n that p has left.
Informing(h, n, p) ==
  /\ daemon[h].pc = "inform" /\ daemon[h].page = p
  /\ \/ daemon[h].index <= n
     \/ daemon[h].out # << >> /\ Head(daemon[h].out).fd = n /\ Len(daemon[h].out) # 1

\* What n knows of a page that b borrows, or will be told.
Hears(st, n, p, b) ==
  \/ ~Gone(p)
  \/ table[n][p].owner = b
  \/ Informing(p % DSM_NODE_NUM, n, p)
  \/ Carries(st, p % DSM_NODE_NUM, n, "infoPage", p)
  \/ daemon[n].pc = "infoOwner" /\ daemon[n].page = p
Spread(st) ==
  \A b \in Rank : \A p \in Borrows(b) : \A n \in Rank \ {b, p % DSM_NODE_NUM} : Hears(st, n, p, b)

Known(st) ==
  /\ \A n \in Rank : Aware(n) /\ Watchful(n)
  /\ News(st) /\ Paired(st) /\ Spread(st)

\* A page does not come back to the process that it was allotted to.
LEMMA GoneStays ==
  ASSUME Apart, TypeOK', \A k \in Rank : \A p \in mapped'[k] : p \in mapped[k] \/ p \in Borrows(k)
  PROVE  \A p \in Nat : Gone(p) => Gone(p)'
<1> SUFFICES ASSUME NEW p \in Nat, Gone(p) PROVE Gone(p)'
  OBVIOUS
<1>1. PICK h : h = p % DSM_NODE_NUM
  OBVIOUS
<1>2. h \in Rank
  <2>1. DSM_NODE_NUM \in Nat \ {0}
    BY NodeAssumption
  <2> QED BY <1>1, <2>1 DEF Rank
<1>3. p \notin Borrows(h)
  BY <1>1 DEF Borrows
<1> QED BY <1>1, <1>2, <1>3 DEF Gone

\* The processes that take no part in a step.
LEMMA OthersKnow ==
  ASSUME TypeOK, NEW k \in Rank, mapped'[k] = mapped[k], table'[k] = table[k],
         daemon'[k].pc = daemon[k].pc, daemon'[k].page = daemon[k].page,
         daemon'[k].index = daemon[k].index, daemon'[k].polled = daemon[k].polled,
         \A p \in Nat : Gone(p) => Gone(p)', Aware(k), Watchful(k)
  PROVE  Aware(k)' /\ Watchful(k)'
<1>1. Page \subseteq Nat /\ daemon[k].page \in Nat
  BY Pages DEF TypeOK
<1>2. \A p : Filling(k, p)' <=> Filling(k, p)
  BY DEF Filling
<1>3. Watchful(k)'
  BY <1>1 DEF Watchful
<1>4. Aware(k)'
  BY <1>1, <1>2 DEF Aware, Borrows
<1> QED BY <1>3, <1>4

\* What the ends of a connection do while the name of an owner is the next word.
LEMMA InfoEnds ==
  ASSUME Apart, TypeOK, Shaped, NEW st \in Views, Framed(st), NEW x \in Rank, NEW y \in Rank \ {x}
  PROVE  /\ st[x][y][0].at = "infoOwner" => daemon[y].pc = "infoOwner" /\ daemon[y].slot = x
         /\ st[x][y][Len(chan[x][y])].at = "infoOwner" =>
              /\ daemon[x].pc = "inform" /\ daemon[x].out # << >> /\ Head(daemon[x].out).fd = y
              /\ Len(daemon[x].out) = 1
<1>1. Link[x][y] = y /\ Link[y][x] = x
  BY DEF Apart, Direct
<1>2. Begins(y, x, st[x][y][0])
  BY <1>1, ViewEnds
<1>3. PICK a : a = st[x][y][Len(chan[x][y])] /\ Ends(x, y, a)
  BY <1>1, ViewEnds
<1>4. a.at = "infoOwner" => Owed(x, y) = "infoOwner"
  BY <1>3 DEF Ends
<1>5. Owed(x, y) = "infoOwner" => /\ daemon[x].pc = "inform" /\ daemon[x].out # << >>
                                  /\ Head(daemon[x].out).fd = y /\ Len(daemon[x].out) = 1
  BY DEF Owed, DaemonOwed, PageOwed, InfoOwed
<1> QED BY <1>2, <1>3, <1>4, <1>5 DEF Begins

\* What a step makes of it: nothing, a word more from x to y, or a word less.
LEMMA PairedStays ==
  ASSUME chan' = chan, NEW st, Paired(st),
         \A k \in Rank : \/ daemon'[k].page = daemon[k].page
                         \/ \A y \in Rank \ {k} : /\ st[y][k][0].at # "infoOwner"
                                                  /\ st[k][y][Len(chan[k][y])].at # "infoOwner"
  PROVE  Paired(st)'
<1>1. ASSUME NEW x \in Rank, NEW y \in Rank \ {x}, NEW i \in 0 .. Len(chan[x][y]),
             st[x][y][i].at = "infoOwner"
      PROVE  IF i = Len(chan[x][y]) THEN PageBefore(x, y, i)' = daemon'[x].page
                                    ELSE Names(PageBefore(x, y, i)', chan[x][y][i + 1].val)
  <2>1. PageBefore(x, y, i)' = PageBefore(x, y, i)
    BY <1>1 DEF PageBefore
  <2>2. i = Len(chan[x][y]) => daemon'[x].page = daemon[x].page
    BY <1>1
  <2> QED BY <1>1, <2>1, <2>2 DEF Paired
<1> QED BY <1>1 DEF Paired, Names, Borrows

LEMMA PairedPushed ==
  ASSUME NEW x \in Rank, NEW y \in Rank \ {x}, NEW w, Pushed(x, y, w), NEW st, NEW st2, NEW b, NEW k,
         k = Len(chan[x][y]) + 1, Extended(st, st2, x, y, k, b), Paired(st),
         \A n \in Rank : daemon'[n].page = daemon[n].page,
         st[x][y][Len(chan[x][y])].at = "infoOwner" => Names(daemon[x].page, w.val),
         b.at = "infoOwner" => w.val = daemon[x].page
  PROVE  Paired(st2)'
<1>l. PICK l : l = Len(chan[x][y])
  OBVIOUS
<1>0. l \in Nat /\ Len(chan'[x][y]) = l + 1 /\ chan'[x][y][l + 1] = w
      /\ (\A j \in 1 .. l : chan'[x][y][j] = chan[x][y][j])
      /\ (\A c, d \in Rank : c # x \/ d # y => chan'[c][d] = chan[c][d])
  BY <1>l DEF Pushed
<1>1. (\A c, d \in Rank : c # x \/ d # y => st2[c][d] = st[c][d])
      /\ (\A j \in Nat : j # l + 1 => st2[x][y][j] = st[x][y][j])
      /\ st2[x][y][l + 1] = b
  BY <1>l DEF Extended
<1>2. ASSUME NEW c \in Rank, NEW d \in Rank \ {c}, NEW i \in 0 .. Len(chan'[c][d]),
             st2[c][d][i].at = "infoOwner"
      PROVE  IF i = Len(chan'[c][d]) THEN PageBefore(c, d, i)' = daemon'[c].page
                                     ELSE Names(PageBefore(c, d, i)', chan'[c][d][i + 1].val)
  <2>1. CASE c # x \/ d # y
    <3>1. chan'[c][d] = chan[c][d] /\ st2[c][d] = st[c][d]
      BY <1>0, <1>1, <2>1
    <3>2. PageBefore(c, d, i)' = PageBefore(c, d, i)
      BY <3>1 DEF PageBefore
    <3> QED BY <1>2, <3>1, <3>2 DEF Paired
  <2>2. CASE c = x /\ d = y /\ i = l + 1
    <3>1. l + 1 # 0
      BY <1>0
    <3>2. PageBefore(x, y, l + 1)' = w.val
      BY <1>0, <3>1 DEF PageBefore
    <3> QED BY <1>0, <1>1, <1>2, <2>2, <3>2
  <2>3. CASE c = x /\ d = y /\ i # l + 1
    <3>1. i \in 0 .. l /\ i \in Nat /\ (i # 0 => i \in 1 .. l) /\ (i # l => i + 1 \in 1 .. l)
      BY <1>0, <1>2, <2>3
    <3>2. st[x][y][i].at = "infoOwner"
      BY <1>1, <1>2, <2>3, <3>1
    <3>3. PageBefore(x, y, i)' = PageBefore(x, y, i)
      BY <1>0, <3>1 DEF PageBefore
    <3>4. CASE i = l
      <4>1. PageBefore(x, y, l) = daemon[x].page
        BY <1>l, <3>1, <3>2, <3>4 DEF Paired
      <4>2. Names(daemon[x].page, w.val)
        BY <1>l, <3>2, <3>4
      <4> QED BY <1>0, <2>3, <3>3, <3>4, <4>1, <4>2
    <3>5. CASE i # l
      <4>1. Names(PageBefore(x, y, i), chan[x][y][i + 1].val)
        BY <1>l, <3>1, <3>2, <3>5 DEF Paired
      <4> QED BY <1>0, <2>3, <3>1, <3>3, <3>5, <4>1
    <3> QED BY <3>4, <3>5
  <2> QED BY <2>1, <2>2, <2>3
<1> QED BY <1>2 DEF Paired, Names, Borrows

LEMMA PairedPopped ==
  ASSUME NEW x \in Rank, NEW y \in Rank \ {x}, Popped(y, x), NEW st, NEW st2, Shifted(st, st2, y, x),
         Paired(st), \A k \in Rank \ {x} : daemon'[k].page = daemon[k].page,
         st[y][x][1].at = "infoOwner" => daemon'[x].page = chan[y][x][1].val,
         \A c \in Rank \ {x} : /\ c # y => st[c][x][0].at # "infoOwner"
                               /\ st[x][c][Len(chan[x][c])].at # "infoOwner"
  PROVE  Paired(st2)'
<1>0. PICK l \in Nat \ {0} : l = Len(chan[y][x])
  BY DEF Popped
<1>1. Len(chan'[y][x]) = l - 1
      /\ (\A j \in 1 .. l - 1 : chan'[y][x][j] = chan[y][x][j + 1])
      /\ (\A c, d \in Rank : c # y \/ d # x => chan'[c][d] = chan[c][d])
  BY <1>0 DEF Popped
<1>2. (\A c, d \in Rank : c # y \/ d # x => st2[c][d] = st[c][d])
      /\ (\A j \in Nat : st2[y][x][j] = st[y][x][j + 1])
  BY DEF Shifted
<1>3. ASSUME NEW c \in Rank, NEW d \in Rank \ {c}, NEW i \in 0 .. Len(chan'[c][d]),
             st2[c][d][i].at = "infoOwner"
      PROVE  IF i = Len(chan'[c][d]) THEN PageBefore(c, d, i)' = daemon'[c].page
                                     ELSE Names(PageBefore(c, d, i)', chan'[c][d][i + 1].val)
  <2>1. CASE c # y \/ d # x
    <3>1. chan'[c][d] = chan[c][d] /\ st2[c][d] = st[c][d]
      BY <1>1, <1>2, <2>1
    <3>2. i = Len(chan[c][d]) => c # x
      BY <1>3, <3>1
    <3>3. i = 0 => d # x
      BY <1>3, <2>1, <3>1
    <3>4. PageBefore(c, d, i)' = PageBefore(c, d, i)
      BY <3>1, <3>3 DEF PageBefore
    <3>5. i = Len(chan[c][d]) => daemon'[c].page = daemon[c].page
      BY <3>2
    <3> QED BY <1>3, <3>1, <3>4, <3>5 DEF Paired
  <2>2. CASE c = y /\ d = x
    <3>1. i \in 0 .. l - 1 /\ i \in Nat /\ i + 1 \in 0 .. l /\ i + 1 # 0 /\ (i # 0 => i \in 1 .. l - 1)
          /\ (i = l - 1 <=> i + 1 = l) /\ (i # l - 1 => i + 1 \in 1 .. l - 1)
      BY <1>0, <1>1, <1>3, <2>2
    <3>2. st[y][x][i + 1].at = "infoOwner"
      BY <1>2, <1>3, <2>2, <3>1
    <3>3. PageBefore(y, x, i)' = PageBefore(y, x, i + 1)
      <4>1. PageBefore(y, x, i + 1) = chan[y][x][i + 1].val
        BY <3>1 DEF PageBefore
      <4>2. CASE i = 0
        <5>1. 0 + 1 = 1
          OBVIOUS
        <5>2. daemon'[x].page = chan[y][x][1].val
          BY <3>2, <4>2, <5>1
        <5> QED BY <4>1, <4>2, <5>1, <5>2 DEF PageBefore
      <4>3. CASE i # 0
        BY <1>1, <3>1, <4>1, <4>3 DEF PageBefore
      <4> QED BY <4>2, <4>3
    <3>4. CASE i = l - 1
      <4>1. PageBefore(y, x, i + 1) = daemon[y].page
        BY <1>0, <3>1, <3>2, <3>4 DEF Paired
      <4>2. daemon'[y].page = daemon[y].page
        OBVIOUS
      <4> QED BY <1>1, <2>2, <3>3, <3>4, <4>1, <4>2
    <3>5. CASE i # l - 1
      <4>1. Names(PageBefore(y, x, i + 1), chan[y][x][(i + 1) + 1].val)
        BY <1>0, <3>1, <3>2, <3>5 DEF Paired
      <4>2. chan'[y][x][i + 1] = chan[y][x][(i + 1) + 1]
        BY <1>1, <3>1, <3>5
      <4> QED BY <1>1, <2>2, <3>3, <3>5, <4>1, <4>2
    <3> QED BY <3>4, <3>5
  <2> QED BY <2>1, <2>2
<1> QED BY <1>3 DEF Paired, Names, Borrows

\* A step of x that touches no channel, and makes nobody get a page.
LEMMA KnownSilent ==
  ASSUME Apart, TypeOK, TypeOK', Shaped, NEW st \in Views, Framed(st), Known(st), chan' = chan,
         NEW x \in Rank, mapped'[x] \subseteq mapped[x],
         \A k \in Rank \ {x} : /\ mapped'[k] = mapped[k] /\ table'[k] = table[k]
                               /\ daemon'[k] = daemon[k],
         (\A p \in Nat : Gone(p) => Gone(p)') => Aware(x)' /\ Watchful(x)',
         \/ daemon'[x].page = daemon[x].page
         \/ daemon[x].pc # "infoOwner" /\ (daemon[x].pc # "inform" \/ daemon[x].out = << >>),
         \A b \in Rank : \A p \in Borrows(b) : \A n \in Rank \ {b, p % DSM_NODE_NUM} :
           x \in {n, p % DSM_NODE_NUM} /\ Hears(st, n, p, b) => Hears(st, n, p, b)'
  PROVE  Known(st)'
<1>1. \A p \in Nat : Gone(p) => Gone(p)'
  <2>1. \A k \in Rank : \A p \in mapped'[k] : p \in mapped[k] \/ p \in Borrows(k)
    OBVIOUS
  <2> QED BY <2>1, GoneStays
<1>2. \A n \in Rank : Aware(n)' /\ Watchful(n)'
  <2>1. ASSUME NEW k \in Rank \ {x} PROVE Aware(k)' /\ Watchful(k)'
    BY <1>1, OthersKnow DEF Known
  <2> QED BY <1>1, <2>1
<1>c. \A c, d, at, v : Carries(st, c, d, at, v)' <=> Carries(st, c, d, at, v)
  BY CarriesStays
<1>3. News(st)'
  BY <1>1, <1>c DEF Known, News
<1>4. Paired(st)'
  <2>1. ASSUME daemon'[x].page # daemon[x].page, NEW y \in Rank \ {x}
        PROVE  st[y][x][0].at # "infoOwner" /\ st[x][y][Len(chan[x][y])].at # "infoOwner"
    BY <2>1, InfoEnds
  <2>2. \A k \in Rank : \/ daemon'[k].page = daemon[k].page
                        \/ \A y \in Rank \ {k} : /\ st[y][k][0].at # "infoOwner"
                                                 /\ st[k][y][Len(chan[k][y])].at # "infoOwner"
    BY <2>1
  <2> QED BY <2>2, PairedStays DEF Known
<1>5. Spread(st)'
  <2>1. ASSUME NEW b \in Rank, NEW p \in Borrows(b), NEW n \in Rank \ {b, p % DSM_NODE_NUM}
        PROVE  Hears(st, n, p, b)'
    <3>1. Hears(st, n, p, b)
      BY DEF Known, Spread
    <3>2. PICK h \in Rank : h = p % DSM_NODE_NUM
      BY Lenders
    <3>3. CASE x \in {n, h}
      BY <3>1, <3>2, <3>3
    <3>4. CASE x \notin {n, h}
      <4>1. mapped'[h] = mapped[h] /\ table'[n] = table[n] /\ daemon'[h] = daemon[h] /\ daemon'[n] = daemon[n]
        BY <3>2, <3>4
      <4>2. Gone(p)' <=> Gone(p)
        BY <3>2, <4>1 DEF Gone
      <4> QED BY <1>c, <3>1, <3>2, <4>1, <4>2 DEF Hears, Informing
    <3> QED BY <3>3, <3>4
  <2> QED BY <2>1 DEF Spread, Borrows
<1> QED BY <1>2, <1>3, <1>4, <1>5 DEF Known

\* The points of the daemon that the tables depend on.
Involved == {"len", "text", "install", "infoOwner", "inform"}

\* A step between the other points.
LEMMA UninvolvedKnows ==
  ASSUME TypeOK, NEW x \in Rank, mapped'[x] = mapped[x], table'[x] = table[x],
         daemon[x].pc \notin Involved, daemon'[x].pc \notin Involved,
         daemon'[x].index \in {0, daemon[x].index}, daemon'[x].polled = daemon[x].polled,
         \A p \in Nat : Gone(p) => Gone(p)', Aware(x), Watchful(x)
  PROVE  Aware(x)' /\ Watchful(x)'
<1>1. Page \subseteq Nat
  BY Pages
<1>2. \A p : ~Filling(x, p)
  BY DEF Filling, Involved
<1>3. Watchful(x)'
  BY DEF Watchful, Involved
<1>4. Aware(x)'
  BY <1>1, <1>2 DEF Aware, Borrows
<1> QED BY <1>3, <1>4

LEMMA RestKnown ==
  ASSUME Apart, TypeOK, TypeOK', Shaped, Together', NEW st \in Views, Framed(st), Known(st),
         NEW x \in Rank, Lending(x),
         Poll(x) \/ Scan(x) \/ EndScan(x) \/ ReadEnds(x) \/ CopyPage(x) \/ EndFault(x)
  PROVE  Known(st)'
<1>0. /\ daemon \in [Rank -> DaemonState] /\ ~Exit(x) /\ ~EndFault(x)
      /\ StdinKind[x] = "socket"
  BY NoExit DEF TypeOK, DaemonState, EndFault, Lending, Apart, Direct
<1>1. UNCHANGED <<main, mapped, chan>>
  BY PollSilent, EndSilent, CopySilent
<1>2. /\ table' = table /\ \A k \in Rank \ {x} : daemon'[k] = daemon[k]
      /\ daemon[x].pc \notin Involved /\ daemon'[x].pc \notin Involved
      /\ daemon'[x].index = daemon[x].index /\ daemon'[x].polled = daemon[x].polled
  <2>1. CASE Poll(x) \/ EndScan(x)
    BY <1>0, <2>1 DEF Poll, EndScan, DaemonState, Involved
  <2>2. CASE Scan(x)
    <3>1. daemon[x].pc = "scan" /\ table' = table
      BY <1>0, <2>2, Zenon DEF Scan
    <3>2. PICK s : daemon' = [daemon EXCEPT ![x].pc = "type", ![x].slot = s, ![x].ready = @ \ {s}]
      BY <1>0, <2>2, Zenon DEF Scan
    <3> QED BY <1>0, <3>1, <3>2 DEF DaemonState, Involved
  <2>3. CASE ReadEnds(x)
    <3>1. daemon' = [daemon EXCEPT ![x].pc = "eof"] /\ table' = table
      BY <1>0, <2>3 DEF ReadEnds
    <3>2. daemon[x].pc \in {"type", "eof"}
      BY <2>3, EndSilent
    <3> QED BY <1>0, <3>1, <3>2 DEF DaemonState, Involved
  <2>4. CASE CopyPage(x)
    <3>1. daemon[x].pc = "copy" /\ table' = table
      BY <1>0, <2>4 DEF CopyPage
    <3>2. \/ \E out : daemon' = [daemon EXCEPT ![x].pc = "unmap", ![x].out = out]
          \/ \E out : daemon' = [daemon EXCEPT ![x].pc = "fault", ![x].out = out]
      BY <1>0, <2>4 DEF CopyPage
    <3> QED BY <1>0, <3>1, <3>2 DEF DaemonState, Involved
  <2> QED BY <1>0, <2>1, <2>2, <2>3, <2>4
<1>3. (\A p \in Nat : Gone(p) => Gone(p)') => Aware(x)' /\ Watchful(x)'
  BY <1>1, <1>2, UninvolvedKnows DEF Known
<1>4. ASSUME NEW b \in Rank, NEW p \in Borrows(b), NEW n \in Rank \ {b, p % DSM_NODE_NUM},
             Hears(st, n, p, b)
      PROVE  Hears(st, n, p, b)'
  <2>1. PICK h \in Rank : h = p % DSM_NODE_NUM
    BY Lenders
  <2>2. \A k \in Rank : \/ daemon'[k] = daemon[k]
                        \/ daemon[k].pc # "inform" /\ daemon[k].pc # "infoOwner"
    BY <1>2 DEF Involved
  <2>3. Carries(st, h, n, "infoPage", p)' <=> Carries(st, h, n, "infoPage", p)
    BY <1>1, CarriesStays
  <2>4. Gone(p)' <=> Gone(p)
    BY <1>1 DEF Gone
  <2> QED BY <1>2, <1>4, <2>1, <2>2, <2>3, <2>4 DEF Hears, Informing
<1>5. daemon[x].pc # "infoOwner" /\ daemon[x].pc # "inform"
  BY <1>2 DEF Involved
<1> QED BY <1>1, <1>2, <1>3, <1>4, <1>5, KnownSilent

\* The content is there: the table says so.
LEMMA InstallKnown ==
  ASSUME Apart, TypeOK, TypeOK', Shaped, Together', NEW st \in Views, Framed(st), Known(st),
         NEW x \in Rank, Lending(x), Install(x)
  PROVE  Known(st)'
<1>0. /\ daemon \in [Rank -> DaemonState] /\ ~Exit(x)
      /\ table \in [Rank -> [Page -> [status : {"WRITE", "INVALID"}, owner : Nat]]]
  BY NoExit DEF TypeOK, DaemonState
<1>1. PICK q : q = daemon[x].page
  OBVIOUS
<1>2. daemon[x].pc = "install" /\ q \in Borrows(x) /\ q \in Page
  BY <1>1, Lenders DEF Install, Lending
<1>e. PICK e : e = [status |-> "WRITE", owner |-> x]
  OBVIOUS
<1>3. /\ e.owner = x /\ table' = [table EXCEPT ![x][q] = e]
      /\ daemon' = [daemon EXCEPT ![x] = Resume(x)] /\ UNCHANGED <<mapped, chan>>
  BY <1>0, <1>1, <1>e DEF Install
<1>4. /\ \A k \in Rank \ {x} : daemon'[k] = daemon[k] /\ table'[k] = table[k]
      /\ table'[x][q] = e /\ \A p \in Page \ {q} : table'[x][p] = table[x][p]
      /\ daemon'[x].pc = "scan" /\ daemon'[x].index = 0 /\ daemon'[x].polled = daemon[x].polled
  BY <1>0, <1>2, <1>3 DEF Resume, DaemonState
<1>5. ASSUME \A p \in Nat : Gone(p) => Gone(p)' PROVE Aware(x)' /\ Watchful(x)'
  <2>1. Aware(x) /\ Watchful(x)
    BY DEF Known
  <2>2. Watchful(x)'
    BY <1>4, <2>1 DEF Watchful
  <2>3. ASSUME NEW p \in Page
        PROVE  \/ table'[x][p].owner = p % DSM_NODE_NUM
               \/ /\ table'[x][p].owner \in Rank /\ p \in Borrows(table'[x][p].owner)
                  /\ table'[x][p].owner = x \/ Gone(p)'
    <3>1. CASE p = q
      BY <1>2, <1>3, <1>4, <3>1
    <3>2. CASE p # q
      BY <1>4, <1>5, <2>1, <3>2, Pages DEF Aware
    <3> QED BY <3>1, <3>2
  <2>4. ASSUME NEW p \in Borrows(x) \cap mapped[x] PROVE table'[x][p].owner = x
    <3>1. p = q \/ ~Filling(x, p)
      BY <1>1 DEF Filling
    <3>2. p \in Page
      BY Lenders
    <3> QED BY <1>3, <1>4, <2>1, <3>1, <3>2 DEF Aware
  <2>5. mapped' = mapped /\ \A p \in mapped[x] : p % DSM_NODE_NUM = x \/ p \in Borrows(x)
    BY <1>3, <2>1 DEF Aware
  <2>6. Aware(x)'
    BY <2>3, <2>4, <2>5 DEF Aware, Borrows
  <2> QED BY <2>2, <2>6
<1>6. ASSUME NEW b \in Rank, NEW p \in Borrows(b), NEW n \in Rank \ {b, p % DSM_NODE_NUM},
             Hears(st, n, p, b)
      PROVE  Hears(st, n, p, b)'
  <2>1. PICK h \in Rank : h = p % DSM_NODE_NUM
    BY Lenders
  <2>2. table'[n][p] = table[n][p]
    <3>1. p \in Page /\ (n = x => p # q)
      BY <1>2, Lenders
    <3> QED BY <1>4, <3>1
  <2>3. \A k \in Rank : \/ daemon'[k] = daemon[k]
                        \/ daemon[k].pc # "inform" /\ daemon[k].pc # "infoOwner"
    BY <1>2, <1>4
  <2>4. Carries(st, h, n, "infoPage", p)' <=> Carries(st, h, n, "infoPage", p)
    BY <1>3, CarriesStays
  <2>5. Gone(p)' <=> Gone(p)
    BY <1>3 DEF Gone
  <2> QED BY <1>6, <2>1, <2>2, <2>3, <2>4, <2>5 DEF Hears, Informing
<1> QED BY <1>2, <1>3, <1>4, <1>5, <1>6, KnownSilent

\* The page leaves its process, which tells the others from the first on.
LEMMA UnmapKnown ==
  ASSUME Apart, TypeOK, TypeOK', Shaped, NEW st \in Views, Framed(st), Known(st),
         NEW x \in Rank, Lending(x), UnmapPage(x)
  PROVE  Known(st)'
<1>0. daemon \in [Rank -> DaemonState] /\ mapped \in [Rank -> SUBSET Page]
  BY DEF TypeOK, DaemonState
<1>1. PICK q, s : q = daemon[x].page /\ s = daemon[x].slot
  OBVIOUS
<1>2. /\ daemon[x].pc = "unmap" /\ s \in Rank \ {x} /\ q \in Borrows(s) /\ Borrows(x) = {}
      /\ q % DSM_NODE_NUM = x
  BY <1>1, Giving DEF UnmapPage
<1>3. /\ mapped'[x] = mapped[x] \ {q} /\ UNCHANGED <<table, chan>>
      /\ \A k \in Rank \ {x} : mapped'[k] = mapped[k] /\ daemon'[k] = daemon[k]
      /\ daemon'[x].pc = "inform" /\ daemon'[x].page = q /\ daemon'[x].index = daemon[x].index
      /\ daemon'[x].polled = daemon[x].polled
  BY <1>0, <1>1 DEF UnmapPage, DaemonState
<1>4. Aware(x) /\ Watchful(x) /\ daemon[x].index = 0
  BY <1>2 DEF Known, Watchful
<1>5. ASSUME \A p \in Nat : Gone(p) => Gone(p)' PROVE Aware(x)' /\ Watchful(x)'
  <2>1. Gone(q)'
    BY <1>2, <1>3 DEF Gone
  <2>2. Watchful(x)'
    BY <1>3, <1>4, <2>1 DEF Watchful
  <2>3. Aware(x)'
    BY <1>2, <1>3, <1>4, <1>5, Pages DEF Aware, Borrows
  <2> QED BY <2>2, <2>3
<1>6. ASSUME NEW b \in Rank, NEW p \in Borrows(b), NEW n \in Rank \ {b, p % DSM_NODE_NUM},
             Hears(st, n, p, b)
      PROVE  Hears(st, n, p, b)'
  <2>1. PICK h \in Rank : h = p % DSM_NODE_NUM
    BY Lenders
  <2>2. CASE p = q
    <3>1. 0 <= n /\ x = h
      BY <1>2, <2>1, <2>2, Ranks
    <3>2. Informing(h, n, p)'
      BY <1>3, <1>4, <2>2, <3>1 DEF Informing
    <3> QED BY <2>1, <3>2 DEF Hears
  <2>3. CASE p # q
    <3>1. Gone(p)' <=> Gone(p)
      BY <1>3, <2>1, <2>3 DEF Gone
    <3>2. Carries(st, h, n, "infoPage", p)' <=> Carries(st, h, n, "infoPage", p)
      BY <1>3, CarriesStays
    <3>3. \A k \in Rank : \/ daemon'[k] = daemon[k]
                          \/ daemon[k].pc # "inform" /\ daemon[k].pc # "infoOwner"
      BY <1>2, <1>3
    <3> QED BY <1>3, <1>6, <2>1, <3>1, <3>2, <3>3 DEF Hears, Informing
  <2> QED BY <2>2, <2>3
<1>7. \A k \in Rank \ {x} : table'[k] = table[k]
  BY <1>3
<1> QED BY <1>2, <1>3, <1>5, <1>6, <1>7, KnownSilent

\* One turn of that loop.
LEMMA Turns ==
  ASSUME TypeOK, NEW x \in Rank, Inform(x), NEW q, q = daemon[x].page, NEW s, s = daemon[x].slot,
         NEW i, i = daemon[x].index
  PROVE  /\ UNCHANGED <<mapped, table, chan>> /\ \A k \in Rank \ {x} : daemon'[k] = daemon[k]
         /\ daemon'[x].polled = daemon[x].polled
         /\ \/ i = PAGE_NUMBER /\ daemon'[x].pc = "scan" /\ daemon'[x].index = 0
            \/ /\ i < PAGE_NUMBER /\ daemon'[x].pc = "inform" /\ daemon'[x].page = q
               /\ daemon'[x].index = i + 1
               /\ \/ i % DSM_NODE_NUM \in {x, s}
                  \/ \E fd \in FdOf(x, i) :
                       daemon'[x].out = <<To(fd, Num(SEND_INFO)), To(fd, Num(q)), To(fd, Num(s))>>
<1>0. daemon \in [Rank -> DaemonState] /\ daemon[x].pc = "inform" /\ UNCHANGED <<mapped, table, chan>>
  BY Zenon DEF TypeOK, DaemonState, Inform
<1>1. PICK d \in DaemonState : d = daemon[x]
  BY <1>0
<1>2. PICK next : next = [d EXCEPT !.index = i + 1]
  OBVIOUS
<1>3. next.pc = "inform" /\ next.page = q /\ next.index = i + 1 /\ next.polled = d.polled
  BY <1>0, <1>1, <1>2 DEF DaemonState
<1>4. \/ i = PAGE_NUMBER /\ daemon' = [daemon EXCEPT ![x] = Resume(x)]
      \/ i < PAGE_NUMBER /\ i % DSM_NODE_NUM \in {x, s} /\ daemon' = [daemon EXCEPT ![x] = next]
      \/ /\ i < PAGE_NUMBER
         /\ \E fd \in FdOf(x, i) : daemon' = [daemon EXCEPT ![x] = [next EXCEPT !.out =
              <<To(fd, Num(SEND_INFO)), To(fd, Num(q)), To(fd, Num(s))>>]]
  BY <1>1, <1>2, Zenon DEF Inform
<1>5. CASE i = PAGE_NUMBER /\ daemon' = [daemon EXCEPT ![x] = Resume(x)]
  <2>1. PICK r : r = Resume(x)
    OBVIOUS
  <2>2. r.pc = "scan" /\ r.index = 0 /\ r.polled = d.polled
    BY <1>0, <1>1, <2>1 DEF Resume, DaemonState
  <2>3. daemon'[x] = r /\ \A k \in Rank \ {x} : daemon'[k] = daemon[k]
    BY <1>0, <1>5, <2>1
  <2> QED BY <1>0, <1>1, <1>5, <2>2, <2>3
<1>6. CASE i < PAGE_NUMBER /\ i % DSM_NODE_NUM \in {x, s} /\ daemon' = [daemon EXCEPT ![x] = next]
  <2>1. daemon'[x] = next /\ \A k \in Rank \ {x} : daemon'[k] = daemon[k]
    BY <1>0, <1>6
  <2> QED BY <1>0, <1>1, <1>3, <1>6, <2>1
<1>7. ASSUME NEW fd \in FdOf(x, i), i < PAGE_NUMBER, NEW o,
             o = <<To(fd, Num(SEND_INFO)), To(fd, Num(q)), To(fd, Num(s))>>,
             daemon' = [daemon EXCEPT ![x] = [next EXCEPT !.out = o]]
      PROVE  /\ \A k \in Rank \ {x} : daemon'[k] = daemon[k]
             /\ daemon'[x].pc = "inform" /\ daemon'[x].page = q /\ daemon'[x].index = i + 1
             /\ daemon'[x].polled = daemon[x].polled /\ daemon'[x].out = o
  <2>1. daemon'[x] = [next EXCEPT !.out = o] /\ \A k \in Rank \ {x} : daemon'[k] = daemon[k]
    BY <1>0, <1>7
  <2>2. /\ [next EXCEPT !.out = o].pc = next.pc /\ [next EXCEPT !.out = o].index = next.index
        /\ [next EXCEPT !.out = o].page = next.page /\ [next EXCEPT !.out = o].out = o
        /\ [next EXCEPT !.out = o].polled = next.polled
    BY <1>1, <1>2 DEF DaemonState
  <2> QED BY <1>1, <1>3, <2>1, <2>2
<1> QED BY <1>0, <1>4, <1>5, <1>6, <1>7, Zenon

\* The loop over the pages comes by every process, since there are as many
\* pages as processes at least.
LEMMA InformKnown ==
  ASSUME Apart, PAGE_NUMBER >= DSM_NODE_NUM, TypeOK, TypeOK', Shaped, NEW st \in Views, Framed(st),
         Known(st), NEW x \in Rank, Lending(x), Inform(x)
  PROVE  Known(st)'
<1>0. daemon \in [Rank -> DaemonState]
  BY DEF TypeOK, DaemonState
<1>1. PICK q, s, i : q = daemon[x].page /\ s = daemon[x].slot /\ i = daemon[x].index
  OBVIOUS
<1>2. /\ daemon[x].pc = "inform" /\ daemon[x].out = << >> /\ s \in Rank \ {x} /\ q \in Borrows(s)
      /\ q % DSM_NODE_NUM = x /\ Borrows(x) = {}
  BY <1>1, Giving, Zenon DEF Inform
<1>3. /\ UNCHANGED <<mapped, table, chan>> /\ \A k \in Rank \ {x} : daemon'[k] = daemon[k]
      /\ daemon'[x].polled = daemon[x].polled
      /\ \/ i = PAGE_NUMBER /\ daemon'[x].pc = "scan" /\ daemon'[x].index = 0
         \/ /\ i < PAGE_NUMBER /\ daemon'[x].pc = "inform" /\ daemon'[x].page = q
            /\ daemon'[x].index = i + 1
            /\ \/ i % DSM_NODE_NUM \in {x, s}
               \/ \E fd \in FdOf(x, i) :
                    daemon'[x].out = <<To(fd, Num(SEND_INFO)), To(fd, Num(q)), To(fd, Num(s))>>
  BY <1>1, Turns
<1>4. Aware(x) /\ Watchful(x)
  BY DEF Known
<1>5. ASSUME \A p \in Nat : Gone(p) => Gone(p)' PROVE Aware(x)' /\ Watchful(x)'
  <2>1. \A p : Gone(p)' <=> Gone(p)
    BY <1>3 DEF Gone
  <2>2. Watchful(x)'
    BY <1>1, <1>2, <1>3, <1>4, <2>1 DEF Watchful
  <2>3. Aware(x)'
    BY <1>2, <1>3, <1>4, <2>1 DEF Aware, Borrows
  <2> QED BY <2>2, <2>3
<1>6. ASSUME NEW n \in Rank \ {x, s}, i <= n
      PROVE  /\ daemon'[x].pc = "inform" /\ daemon'[x].page = q
             /\ \/ daemon'[x].index <= n
                \/ daemon'[x].out # << >> /\ Head(daemon'[x].out).fd = n /\ Len(daemon'[x].out) # 1
  <2>1. i \in Nat /\ i < PAGE_NUMBER /\ (i = n \/ i + 1 <= n)
    <3>1. i \in Nat
      BY <1>0, <1>1, Indexes DEF DaemonState
    <3>2. n \in Nat /\ n < DSM_NODE_NUM /\ DSM_NODE_NUM \in Nat /\ PAGE_NUMBER \in Nat
      BY NodeAssumption DEF Rank
    <3> QED BY <1>6, <3>1, <3>2
  <2>2. daemon'[x].pc = "inform" /\ daemon'[x].page = q /\ daemon'[x].index = i + 1
    BY <1>3, <2>1
  <2>3. CASE i = n
    <3>1. n % DSM_NODE_NUM = n /\ FdOf(x, n) = {n}
      BY AtHome DEF FdOf
    <3>2. PICK fd : fd = n /\ daemon'[x].out = <<To(fd, Num(SEND_INFO)), To(fd, Num(q)), To(fd, Num(s))>>
      BY <1>3, <2>1, <2>3, <3>1
    <3> QED BY <2>2, <3>2, Outs, Outgoing
  <2> QED BY <2>1, <2>2, <2>3
<1>7. ASSUME NEW b \in Rank, NEW p \in Borrows(b), NEW n \in Rank \ {b, p % DSM_NODE_NUM},
             Hears(st, n, p, b)
      PROVE  Hears(st, n, p, b)'
  <2>1. PICK h \in Rank : h = p % DSM_NODE_NUM
    BY Lenders
  <2>2. Carries(st, h, n, "infoPage", p)' <=> Carries(st, h, n, "infoPage", p)
    BY <1>3, CarriesStays
  <2>3. Gone(p)' <=> Gone(p)
    BY <1>3 DEF Gone
  <2>4. Informing(h, n, p) => Informing(h, n, p)'
    <3>1. CASE h = x
      <4>1. Informing(x, n, p) => p = q /\ i <= n
        BY <1>1, <1>2 DEF Informing
      <4>2. p = q => n \in Rank \ {x, s}
        BY <1>2, <2>1, <3>1, Lenders
      <4> QED BY <1>6, <3>1, <4>1, <4>2 DEF Informing
    <3>2. CASE h # x
      BY <1>3, <3>2 DEF Informing
    <3> QED BY <3>1, <3>2
  <2>5. daemon'[n] = daemon[n] \/ daemon[n].pc # "infoOwner"
    BY <1>2, <1>3
  <2> QED BY <1>3, <1>7, <2>1, <2>2, <2>3, <2>4, <2>5 DEF Hears
<1> QED BY <1>2, <1>3, <1>5, <1>7, KnownSilent

\* A word is written from x to y.
LEMMA KnownPushed ==
  ASSUME Apart, TypeOK, TypeOK', NEW x \in Rank, NEW y \in Rank \ {x}, NEW w, Pushed(x, y, w),
         NEW st, NEW st2, NEW b, NEW k, k = Len(chan[x][y]) + 1, Extended(st, st2, x, y, k, b),
         NEW a, a = st[x][y][Len(chan[x][y])].at, Known(st), UNCHANGED <<mapped, table>>,
         \A n \in Rank : /\ daemon'[n].pc = daemon[n].pc /\ daemon'[n].page = daemon[n].page
                         /\ daemon'[n].index = daemon[n].index /\ daemon'[n].polled = daemon[n].polled,
         a = "infoPage" => Gone(w.val),
         a = "infoOwner" => Names(daemon[x].page, w.val),
         b.at = "infoOwner" => w.val = daemon[x].page,
         \A h, n \in Rank : \A p :
           Informing(h, n, p) => \/ Informing(h, n, p)'
                                 \/ h = x /\ n = y /\ a = "infoPage" /\ w.val = p
  PROVE  Known(st2)'
<1>1. \A p : Gone(p)' <=> Gone(p)
  BY DEF Gone
<1>2. \A n \in Rank : Aware(n)' /\ Watchful(n)'
  BY <1>1, OthersKnow DEF Known
<1>c. \A c, d \in Rank : \A at, v :
        Carries(st2, c, d, at, v)' <=>
          \/ Carries(st, c, d, at, v)
          \/ c = x /\ d = y /\ at = a /\ v = w.val
  <2>1. Gains(st, st2, x, y, w.val)
    BY ONLY CarriesPushed, x \in Rank, y \in Rank \ {x}, Pushed(x, y, w), k = Len(chan[x][y]) + 1,
            Extended(st, st2, x, y, k, b)
  <2> QED BY <2>1 DEF Gains
<1>3. News(st2)'
  BY <1>1, <1>c DEF Known, News
<1>4. Paired(st2)'
  BY PairedPushed DEF Known
<1>5. Spread(st2)'
  <2>1. ASSUME NEW c \in Rank, NEW p \in Borrows(c), NEW n \in Rank \ {c, p % DSM_NODE_NUM}
        PROVE  Hears(st2, n, p, c)'
    <3>1. Hears(st, n, p, c)
      BY DEF Known, Spread
    <3>2. PICK h \in Rank : h = p % DSM_NODE_NUM
      BY Lenders
    <3>3. Carries(st, h, n, "infoPage", p) => Carries(st2, h, n, "infoPage", p)'
      BY <1>c
    <3>4. Informing(h, n, p) => Informing(h, n, p)' \/ Carries(st2, h, n, "infoPage", p)'
      BY <1>c
    <3> QED BY <1>1, <3>1, <3>2, <3>3, <3>4 DEF Hears
  <2> QED BY <2>1 DEF Spread, Borrows
<1> QED BY <1>2, <1>3, <1>4, <1>5 DEF Known

\* The user thread writes a word of a request.
LEMMA MainWriteKnown ==
  ASSUME Apart, TypeOK, TypeOK', Shaped, StreamsFramed, Together', NEW x \in Rank, MainWrite(x),
         NEW st \in Views, Framed(st), NEW st2, WroteFirst(x, st, st2, main[x].out), Known(st)
  PROVE  Known(st2)'
<1>0. ~Exit(x)
  BY NoExit
<1>1. main[x].out # << >> /\ UNCHANGED <<daemon, mapped, table>>
  BY <1>0 DEF MainWrite
<1>2. \A p : Gone(p)' <=> Gone(p)
  BY <1>1 DEF Gone
<1>3. \A h, n, p : Informing(h, n, p)' <=> Informing(h, n, p)
  BY <1>1 DEF Informing
<1>4. CASE st2 = st /\ chan' = chan
  <2>1. Aware(x)' /\ Watchful(x)'
    BY <1>1, <1>2, OthersKnow DEF Known
  <2>2. \A c, d, at, v : Carries(st, c, d, at, v)' <=> Carries(st, c, d, at, v)
    BY <1>4, CarriesStays
  <2>3. \A n, p, b : Hears(st, n, p, b) => Hears(st, n, p, b)'
    BY <1>1, <1>2, <1>3, <2>2 DEF Hears
  <2> QED BY <1>1, <1>4, <2>1, <2>3, KnownSilent
<1>5. CASE \E r, b : /\ r = Head(main[x].out).fd /\ Writes(x, st, r, Head(main[x].out).word, b)
                     /\ Extended(st, st2, x, Link[x][r], Len(chan[x][Link[x][r]]) + 1, b)
  <2>1. PICK r, b, w, y, l : /\ r = Head(main[x].out).fd /\ w = Head(main[x].out).word
                             /\ y = Link[x][r] /\ l = Len(chan[x][y])
                             /\ Writes(x, st, r, w, b) /\ Extended(st, st2, x, y, l + 1, b)
    BY <1>5, Zenon
  <2>2. r \in Rank \ {x} /\ y \in Rank \ {x} /\ Pushed(x, y, w) /\ Legal(st[x][y][l], w, b)
    BY <2>1, Links, Zenon DEF Writes
  <2>3. DaemonOwed(x, r) = "type"
    BY <1>1, <2>1, <2>2, MainHead, DaemonSilent, Zenon
  <2>4. PICK a : a = st[x][y][l] /\ Ends(x, r, a)
    BY <2>1, <2>2, ViewEnds, Zenon
  <2>5. a.at \notin {"infoPage", "infoOwner"}
    BY <2>3, <2>4 DEF Ends, Owed
  <2>6. b.at # "infoOwner"
    BY <2>2, <2>4, <2>5 DEF Legal
  <2>7. PICK k, at : /\ k = Len(chan[x][y]) + 1 /\ Extended(st, st2, x, y, k, b)
                     /\ at = st[x][y][Len(chan[x][y])].at /\ at \notin {"infoPage", "infoOwner"}
    BY <2>1, <2>4, <2>5, Zenon
  <2> HIDE <2>1
  <2> QED BY <1>1, <1>3, <2>2, <2>6, <2>7, KnownPushed
<1> QED BY <1>4, <1>5 DEF WroteFirst

\* How much of an information is left.
LEMMA InformsLess ==
  ASSUME Shaped, NEW x \in Rank, daemon[x].pc = "inform", daemon[x].out # << >>,
         daemon'[x].out = Tail(daemon[x].out), Len(daemon[x].out) \notin {1, 2}
  PROVE  daemon'[x].out # << >> /\ Len(daemon'[x].out) # 1
<1>1. PICK p, s : p = daemon[x].page /\ s = daemon[x].slot
  OBVIOUS
<1>2. PICK fd : daemon[x].out \in {<<To(fd, Num(SEND_INFO)), To(fd, Num(p)), To(fd, Num(s))>>,
                                    <<To(fd, Num(p)), To(fd, Num(s))>>, <<To(fd, Num(s))>>}
  BY <1>1 DEF Shaped, DaemonOut
<1>3. PICK a, b, c : a = To(fd, Num(SEND_INFO)) /\ b = To(fd, Num(p)) /\ c = To(fd, Num(s))
  OBVIOUS
<1>4. daemon[x].out = <<a, b, c>>
  BY <1>2, <1>3, Outs
<1>5. daemon'[x].out = <<b, c>>
  BY <1>4, Outs
<1> QED BY <1>5, Outs

\* What the daemon writes to another process gets onto the connection.
LEMMA WrittenArrives ==
  ASSUME TypeOK, Shaped, Together', NEW x \in Rank, DaemonWrite(x), Head(daemon[x].out).fd \in Rank \ {x}
  PROVE  chan' # chan
<1>0. daemon \in [Rank -> DaemonState] /\ ~Exit(x)
  BY NoExit DEF TypeOK, DaemonState
<1>1. PICK fd : fd = Head(daemon[x].out).fd
  OBVIOUS
<1>2. PICK w \in Word : w = Head(daemon[x].out).word /\ Delivers(x, fd, w)
  <2>1. daemon[x].out # << >> /\ Delivers(x, Head(daemon[x].out).fd, Head(daemon[x].out).word)
    BY <1>0 DEF DaemonWrite
  <2>2. Head(daemon[x].out) \in Output
    BY <1>0, <2>1 DEF DaemonState
  <2> QED BY <1>1, <2>1, <2>2 DEF Output
<1>3. fd \in Rank \ {x} /\ fd # Stdin /\ Link[x][fd] \in Rank \ {x}
  <2>1. fd \in Rank \ {x}
    BY <1>1
  <2>2. fd # Stdin
    BY <2>1, NodeAssumption DEF Rank, Stdin
  <2>3. Link[x][fd] \in Rank \ {x}
    BY ONLY <2>1, x \in Rank, Links
  <2> QED BY <2>1, <2>2, <2>3
<1>4. open = [k \in Rank |-> Rank \ {k}]
  BY DEF Shaped
<1>5. chan' = [chan EXCEPT ![x][Link[x][fd]] = Append(@, w)]
  <2>1. fd = Stdin \/ chan' = [chan EXCEPT ![x][Link[x][fd]] = Append(@, w)]
    BY ONLY <1>2, <1>4, TypeOK, x \in Rank, DeliversTo
  <2> QED BY <1>3, <2>1
<1>6. Pushed(x, Link[x][fd], w)
  BY <1>2, <1>3, <1>5, Appended
<1> QED BY <1>3, <1>6 DEF Pushed

\* The daemon writes a word of an answer or of an information.
LEMMA DaemonWriteKnown ==
  ASSUME Apart, TypeOK, TypeOK', Shaped, StreamsFramed, Together', NEW x \in Rank, DaemonWrite(x),
         NEW st \in Views, Framed(st), NEW st2, WroteFirst(x, st, st2, daemon[x].out),
         Borrowing(x), Lending(x), Known(st)
  PROVE  Known(st2)'
<1>0. daemon \in [Rank -> DaemonState] /\ ~Exit(x)
  BY NoExit DEF TypeOK, DaemonState
<1>1. /\ daemon[x].out # << >> /\ daemon' = [daemon EXCEPT ![x].out = Tail(@)]
      /\ UNCHANGED <<main, mapped, table>>
  BY <1>0 DEF DaemonWrite
<1>2. /\ daemon'[x].out = Tail(daemon[x].out)
      /\ \A k \in Rank : /\ daemon'[k].pc = daemon[k].pc /\ daemon'[k].page = daemon[k].page
                         /\ daemon'[k].index = daemon[k].index /\ daemon'[k].polled = daemon[k].polled
      /\ \A k \in Rank \ {x} : daemon'[k] = daemon[k]
  BY <1>0, <1>1 DEF DaemonState
<1>3. PICK p, s : p = daemon[x].page /\ s = daemon[x].slot
  OBVIOUS
<1>p. /\ daemon[x].pc \in {"copy", "unmap", "inform"} /\ main[x].out = << >>
      /\ s \in Rank \ {x} /\ p \in Borrows(s)
  BY <1>1, <1>3, OneThread, Giving
<1>4. \A q : Gone(q)' <=> Gone(q)
  BY <1>1 DEF Gone
<1>5. ASSUME daemon[x].pc = "inform"
      PROVE  /\ Head(daemon[x].out).fd \in (Rank \ {x}) \cup {Stdin}
             /\ daemon'[x].out # << >> => Head(daemon'[x].out).fd = Head(daemon[x].out).fd
             /\ Len(daemon[x].out) = 1 => Head(daemon[x].out).word = Num(s)
             /\ Len(daemon[x].out) = 2 => Head(daemon[x].out).word = Num(p)
             /\ Len(daemon[x].out) \notin {1, 2} => daemon'[x].out # << >> /\ Len(daemon'[x].out) # 1
  BY <1>1, <1>2, <1>3, <1>5, InformsOne, InformsLess DEF Lending
<1>6. ASSUME NEW h \in Rank, NEW n \in Rank, NEW q, Informing(h, n, q)
      PROVE  \/ Informing(h, n, q)'
             \/ /\ h = x /\ daemon[x].pc = "inform" /\ q = p /\ Head(daemon[x].out).fd = n
                /\ n \in Rank \ {x} /\ Len(daemon[x].out) = 2
  <2>1. CASE h # x
    BY <1>2, <1>6, <2>1 DEF Informing
  <2>2. CASE h = x
    <3>1. daemon[x].pc = "inform" /\ q = p /\ daemon'[x].pc = "inform" /\ daemon'[x].page = p
      BY <1>2, <1>3, <1>6, <2>2 DEF Informing
    <3>2. CASE daemon[x].index <= n
      BY <1>2, <2>2, <3>1, <3>2 DEF Informing
    <3>3. CASE Head(daemon[x].out).fd = n /\ Len(daemon[x].out) # 1
      <4>1. n # Stdin
        BY NodeAssumption DEF Rank, Stdin
      <4>2. n \in Rank \ {x}
        BY <1>5, <3>1, <3>3, <4>1
      <4>3. CASE Len(daemon[x].out) = 2
        BY <2>2, <3>1, <3>3, <4>2, <4>3
      <4>4. CASE Len(daemon[x].out) # 2
        <5>1. daemon'[x].out # << >> /\ Len(daemon'[x].out) # 1 /\ Head(daemon'[x].out).fd = n
          BY <1>5, <3>1, <3>3, <4>4
        <5> QED BY <2>2, <3>1, <5>1 DEF Informing
      <4> QED BY <4>3, <4>4
    <3> QED BY <1>6, <2>2, <3>2, <3>3 DEF Informing
  <2> QED BY <2>1, <2>2
<1>7. CASE st2 = st /\ chan' = chan
  <2>1. Head(daemon[x].out).fd \notin Rank \ {x}
    BY <1>7, WrittenArrives
  <2>2. \A h, n \in Rank : \A q : Informing(h, n, q) => Informing(h, n, q)'
    BY <1>6, <2>1
  <2>3. Aware(x)' /\ Watchful(x)'
    BY <1>1, <1>2, <1>4, OthersKnow DEF Known
  <2>4. \A c, d, at, v : Carries(st, c, d, at, v)' <=> Carries(st, c, d, at, v)
    BY <1>7, CarriesStays
  <2>5. ASSUME NEW b \in Rank, NEW q \in Borrows(b), NEW n \in Rank, Hears(st, n, q, b)
        PROVE  Hears(st, n, q, b)'
    <3>1. PICK h \in Rank : h = q % DSM_NODE_NUM
      BY Lenders
    <3> QED BY <1>1, <1>2, <1>4, <2>2, <2>4, <2>5, <3>1 DEF Hears
  <2>6. mapped' = mapped /\ table' = table
    BY <1>1
  <2> QED BY <1>2, <1>7, <2>3, <2>5, <2>6, KnownSilent
<1>8. CASE \E r, b : /\ r = Head(daemon[x].out).fd /\ Writes(x, st, r, Head(daemon[x].out).word, b)
                     /\ Extended(st, st2, x, Link[x][r], Len(chan[x][Link[x][r]]) + 1, b)
  <2>1. PICK r, b, w, y, l : /\ r = Head(daemon[x].out).fd /\ w = Head(daemon[x].out).word
                             /\ y = Link[x][r] /\ l = Len(chan[x][y])
                             /\ Writes(x, st, r, w, b) /\ Extended(st, st2, x, y, l + 1, b)
    BY <1>8, Zenon
  <2>2. r \in Rank \ {x} /\ y \in Rank \ {x} /\ Pushed(x, y, w) /\ Legal(st[x][y][l], w, b)
    BY <2>1, Links, Zenon DEF Writes
  <2>y. y = r
    BY <2>1, <2>2, Zenon DEF Apart, Direct
  <2>3. st[x][y][l].at = DaemonOwed(x, r)
    <3>1. PICK a : a = st[x][y][l] /\ Ends(x, r, a)
      BY <2>1, <2>2, ViewEnds, Zenon
    <3> QED BY <1>p, <3>1, Outs DEF Ends, Owed, Asked
  <2>4. /\ DaemonOwed(x, r) = "infoPage" => daemon[x].pc = "inform" /\ Len(daemon[x].out) = 2
        /\ DaemonOwed(x, r) = "infoOwner" => daemon[x].pc = "inform" /\ Len(daemon[x].out) = 1
        /\ daemon[x].pc = "inform" /\ Len(daemon[x].out) = 2 => DaemonOwed(x, r) = "infoPage"
    BY <1>1, <1>p, <2>1, Zenon DEF DaemonOwed, PageOwed, InfoOwed
  <2>5. DaemonOwed(x, r) = "infoPage" => w.val = p
    BY <1>5, <2>1, <2>4, Outgoing, Zenon
  <2>6. DaemonOwed(x, r) = "infoPage" => Gone(p)
    BY <1>3, <2>4 DEF Known, Watchful
  <2>7. DaemonOwed(x, r) = "infoOwner" => Names(p, w.val)
    <3>1. DaemonOwed(x, r) = "infoOwner" => w.val = s
      BY <1>5, <2>1, <2>4, Outgoing, Zenon
    <3> QED BY <1>p, <3>1 DEF Names
  <2>8. b.at = "infoOwner" => w.val = p
    BY <2>2, <2>3, <2>5 DEF Legal
  <2>9. PICK k, at : /\ k = Len(chan[x][y]) + 1 /\ Extended(st, st2, x, y, k, b)
                     /\ at = st[x][y][Len(chan[x][y])].at /\ at = DaemonOwed(x, r)
    BY <2>1, <2>3, Zenon
  <2>10. ASSUME NEW h \in Rank, NEW n \in Rank, NEW q, Informing(h, n, q)
         PROVE  \/ Informing(h, n, q)'
                \/ h = x /\ n = y /\ at = "infoPage" /\ w.val = q
    <3>1. ASSUME h = x, daemon[x].pc = "inform", q = p, Head(daemon[x].out).fd = n, Len(daemon[x].out) = 2
          PROVE  n = y /\ at = "infoPage" /\ w.val = q
      BY <2>1, <2>y, <2>4, <2>5, <2>9, <3>1, Zenon
    <3> QED BY <1>6, <2>10, <3>1
  <2>11. /\ at = "infoPage" => Gone(w.val)
         /\ at = "infoOwner" => Names(daemon[x].page, w.val)
         /\ b.at = "infoOwner" => w.val = daemon[x].page
    BY <1>3, <2>5, <2>6, <2>7, <2>8, <2>9
  <2>12. /\ UNCHANGED <<mapped, table>>
         /\ \A n \in Rank : /\ daemon'[n].pc = daemon[n].pc /\ daemon'[n].page = daemon[n].page
                            /\ daemon'[n].index = daemon[n].index /\ daemon'[n].polled = daemon[n].polled
    BY ONLY <1>1, <1>2
  <2>13. \A h, n \in Rank : \A q :
           Informing(h, n, q) => \/ Informing(h, n, q)'
                                 \/ h = x /\ n = y /\ at = "infoPage" /\ w.val = q
    BY ONLY <2>10
  <2>14. y \in Rank \ {x} /\ Pushed(x, y, w)
    BY ONLY <2>2
  <2>15. k = Len(chan[x][y]) + 1 /\ Extended(st, st2, x, y, k, b) /\ at = st[x][y][Len(chan[x][y])].at
    BY ONLY <2>9
  <2> QED BY ONLY Apart, TypeOK, TypeOK', x \in Rank, Known(st), <2>11, <2>12, <2>13, <2>14, <2>15, KnownPushed
<1> QED BY <1>7, <1>8 DEF WroteFirst

\* A word is read by x from y.
LEMMA KnownPopped ==
  ASSUME Apart, TypeOK, TypeOK', Shaped, NEW x \in Rank, NEW y \in Rank \ {x}, Popped(y, x),
         NEW st \in Views, Framed(st), NEW st2, Shifted(st, st2, y, x), Known(st),
         daemon[x].slot = y, daemon[x].pc # "inform",
         \A k \in Rank \ {x} : /\ mapped'[k] = mapped[k] /\ table'[k] = table[k]
                               /\ daemon'[k] = daemon[k],
         mapped[x] \subseteq mapped'[x], mapped'[x] \subseteq mapped[x] \cup Borrows(x),
         (\A p \in Nat : Gone(p) => Gone(p)') => Aware(x)' /\ Watchful(x)',
         \A p \in Page : IF daemon[x].pc = "infoOwner" /\ daemon[x].page = p
                           THEN Names(p, table'[x][p].owner) ELSE table'[x][p] = table[x][p],
         st[y][x][0].at = "infoPage" => daemon'[x].pc = "infoOwner" /\ daemon'[x].page = chan[y][x][1].val,
         st[y][x][1].at = "infoOwner" => st[y][x][0].at = "infoPage"
  PROVE  Known(st2)'
<1>1. \A p \in Nat : Gone(p) => Gone(p)'
  <2>1. \A k \in Rank : \A p \in mapped'[k] : p \in mapped[k] \/ p \in Borrows(k)
    OBVIOUS
  <2> QED BY <2>1, GoneStays
<1>2. \A n \in Rank : Aware(n)' /\ Watchful(n)'
  <2>1. ASSUME NEW k \in Rank \ {x} PROVE Aware(k)' /\ Watchful(k)'
    BY <1>1, OthersKnow DEF Known
  <2> QED BY <1>1, <2>1
<1>c. \A c, d \in Rank : \A at, v :
        /\ Carries(st2, c, d, at, v)' => Carries(st, c, d, at, v)
        /\ Carries(st, c, d, at, v) =>
             \/ Carries(st2, c, d, at, v)'
             \/ c = y /\ d = x /\ at = st[y][x][0].at /\ v = chan[y][x][1].val
  BY ONLY CarriesPopped, x \in Rank, y \in Rank \ {x}, Popped(y, x), Shifted(st, st2, y, x)
<1>3. News(st2)'
  BY <1>1, <1>c DEF Known, News
<1>4. Paired(st2)'
  <2>1. ASSUME NEW c \in Rank \ {x}
        PROVE  /\ c # y => st[c][x][0].at # "infoOwner"
               /\ st[x][c][Len(chan[x][c])].at # "infoOwner"
    BY InfoEnds
  <2>2. \A k \in Rank \ {x} : daemon'[k].page = daemon[k].page
    OBVIOUS
  <2> QED BY <2>1, <2>2, PairedPopped DEF Known
<1>5. Spread(st2)'
  <2>1. ASSUME NEW b \in Rank, NEW p \in Borrows(b), NEW n \in Rank \ {b, p % DSM_NODE_NUM}
        PROVE  Hears(st2, n, p, b)'
    <3>1. Hears(st, n, p, b)
      BY DEF Known, Spread
    <3>2. PICK h \in Rank : h = p % DSM_NODE_NUM
      BY Lenders
    <3>3. CASE ~Gone(p)
      <4>1. ~Gone(p)'
        BY <3>2, <3>3 DEF Gone
      <4> QED BY <4>1 DEF Hears
    <3>4. CASE table[n][p].owner = b \/ (daemon[n].pc = "infoOwner" /\ daemon[n].page = p)
      <4>1. CASE n # x
        BY <3>4, <4>1 DEF Hears
      <4>2. CASE n = x
        <5>1. p \in Page /\ \A m \in Rank : p \in Borrows(m) => m = b
          BY Lenders DEF Borrows
        <5>2. table'[x][p].owner = b
          BY <3>4, <4>2, <5>1 DEF Names
        <5> QED BY <4>2, <5>2 DEF Hears
      <4> QED BY <4>1, <4>2
    <3>5. CASE Informing(h, n, p)
      <4>1. Informing(h, n, p)'
        BY <3>5 DEF Informing
      <4> QED BY <3>2, <4>1 DEF Hears
    <3>6. CASE Carries(st, h, n, "infoPage", p)
      <4>1. CASE Carries(st2, h, n, "infoPage", p)'
        BY <3>2, <4>1 DEF Hears
      <4>2. CASE h = y /\ n = x /\ st[y][x][0].at = "infoPage" /\ chan[y][x][1].val = p
        BY <4>2 DEF Hears
      <4> QED BY <1>c, <3>6, <4>1, <4>2
    <3> QED BY <3>1, <3>2, <3>3, <3>4, <3>5, <3>6 DEF Hears
  <2> QED BY <2>1 DEF Spread, Borrows
<1> QED BY <1>2, <1>3, <1>4, <1>5 DEF Known

\* The daemon reads a word.
LEMMA DaemonReadKnown ==
  ASSUME Apart, TypeOK, TypeOK', Shaped, NEW x \in Rank, NEW st \in Views, Framed(st), Tracked(st),
         NEW st2, ReadNext(x, st, st2), Borrowing(x), Lending(x), Known(st),
         \/ RecvType(x) \/ RecvInfoPage(x) \/ RecvInfoOwner(x) \/ RecvPageRequest(x)
         \/ RecvPageNumber(x) \/ RecvLength(x) \/ RecvText(x)
  PROVE  Known(st2)'
<1>0. /\ daemon \in [Rank -> DaemonState] /\ mapped \in [Rank -> SUBSET Page]
      /\ table \in [Rank -> [Page -> [status : {"WRITE", "INVALID"}, owner : Nat]]]
      /\ Aware(x) /\ Watchful(x) /\ Page \subseteq Nat
  BY Pages DEF TypeOK, DaemonState, Known
<1>1. PICK s, y : s = daemon[x].slot /\ y = Link[x][s] /\ Reads(x, st, s) /\ Shifted(st, st2, y, x)
  BY DEF ReadNext
<1>2. s \in Rank \ {x} /\ y \in Rank \ {x} /\ Popped(y, x) /\ (\A k \in Rank \ {x} : daemon'[k] = daemon[k])
  BY <1>1, Links DEF Reads, OthersStay
<1>3. s = y
  BY <1>1, <1>2 DEF Apart, Direct
<1>5. PICK v : v = chan[y][x][1].val
  OBVIOUS
<1>6. Carries(st, y, x, st[y][x][0].at, v)
  BY <1>1, <1>2, <1>5, FirstCarried
<1>7. ASSUME NEW at \in Reading, NEW kind, Takes(x, at, kind)
      PROVE  /\ st[y][x][0].at = at /\ v = NextWord(x) /\ daemon[x].pc = at
             /\ st[y][x][1].at = "infoOwner" => at = "infoPage"
             /\ v \in Nat
  <2>1. /\ st[y][x][0].at = at /\ v = NextWord(x) /\ daemon[x].pc = at
        /\ Legal(st[y][x][0], chan[y][x][1], st[y][x][1]) /\ chan[y][x][1] \in Word
    BY <1>1, <1>5, <1>7, ReadsLegal
  <2>2. v \in Nat
    BY <1>5, <2>1 DEF Word
  <2> QED BY ONLY <2>1, <2>2, <1>7 DEF Legal
<1>r. {"type", "page", "len", "text", "infoPage", "infoOwner", "wanted"} \subseteq Reading
  BY DEF Reading, ReadingInt
<1>q. PICK q : q = daemon[x].page
  OBVIOUS
<1>8. /\ daemon[x].pc # "inform" /\ \A k \in Rank \ {x} : mapped'[k] = mapped[k] /\ table'[k] = table[k]
      /\ mapped[x] \subseteq mapped'[x] /\ mapped'[x] \subseteq mapped[x] \cup Borrows(x)
      /\ (\A p \in Nat : Gone(p) => Gone(p)') => Aware(x)' /\ Watchful(x)'
      /\ \A p \in Page : IF daemon[x].pc = "infoOwner" /\ q = p
                           THEN Names(p, table'[x][p].owner) ELSE table'[x][p] = table[x][p]
      /\ st[y][x][0].at = "infoPage" => daemon'[x].pc = "infoOwner" /\ daemon'[x].page = v
      /\ st[y][x][1].at = "infoOwner" => st[y][x][0].at = "infoPage"
  <2>1. CASE RecvType(x) \/ RecvPageRequest(x)
    <3>1. /\ daemon[x].pc \in {"type", "wanted"} /\ st[y][x][0].at = daemon[x].pc
          /\ st[y][x][1].at # "infoOwner"
      BY <1>7, <1>r, <2>1 DEF RecvType, RecvPageRequest
    <3>2. /\ mapped' = mapped /\ table' = table /\ daemon'[x].pc \notin Involved
          /\ daemon'[x].index \in {0, daemon[x].index} /\ daemon'[x].polled = daemon[x].polled
      <4>1. CASE RecvType(x)
        BY <1>0, <4>1 DEF RecvType, DaemonState, Resume, Involved
      <4>2. CASE RecvPageRequest(x)
        BY <1>0, <4>2 DEF RecvPageRequest, DaemonState, Involved
      <4> QED BY <2>1, <4>1, <4>2
    <3>3. daemon[x].pc \notin Involved
      BY <3>1 DEF Involved
    <3>4. (\A p \in Nat : Gone(p) => Gone(p)') => Aware(x)' /\ Watchful(x)'
      BY ONLY TypeOK, x \in Rank, <1>0, <3>2, <3>3, UninvolvedKnows
    <3> QED BY <3>1, <3>2, <3>4
  <2>2. CASE RecvInfoPage(x)
    <3>1. /\ daemon'[x].pc = "infoOwner" /\ daemon'[x].page = v /\ daemon'[x].index = daemon[x].index
          /\ daemon'[x].polled = daemon[x].polled /\ mapped' = mapped /\ table' = table
          /\ daemon[x].pc = "infoPage" /\ st[y][x][0].at = "infoPage" /\ v \in Nat
      BY <1>0, <1>7, <1>r, <2>2 DEF RecvInfoPage, DaemonState
    <3>2. Gone(v)
      BY <1>2, <1>6, <3>1 DEF Known, News
    <3>3. ASSUME \A p \in Nat : Gone(p) => Gone(p)' PROVE Aware(x)' /\ Watchful(x)'
      <4>1. Watchful(x)'
        BY <1>0, <3>1, <3>2, <3>3 DEF Watchful
      <4>2. \A p : ~Filling(x, p)
        BY <3>1 DEF Filling
      <4>3. Aware(x)'
        BY <1>0, <3>1, <3>3, <4>2 DEF Aware, Borrows
      <4> QED BY <4>1, <4>3
    <3> QED BY <3>1, <3>3
  <2>3. CASE RecvInfoOwner(x)
    <3>1. /\ daemon'[x].pc = "scan" /\ daemon'[x].index = 0 /\ daemon'[x].polled = daemon[x].polled
      BY <1>0, <2>3 DEF RecvInfoOwner, DaemonState, Resume
    <3>2. /\ daemon[x].pc = "infoOwner" /\ st[y][x][0].at = "infoOwner" /\ v = NextWord(x)
          /\ st[y][x][1].at # "infoOwner" /\ mapped' = mapped
      BY <1>7, <1>r, <2>3 DEF RecvInfoOwner
    <3>3. q \notin Touches[x] /\ Gone(q) /\ q \in Nat
      BY <1>0, <1>q, <3>2 DEF Lending, Watchful, DaemonState
    <3>e. PICK e : e = [status |-> "WRITE", owner |-> v]
      OBVIOUS
    <3>4. table' = IF q \in Page THEN [table EXCEPT ![x][q] = e] ELSE table
      BY <1>q, <2>3, <3>2, <3>e DEF RecvInfoOwner
    <3>5. /\ \A k \in Rank \ {x} : table'[k] = table[k]
          /\ \A p \in Page \ {q} : table'[x][p] = table[x][p]
          /\ q \in Page => table'[x][q].owner = v
      BY <1>0, <3>e, <3>4
    <3>6. Names(q, v)
      <4>1. Len(chan[y][x]) \in Nat \ {0} /\ 0 \in 0 .. Len(chan[y][x]) /\ 0 + 1 = 1
        BY <1>2 DEF Popped
      <4>2. Names(PageBefore(y, x, 0), chan[y][x][0 + 1].val)
        BY <1>2, <3>2, <4>1 DEF Known, Paired
      <4> QED BY <1>5, <1>q, <4>1, <4>2 DEF PageBefore
    <3>7. ASSUME \A p \in Nat : Gone(p) => Gone(p)' PROVE Aware(x)' /\ Watchful(x)'
      <4>1. Watchful(x)'
        BY <1>0, <3>1 DEF Watchful
      <4>2. ASSUME NEW p \in Page
            PROVE  \/ table'[x][p].owner = p % DSM_NODE_NUM
                   \/ /\ table'[x][p].owner \in Rank /\ p \in Borrows(table'[x][p].owner)
                      /\ table'[x][p].owner = x \/ Gone(p)'
        <5>1. CASE p = q
          BY <3>3, <3>5, <3>6, <3>7, <5>1 DEF Names
        <5>2. CASE p # q
          <6>1. table'[x][p] = table[x][p] /\ (Gone(p) => Gone(p)')
            BY <1>0, <3>5, <3>7, <5>2
          <6> QED BY <1>0, <6>1 DEF Aware
        <5> QED BY <5>1, <5>2
      <4>3. ASSUME NEW p \in Borrows(x) \cap mapped[x] PROVE table'[x][p].owner = x
        <5>1. ~Filling(x, p) /\ p # q /\ p \in Page
          BY <3>2, <3>3, Lenders DEF Filling, Borrows
        <5> QED BY <1>0, <3>5, <5>1 DEF Aware
      <4>4. \A p \in mapped[x] : p % DSM_NODE_NUM = x \/ p \in Borrows(x)
        BY <1>0 DEF Aware
      <4>5. Aware(x)'
        BY <3>2, <4>2, <4>3, <4>4 DEF Aware, Borrows
      <4> QED BY <4>1, <4>5
    <3> QED BY <3>2, <3>5, <3>6, <3>7
  <2>4. CASE RecvPageNumber(x)
    <3>1. /\ daemon'[x].pc = "len" /\ daemon'[x].page = v /\ daemon'[x].index = daemon[x].index
          /\ daemon'[x].polled = daemon[x].polled /\ table' = table
          /\ mapped'[x] = mapped[x] \cup ({v} \cap Page)
          /\ \A k \in Rank \ {x} : mapped'[k] = mapped[k]
          /\ daemon[x].pc = "page" /\ st[y][x][0].at = "page" /\ st[y][x][1].at # "infoOwner"
          /\ v = NextWord(x)
      BY <1>0, <1>7, <1>r, <2>4 DEF RecvPageNumber, DaemonState
    <3>2. v \in Borrows(x) /\ v \in Page
      <4>1. NextWord(x) = main[x].page /\ Awaits(x)
        BY <2>4, AnswerIsAwaited
      <4>2. v \in Borrows(x)
        BY <3>1, <4>1 DEF Borrowing, Awaits
      <4> QED BY <4>2, Lenders
    <3>3. ASSUME \A p \in Nat : Gone(p) => Gone(p)' PROVE Aware(x)' /\ Watchful(x)'
      <4>1. Watchful(x)'
        BY <1>0, <3>1 DEF Watchful
      <4>2. Filling(x, v)' /\ \A p : ~Filling(x, p)
        BY <3>1 DEF Filling
      <4>3. Aware(x)'
        BY <1>0, <3>1, <3>2, <3>3, <4>2 DEF Aware, Borrows
      <4> QED BY <4>1, <4>3
    <3> QED BY <3>1, <3>2, <3>3
  <2>5. CASE RecvLength(x) \/ RecvText(x)
    <3>1. /\ daemon'[x].pc \in {"text", "install"} /\ daemon'[x].page = q
          /\ daemon'[x].index = daemon[x].index
          /\ daemon'[x].polled = daemon[x].polled /\ mapped' = mapped /\ table' = table
      <4>1. CASE RecvLength(x)
        BY <1>0, <1>q, <4>1 DEF RecvLength, DaemonState
      <4>2. CASE RecvText(x)
        BY <1>0, <1>q, <4>2 DEF RecvText, DaemonState
      <4> QED BY <2>5, <4>1, <4>2
    <3>2. /\ daemon[x].pc \in {"len", "text"} /\ st[y][x][0].at = daemon[x].pc
          /\ st[y][x][1].at # "infoOwner"
      BY <1>7, <1>r, <2>5 DEF RecvLength, RecvText
    <3>3. ASSUME \A p \in Nat : Gone(p) => Gone(p)' PROVE Aware(x)' /\ Watchful(x)'
      <4>1. Watchful(x)'
        BY <1>0, <3>1, <3>2 DEF Watchful
      <4>2. \A p : Filling(x, p)' <=> Filling(x, p)
        BY <1>q, <3>1, <3>2 DEF Filling
      <4>3. Aware(x)'
        BY <1>0, <3>1, <3>3, <4>2 DEF Aware, Borrows
      <4> QED BY <4>1, <4>3
    <3> QED BY <3>1, <3>2, <3>3
  <2> QED BY <2>1, <2>2, <2>3, <2>4, <2>5
<1> QED BY <1>1, <1>2, <1>3, <1>5, <1>q, <1>8, KnownPopped, Zenon

\* Nothing that the tables depend on changes.
LEMMA KnownUnchanged ==
  ASSUME Apart, TypeOK, TypeOK', Shaped, NEW st \in Views, Framed(st), Known(st),
         UNCHANGED <<daemon, mapped, table, chan>>
  PROVE  Known(st)'
<1>1. PICK x : x \in Rank
  BY Ranks
<1>2. (\A p : Gone(p)' <=> Gone(p)) /\ (\A n, p : Filling(n, p)' <=> Filling(n, p))
  BY DEF Gone, Filling
<1>3. Aware(x)' /\ Watchful(x)'
  BY <1>1, <1>2 DEF Known, Aware, Watchful, Borrows
<1>4. ASSUME NEW n, NEW p, NEW b, Hears(st, n, p, b) PROVE Hears(st, n, p, b)'
  <2>1. \A c, d, at, v : Carries(st, c, d, at, v)' <=> Carries(st, c, d, at, v)
    BY CarriesStays
  <2>2. \A h : Informing(h, n, p)' <=> Informing(h, n, p)
    BY DEF Informing
  <2> QED BY <1>2, <1>4, <2>1, <2>2 DEF Hears
<1> QED BY <1>1, <1>3, <1>4, KnownSilent

\* Everybody is right at first.
LEMMA KnownAtFirst ==
  ASSUME Apart, TypeOK, Shaped, Init, NEW st \in Views, Framed(st)
  PROVE  Known(st)
<1>1. /\ \A n \in Rank : /\ daemon[n].pc = "poll" /\ daemon[n].index = 0
                         /\ daemon[n].polled \in {Rank \ {0}, Rank}
      /\ \A x, y \in Rank : chan[x][y] = << >>
      /\ \A n \in Rank : mapped[n] = {p \in Page : p % DSM_NODE_NUM = n}
      /\ \A n \in Rank : \A p \in Page : table[n][p].owner = p % DSM_NODE_NUM
      /\ \A n \in Rank : n # 0 => daemon[n].polled = Rank
  BY DEF Init, DaemonAt
<1>2. ASSUME NEW n \in Rank PROVE Aware(n) /\ Watchful(n)
  <2>1. Aware(n)
    BY <1>1, Lenders DEF Aware, Borrows
  <2>2. Watchful(n)
    BY <1>1 DEF Watchful
  <2> QED BY <2>1, <2>2
<1>3. News(st)
  BY <1>1, Outs DEF News, Carries
<1>4. Paired(st)
  <2>1. ASSUME NEW x \in Rank, NEW y \in Rank \ {x}, NEW i \in 0 .. Len(chan[x][y])
        PROVE  st[x][y][i].at # "infoOwner"
    <3>1. i = 0
      BY <1>1, <2>1, Outs
    <3>2. st[x][y][0].at = "infoOwner" => daemon[y].pc = "infoOwner"
      BY InfoEnds
    <3> QED BY <1>1, <3>1, <3>2
  <2> QED BY <2>1 DEF Paired
<1>5. Spread(st)
  <2>1. ASSUME NEW b \in Rank, NEW p \in Borrows(b) PROVE ~Gone(p)
    BY <1>1, Lenders DEF Gone
  <2> QED BY <2>1 DEF Spread, Hears
<1> QED BY <1>2, <1>3, <1>4, <1>5 DEF Known

\* No two processes keep a page.
LEMMA OneKeeper ==
  ASSUME TypeOK, NEW st, Settled(st), NEW p \in Page, NEW m \in Keepers(p), NEW n \in Keepers(p)
  PROVE  m = n
<1>1. st \in Views /\ Framed(st) /\ Once(st, p) /\ m \in Rank /\ n \in Rank
  BY DEF Settled, Keepers
<1>2. At(st, p, m, m, 0) /\ At(st, p, n, n, 0)
  BY <1>1, WhoHasPage
<1> QED BY <1>1, <1>2 DEF Once, Only

\* What the tables come to once everything has been read.
LEMMA KnownMeans ==
  ASSUME Apart, TypeOK, Shaped, NEW st, Settled(st), Known(st)
  PROVE  TablesAgreeButForGivers
<1> SUFFICES ASSUME Quiet, NEW p \in Page, NEW h \in Rank, NEW n \in Rank, p \in mapped[h]
             PROVE  table[n][p].owner \in {h, n}
  BY DEF TablesAgreeButForGivers
<1>1. \A k \in Rank : daemon[k].pc = "poll" /\ Readable(k) = {} /\ Aware(k) /\ Watchful(k)
  BY DEF Quiet, Known
<1>2. PICK g \in Rank : g = p % DSM_NODE_NUM
  BY Homes
<1>3. \A k \in Rank : p \in mapped[k] => k \in Keepers(p)
  BY <1>1 DEF Keepers, Filling, Sent
<1>4. \/ table[n][p].owner = g
      \/ /\ table[n][p].owner \in Rank /\ p \in Borrows(table[n][p].owner)
         /\ table[n][p].owner = n \/ Gone(p)
  BY <1>1, <1>2 DEF Aware
<1>5. CASE h = g
  BY <1>2, <1>4, <1>5 DEF Gone
<1>6. CASE h # g
  <2>1. p \in Borrows(h)
    BY <1>1, <1>2, <1>6 DEF Aware
  <2>2. Gone(p)
    BY <1>2, <1>3, <1>6, OneKeeper DEF Gone
  <2>3. \A m \in Rank : p \in Borrows(m) => m = h
    BY <2>1, Lenders DEF Borrows
  <2>4. CASE n = h
    BY <1>1, <2>1, <2>4 DEF Aware, Filling
  <2>5. CASE n = g
    BY <1>4, <2>3, <2>5
  <2>6. CASE n # h /\ n # g
    <3>1. Hears(st, n, p, h)
      BY <1>2, <2>1, <2>6 DEF Known, Spread
    <3>2. ~Carries(st, g, n, "infoPage", p)
      <4>1. g \in Rank \ {n} /\ g \in daemon[n].polled /\ g \in open[n]
        BY <1>1, <2>6 DEF Watchful, Shaped
      <4>2. Incoming(n, g) = chan[g][n]
        BY <4>1 DEF Incoming, Apart, Direct
      <4>3. chan[g][n] = << >>
        BY <1>1, <4>1, <4>2 DEF Readable
      <4> QED BY <4>3, Outs DEF Carries
    <3> QED BY <1>1, <1>2, <2>2, <3>1, <3>2 DEF Hears, Informing
  <2> QED BY <2>4, <2>5, <2>6
<1> QED BY <1>5, <1>6

\* A step keeps the tables so.
LEMMA KnownStep ==
  ASSUME Apart, PAGE_NUMBER >= DSM_NODE_NUM, TypeOK, TypeOK', Shaped, NEW st, Settled(st),
         Tracked(st), Sheltered(st), [Next]_vars, NEW st2, Carried(st, st2)
  PROVE  Known(st) => Known(st2)'
<1> SUFFICES ASSUME Known(st) PROVE Known(st2)'
  OBVIOUS
<1>1. StreamsFramed /\ Together /\ Together' /\ \A n \in Rank : Borrowing(n) /\ Lending(n)
  BY ShelterFramed, StayTogether DEF Sheltered
<1>2. st \in Views /\ Framed(st)
  BY DEF Settled
<1>3. CASE UNCHANGED vars /\ st2 = st
  <2>1. UNCHANGED <<daemon, mapped, table, chan>>
    BY <1>3 DEF vars
  <2> QED BY <1>2, <1>3, <2>1, KnownUnchanged
<1>4. CASE \E n \in Rank : MainWrite(n) /\ WroteFirst(n, st, st2, main[n].out)
  BY <1>1, <1>2, <1>4, MainWriteKnown
<1>5. CASE \E n \in Rank : (EndWait(n) \/ Retry(n) \/ CloseNext(n) \/ Choice(n)) /\ st2 = st
  <2>1. PICK n \in Rank : EndWait(n) \/ Retry(n) \/ CloseNext(n) \/ Choice(n)
    BY <1>5
  <2>2. UNCHANGED <<daemon, mapped, chan>>
    BY <1>1, <2>1, MainSilent DEF Choice
  <2>3. table' = table
    BY <2>1 DEF EndWait, Retry, CloseNext, Choice, Fault, Finalize, StdinEnd, Ask
  <2> QED BY <1>2, <1>5, <2>2, <2>3, KnownUnchanged
<1>6. CASE \E n \in Rank : DaemonWrite(n) /\ WroteFirst(n, st, st2, daemon[n].out)
  BY <1>1, <1>2, <1>6, DaemonWriteKnown
<1>7. CASE \E n \in Rank : /\ \/ Poll(n) \/ Scan(n) \/ EndScan(n) \/ Install(n) \/ ReadEnds(n)
                             \/ CopyPage(n) \/ EndFault(n) \/ UnmapPage(n) \/ Inform(n)
                          /\ st2 = st
  <2>1. PICK n \in Rank : \/ Poll(n) \/ Scan(n) \/ EndScan(n) \/ Install(n) \/ ReadEnds(n)
                          \/ CopyPage(n) \/ EndFault(n) \/ UnmapPage(n) \/ Inform(n)
    BY <1>7
  <2>2. CASE Install(n)
    BY <1>1, <1>2, <1>7, <2>2, InstallKnown
  <2>3. CASE UnmapPage(n)
    BY <1>1, <1>2, <1>7, <2>3, UnmapKnown
  <2>4. CASE Inform(n)
    BY <1>1, <1>2, <1>7, <2>4, InformKnown
  <2>5. CASE Poll(n) \/ Scan(n) \/ EndScan(n) \/ ReadEnds(n) \/ CopyPage(n) \/ EndFault(n)
    BY <1>1, <1>2, <1>7, <2>5, RestKnown
  <2> QED BY <2>1, <2>2, <2>3, <2>4, <2>5
<1>8. CASE \E n \in Rank : /\ \/ RecvType(n) \/ RecvInfoPage(n) \/ RecvInfoOwner(n) \/ RecvPageRequest(n)
                             \/ RecvPageNumber(n) \/ RecvLength(n) \/ RecvText(n)
                          /\ ReadNext(n, st, st2)
  BY <1>1, <1>2, <1>8, DaemonReadKnown
<1> QED BY ONLY Carried(st, st2), <1>3, <1>4, <1>5, <1>6, <1>7, <1>8 DEF Carried

\* The strengthened invariant, with the tables.
AllKnown ==
  Shaped /\ \E st : Settled(st) /\ Tracked(st) /\ Told(st) /\ Sheltered(st) /\ Known(st)

LEMMA AllKnownStep ==
  ASSUME Apart, PAGE_NUMBER >= DSM_NODE_NUM, TypeOK, TypeOK', AllKnown, [Next]_vars
  PROVE  AllKnown'
<1>1. PICK st : Shaped /\ Settled(st) /\ Tracked(st) /\ Told(st) /\ Sheltered(st) /\ Known(st)
  BY DEF AllKnown
<1>2. PICK st2 : /\ Shaped' /\ Settled(st2)' /\ Tracked(st2)' /\ Told(st2)' /\ Sheltered(st2)'
                 /\ Carried(st, st2)
  BY <1>1, ShelterStep
<1>3. Known(st2)'
  BY <1>1, <1>2, KnownStep
<1> QED BY <1>2, <1>3 DEF AllKnown

\* In those programs, as long as there are as many pages as processes, the
\* page tables agree once every message has been read: the loop of
\* dsm_send_page over the pages, which stands for one over the processes, has
\* then come by everybody, and only the process that gave the page away still
\* believes that it owns it.
THEOREM TablesAgreeWhenApart ==
  Apart /\ PAGE_NUMBER >= DSM_NODE_NUM => (Spec => []TablesAgreeButForGivers)
<1> SUFFICES ASSUME Apart, PAGE_NUMBER >= DSM_NODE_NUM PROVE Spec => []TablesAgreeButForGivers
  OBVIOUS
<1>1. Spec => []TypeOK
  BY Typed
<1>2. TypeOK /\ Init => AllKnown
  <2> SUFFICES ASSUME TypeOK, Init PROVE AllKnown
    OBVIOUS
  <2>1. PICK st : Shaped /\ Settled(st) /\ Tracked(st) /\ Told(st) /\ Sheltered(st)
    BY SafeAtFirst DEF Safe
  <2>2. Known(st)
    BY <2>1, KnownAtFirst DEF Settled
  <2> QED BY <2>1, <2>2 DEF AllKnown
<1>3. TypeOK /\ TypeOK' /\ AllKnown /\ [Next]_vars => AllKnown'
  BY AllKnownStep
<1>4. TypeOK /\ AllKnown => TablesAgreeButForGivers
  BY KnownMeans DEF AllKnown
<1> QED BY <1>1, <1>2, <1>3, <1>4, PTL DEF Spec
=============================================================================
