---------------------------- MODULE DsmTransfers ----------------------------
(***************************************************************************)
(* Which process each page belongs to, read off the state of DsmNode: the  *)
(* page tables do not tell, since the process that gives a page away never *)
(* updates its own, and neither do the mappings, which overlap during a    *)
(* transfer and, if the giver faults, after it.  The page changes hands    *)
(* when its last word is written.                                          *)
(***************************************************************************)
EXTENDS DsmNode, SequencesExt

\* The reader of slot s of n, ahead of the words it has not read yet: what
\* it expects next, for which page, and the pages complete so far.
Reader(n, s) ==
  IF daemon[n].slot = s /\ daemon[n].pc \in Reading
    THEN [at |-> daemon[n].pc, page |-> daemon[n].page, got |-> <<>>]
    ELSE [at |-> "type", page |-> 0, got |-> <<>>]

\* A function, so that TLC evaluates the reader once for each word.
ReaderState == [at : Reading, page : Nat, got : Seq(Nat)]
Read ==
  [r \in ReaderState |-> [w \in Word |->
    CASE r.at = "type" -> [r EXCEPT !.at = IF w.val = SEND_PAGE THEN "page"
                                         ELSE IF w.val = SEND_INFO THEN "infoPage" ELSE "wanted"]
      [] r.at = "page" -> [r EXCEPT !.at = "len", !.page = w.val]
      [] r.at = "len" /\ w.val # 0 -> [r EXCEPT !.at = "text"]
      [] r.at = "text" \/ (r.at = "len" /\ w.val = 0) ->
           [r EXCEPT !.at = "type", !.got = Append(@, r.page)]
      [] r.at = "infoPage" -> [r EXCEPT !.at = "infoOwner"]
      [] OTHER -> [r EXCEPT !.at = "type"]]]

\* The pages that have completely left for n by slot s.
Underway(n, s) ==
  LET words == Incoming(n, s)
      after[i \in 0 .. Len(words)] ==
        IF i = 0 THEN Reader(n, s) ELSE Read[after[i - 1]][words[i]]
  IN  after[Len(words)].got

\* A process that has mapped page p and waits for its content, and one that
\* has written the last word of it.
Filling(n, p) == daemon[n].pc \in {"len", "text", "install"} /\ daemon[n].page = p
Sent(n, p)    == daemon[n].pc = "unmap" /\ daemon[n].out = <<>> /\ daemon[n].page = p

Keepers(p) == {n \in Rank : p \in mapped[n] /\ ~Filling(n, p) /\ ~Sent(n, p)}
Receives(n, p) ==
  \/ daemon[n].pc = "install" /\ daemon[n].page = p
  \/ \E s \in Rank \ {n} : p \in ToSet(Underway(n, s))
Receivers(p) == {n \in Rank : Receives(n, p)}

\* The daemon of n has been asked for a page that n no longer has: the copy
\* in dsm_send_page faults, after the header of the page has been written.
\* TrappedBy(p): the processes that this happens to for page p.
TrappedBy(p) == {n \in Rank : Trapped(n) /\ daemon[n].page = p}

\* m has page p and is answering n with it.
Feeds(m, n, p) ==
  /\ daemon[m].pc \in {"copy", "fault", "unmap"} /\ Link[m][daemon[m].slot] = n
  /\ daemon[m].page = p /\ p \in mapped[m] /\ ~Sent(m, p)

\* The processes that have mapped page p for a content that nobody is going
\* to send: their program runs on an empty page.
Stranded(p) ==
  {n \in Rank : /\ Filling(n, p) /\ p \in mapped[n] /\ ~Receives(n, p)
                /\ \A m \in Rank : ~Feeds(m, n, p)}

\* No request, however late or misdirected, makes dsm_send_page and
\* dsm_recv_page lose the content of a page or leave it in two places.  The
\* page itself can be in two places: the receiver maps it as soon as it knows
\* its number, and the giver may fault once it has sent that number.  Each
\* daemon trapped in this way accounts for at most one such empty page.
PageConserved ==
  \A p \in Page : /\ Cardinality(Keepers(p)) + Cardinality(Receivers(p)) = 1
                  /\ Cardinality(Stranded(p)) <= Cardinality(TrappedBy(p))

\* The two threads of a process share its sockets without a lock, yet no
\* message begins on a connection where another one has begun: neither one of
\* the user thread inside one of the daemon, or the reverse, nor the request
\* that the daemon makes itself inside the page message it has begun.
WritesTo(out, s) == \E i \in DOMAIN out : out[i].fd = s
Answering(n, s)  == daemon[n].pc \in {"copy", "fault"} /\ daemon[n].slot = s
StreamsFramed ==
  \A n \in Rank : \A s \in Rank \ {n} :
    /\ ~(WritesTo(main[n].out, s) /\ (WritesTo(daemon[n].out, s) \/ Answering(n, s)))
    /\ ~(WritesTo(daemon[n].out, s) /\ daemon[n].pc = "fault" /\ daemon[n].slot = s)

\* No process has begun to leave the others.
Together == \A n \in Rank : main[n].pc \notin {"closing", "joining", "exited"}

\* No daemon is asked for a page that its process has given away: dsm_send_page
\* never faults.
NobodyTrapped == \A n \in Rank : ~Trapped(n)

\* Once every message has been read, a page table is wrong about a page in
\* one way only: a process may still think that it owns a page it gave away.
Quiet == \A n \in Rank : /\ daemon[n].pc = "poll" /\ Readable(n) = {}
                         /\ main[n].out = <<>>
TablesAgreeButForGivers ==
  Quiet => \A p \in Page : \A h, n \in Rank :
             p \in mapped[h] => table[n][p].owner \in {h, n}

\* "Seul un processus sera le proprietaire d'une page a un instant donne": no
\* two processes keep the same page.
OneOwner == \A p \in Page : \A m, n \in Keepers(p) : m = n

\* A process that gave a page away, and does not know it, cannot get the page
\* back: it asks itself, until somebody tells it of a further move.
LostUntilTold ==
  [][\A n \in Rank, p \in Page :
       p \notin mapped[n] /\ table[n][p].owner = n => p \notin mapped'[n]]_vars

\* A request is answered: the page arrives and the table says so.
PageArrives ==
  \A n \in Rank : \A p \in Touches[n] :
    main[n].pc = "wait" /\ main[n].page = p ~> p \in mapped[n] /\ table[n][p].owner = n

\* An access that faults is resumed: dsm_handler returns to the program.
AccessResumes == \A n \in Rank : main[n].pc = "wait" ~> main[n].pc = "run"

----------------------------------------------------------------------------
(* The abstract specification is implemented                               *)

Shared == UNION {Touches[n] : n \in Rank}

Place(p) ==
  IF Keepers(p) # {}
    THEN [node |-> CHOOSE n \in Keepers(p) : TRUE, there |-> TRUE]
    ELSE [node |-> CHOOSE n \in Rank : Receives(n, p), there |-> FALSE]

\* From the fault to the moment when both threads are done with the page.
Asking(n) == {p \in Shared : \/ main[n].pc \in {"wait", "sleep"} /\ main[n].page = p
                             \/ Filling(n, p)}

Ownership == INSTANCE PageOwnership WITH
  Process <- Rank, Pages <- Shared, Start <- [p \in Shared |-> p % DSM_NODE_NUM],
  place <- [p \in Shared |-> Place(p)], asking <- [n \in Rank |-> Asking(n)]

\* The message exchange of the library implements the promise: a page moves
\* only from its owner to a process that is asking for it, and arrives there.
\* The page is its content: a stranded process asks for ever.
ImplementsOwnership == Ownership!AbsSpec

=============================================================================
