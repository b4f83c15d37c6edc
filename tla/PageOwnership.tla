--------------------------- MODULE PageOwnership ---------------------------
(***************************************************************************)
(* What the shared memory promises about the place of a page: at any time  *)
(* it belongs to one process or is on its way to one, it only leaves for a *)
(* process that has asked for it and has not got it yet, and it arrives.   *)
(***************************************************************************)
CONSTANTS Process, Pages, Start    \* Start[p]: the first owner of page p

VARIABLES
  place,    \* place[p]: the process p belongs to, and whether it is there yet
  asking    \* asking[n]: the pages n has asked for and not finished getting

avars == <<place, asking>>

AbsInit ==
  /\ place = [p \in Pages |-> [node |-> Start[p], there |-> TRUE]]
  /\ asking = [n \in Process |-> {}]

At(n) == [node |-> n, there |-> TRUE]

Ask(n, p) ==
  /\ p \notin asking[n]
  /\ asking' = [asking EXCEPT ![n] = @ \cup {p}]
  /\ place[p] # At(n)
  /\ UNCHANGED place

\* The owner gives the page away.
Give(n, p) ==
  /\ p \in asking[n]
  /\ place[p].there /\ place[p].node # n
  /\ place' = [place EXCEPT ![p] = [node |-> n, there |-> FALSE]]
  /\ UNCHANGED asking

\* The page arrives; the program may have gone on before that.
Arrive(n, p) ==
  /\ place[p] = [node |-> n, there |-> FALSE]
  /\ asking' \in {asking, [asking EXCEPT ![n] = @ \ {p}]}
  /\ place' = [place EXCEPT ![p].there = TRUE]

\* The program goes on, or finds out that the page has left again.
Forget(n, p) ==
  /\ p \in asking[n]
  /\ asking' = [asking EXCEPT ![n] = @ \ {p}]
  /\ UNCHANGED place

\* The first disjunct adds nothing to what AbsSpec allows: it spares a checker
\* the others on the many steps that the promise does not see.
AbsNext ==
  \/ UNCHANGED avars
  \/ \E n \in Process, p \in Pages :
       Ask(n, p) \/ Give(n, p) \/ Arrive(n, p) \/ Forget(n, p)

AbsSpec == AbsInit /\ [][AbsNext]_avars

=============================================================================
